--------------------------- MODULE PermissionGate ----------------------------
(***************************************************************************)
(* The spending gate of the provider's tools                               *)
(* (packages/arc402-daemon/src/permission-gate.ts): before a tool spends,  *)
(* the policy engine on chain is asked about what its job would have spent *)
(* in total, and the answers are kept for CACHE_TTL.                       *)
(*                                                                         *)
(* A job stands for one agreement and category.  checkPermissions reads    *)
(* the job's spend, waits for the policy engine, and writes the spend: the *)
(* other checks run while it waits.  failOpen is ARC402_POLICY_FAIL_MODE,  *)
(* fixed at start.  Tools that spend nothing pass without a step.          *)
(***************************************************************************)
EXTENDS Integers, FiniteSets, FiniteSetsExt

CONSTANTS
  Checks,            \* checks that may be under way at once
  Jobs,
  SpendAmounts,      \* what a tool may spend
  Limits,            \* limits the policy engine may be given
  CacheTTL,          \* CACHE_TTL_MS
  MaxSpend, MaxGateTime   \* bounds: spend of a job that is asked about, time

ASSUME PermissionGateAssumption ==
  /\ SpendAmounts \subseteq Nat \ {0} /\ Limits \subseteq Nat /\ Limits # {}
  /\ CacheTTL \in Nat \ {0} /\ MaxSpend \in Nat /\ MaxGateTime \in Nat

VARIABLES
  gateTime,
  failOpen,
  limit,      \* the policy engine's limit
  spend,      \* spendAccumulator
  decided,    \* decisionCache: by job and projected spend
  check,      \* the checks under way
  granted,    \* what the job was allowed to spend in total
  blurred     \* jobs with checks that overlapped, or granted without an answer

gateVars == <<gateTime, failOpen, limit, spend, decided, check, granted, blurred>>

Idle == [at |-> "idle"]

GateInit ==
  /\ gateTime = 0
  /\ failOpen \in BOOLEAN
  /\ limit \in Limits
  /\ spend = [j \in Jobs |-> 0]
  /\ decided = [e \in Jobs \X (1..MaxSpend) |-> [until |-> 0, ok |-> FALSE]]
  /\ check = [c \in Checks |-> Idle]
  /\ granted = [j \in Jobs |-> 0]
  /\ blurred = {}

(* checkPermissions up to its first wait.  A decision that is still kept is *)
(* used at once.                                                            *)
BeginCheck(c, j, amount) ==
  LET p == spend[j] + amount
      kept == decided[<<j, p>>]
      hit == kept.until > gateTime
  IN /\ check[c].at = "idle" /\ p <= MaxSpend
     /\ IF hit
        THEN /\ spend' = [spend EXCEPT ![j] = IF kept.ok THEN p ELSE @]
             /\ granted' = [granted EXCEPT ![j] = IF kept.ok THEN @ + amount ELSE @]
             /\ UNCHANGED check
        ELSE /\ check' = [check EXCEPT ![c] =
                   [at |-> "asking", job |-> j, amount |-> amount, projected |-> p,
                    since |-> gateTime, limits |-> {limit}]]
             /\ UNCHANGED <<spend, granted>>
     /\ blurred' = IF \E o \in Checks : check[o].at # "idle" /\ check[o].job = j
                   THEN blurred \cup {j} ELSE blurred
     /\ UNCHANGED <<gateTime, failOpen, limit, decided>>

(* validateSpend, evaluated at the block the node has *)
PolicyAnswers(c) ==
  /\ check[c].at = "asking"
  /\ check' = [check EXCEPT ![c].at = IF check[c].projected <= limit THEN "allowed" ELSE "refused"]
  /\ UNCHANGED <<gateTime, failOpen, limit, spend, decided, granted, blurred>>

Keep(c, ok) ==
  decided' = [decided EXCEPT ![<<check[c].job, check[c].projected>>] =
                [until |-> check[c].since + CacheTTL, ok |-> ok]]

Grant(c) == granted' = [granted EXCEPT ![check[c].job] = @ + check[c].amount]

(* Faulty variant: a granted spend is not counted. *)
CheckAnswered_Uncounted(c) ==
  /\ check[c].at \in {"allowed", "refused"}
  /\ IF check[c].at = "allowed" THEN Grant(c) ELSE UNCHANGED granted
  /\ Keep(c, check[c].at = "allowed")
  /\ check' = [check EXCEPT ![c] = Idle]
  /\ UNCHANGED <<gateTime, failOpen, limit, spend, blurred>>

(* The answer arrives. *)
CheckAnswered(c) ==
  LET ok == check[c].at = "allowed"
  IN /\ check[c].at \in {"allowed", "refused"}
     /\ IF ok THEN Grant(c) /\ spend' = [spend EXCEPT ![check[c].job] = check[c].projected]
              ELSE UNCHANGED <<granted, spend>>
     /\ Keep(c, ok)
     /\ check' = [check EXCEPT ![c] = Idle]
     /\ UNCHANGED <<gateTime, failOpen, limit, blurred>>

(* The policy engine cannot be reached.  A gate that fails open grants when *)
(* it ever kept a grant, expired ones included, and does not count the      *)
(* spend.                                                                   *)
CheckFails(c) ==
  LET ok == failOpen /\ \E e \in DOMAIN decided : decided[e].ok
  IN /\ check[c].at # "idle"
     /\ IF ok THEN Grant(c) /\ blurred' = blurred \cup {check[c].job}
              ELSE UNCHANGED <<granted, blurred>>
     /\ Keep(c, ok)
     /\ check' = [check EXCEPT ![c] = Idle]
     /\ UNCHANGED <<gateTime, failOpen, limit, spend>>

(* The owner gives the policy engine another limit. *)
SetLimit ==
  /\ limit' \in Limits \ {limit}
  /\ check' = [c \in Checks |-> IF check[c].at = "idle" THEN Idle
                                ELSE [check[c] EXCEPT !.limits = @ \cup {limit'}]]
  /\ UNCHANGED <<gateTime, failOpen, spend, decided, granted, blurred>>

GateTick ==
  /\ gateTime < MaxGateTime
  /\ gateTime' = gateTime + 1
  /\ UNCHANGED <<failOpen, limit, spend, decided, check, granted, blurred>>

GateNext ==
  \/ SetLimit \/ GateTick
  \/ \E c \in Checks :
       \/ \E j \in Jobs, amount \in SpendAmounts : BeginCheck(c, j, amount)
       \/ PolicyAnswers(c) \/ CheckAnswered(c) \/ CheckFails(c)

GateSpec == GateInit /\ [][GateNext]_gateVars

-----------------------------------------------------------------------------
CheckType ==
  [at : {"asking", "allowed", "refused"}, job : Jobs, amount : SpendAmounts,
   projected : 1..MaxSpend, since : 0..MaxGateTime, limits : SUBSET Limits]

GateTypeOK ==
  /\ gateTime \in 0..MaxGateTime /\ failOpen \in BOOLEAN /\ limit \in Limits
  /\ spend \in [Jobs -> 0..MaxSpend] /\ granted \in [Jobs -> Nat]
  /\ decided \in [Jobs \X (1..MaxSpend) ->
                     [until : 0..(MaxGateTime + CacheTTL), ok : BOOLEAN]]
  /\ check \in [Checks -> {Idle} \cup CheckType]
  /\ blurred \subseteq Jobs

(* A job whose checks came one after the other, each answered, is granted   *)
(* no more in total than a limit the policy engine had while the last of    *)
(* them was under way, and no answer that was kept stands for another.      *)
GrantsWithinLimit ==
  [][\A j \in Jobs \ blurred' :
       granted'[j] > granted[j] =>
         \E c \in Checks : /\ check[c].at # "idle" /\ check'[c].at = "idle"
                           /\ check[c].job = j /\ granted'[j] <= Max(check[c].limits)]_gateVars
=============================================================================
