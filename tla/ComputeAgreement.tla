-------------------------- MODULE ComputeAgreement --------------------------
(***************************************************************************)
(* The compute-rental escrow, contracts/src/ComputeAgreement.sol.  A client *)
(* deposits the price of a whole session; the provider reports the minutes  *)
(* that were used; ending the session pays the reported minutes and gives   *)
(* the rest back.  A dispute freezes the session until the owner resolves   *)
(* it.  All payments are credits that their owners withdraw.                *)
(*                                                                          *)
(* A call is one atomic step: each function writes its state before it      *)
(* calls another contract.  A call that reverts is no step.  The clock is   *)
(* block.timestamp, in abstract ticks, and is never 0.                      *)
(***************************************************************************)
EXTENDS Integers, FiniteSets, FiniteSetsExt, PullPayments

CONSTANTS
  Users,           \* the accounts that call the contract or are credited by it
  Clients,         \* those of them that propose sessions
  Providers,       \* those of them that sessions are proposed to
  Treasuries,      \* the accounts the owner may make the protocol treasury
  NoUser,          \* address(0) where an account is expected
  Sessions,        \* session ids
  Tokens,          \* payment tokens, ETH among them
  ETH,             \* address(0) where a token is expected
  Rates,           \* ratePerHour values
  HourChoices,     \* maxHours values
  MinuteChoices,   \* computeMinutes values of a usage report
  Metrics,         \* metricsHash values of a usage report
  Awards,          \* awards the owner may pass to a SPLIT resolution
  FeeChoices,      \* protocolFeeBps values the owner may set
  ArbitrationSet,  \* whether the owner may set and unset disputeArbitration
  DisputeFees,     \* msg.value sent along with a dispute
  PROPOSAL_TTL,    \* ticks before a proposal can be cancelled (48 hours)
  MaxTime          \* bound: the last tick

MAX_PROTOCOL_FEE_BPS == 100
BPS_DENOMINATOR == 10000
MINUTES_PER_HOUR == 60

ASSUME UsersAssumption ==
  /\ NoUser \notin Users
  /\ Clients \subseteq Users
  /\ Providers \subseteq Users
  /\ Treasuries \subseteq Users
  /\ IsFiniteSet(Users)
  /\ IsFiniteSet(Sessions)
ASSUME AmountsAssumption ==
  /\ ETH \in Tokens
  /\ Rates \subseteq Nat
  /\ HourChoices \subseteq Nat
  /\ MinuteChoices \subseteq Nat
  /\ Awards \subseteq Nat
  /\ DisputeFees \subseteq Nat
  /\ ArbitrationSet \subseteq BOOLEAN
  /\ FeeChoices \subseteq 0..MAX_PROTOCOL_FEE_BPS
  /\ PROPOSAL_TTL \in Nat
  /\ MaxTime \in Nat

VARIABLES
  now,                 \* block.timestamp
  sessions,            \* sessions[id]
  reportDigestUsed,    \* the reports whose digest was consumed; usageReports
                       \* lists the same reports and is read by nothing
  pendingWithdrawals,  \* pendingWithdrawals[user][token]
  balance,             \* the contract's own holdings, per token
  protocolFeeBps,      \* protocolFeeBps
  protocolTreasury,    \* protocolTreasury, NoUser when unset
  daSet                \* disputeArbitration # address(0)

config == <<protocolFeeBps, protocolTreasury, daSet>>
vars == <<now, sessions, reportDigestUsed, pendingWithdrawals, balance,
          protocolFeeBps, protocolTreasury, daSet>>

Statuses == {"Proposed", "Active", "Completed", "Disputed", "Cancelled"}

(* The zero-initialised struct an unused id reads as.  endedAt, disputedAt  *)
(* and gpuSpecHash are only recorded.                                       *)
NoSession ==
  [client |-> NoUser, provider |-> NoUser, token |-> ETH, ratePerHour |-> 0,
   maxHours |-> 0, depositAmount |-> 0, startedAt |-> 0, consumedMinutes |-> 0,
   proposedAt |-> 0, status |-> "Proposed"]

(* What the digest of a usage report covers. *)
Report == [session : Sessions, periodStart : 1..MaxTime, periodEnd : 1..MaxTime,
           computeMinutes : MinuteChoices, metricsHash : Metrics]

-----------------------------------------------------------------------------
(* Derived values. *)

Exists(s) == sessions[s].client # NoUser
Is(s, status) == Exists(s) /\ sessions[s].status = status

calculateCost(s) ==
  (sessions[s].consumedMinutes * sessions[s].ratePerHour) \div MINUTES_PER_HOUR

ProtocolFee(amount) ==
  IF protocolTreasury = NoUser THEN 0
  ELSE (amount * protocolFeeBps) \div BPS_DENOMINATOR

(* The credits of a settlement: the fee comes out of the provider's part. *)
Settle(pw, s, toProvider, toClient) ==
  LET tok == sessions[s].token
      fee == ProtocolFee(toProvider)
  IN  Credit(Credit(Credit(pw, protocolTreasury, tok, fee),
                    sessions[s].provider, tok, toProvider - fee),
             sessions[s].client, tok, toClient)

(* The ETH sent along with a dispute that DisputeArbitration takes.  What   *)
(* it does not take stays in the contract.                                  *)
FeeForwarded(value, accepted) == IF accepted THEN value ELSE 0

(* Whether a report may be accepted. *)
ValidPeriod(s, r) ==
  /\ r.periodStart < r.periodEnd
  /\ sessions[s].startedAt <= r.periodStart
  /\ r.periodEnd <= now

WithinCap(s, r) ==
  sessions[s].consumedMinutes + r.computeMinutes
    <= sessions[s].maxHours * MINUTES_PER_HOUR

-----------------------------------------------------------------------------
Init ==
  /\ now = 1
  /\ sessions = [s \in Sessions |-> NoSession]
  /\ reportDigestUsed = {}
  /\ pendingWithdrawals = [u \in Users |-> [t \in Tokens |-> 0]]
  /\ balance = [t \in Tokens |-> 0]
  /\ protocolFeeBps \in FeeChoices
  /\ protocolTreasury = NoUser
  /\ daSet = FALSE

Tick ==
  /\ now < MaxTime
  /\ now' = now + 1
  /\ UNCHANGED <<sessions, reportDigestUsed, pendingWithdrawals, balance, config>>

(* Owner configuration. *)
SetProtocolFee(bps) ==
  /\ bps <= MAX_PROTOCOL_FEE_BPS
  /\ protocolFeeBps' = bps
  /\ UNCHANGED <<now, sessions, reportDigestUsed, pendingWithdrawals, balance,
                 protocolTreasury, daSet>>

SetProtocolTreasury(user) ==
  /\ protocolTreasury' = user
  /\ UNCHANGED <<now, sessions, reportDigestUsed, pendingWithdrawals, balance,
                 protocolFeeBps, daSet>>

SetDisputeArbitration(set) ==
  /\ daSet' = set
  /\ UNCHANGED <<now, sessions, reportDigestUsed, pendingWithdrawals, balance,
                 protocolFeeBps, protocolTreasury>>

(* The client deposits exactly the price of the whole session.  Proposals   *)
(* are made early enough (MaxTime) to time out within the clock's bound.    *)
ProposeSession(s, client, provider, rate, hours, tok) ==
  /\ now + PROPOSAL_TTL <= MaxTime
  /\ provider # client
  /\ ~Exists(s)
  /\ balance' = [balance EXCEPT ![tok] = @ + rate * hours]
  /\ sessions' = [sessions EXCEPT ![s] =
       [client |-> client, provider |-> provider, token |-> tok,
        ratePerHour |-> rate, maxHours |-> hours, depositAmount |-> rate * hours,
        startedAt |-> 0, consumedMinutes |-> 0, proposedAt |-> now,
        status |-> "Proposed"]]
  /\ UNCHANGED <<now, reportDigestUsed, pendingWithdrawals, config>>

(* Called by the provider. *)
AcceptSession(s) ==
  /\ Is(s, "Proposed")
  /\ sessions' = [sessions EXCEPT ![s].status = "Active"]
  /\ UNCHANGED <<now, reportDigestUsed, pendingWithdrawals, balance, config>>

StartSession(s) ==
  /\ Is(s, "Active")
  /\ sessions[s].startedAt = 0
  /\ sessions' = [sessions EXCEPT ![s].startedAt = now]
  /\ UNCHANGED <<now, reportDigestUsed, pendingWithdrawals, balance, config>>

(* Faulty variants: the digest is not looked up; the status is not checked. *)
SubmitUsageReport_Replayed(s, r) ==
  /\ Is(s, "Active")
  /\ sessions[s].startedAt > 0
  /\ r.session = s
  /\ ValidPeriod(s, r)
  /\ WithinCap(s, r)
  /\ reportDigestUsed' = reportDigestUsed \cup {r}
  /\ sessions' = [sessions EXCEPT ![s].consumedMinutes = @ + r.computeMinutes]
  /\ UNCHANGED <<now, pendingWithdrawals, balance, config>>

SubmitUsageReport_AnyStatus(s, r) ==
  /\ sessions[s].startedAt > 0
  /\ r.session = s
  /\ ValidPeriod(s, r)
  /\ WithinCap(s, r)
  /\ r \notin reportDigestUsed
  /\ reportDigestUsed' = reportDigestUsed \cup {r}
  /\ sessions' = [sessions EXCEPT ![s].consumedMinutes = @ + r.computeMinutes]
  /\ UNCHANGED <<now, pendingWithdrawals, balance, config>>

(* Called by the provider with a report it signed. *)
SubmitUsageReport(s, r) ==
  /\ Is(s, "Active")
  /\ sessions[s].startedAt > 0
  /\ r.session = s
  /\ ValidPeriod(s, r)
  /\ WithinCap(s, r)
  /\ r \notin reportDigestUsed
  /\ reportDigestUsed' = reportDigestUsed \cup {r}
  /\ sessions' = [sessions EXCEPT ![s].consumedMinutes = @ + r.computeMinutes]
  /\ UNCHANGED <<now, pendingWithdrawals, balance, config>>

(* Called by either party: the reported minutes are paid, clamped to the    *)
(* deposit, and the rest goes back.                                         *)
EndSession(s) ==
  LET deposit == sessions[s].depositAmount
      cost == IF calculateCost(s) > deposit THEN deposit ELSE calculateCost(s)
  IN  /\ Is(s, "Active")
      /\ sessions' = [sessions EXCEPT ![s].status = "Completed"]
      /\ pendingWithdrawals' = Settle(pendingWithdrawals, s, cost, deposit - cost)
      /\ UNCHANGED <<now, reportDigestUsed, balance, config>>

(* Called by the client.  value is the ETH sent along for the arbitration   *)
(* fee; accepted says whether DisputeArbitration, when set, took the call.  *)
DisputeSession(s, value, accepted) ==
  /\ Is(s, "Active")
  /\ accepted => daSet
  /\ sessions' = [sessions EXCEPT ![s].status = "Disputed"]
  /\ balance' = [balance EXCEPT ![ETH] = @ + value - FeeForwarded(value, accepted)]
  /\ UNCHANGED <<now, reportDigestUsed, pendingWithdrawals, config>>

(* What a resolution pays to provider and client, before the remainder. *)
ProviderAward(outcome, deposit, award) ==
  CASE outcome = "PROVIDER_WINS" -> deposit
    [] outcome = "CLIENT_WINS"   -> 0
    [] outcome = "SPLIT"         -> award

ClientAward(outcome, deposit, award) ==
  CASE outcome = "PROVIDER_WINS" -> 0
    [] outcome = "CLIENT_WINS"   -> deposit
    [] outcome = "SPLIT"         -> award

(* Faulty variant: what a SPLIT leaves over is credited to nobody. *)
ResolveDisputeDetailed_KeepsRemainder(s, outcome, pAward, cAward) ==
  LET deposit == sessions[s].depositAmount
      toProvider == ProviderAward(outcome, deposit, pAward)
      toClient == ClientAward(outcome, deposit, cAward)
  IN  /\ Is(s, "Disputed")
      /\ toProvider + toClient <= deposit
      /\ sessions' = [sessions EXCEPT ![s].status = "Completed"]
      /\ pendingWithdrawals' = Settle(pendingWithdrawals, s, toProvider, toClient)
      /\ UNCHANGED <<now, reportDigestUsed, balance, config>>

(* Called by the owner; a HUMAN_REVIEW_REQUIRED outcome only emits an event *)
(* and what a SPLIT leaves over is the client's.                            *)
ResolveDisputeDetailed(s, outcome, pAward, cAward) ==
  LET deposit == sessions[s].depositAmount
      toProvider == ProviderAward(outcome, deposit, pAward)
      toClient == ClientAward(outcome, deposit, cAward)
      remainder == deposit - toProvider - toClient
  IN  /\ Is(s, "Disputed")
      /\ toProvider + toClient <= deposit
      /\ sessions' = [sessions EXCEPT ![s].status = "Completed"]
      /\ pendingWithdrawals' =
           Credit(Settle(pendingWithdrawals, s, toProvider, toClient),
                  sessions[s].client, sessions[s].token, remainder)
      /\ UNCHANGED <<now, reportDigestUsed, balance, config>>

(* Faulty variant: only a proposal can be cancelled. *)
CanCancel_ProposalOnly(s) ==
  Is(s, "Proposed") /\ now >= sessions[s].proposedAt + PROPOSAL_TTL

(* A proposal nobody took up, or an accepted session that never started. *)
CanCancel(s) ==
  \/ Is(s, "Proposed") /\ now >= sessions[s].proposedAt + PROPOSAL_TTL
  \/ Is(s, "Active") /\ sessions[s].startedAt = 0

(* Called by the client. *)
CancelSession(s) ==
  /\ CanCancel(s)
  /\ sessions' = [sessions EXCEPT ![s].status = "Cancelled"]
  /\ pendingWithdrawals' =
       Credit(pendingWithdrawals, sessions[s].client, sessions[s].token,
              sessions[s].depositAmount)
  /\ UNCHANGED <<now, reportDigestUsed, balance, config>>

(* The owner of a credit takes all of it. *)
Withdraw(user, tok) ==
  /\ pendingWithdrawals[user][tok] > 0
  /\ pendingWithdrawals' = [pendingWithdrawals EXCEPT ![user][tok] = 0]
  /\ balance' = [balance EXCEPT ![tok] = @ - pendingWithdrawals[user][tok]]
  /\ UNCHANGED <<now, sessions, reportDigestUsed, config>>

-----------------------------------------------------------------------------
OwnerNext ==
  \/ \E bps \in FeeChoices : SetProtocolFee(bps)
  \/ \E user \in Treasuries \cup {NoUser} : SetProtocolTreasury(user)
  \/ \E set \in ArbitrationSet : SetDisputeArbitration(set)
  \/ \E s \in Sessions, outcome \in {"PROVIDER_WINS", "CLIENT_WINS", "SPLIT"},
        p, c \in Awards : ResolveDisputeDetailed(s, outcome, p, c)

ClientNext ==
  \/ \E s \in Sessions, client \in Clients, provider \in Providers, rate \in Rates,
        hours \in HourChoices, tok \in Tokens :
        ProposeSession(s, client, provider, rate, hours, tok)
  \/ \E s \in Sessions, value \in DisputeFees, accepted \in BOOLEAN :
        DisputeSession(s, value, accepted)
  \/ \E s \in Sessions : CancelSession(s)

ProviderNext ==
  \/ \E s \in Sessions : AcceptSession(s) \/ StartSession(s)
  \/ \E r \in Report : SubmitUsageReport(r.session, r)

Next ==
  \/ Tick
  \/ OwnerNext
  \/ ClientNext
  \/ ProviderNext
  \/ \E s \in Sessions : EndSession(s)
  \/ \E user \in Users, tok \in Tokens : Withdraw(user, tok)

Spec == Init /\ [][Next]_vars

(* Time passes, and a client whose session did not get going takes its      *)
(* deposit back once it may.  Nobody else is obliged to act.                *)
FairSpec == Spec /\ WF_vars(Tick) /\ \A s \in Sessions : WF_vars(CancelSession(s))

-----------------------------------------------------------------------------
(* Properties. *)

SessionType ==
  [client : Users \cup {NoUser}, provider : Users \cup {NoUser}, token : Tokens,
   ratePerHour : Nat, maxHours : Nat, depositAmount : Nat, startedAt : Nat,
   consumedMinutes : Nat, proposedAt : Nat, status : Statuses]

(* Type correctness.  Credits and holdings are natural numbers: no          *)
(* subtraction behind a credit underflows and no withdrawal lacks funds.    *)
TypeOK ==
  /\ now \in Nat \ {0}
  /\ sessions \in [Sessions -> SessionType]
  /\ reportDigestUsed \subseteq Report
  /\ pendingWithdrawals \in [Users -> [Tokens -> Nat]]
  /\ balance \in [Tokens -> Nat]
  /\ protocolFeeBps \in 0..MAX_PROTOCOL_FEE_BPS
  /\ protocolTreasury \in Users \cup {NoUser}
  /\ daSet \in BOOLEAN

ReportsOf(s) == {r \in reportDigestUsed : r.session = s}

(* The minutes billed are exactly those of the distinct reports, whatever   *)
(* was submitted twice, and all of them fall into the running session; they *)
(* never cost more than the deposit, so that the clamp in endSession never  *)
(* cuts the provider's pay; and a client cannot get its deposit back by     *)
(* cancelling what was reported for.                                        *)
BilledOnce ==
  \A s \in Sessions :
    /\ sessions[s].consumedMinutes = MapThenSumSet(LAMBDA r : r.computeMinutes, ReportsOf(s))
    /\ \A r \in ReportsOf(s) :
         0 < sessions[s].startedAt /\ sessions[s].startedAt <= r.periodStart
    /\ calculateCost(s) <= sessions[s].depositAmount
    /\ sessions[s].status = "Cancelled" => ReportsOf(s) = {}

(* A disputed session is frozen until one step completes it, and what is    *)
(* completed or cancelled never changes again.                              *)
SettledOnce ==
  [][\A s \in Sessions :
       /\ sessions[s].status = "Disputed" =>
            \/ sessions'[s] = sessions[s]
            \/ sessions'[s] = [sessions[s] EXCEPT !.status = "Completed"]
       /\ sessions[s].status \in {"Completed", "Cancelled"} => sessions'[s] = sessions[s]]_vars

(* A provider that never accepts, or accepts and never starts, cannot keep  *)
(* the deposit locked.                                                      *)
NotStarted(s) ==
  Exists(s) /\ sessions[s].status \in {"Proposed", "Active"} /\ sessions[s].startedAt = 0

DepositNotLockedUp == \A s \in Sessions : NotStarted(s) ~> ~NotStarted(s)

(* The contract is a pull-payment escrow: see EscrowLedger. *)
LockedIn(s, t) ==
  IF sessions[s].token = t /\ sessions[s].status \notin {"Completed", "Cancelled"}
  THEN sessions[s].depositAmount ELSE 0

Ledger == INSTANCE EscrowLedger WITH
  Accounts <- Users,
  Escrows <- Sessions,
  locked <- [s \in Sessions |-> [t \in Tokens |-> LockedIn(s, t)]],
  credit <- pendingWithdrawals,
  vault <- balance

(* Every call moves money as the abstract escrow allows, as long as no ETH  *)
(* is sent along with a dispute.                                            *)
ImplementsLedger == Ledger!Spec

(* It holds nothing else: no ETH stays in the contract that no call can     *)
(* take out.                                                                *)
NothingTrapped == Ledger!Backed
=============================================================================
