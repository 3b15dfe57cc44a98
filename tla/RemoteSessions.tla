--------------------------- MODULE RemoteSessions ----------------------------
(***************************************************************************)
(* Remote control of the command line's daemon                             *)
(* (cli/src/daemon/session-manager.ts and auth-server.ts): a wallet's      *)
(* owner logs in by signing a challenge, simulates operations and executes *)
(* them; an operation that looks risky first needs a step-up, a second     *)
(* signature in the same session.                                          *)
(*                                                                         *)
(* Every endpoint is one step: the database is synchronous.  Signatures    *)
(* are the owner's; a request that is refused changes nothing but the log  *)
(* of security events, which is left out.  Nothing revokes a session.      *)
(* A value is none, some, or high enough for a step-up of its own.         *)
(***************************************************************************)
EXTENDS Integers, FiniteSets

CONSTANTS
  RemoteIds, RemoteChallenges, Simulations,  \* rows of the three tables
  Parties,                                   \* counterparties
  StepUpTTL,      \* life of a challenge and of a step-up, and how fresh a login must be
  SessionTTL, MaxRemoteTime

ASSUME RemoteAssumption ==
  /\ "none" \notin Parties
  /\ StepUpTTL \in Nat \ {0} /\ SessionTTL \in Nat \ {0} /\ MaxRemoteTime \in Nat

VARIABLES
  remoteTime,
  remote,       \* remote_sessions
  asked,        \* auth_challenges
  simulated     \* simulated_operations

remoteVars == <<remoteTime, remote, asked, simulated>>

None == [id |-> "none"]

RemoteInit ==
  /\ remoteTime = 0
  /\ remote = [s \in RemoteIds |-> None]
  /\ asked = [c \in RemoteChallenges |-> None]
  /\ simulated = [o \in Simulations |-> None]

(* requireSession *)
Open(s) == remote[s] # None /\ remote[s].expires > remoteTime

(* createChallenge, for a login or for a session's step-up *)
CreateChallenge(purpose, sessions) ==
  \E c \in RemoteChallenges :
    /\ asked[c] = None
    /\ asked' = [asked EXCEPT ![c] = [purpose |-> purpose, sessions |-> sessions,
                   expires |-> remoteTime + StepUpTTL, usedAt |-> -1]]

(* assertChallengeUsable *)
Usable(c, purpose) ==
  /\ asked[c] # None /\ asked[c].purpose = purpose
  /\ asked[c].usedAt = -1 /\ asked[c].expires > remoteTime

MarkUsed(c) == asked' = [asked EXCEPT ![c].usedAt = remoteTime]

IssueLogin == CreateChallenge("login", {}) /\ UNCHANGED <<remoteTime, remote, simulated>>

VerifyLogin(s, c) ==
  /\ remote[s] = None /\ Usable(c, "login")
  /\ remote' = [remote EXCEPT ![s] = [expires |-> remoteTime + SessionTTL,
                  authAt |-> remoteTime, stepUpUntil |-> 0, lastParty |-> "none"]]
  /\ MarkUsed(c)
  /\ UNCHANGED <<remoteTime, simulated>>

RequestStepUp(s) ==
  /\ Open(s)
  /\ CreateChallenge("step_up", {s})
  /\ UNCHANGED <<remoteTime, remote, simulated>>

(* Faulty variant: the challenge of another session will do. *)
VerifyStepUp_AnySession(s, c) ==
  /\ Open(s) /\ Usable(c, "step_up")
  /\ remote' = [remote EXCEPT ![s].stepUpUntil = remoteTime + StepUpTTL, ![s].authAt = remoteTime]
  /\ MarkUsed(c)
  /\ UNCHANGED <<remoteTime, simulated>>

VerifyStepUp(s, c) ==
  /\ Open(s) /\ Usable(c, "step_up") /\ s \in asked[c].sessions
  /\ remote' = [remote EXCEPT ![s].stepUpUntil = remoteTime + StepUpTTL, ![s].authAt = remoteTime]
  /\ MarkUsed(c)
  /\ UNCHANGED <<remoteTime, simulated>>

(* assessRisk *)
Reasons(s, party, value) ==
  {r \in {"high_value", "other_party", "stale"} :
     \/ r = "high_value" /\ value = "high"
     \/ r = "other_party" /\ party # "none" /\ party # remote[s].lastParty
     \/ r = "stale" /\ value # "none" /\ remoteTime - remote[s].authAt > StepUpTTL}

(* simulateUserOp: a risky operation without a fresh step-up is answered    *)
(* with a challenge; any other is recorded and asks for nothing more.       *)
Simulate(s, o, party, value) ==
  LET reasons == Reasons(s, party, value)
  IN /\ Open(s) /\ simulated[o] = None
     /\ IF reasons # {} /\ remote[s].stepUpUntil <= remoteTime
        THEN CreateChallenge("step_up", {s}) /\ UNCHANGED simulated
        ELSE /\ simulated' = [simulated EXCEPT ![o] =
                  [session |-> s, party |-> party, reasons |-> reasons,
                   at |-> remoteTime, executed |-> FALSE]]
             /\ UNCHANGED asked
     /\ UNCHANGED <<remoteTime, remote>>

(* executeSimulation, once, in the session of the simulation *)
Execute(s, o) ==
  /\ Open(s)
  /\ simulated[o] # None /\ simulated[o].session = s /\ ~simulated[o].executed
  /\ simulated' = [simulated EXCEPT ![o].executed = TRUE]
  /\ remote' = [remote EXCEPT ![s].lastParty =
                  IF simulated[o].party = "none" THEN @ ELSE simulated[o].party]
  /\ UNCHANGED <<remoteTime, asked>>

RemoteTick ==
  /\ remoteTime < MaxRemoteTime
  /\ remoteTime' = remoteTime + 1
  /\ UNCHANGED <<remote, asked, simulated>>

RemoteNext ==
  \/ RemoteTick \/ IssueLogin
  \/ \E s \in RemoteIds :
       \/ RequestStepUp(s)
       \/ \E c \in RemoteChallenges : VerifyLogin(s, c) \/ VerifyStepUp(s, c)
       \/ \E o \in Simulations :
            \/ Execute(s, o)
            \/ \E party \in Parties \cup {"none"}, value \in {"none", "some", "high"} :
                 Simulate(s, o, party, value)

RemoteSpec == RemoteInit /\ [][RemoteNext]_remoteVars

-----------------------------------------------------------------------------
(* Whatever was simulated for a reason to step up, and can be executed, was *)
(* simulated while a step-up of its own session was fresh: one answered in  *)
(* that session, to a challenge asked of it, less than StepUpTTL before.    *)
StepUpCoversRisk ==
  \A o \in Simulations :
    simulated[o] # None /\ simulated[o].reasons # {} =>
      \E c \in RemoteChallenges :
        /\ asked[c] # None /\ asked[c].purpose = "step_up"
        /\ asked[c].sessions = {simulated[o].session}
        /\ asked[c].usedAt \in (simulated[o].at - StepUpTTL + 1)..simulated[o].at
        /\ asked[c].usedAt >= 0
=============================================================================
