----------------------------- MODULE HireDaemon -----------------------------
(***************************************************************************)
(* How the provider's daemon takes a hire request from the relay or over   *)
(* HTTP through its database, its worker executor and back                 *)
(* (packages/arc402-daemon/src/server.ts, hire-listener.ts and             *)
(* endpoint-policy.ts).  The database survives a crash; the executor, the  *)
(* endpoint locks, the polls and their position do not.  JavaScript runs   *)
(* one handler up to its next await: each action is one such stretch, and  *)
(* poll, deciding, arriving and fulfilling hold what is between two.       *)
(* Handlers of POST /hire overlap, those of one message id too.            *)
(*                                                                         *)
(* The price, capability, deadline and content checks of a request are one *)
(* choice, acceptable or not.  UserOps are sent and answered, or fail, at  *)
(* any time; what they do on the chain is the agreement contract's module. *)
(* Rows are created at distinct times, so one of them is the latest.  The  *)
(* address of a ServiceAgreement is configured and every request names an  *)
(* agreement; calls of SQLite do not fail.                                 *)
(***************************************************************************)
EXTENDS WorkerExecutor, FiniteSetsExt

CONSTANTS
  Hires,                    \* message ids, the keys of the table hire_requests
  AgreementOf,              \* the agreement a request names
  RelayLog,                 \* what the relay delivers, in its order
  Polls,                    \* calls of poll that may overlap
  MaxConcurrentAgreements,  \* relay.max_concurrent_agreements
  AutoAccept,               \* policy.auto_accept
  MaxHandlers,              \* bound on the handlers of POST /hire under way for one id
  MaxCrashes                \* bound on crashes and restarts

ASSUME DaemonAssumption ==
  /\ AgreementOf \in [Hires -> Agreements]
  /\ RelayLog \in Seq(Hires)
  /\ MaxConcurrentAgreements \in Nat
  /\ AutoAccept \in BOOLEAN
  /\ MaxHandlers \in Nat
  /\ MaxCrashes \in Nat

VARIABLES
  rows,        \* ids of hire_requests in the order of their creation
  status,      \* the status of each row, "none" without one
  posted,      \* how much of RelayLog the relay has
  lastSeen,    \* the listener's position in it
  poll,        \* each poll: what it is doing, the position it is at, the end of its batch
  deciding,    \* for each id, handlers of POST /hire that found no row and have not decided
  arriving,    \* for each id, handlers of POST /hire that accepted it and have not enqueued it
  fulfilling,  \* delivered, the fulfil UserOp still unanswered
  lock,        \* EndpointPolicy.activeJobLocks
  crashes,     \* crashes so far
  contradicted \* history: ids that a handler accepted although their row said rejected

database == <<rows, status>>
http == <<deciding, arriving, contradicted>>
listener == <<posted, lastSeen, poll>>
vars == <<rows, status, posted, lastSeen, poll, deciding, arriving, contradicted,
          fulfilling, lock, job, queue, runningCount, children, crashes>>

HireStatus == {"none", "pending_approval", "accepted", "rejected", "delivered", "complete"}
LockStatus == {"none", "locked", "granted"}

Idle == [pc |-> "idle", at |-> 0, upto |-> 0]

Init ==
  /\ rows = <<>>
  /\ status = [h \in Hires |-> "none"]
  /\ posted = 0
  /\ lastSeen = 0
  /\ poll = [p \in Polls |-> Idle]
  /\ deciding = [h \in Hires |-> 0]
  /\ arriving = [h \in Hires |-> 0]
  /\ contradicted = {}
  /\ fulfilling = {}
  /\ lock = [a \in Agreements |-> "none"]
  /\ WorkerInit
  /\ crashes = 0

-----------------------------------------------------------------------------
(* The database. *)
Active == {h \in Hires : status[h] = "accepted"}
Pending == {h \in Hires : status[h] = "pending_approval"}

RowsOf(a) == {i \in DOMAIN rows : AgreementOf[rows[i]] = a}
ActiveRowsOf(a) == {i \in RowsOf(a) : rows[i] \in Active}

(* getHireRequestByAgreementId: the request of an agreement that came last  *)
LatestOf(a) == rows[Max(RowsOf(a))]

SetStatus(h, s) ==
  /\ status' = [status EXCEPT ![h] = s]
  /\ UNCHANGED rows

(* Faulty variant: room for one agreement too many *)
Decide_OffByOne(h, acceptable) ==
  IF acceptable /\ Cardinality(Active) <= MaxConcurrentAgreements
  THEN IF AutoAccept THEN "accepted" ELSE "pending_approval"
  ELSE "rejected"

(* What a handler makes of a request: evaluatePolicy counts the active      *)
(* rows, and no handler awaits between the count and its insert.            *)
Decide(h, acceptable) ==
  IF acceptable /\ Cardinality(Active) < MaxConcurrentAgreements
  THEN IF AutoAccept THEN "accepted" ELSE "pending_approval"
  ELSE "rejected"

(* INSERT OR IGNORE into a table that has no row of this id                 *)
Insert(h, s) ==
  /\ rows' = Append(rows, h)
  /\ status' = [status EXCEPT ![h] = s]

(* enqueue and lockForJob run in one go, in every handler that enqueues *)
EnqueueAndLock(a) ==
  /\ Enqueue(a)
  /\ lock' = [lock EXCEPT ![a] = "locked"]

-----------------------------------------------------------------------------
(* The relay and HireListener.poll *)
RelayReceives ==
  /\ posted < Len(RelayLog)
  /\ posted' = posted + 1
  /\ UNCHANGED <<database, lastSeen, poll, http, fulfilling, lock, workerVars, crashes>>

(* setInterval starts a poll whether or not the last one has ended. *)
PollStart(p) ==
  /\ poll[p].pc = "idle"
  /\ poll' = [poll EXCEPT ![p] = [pc |-> "fetching", at |-> lastSeen, upto |-> lastSeen]]
  /\ UNCHANGED <<database, posted, lastSeen, http, fulfilling, lock, workerVars, crashes>>

(* Faulty variant: the position is that of the batch, saved before its messages are handled *)
PollAnswered_SkipsBatch(p) ==
  /\ poll[p].pc = "fetching"
  /\ poll' = [poll EXCEPT ![p].pc = "handling", ![p].upto = posted]
  /\ lastSeen' = posted
  /\ UNCHANGED <<database, posted, http, fulfilling, lock, workerVars, crashes>>

PollAnswered(p) ==
  /\ poll[p].pc = "fetching"
  /\ poll' = [poll EXCEPT ![p].pc = "handling", ![p].upto = posted]
  /\ UNCHANGED <<database, posted, lastSeen, http, fulfilling, lock, workerVars, crashes>>

PollFails(p) ==
  /\ poll[p].pc = "fetching"
  /\ poll' = [poll EXCEPT ![p] = Idle]
  /\ UNCHANGED <<database, posted, lastSeen, http, fulfilling, lock, workerVars, crashes>>

(* One round of poll's loop with handleMessage, up to the wait for the      *)
(* accept UserOp of a request that is accepted at once.                     *)
HandleMessage(p, acceptable) ==
  LET next == poll[p].at + 1
      h == RelayLog[next]
      s == Decide(h, acceptable)
  IN /\ poll[p].pc = "handling"
     /\ next <= poll[p].upto
     /\ lastSeen' = next
     /\ IF status[h] # "none"
        THEN /\ poll' = [poll EXCEPT ![p].at = next]
             /\ UNCHANGED database
        ELSE /\ Insert(h, s)
             /\ poll' = [poll EXCEPT ![p].at = next,
                                     ![p].pc = IF s = "accepted" THEN "approving" ELSE "handling"]
     /\ UNCHANGED <<posted, http, fulfilling, lock, workerVars, crashes>>

(* The approve callback goes on when its UserOp is answered or has failed. *)
Approved(p) ==
  /\ poll[p].pc = "approving"
  /\ EnqueueAndLock(AgreementOf[RelayLog[poll[p].at]])
  /\ poll' = [poll EXCEPT ![p].pc = "handling"]
  /\ UNCHANGED <<database, posted, lastSeen, http, fulfilling, crashes>>

(* enqueue throws: the poll gives up the rest of its batch *)
ApprovedThrows(p) ==
  /\ poll[p].pc = "approving"
  /\ job[AgreementOf[RelayLog[poll[p].at]]] = "none"
  /\ poll' = [poll EXCEPT ![p] = Idle]
  /\ UNCHANGED <<database, posted, lastSeen, http, fulfilling, lock, workerVars, crashes>>

PollEnds(p) ==
  /\ poll[p].pc = "handling"
  /\ poll[p].at >= poll[p].upto
  /\ poll' = [poll EXCEPT ![p] = Idle]
  /\ UNCHANGED <<database, posted, lastSeen, http, fulfilling, lock, workerVars, crashes>>

-----------------------------------------------------------------------------
(* POST /hire *)

(* A worker's own request, which names its job, is refused unless the       *)
(* request delegates commerce to it; either way the job is locked anew.     *)
PostHireFromJob(j, delegated) ==
  /\ lock' = [lock EXCEPT ![j] = IF delegated THEN "granted" ELSE "locked"]
  /\ UNCHANGED <<database, listener, http, fulfilling, workerVars, crashes>>

(* The request of a hirer, or a delegated one after PostHireFromJob, is     *)
(* looked up: a message with a row is only answered.                        *)
PostHireLooksUp(h) ==
  /\ deciding[h] + arriving[h] < MaxHandlers
  /\ status[h] = "none"
  /\ deciding' = [deciding EXCEPT ![h] = @ + 1]
  /\ UNCHANGED <<database, listener, arriving, contradicted, fulfilling, lock, workerVars, crashes>>

(* Faulty variant: INSERT OR REPLACE *)
PostHireDecides_Replaces(h, acceptable) ==
  LET s == Decide(h, acceptable)
  IN /\ deciding[h] > 0
     /\ deciding' = [deciding EXCEPT ![h] = @ - 1]
     /\ IF status[h] = "none" THEN Insert(h, s) ELSE SetStatus(h, s)
     /\ arriving' = IF s = "accepted" THEN [arriving EXCEPT ![h] = @ + 1] ELSE arriving
     /\ UNCHANGED <<listener, contradicted, fulfilling, lock, workerVars, crashes>>

(* The await of import("./hire-listener") is over: from the count of active *)
(* rows to the notification of the operator.  A row of this id that another *)
(* handler or a poll has stored meanwhile stays as it is, and this handler  *)
(* goes on with its own decision.                                           *)
PostHireDecides(h, acceptable) ==
  LET s == Decide(h, acceptable)
  IN /\ deciding[h] > 0
     /\ deciding' = [deciding EXCEPT ![h] = @ - 1]
     /\ IF status[h] = "none" THEN Insert(h, s) ELSE UNCHANGED database
     /\ arriving' = IF s = "accepted" THEN [arriving EXCEPT ![h] = @ + 1] ELSE arriving
     /\ contradicted' = IF s = "accepted" /\ status[h] = "rejected"
                        THEN contradicted \cup {h} ELSE contradicted
     /\ UNCHANGED <<listener, fulfilling, lock, workerVars, crashes>>

HttpEnqueue(h) ==
  /\ arriving[h] > 0
  /\ arriving' = [arriving EXCEPT ![h] = @ - 1]
  /\ EnqueueAndLock(AgreementOf[h])
  /\ UNCHANGED <<database, listener, deciding, contradicted, fulfilling, crashes>>

HttpEnqueueThrows(h) ==
  /\ arriving[h] > 0
  /\ job[AgreementOf[h]] = "none"
  /\ arriving' = [arriving EXCEPT ![h] = @ - 1]
  /\ UNCHANGED <<database, listener, deciding, contradicted, fulfilling, lock, workerVars, crashes>>

(* POST /delivery and POST /delivery/accepted look among the active rows *)
PostDelivery(a, s) ==
  /\ IF ActiveRowsOf(a) = {}
     THEN UNCHANGED database
     ELSE SetStatus(rows[Min(ActiveRowsOf(a))], s)
  /\ UNCHANGED <<listener, http, fulfilling, lock, workerVars, crashes>>

-----------------------------------------------------------------------------
(* The operator's commands and the timer of pending approvals *)
IpcApprove(h) ==
  /\ status[h] = "pending_approval"
  /\ SetStatus(h, "accepted")
  /\ UNCHANGED <<listener, http, fulfilling, lock, workerVars, crashes>>

(* Faulty variant: the operator rejects whatever the request's status is *)
IpcReject_AnyStatus(h) ==
  /\ status[h] # "none"
  /\ SetStatus(h, "rejected")
  /\ UNCHANGED <<listener, http, fulfilling, lock, workerVars, crashes>>

IpcReject(h) ==
  /\ status[h] = "pending_approval"
  /\ SetStatus(h, "rejected")
  /\ UNCHANGED <<listener, http, fulfilling, lock, workerVars, crashes>>

IpcComplete(h) ==
  /\ status[h] # "none"
  /\ SetStatus(h, "complete")
  /\ UNCHANGED <<listener, http, fulfilling, lock, workerVars, crashes>>

ApprovalTimeout(late) ==
  /\ late # {}
  /\ status' = [h \in Hires |-> IF h \in late THEN "rejected" ELSE status[h]]
  /\ UNCHANGED <<rows, listener, http, fulfilling, lock, workerVars, crashes>>

-----------------------------------------------------------------------------
(* The callbacks of the worker executor, which run inside its steps and     *)
(* find the request by its agreement: the latest one, whichever it was.     *)
Release(a) == lock' = [lock EXCEPT ![a] = "none"]

JobCompleted(a) ==
  LET h == LatestOf(a)
  IN /\ AgentSucceeds(a)
     /\ Release(a)
     /\ SetStatus(h, "delivered")
     /\ fulfilling' = fulfilling \cup {h}
     /\ UNCHANGED <<listener, http, crashes>>

(* Faulty variant: a failed job is only logged *)
JobFailed_NoStatus(a) ==
  /\ AgentFails(a) \/ JobTimeout(a)
  /\ Release(a)
  /\ UNCHANGED <<database, listener, http, fulfilling, crashes>>

JobFailed(a) ==
  /\ AgentFails(a) \/ JobTimeout(a)
  /\ Release(a)
  /\ SetStatus(LatestOf(a), "rejected")
  /\ UNCHANGED <<listener, http, fulfilling, crashes>>

JobChildCloses(a) ==
  /\ ChildCloses(a)
  /\ UNCHANGED <<database, listener, http, fulfilling, lock, crashes>>

FulfillSubmitted(h) ==
  /\ h \in fulfilling
  /\ fulfilling' = fulfilling \ {h}
  /\ SetStatus(h, "complete")
  /\ UNCHANGED <<listener, http, lock, workerVars, crashes>>

FulfillFails(h) ==
  /\ h \in fulfilling
  /\ fulfilling' = fulfilling \ {h}
  /\ UNCHANGED <<database, listener, http, lock, workerVars, crashes>>

(* The daemon dies and is started again; children it no longer knows of are *)
(* not its processes any more.                                              *)
Restart ==
  /\ crashes < MaxCrashes
  /\ crashes' = crashes + 1
  /\ lastSeen' = 0
  /\ poll' = [p \in Polls |-> Idle]
  /\ deciding' = [h \in Hires |-> 0]
  /\ arriving' = [h \in Hires |-> 0]
  /\ fulfilling' = {}
  /\ lock' = [a \in Agreements |-> "none"]
  /\ job' = [a \in Agreements |-> "none"]
  /\ queue' = <<>>
  /\ runningCount' = 0
  /\ children' = {}
  /\ UNCHANGED <<database, posted, contradicted>>

Next ==
  \/ RelayReceives
  \/ \E p \in Polls :
       \/ PollStart(p) \/ PollAnswered(p) \/ PollFails(p) \/ PollEnds(p)
       \/ \E acceptable \in BOOLEAN : HandleMessage(p, acceptable)
       \/ Approved(p) \/ ApprovedThrows(p)
  \/ \E h \in Hires :
       \/ PostHireLooksUp(h)
       \/ \E acceptable \in BOOLEAN : PostHireDecides(h, acceptable)
       \/ HttpEnqueue(h) \/ HttpEnqueueThrows(h)
       \/ IpcApprove(h) \/ IpcReject(h) \/ IpcComplete(h)
       \/ FulfillSubmitted(h) \/ FulfillFails(h)
  \/ \E late \in SUBSET Pending : ApprovalTimeout(late)
  \/ \E a \in Agreements :
       \/ \E delegated \in BOOLEAN : PostHireFromJob(a, delegated)
       \/ \E s \in {"delivered", "complete"} : PostDelivery(a, s)
       \/ JobCompleted(a) \/ JobFailed(a) \/ JobChildCloses(a)
  \/ Restart

(***************************************************************************)
(* Fairness.  setInterval starts polls for ever and the runtime goes on    *)
(* with every handler whose wait is over: bundler calls end, by an answer  *)
(* or an error.  The relay may fail, but not at every single poll.         *)
(***************************************************************************)
Fairness ==
  /\ \A p \in Polls :
       /\ WF_vars(PollStart(p))
       /\ SF_vars(PollAnswered(p))
       /\ WF_vars(\E acceptable \in BOOLEAN : HandleMessage(p, acceptable))
       /\ WF_vars(Approved(p) \/ ApprovedThrows(p))
       /\ WF_vars(PollEnds(p))

Spec == Init /\ [][Next]_vars /\ Fairness

-----------------------------------------------------------------------------
PollState == [pc : {"idle", "fetching", "handling", "approving"},
              at : 0..Len(RelayLog), upto : 0..Len(RelayLog)]

TypeOK ==
  /\ rows \in Seq(Hires) /\ IsInjective(rows)
  /\ status \in [Hires -> HireStatus]
  /\ Range(rows) = {h \in Hires : status[h] # "none"}
  /\ posted \in 0..Len(RelayLog)
  /\ lastSeen \in 0..posted
  /\ poll \in [Polls -> PollState]
  /\ deciding \in [Hires -> 0..MaxHandlers] /\ arriving \in [Hires -> 0..MaxHandlers]
  /\ contradicted \subseteq Hires
  /\ fulfilling \subseteq Hires
  /\ lock \in [Agreements -> LockStatus]
  /\ WorkerTypeOK
  /\ crashes \in 0..MaxCrashes

(* With auto_accept the daemon never has more accepted agreements than      *)
(* max_concurrent_agreements, however relay polls, HTTP requests, crashes   *)
(* and the jobs that end are interleaved.                                   *)
CapacityRespected == Cardinality(Active) <= MaxConcurrentAgreements

Working == {h \in Hires : job[AgreementOf[h]] \in {"queued", "running"}}

(* While the job of a request waits or runs its worker has an endpoint      *)
(* lock, and the request was not refused, by policy, by the operator or by  *)
(* the timer of approvals: no handler enqueues without locking, none        *)
(* releases a live job, and no decision comes too late (one request per     *)
(* agreement).  Refused work may be under way in one case only: a second    *)
(* handler of the message accepted what the first had refused.              *)
WorkCovered ==
  \A h \in Working :
    /\ lock[AgreementOf[h]] # "none"
    /\ status[h] \in {"accepted", "delivered", "complete"} \/ h \in contradicted

(* server.ts says of onJobCompleted: "worker finished — submit fulfill      *)
(* UserOp on-chain, update DB, notify": a request whose job has ended is    *)
(* not active any more and gives its place back, also when another handler  *)
(* still holds it.                                                          *)
PlaceGivenBack == \A h \in Active : job[AgreementOf[h]] \notin Ended

(* The limit holds, work that is under way is covered, and work that is     *)
(* over is not counted.                                                     *)
HireAccounted == CapacityRespected /\ WorkCovered /\ PlaceGivenBack

(* server.ts says of its look-up "Dedup", and hire-listener.ts of the same   *)
(* one "Dedup — skip if already in DB": no handler goes on to the work of a *)
(* message whose row is there already.  It does not hold: README, section 6. *)
DuplicatesSkipped ==
  [][\A h \in Hires : status[h] # "none" => arriving'[h] <= arriving[h]]_vars

(* Every message the relay holds is decided on, whatever polls overlap and  *)
(* move the common position back and forth, fail or break off, and whenever *)
(* the daemon restarts.                                                     *)
MessagesHandled ==
  \A i \in 1..Len(RelayLog) : posted >= i ~> status[RelayLog[i]] # "none"
=============================================================================
