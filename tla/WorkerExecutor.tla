--------------------------- MODULE WorkerExecutor ---------------------------
(***************************************************************************)
(* The job executor of the provider's daemon                               *)
(* (packages/arc402-daemon/src/worker-executor.ts).  Each agreement has at *)
(* most one job.  Jobs wait in a queue and at most MaxConcurrentJobs run;  *)
(* a running job is a child process whose exit, failure or timeout ends    *)
(* the job and lets the next one start.  JavaScript runs every handler     *)
(* between two awaits without interruption: each action below is one such  *)
(* stretch.  The child process itself is outside: it may answer at any     *)
(* time or never.                                                          *)
(*                                                                         *)
(* auto_execute is TRUE, its default (nothing drains the queue otherwise), *)
(* and the agent type is one that is spawned: the openclaw type sends the  *)
(* task over HTTP instead, with the same outcomes and no child.            *)
(***************************************************************************)
EXTENDS Integers, Sequences, FiniteSets, Functions

CONSTANTS
  Agreements,         \* agreement ids a job may be queued for
  MaxConcurrentJobs   \* worker.max_concurrent_jobs

ASSUME ExecutorAssumption == MaxConcurrentJobs \in Nat \ {0}

VARIABLES
  job,          \* status of each agreement's ExecutionRecord, "none" without one
  queue,        \* agreement ids waiting, oldest first
  runningCount, \* the executor's count of running jobs
  children      \* agreements with a child process that has not closed

workerVars == <<job, queue, runningCount, children>>

Ended == {"completed", "failed"}
WorkerStatus == {"none", "queued", "running"} \cup Ended

WorkerInit ==
  /\ job = [a \in Agreements |-> "none"]
  /\ queue = <<>>
  /\ runningCount = 0
  /\ children = {}

(***************************************************************************)
(* drainQueue: given the records j, the queue q, the count n and the       *)
(* children c left by the caller, take the next job off the queue while    *)
(* there is one and a free slot, and start it if it still waits.  runJob   *)
(* runs up to the spawn of its child before it first awaits.               *)
(***************************************************************************)
DrainQueue(j, q, n, c) ==
  LET Started(k) == {a \in Agreements : j[a] = "queued" /\ \E i \in 1..k : q[i] = a}
      GoesOn(k) == k < Len(q) /\ n + Cardinality(Started(k)) < MaxConcurrentJobs
  IN \E taken \in 0..Len(q) :
       /\ ~GoesOn(taken) /\ \A k \in 0..(taken - 1) : GoesOn(k)
       /\ job' = [a \in Agreements |-> IF a \in Started(taken) THEN "running" ELSE j[a]]
       /\ queue' = SubSeq(q, taken + 1, Len(q))
       /\ runningCount' = n + Cardinality(Started(taken))
       /\ children' = c \cup Started(taken)

(* Faulty variant: a failed job is queued again *)
Enqueue_RetryFailed(a) ==
  IF job[a] \notin {"none", "failed"}
  THEN UNCHANGED workerVars
  ELSE DrainQueue([job EXCEPT ![a] = "queued"], Append(queue, a), runningCount, children)

(* A record that exists, in any status, is returned unchanged.  A task that *)
(* PromptGuard or the file system refuses throws before anything is stored. *)
Enqueue(a) ==
  IF job[a] # "none"
  THEN UNCHANGED workerVars
  ELSE DrainQueue([job EXCEPT ![a] = "queued"], Append(queue, a), runningCount, children)

(* The others keep their order in the queue.                                *)
Cancel(a) ==
  LET others == {i \in DOMAIN queue : queue[i] # a}
  IN /\ job[a] = "queued"
     /\ job' = [job EXCEPT ![a] = "failed"]
     /\ \E place \in [1..Cardinality(others) -> others] :
          /\ Range(place) = others
          /\ \A i, k \in DOMAIN place : i < k => place[i] < place[k]
          /\ queue' = [k \in DOMAIN place |-> queue[place[k]]]
     /\ UNCHANGED <<runningCount, children>>

(* Faulty variant: the end of a job frees its slot and leaves it idle *)
EndJob_NoDrain(a, s, c) ==
  /\ job[a] = "running"
  /\ job' = [job EXCEPT ![a] = s]
  /\ runningCount' = runningCount - 1
  /\ children' = c
  /\ UNCHANGED queue

(* The catch and finally blocks of runJob, or the end of its try block. *)
EndJob(a, s, c) ==
  /\ job[a] = "running"
  /\ DrainQueue([job EXCEPT ![a] = s], queue, runningCount - 1, c)

(* The child exits with 0 and its files are collected and stored. *)
AgentSucceeds(a) == EndJob(a, "completed", children \ {a})

(* The child cannot be spawned or exits with another code, its files cannot *)
(* be stored, or the completion callback throws.                            *)
AgentFails(a) == EndJob(a, "failed", children \ {a})

(* Faulty variant: the timer only signals the child, and leaves it to close *)
JobTimeout_SignalOnly(a) ==
  /\ job[a] = "running"
  /\ UNCHANGED workerVars

(* The timer of the job: the job fails at once, the child is sent a signal. *)
JobTimeout(a) == EndJob(a, "failed", children)

(* A child whose job has timed out closes, by itself or after SIGKILL. *)
ChildCloses(a) ==
  /\ a \in children
  /\ job[a] # "running"
  /\ children' = children \ {a}
  /\ UNCHANGED <<job, queue, runningCount>>

WorkerNext ==
  \E a \in Agreements :
    \/ Enqueue(a)
    \/ Cancel(a)
    \/ AgentSucceeds(a)
    \/ AgentFails(a)
    \/ JobTimeout(a)
    \/ ChildCloses(a)

(* The timer of a job and the SIGKILL are set when the job starts and when  *)
(* it times out; the runtime fires every timer.                             *)
WorkerFairness ==
  \A a \in Agreements : WF_workerVars(JobTimeout(a)) /\ WF_workerVars(ChildCloses(a))

WorkerSpec == WorkerInit /\ [][WorkerNext]_workerVars /\ WorkerFairness

-----------------------------------------------------------------------------
Running == {a \in Agreements : job[a] = "running"}

WorkerTypeOK ==
  /\ job \in [Agreements -> WorkerStatus]
  /\ queue \in Seq(Agreements)
  /\ runningCount \in 0..MaxConcurrentJobs
  /\ children \subseteq Agreements

(* The executor's three records of a job never disagree: the counter is the *)
(* number of running jobs, on every path out of runJob, the queue holds     *)
(* each waiting job once and nothing else, so no job is started twice, and  *)
(* a job waits only while every slot is taken.                              *)
SlotsAccounted ==
  /\ runningCount = Cardinality(Running) /\ runningCount <= MaxConcurrentJobs
  /\ IsInjective(queue)
  /\ Range(queue) = {a \in Agreements : job[a] = "queued"}
  /\ queue # <<>> => runningCount = MaxConcurrentJobs

(* A job that has ended never runs again, however often its agreement is    *)
(* enqueued: a job is delivered, and its fulfilment submitted, once.        *)
EndedStaysEnded ==
  [][\A a \in Agreements : job[a] \in Ended => job'[a] = job[a]]_workerVars

(* Every job comes to an end, whatever the agents do: a timer frees the     *)
(* slot of an agent that never answers.  (An agreement has one job, so in   *)
(* the end there is none left.)                                             *)
JobsEnd ==
  []<>(\A a \in Agreements : job[a] \in {"none"} \cup Ended)
=============================================================================
