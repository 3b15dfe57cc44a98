-------------------------- MODULE HireDaemon_proofs --------------------------
(***************************************************************************)
(* Proofs about the daemon's handling of hires, for any requests, any      *)
(* order in which the relay delivers them, any number of polls and of       *)
(* restarts, and any limits.                                               *)
(***************************************************************************)
EXTENDS HireDaemon, SumTheorems

(* A hypothesis of WorkIsCovered: callbacks find a request by its agreement. *)
OneRequestEach == \A h, o \in Hires : AgreementOf[h] = AgreementOf[o] => h = o

Known == {h \in Hires : status[h] # "none"}

(* The request that a poll waits for the approval of.                       *)
Approving(p, h) == poll[p].pc = "approving" /\ h = RelayLog[poll[p].at]

Waits(h) == arriving[h] > 0 \/ \E p \in Polls : Approving(p, h)

(* The handlers of POST /hire under way for an id are within their bound.   *)
HandlersInv ==
  /\ deciding \in [Hires -> 0..MaxHandlers] /\ arriving \in [Hires -> 0..MaxHandlers]
  /\ \A h \in Hires : deciding[h] + arriving[h] <= MaxHandlers
  /\ contradicted \subseteq Hires

(* What holds whatever the hypotheses: the table has every request that     *)
(* some handler holds or that a job was made for, each of them once, and    *)
(* positions stay within what the relay has.                                *)
TableInv ==
  /\ rows \in Seq(Hires) /\ IsInjective(rows)
  /\ status \in [Hires -> HireStatus]
  /\ Range(rows) = Known
  /\ posted \in 0..Len(RelayLog)
  /\ lastSeen \in 0..posted
  /\ poll \in [Polls -> PollState]
  /\ \A p \in Polls : poll[p].upto <= posted /\ (poll[p].pc = "approving" => poll[p].at # 0)
  /\ \A h \in Hires : Waits(h) => h \in Known
  /\ HandlersInv
  /\ fulfilling \subseteq Known
  /\ lock \in [Agreements -> LockStatus]
  /\ job \in [Agreements -> WorkerStatus]
  /\ \A a \in Agreements : job[a] # "none" => \E h \in Known : AgreementOf[h] = a
  /\ crashes \in 0..MaxCrashes

Taken == {"accepted", "delivered", "complete"}

(* The request was accepted, or a handler contradicted the one that refused *)
(* it.                                                                      *)
Granted(h) == status[h] \in Taken \/ h \in contradicted

(* The operator decides everything, and then nothing is enqueued, or nothing *)
(* waits for the operator.                                                  *)
OneDecider ==
  IF AutoAccept
  THEN \A h \in Hires : status[h] # "pending_approval"
  ELSE \A h \in Hires : ~Waits(h) /\ job[AgreementOf[h]] = "none"

(* WorkCovered and PlaceGivenBack, request by request.                      *)
Covered(h) ==
  /\ job[AgreementOf[h]] \in {"queued", "running"} => lock[AgreementOf[h]] # "none" /\ Granted(h)
  /\ job[AgreementOf[h]] \in {"completed", "failed"} => status[h] # "accepted"
  /\ Waits(h) /\ job[AgreementOf[h]] = "none" => Granted(h)

(* The limit, and that nothing waits for the operator.                      *)
LimitInv ==
  /\ IsFiniteSet(Active) /\ Cardinality(Active) <= MaxConcurrentAgreements
  /\ \A h \in Hires : status[h] # "pending_approval"

HireInv == OneDecider /\ \A h \in Hires : Covered(h)

-----------------------------------------------------------------------------
(* The job executor.  What SlotsAccounted says, and that finitely many jobs *)
(* run.  Waiting and RunningOf are the sets of a record j of the jobs.       *)
WaitingOf(j) == {a \in Agreements : j[a] = "queued"}
RunningOf(j) == {a \in Agreements : j[a] = "running"}

WorkerInv == WorkerTypeOK /\ SlotsAccounted /\ IsFiniteSet(Running)

LEMMA WorkerInitInv == WorkerInit => WorkerInv
<1> SUFFICES ASSUME WorkerInit PROVE WorkerInv
  OBVIOUS
<1> USE ExecutorAssumption DEF WorkerInit
<1>1. WorkerTypeOK
  BY DEF WorkerTypeOK, WorkerStatus
<1>2. Running = {} /\ IsFiniteSet(Running) /\ Cardinality(Running) = 0
  BY FS_EmptySet DEF Running
<1>3. SlotsAccounted
  BY <1>2 DEF SlotsAccounted, IsInjective, Range
<1>. QED  BY <1>1, <1>2, <1>3 DEF WorkerInv

(* drainQueue, whoever calls it: given records, a queue, a count and         *)
(* children that agree, but for free slots, it leaves the executor sound.    *)
LEMMA DrainQueueInv ==
  ASSUME NEW j \in [Agreements -> WorkerStatus], NEW q \in Seq(Agreements), NEW n \in Nat,
         NEW c \in SUBSET Agreements,
         IsInjective(q), Range(q) = WaitingOf(j), IsFiniteSet(RunningOf(j)),
         n = Cardinality(RunningOf(j)), n <= MaxConcurrentJobs,
         DrainQueue(j, q, n, c)
  PROVE  WorkerInv'
<1>. USE ExecutorAssumption
<1> DEFINE Started(k) == {a \in Agreements : j[a] = "queued" /\ \E i \in 1..k : q[i] = a}
           GoesOn(k) == k < Len(q) /\ n + Cardinality(Started(k)) < MaxConcurrentJobs
<1>1. PICK gone \in 0..Len(q) :
        /\ ~GoesOn(gone) /\ \A k \in 0..(gone - 1) : GoesOn(k)
        /\ job' = [a \in Agreements |-> IF a \in Started(gone) THEN "running" ELSE j[a]]
        /\ queue' = SubSeq(q, gone + 1, Len(q))
        /\ runningCount' = n + Cardinality(Started(gone))
        /\ children' = c \cup Started(gone)
  BY DEF DrainQueue
<1>2. Len(q) \in Nat /\ gone \in Nat /\ \A i \in 1..Len(q) : q[i] \in Agreements /\ j[q[i]] = "queued"
  <2>1. \A i \in 1..Len(q) : q[i] \in Agreements /\ q[i] \in Range(q)
    BY DEF Range
  <2>. QED  BY <2>1 DEF WaitingOf
<1>3. \A k \in 0..Len(q) : IsFiniteSet(Started(k)) /\ Cardinality(Started(k)) \in Nat
  <2>1. ASSUME NEW k \in 0..Len(q)
        PROVE  IsFiniteSet(Started(k))
    <3> DEFINE f == [i \in 1..k |-> q[i]]
    <3>1. \A i \in 1..k : i \in 1..Len(q)
      BY <1>2
    <3>2. \A i \in 1..k : q[i] \in Started(k)
      BY <1>2, <3>1
    <3>3. \A a \in Started(k) : \E i \in 1..k : q[i] = a
      OBVIOUS
    <3> HIDE DEF Started
    <3>4. f \in Surjection(1..k, Started(k))
      BY <3>2, <3>3 DEF Surjection
    <3>5. IsFiniteSet(1..k)
      BY <1>2, FS_Interval
    <3>. QED  BY <3>4, <3>5, FS_Surjection
  <2>. QED  BY <2>1, FS_CardinalityType
<1>4. n + Cardinality(Started(gone)) <= MaxConcurrentJobs
  <2>1. CASE gone = 0
    <3>1. Started(gone) = {}
      BY <2>1
    <3>2. Cardinality(Started(gone)) = 0
      BY <3>1, FS_EmptySet
    <3> HIDE DEF Started
    <3>. QED  BY <3>2
  <2>2. CASE gone # 0
    <3>1. gone - 1 \in 0..Len(q) /\ gone - 1 \in 0..(gone - 1) /\ gone \in 1..Len(q)
      BY <1>2, <2>2
    <3>2. n + Cardinality(Started(gone - 1)) < MaxConcurrentJobs
      BY <1>1, <3>1
    <3>3. Started(gone) = Started(gone - 1) \cup {q[gone]}
      <4>1. \A i \in Nat : i \in 1..gone <=> i \in 1..(gone - 1) \/ i = gone
        BY <1>2, <3>1
      <4>. QED  BY <1>2, <3>1, <4>1
    <3>4. Cardinality(Started(gone)) <= Cardinality(Started(gone - 1)) + 1
      <4>1. IsFiniteSet(Started(gone - 1)) /\ Cardinality(Started(gone - 1)) \in Nat
        BY <1>3, <3>1
      <4> HIDE DEF Started
      <4>2. Cardinality(Started(gone - 1) \cup {q[gone]})
              = IF q[gone] \in Started(gone - 1) THEN Cardinality(Started(gone - 1))
                ELSE Cardinality(Started(gone - 1)) + 1
        BY <4>1, FS_AddElement
      <4>. QED  BY <3>3, <4>1, <4>2
    <3>5. Cardinality(Started(gone)) \in Nat /\ Cardinality(Started(gone - 1)) \in Nat
      BY <1>3, <3>1
    <3> HIDE DEF Started
    <3>. QED  BY <3>2, <3>4, <3>5
  <2>. QED  BY <2>1, <2>2
<1>5. /\ IsFiniteSet(Started(gone)) /\ Cardinality(Started(gone)) \in Nat
      /\ Started(gone) \subseteq Agreements
      /\ \A a \in Agreements : a \in Started(gone) <=> \E i \in 1..gone : q[i] = a
      /\ \A a \in Started(gone) : j[a] = "queued"
  <2>1. IsFiniteSet(Started(gone)) /\ Cardinality(Started(gone)) \in Nat
    BY <1>3
  <2>2. \A i \in 1..gone : i \in 1..Len(q)
    BY <1>2
  <2>3. \A a \in Agreements : a \in Started(gone) <=> \E i \in 1..gone : q[i] = a
    BY <1>2, <2>2
  <2>. QED  BY <2>1, <2>3
<1>6. gone # Len(q) => n + Cardinality(Started(gone)) >= MaxConcurrentJobs
  BY <1>1, <1>2, <1>5
<1>7. /\ job' = [a \in Agreements |-> IF a \in Started(gone) THEN "running" ELSE j[a]]
      /\ queue' = SubSeq(q, gone + 1, Len(q))
      /\ runningCount' = n + Cardinality(Started(gone))
      /\ children' = c \cup Started(gone)
  BY <1>1
<1>. HIDE DEF Started, GoesOn
<1>8. Running' = RunningOf(j) \cup Started(gone) /\ RunningOf(j) \cap Started(gone) = {}
  BY <1>5, <1>7 DEF Running, RunningOf
<1>9. IsFiniteSet(Running)' /\ runningCount' = Cardinality(Running')
  <2>1. IsFiniteSet(RunningOf(j) \cup Started(gone))
        /\ Cardinality(RunningOf(j) \cup Started(gone))
             = Cardinality(RunningOf(j)) + Cardinality(Started(gone))
                 - Cardinality(RunningOf(j) \cap Started(gone))
    BY <1>5, FS_Union
  <2>2. Cardinality(RunningOf(j) \cap Started(gone)) = 0
    BY <1>8, FS_EmptySet
  <2>. QED  BY <1>5, <1>7, <1>8, <2>1, <2>2
<1>10. /\ queue' \in Seq(Agreements) /\ Len(queue') = Len(q) - gone
       /\ \A i \in 1..(Len(q) - gone) : queue'[i] = q[gone + i]
  BY <1>2, <1>7
<1>11. IsInjective(queue')
  <2>1. ASSUME NEW i \in 1..(Len(q) - gone), NEW k \in 1..(Len(q) - gone), queue'[i] = queue'[k]
        PROVE  i = k
    <3>1. gone + i \in DOMAIN q /\ gone + k \in DOMAIN q /\ q[gone + i] = q[gone + k]
      BY <1>2, <1>10, <2>1
    <3>2. gone + i = gone + k
      BY <3>1 DEF IsInjective
    <3>. QED  BY <1>2, <3>2
  <2>2. DOMAIN queue' = 1..(Len(q) - gone)
    BY <1>2, <1>10
  <2>. QED  BY <2>1, <2>2 DEF IsInjective
<1>12. Range(queue') = {a \in Agreements : job'[a] = "queued"}
  <2>1. ASSUME NEW a \in Agreements
        PROVE  (\E i \in 1..(Len(q) - gone) : queue'[i] = a) <=> job'[a] = "queued"
    <3>1. job'[a] = "queued" <=> j[a] = "queued" /\ a \notin Started(gone)
      BY <1>7
    <3>2. j[a] = "queued" <=> \E k \in 1..Len(q) : q[k] = a
      BY DEF Range, WaitingOf
    <3>3. a \in Started(gone) <=> \E k \in 1..gone : q[k] = a
      BY <1>5
    <3>4. ASSUME NEW i \in 1..(Len(q) - gone), queue'[i] = a
          PROVE  job'[a] = "queued"
      <4>1. gone + i \in 1..Len(q) /\ q[gone + i] = a /\ gone + i \notin 1..gone
        BY <1>2, <1>10, <3>4
      <4>2. \A k \in 1..gone : q[k] # a
        BY <1>2, <4>1 DEF IsInjective
      <4>. QED  BY <3>1, <3>2, <3>3, <4>1, <4>2
    <3>5. ASSUME job'[a] = "queued"
          PROVE  \E i \in 1..(Len(q) - gone) : queue'[i] = a
      <4>1. PICK k \in 1..Len(q) : q[k] = a
        BY <3>1, <3>2, <3>5
      <4>2. k \notin 1..gone
        BY <3>1, <3>3, <3>5, <4>1
      <4>3. k - gone \in 1..(Len(q) - gone) /\ gone + (k - gone) = k
        BY <1>2, <4>1, <4>2
      <4>4. queue'[k - gone] = a
        BY <1>10, <4>1, <4>3
      <4>. QED  BY <4>3, <4>4
    <3>. QED  BY <3>4, <3>5
  <2>2. DOMAIN queue' = 1..(Len(q) - gone) /\ \A i \in DOMAIN queue' : queue'[i] \in Agreements
    BY <1>2, <1>10
  <2>3. Range(queue') = {queue'[i] : i \in 1..(Len(q) - gone)}
    BY <2>2 DEF Range
  <2>4. \A i \in 1..(Len(q) - gone) : queue'[i] \in Agreements
    BY <2>2
  <2>. QED  BY <2>1, <2>3, <2>4
<1>13. queue' # <<>> => runningCount' = MaxConcurrentJobs
  <2>1. ASSUME queue' # <<>> PROVE gone # Len(q)
    <3>1. gone = Len(q) => Len(queue') = 0
      BY <1>2, <1>10
    <3>. QED  BY <1>10, <2>1, <3>1
  <2>. QED  BY <1>4, <1>5, <1>6, <1>7, <2>1
<1>14. WorkerTypeOK'
  <2>1. job' \in [Agreements -> WorkerStatus]
    BY <1>7 DEF WorkerStatus
  <2>2. runningCount' \in 0..MaxConcurrentJobs
    BY <1>4, <1>5, <1>7
  <2>. QED  BY <1>5, <1>7, <1>10, <2>1, <2>2 DEF WorkerTypeOK
<1>15. SlotsAccounted'
  BY <1>4, <1>7, <1>9, <1>11, <1>12, <1>13 DEF SlotsAccounted
<1>. QED  BY <1>9, <1>14, <1>15 DEF WorkerInv

LEMMA EnqueueInv ==
  ASSUME NEW a \in Agreements
  PROVE  WorkerInv /\ Enqueue(a) => WorkerInv'
<1> SUFFICES ASSUME WorkerInv, Enqueue(a), job[a] = "none" PROVE WorkerInv'
  BY DEF Enqueue, workerVars, WorkerInv, WorkerTypeOK, SlotsAccounted, Running
<1> USE ExecutorAssumption
<1> DEFINE j == [job EXCEPT ![a] = "queued"]
           q == Append(queue, a)
<1>1. DrainQueue(j, q, runningCount, children)
  BY DEF Enqueue
<1>2. job \in [Agreements -> WorkerStatus] /\ queue \in Seq(Agreements) /\ runningCount \in Nat
      /\ children \in SUBSET Agreements /\ runningCount = Cardinality(Running)
      /\ runningCount <= MaxConcurrentJobs /\ IsFiniteSet(Running) /\ IsInjective(queue)
      /\ Range(queue) = {b \in Agreements : job[b] = "queued"}
  BY DEF WorkerInv, WorkerTypeOK, SlotsAccounted
<1>3. j \in [Agreements -> WorkerStatus] /\ RunningOf(j) = Running
      /\ WaitingOf(j) = {b \in Agreements : job[b] = "queued"} \cup {a}
  BY <1>2 DEF WorkerStatus, RunningOf, Running, WaitingOf
<1>4. q \in Seq(Agreements) /\ Len(q) = Len(queue) + 1 /\ Len(queue) \in Nat
      /\ (\A i \in 1..Len(queue) : q[i] = queue[i]) /\ q[Len(queue) + 1] = a
  BY <1>2
<1>5. a \notin Range(queue)
  BY <1>2
<1>6. DOMAIN queue = 1..Len(queue) /\ DOMAIN q = 1..(Len(queue) + 1)
  BY <1>2, <1>4
<1>7. IsInjective(q)
  <2>1. \A i \in 1..Len(queue) : queue[i] # a
    BY <1>5, <1>6 DEF Range
  <2>2. \A i, k \in 1..Len(queue) : queue[i] = queue[k] => i = k
    BY <1>2, <1>6 DEF IsInjective
  <2>3. \A i \in 1..(Len(queue) + 1) : i \in 1..Len(queue) \/ i = Len(queue) + 1
    BY <1>4
  <2> HIDE DEF q
  <2>. QED  BY <1>4, <1>6, <2>1, <2>2, <2>3 DEF IsInjective
<1>8. Range(q) = WaitingOf(j)
  <2>1. Range(q) = Range(queue) \cup {a}
    <3>1. \A i \in 1..(Len(queue) + 1) : i \in 1..Len(queue) \/ i = Len(queue) + 1
      BY <1>4
    <3>2. \A i \in 1..Len(queue) : i \in 1..(Len(queue) + 1)
      BY <1>4
    <3>3. Len(queue) + 1 \in 1..(Len(queue) + 1)
      BY <1>4
    <3> HIDE DEF q
    <3>. QED  BY <1>4, <1>6, <3>1, <3>2, <3>3 DEF Range
  <2>. QED  BY <1>2, <1>3, <2>1
<1> HIDE DEF j, q
<1>. QED  BY <1>1, <1>2, <1>3, <1>4, <1>7, <1>8, DrainQueueInv

LEMMA EndJobInv ==
  ASSUME NEW a \in Agreements, NEW s \in Ended, NEW c \in SUBSET Agreements
  PROVE  WorkerInv /\ EndJob(a, s, c) => WorkerInv'
<1> SUFFICES ASSUME WorkerInv, EndJob(a, s, c) PROVE WorkerInv'
  OBVIOUS
<1> USE ExecutorAssumption
<1> DEFINE j == [job EXCEPT ![a] = s]
<1>1. DrainQueue(j, queue, runningCount - 1, c) /\ job[a] = "running"
  BY DEF EndJob
<1>2. job \in [Agreements -> WorkerStatus] /\ queue \in Seq(Agreements) /\ runningCount \in Nat
      /\ runningCount = Cardinality(Running)
      /\ runningCount <= MaxConcurrentJobs /\ IsFiniteSet(Running) /\ IsInjective(queue)
      /\ Range(queue) = {b \in Agreements : job[b] = "queued"}
  BY DEF WorkerInv, WorkerTypeOK, SlotsAccounted
<1>3. j \in [Agreements -> WorkerStatus] /\ RunningOf(j) = Running \ {a} /\ a \in Running
      /\ WaitingOf(j) = {b \in Agreements : job[b] = "queued"}
  BY <1>1, <1>2 DEF WorkerStatus, Ended, RunningOf, Running, WaitingOf
<1>4. IsFiniteSet(RunningOf(j)) /\ Cardinality(RunningOf(j)) = runningCount - 1
      /\ Cardinality(RunningOf(j)) \in Nat
  <2>1. IsFiniteSet(Running \ {a}) /\ Cardinality(Running \ {a}) = Cardinality(Running) - 1
    BY <1>2, <1>3, FS_RemoveElement
  <2>2. Cardinality(Running \ {a}) \in Nat
    BY <2>1, FS_CardinalityType
  <2> HIDE DEF j
  <2>. QED  BY <1>2, <1>3, <2>1, <2>2
<1>5. runningCount - 1 \in Nat /\ runningCount - 1 <= MaxConcurrentJobs
  BY <1>2, <1>4
<1> HIDE DEF j
<1>6. Range(queue) = WaitingOf(j) /\ runningCount - 1 = Cardinality(RunningOf(j))
  BY <1>2, <1>3, <1>4
<1>. QED  BY <1>1, <1>2, <1>3, <1>4, <1>5, <1>6, DrainQueueInv

LEMMA CancelInv ==
  ASSUME NEW a \in Agreements
  PROVE  WorkerInv /\ Cancel(a) => WorkerInv'
<1> SUFFICES ASSUME WorkerInv, Cancel(a) PROVE WorkerInv'
  OBVIOUS
<1> USE ExecutorAssumption
<1> DEFINE others == {i \in DOMAIN queue : queue[i] # a}
           n == Cardinality(others)
<1>1. PICK place \in [1..n -> others] :
        /\ Range(place) = others
        /\ \A i, k \in DOMAIN place : i < k => place[i] < place[k]
        /\ queue' = [k \in DOMAIN place |-> queue[place[k]]]
  BY DEF Cancel
<1>2. job \in [Agreements -> WorkerStatus] /\ queue \in Seq(Agreements) /\ IsInjective(queue)
      /\ Range(queue) = {b \in Agreements : job[b] = "queued"}
  BY DEF WorkerInv, WorkerTypeOK, SlotsAccounted
<1>3. job[a] = "queued" /\ job' = [job EXCEPT ![a] = "failed"] /\ UNCHANGED <<runningCount, children>>
  BY DEF Cancel
<1>4. n \in Nat
  <2>1. IsFiniteSet(DOMAIN queue)
    BY <1>2, FS_Interval
  <2>2. IsFiniteSet(others)
    BY <2>1, FS_Subset
  <2>. QED  BY <2>2, FS_CardinalityType
<1>5. \A k \in 1..n : place[k] \in DOMAIN queue /\ queue[place[k]] \in Agreements /\ queue[place[k]] # a
  BY <1>2
<1> HIDE DEF n
<1>6. queue' \in Seq(Agreements) /\ DOMAIN queue' = 1..n
      /\ \A k \in 1..n : queue'[k] = queue[place[k]]
  BY <1>1, <1>4, <1>5
<1>7. IsInjective(queue')
  <2>1. ASSUME NEW i \in 1..n, NEW k \in 1..n, queue'[i] = queue'[k]
        PROVE  i = k
    <3>1. place[i] = place[k]
      BY <1>2, <1>5, <1>6, <2>1 DEF IsInjective
    <3>2. place[i] \in Int /\ i \in Int /\ k \in Int
      BY <1>2, <1>4, <1>5
    <3>. QED  BY <1>1, <3>1, <3>2
  <2>. QED  BY <1>6, <2>1 DEF IsInjective
<1>8. Range(queue') = Range(queue) \ {a}
  <2>1. ASSUME NEW i \in DOMAIN queue, queue[i] # a
        PROVE  \E k \in 1..n : queue'[k] = queue[i]
    <3>1. i \in Range(place)
      BY <1>1, <2>1
    <3>2. PICK k \in 1..n : place[k] = i
      BY <3>1 DEF Range
    <3>. QED  BY <1>6, <3>2
  <2>2. \A k \in 1..n : queue'[k] # a /\ \E i \in DOMAIN queue : queue'[k] = queue[i]
    BY <1>5, <1>6
  <2>3. Range(queue') \subseteq Range(queue) \ {a}
    BY <1>6, <2>2 DEF Range
  <2>4. Range(queue) \ {a} \subseteq Range(queue')
    BY <1>6, <2>1 DEF Range
  <2>. QED  BY <2>3, <2>4
<1>9. Running' = Running /\ Range(queue') = {b \in Agreements : job'[b] = "queued"}
  BY <1>2, <1>3, <1>8 DEF Running
<1>10. queue # <<>>
  <2>1. a \in Range(queue)
    BY <1>2, <1>3
  <2>. QED  BY <2>1 DEF Range
<1>11. WorkerTypeOK'
  BY <1>2, <1>3, <1>6 DEF WorkerInv, WorkerTypeOK, WorkerStatus, Ended
<1>12. SlotsAccounted'
  BY <1>3, <1>7, <1>9, <1>10 DEF WorkerInv, SlotsAccounted
<1>. QED  BY <1>9, <1>11, <1>12 DEF WorkerInv

LEMMA WorkerStepInv == WorkerInv /\ [WorkerNext]_workerVars => WorkerInv'
<1> SUFFICES ASSUME WorkerInv, [WorkerNext]_workerVars PROVE WorkerInv'
  OBVIOUS
<1>1. ASSUME NEW a \in Agreements, AgentSucceeds(a) \/ AgentFails(a) \/ JobTimeout(a)
      PROVE  WorkerInv'
  <2>1. children \in SUBSET Agreements /\ children \ {a} \in SUBSET Agreements
    BY DEF WorkerInv, WorkerTypeOK
  <2>2. "completed" \in Ended /\ "failed" \in Ended
    BY DEF Ended
  <2>. QED  BY <1>1, <2>1, <2>2, EndJobInv DEF AgentSucceeds, AgentFails, JobTimeout
<1>2. ASSUME NEW a \in Agreements, Enqueue(a) \/ Cancel(a)
      PROVE  WorkerInv'
  BY <1>2, EnqueueInv, CancelInv
<1>3. ASSUME NEW a \in Agreements, ChildCloses(a)
      PROVE  WorkerInv'
  BY <1>3 DEF ChildCloses, WorkerInv, WorkerTypeOK, SlotsAccounted, Running
<1>4. CASE UNCHANGED workerVars
  BY <1>4 DEF workerVars, WorkerInv, WorkerTypeOK, SlotsAccounted, Running
<1>. QED  BY <1>1, <1>2, <1>3, <1>4 DEF WorkerNext

LEMMA WorkerInvHolds == WorkerSpec => []WorkerInv
  BY WorkerInitInv, WorkerStepInv, PTL DEF WorkerSpec

(* However jobs end, are cancelled or asked for again: the counter is the    *)
(* number of running jobs, the queue holds each waiting job once, and no job *)
(* waits while a slot is free.                                               *)
THEOREM SlotsAreAccounted == WorkerSpec => [](WorkerTypeOK /\ SlotsAccounted)
  BY WorkerInvHolds, PTL DEF WorkerInv

EndedStay == \A a \in Agreements : job[a] \in Ended => job'[a] = job[a]

(* drainQueue starts only what is waiting in the records it is given.        *)
LEMMA DrainQueueKeeps ==
  ASSUME NEW j, NEW q, NEW n, NEW c, DrainQueue(j, q, n, c)
  PROVE  \A a \in Agreements : j[a] # "queued" => job'[a] = j[a]
  BY DEF DrainQueue

LEMMA StepEndedStay == WorkerInv /\ [WorkerNext]_workerVars => [EndedStay]_workerVars
<1> SUFFICES ASSUME WorkerInv, WorkerNext, NEW e \in Agreements, job[e] \in Ended
             PROVE  job'[e] = job[e]
  BY DEF EndedStay
<1> USE DEF Ended
<1>1. job \in [Agreements -> WorkerStatus]
  BY DEF WorkerInv, WorkerTypeOK
<1>2. ASSUME NEW a \in Agreements, NEW s, NEW c, EndJob(a, s, c)
      PROVE  job'[e] = job[e]
  <2>1. [job EXCEPT ![a] = s][e] = job[e]
    BY <1>1, <1>2 DEF EndJob
  <2>2. DrainQueue([job EXCEPT ![a] = s], queue, runningCount - 1, c)
    BY <1>2 DEF EndJob
  <2>3. \A b \in Agreements : [job EXCEPT ![a] = s][b] # "queued" => job'[b] = [job EXCEPT ![a] = s][b]
    BY <2>2, DrainQueueKeeps
  <2>. QED  BY <2>1, <2>3
<1>3. ASSUME NEW a \in Agreements, Enqueue(a)
      PROVE  job'[e] = job[e]
  <2>1. CASE job[a] # "none"
    BY <1>3, <2>1 DEF Enqueue, workerVars
  <2>2. CASE job[a] = "none"
    <3>1. [job EXCEPT ![a] = "queued"][e] = job[e]
      BY <1>1, <2>2
    <3>2. DrainQueue([job EXCEPT ![a] = "queued"], Append(queue, a), runningCount, children)
      BY <1>3, <2>2 DEF Enqueue
    <3>3. \A b \in Agreements : [job EXCEPT ![a] = "queued"][b] # "queued"
                                  => job'[b] = [job EXCEPT ![a] = "queued"][b]
      BY <3>2, DrainQueueKeeps
    <3>. QED  BY <3>1, <3>3
  <2>. QED  BY <2>1, <2>2
<1>4. ASSUME NEW a \in Agreements, Cancel(a) \/ ChildCloses(a)
      PROVE  job'[e] = job[e]
  BY <1>1, <1>4 DEF Cancel, ChildCloses
<1>. QED  BY <1>2, <1>3, <1>4 DEF WorkerNext, AgentSucceeds, AgentFails, JobTimeout

(* A job that has ended never runs again, however often its agreement is    *)
(* enqueued.                                                                *)
THEOREM JobsEndOnce == WorkerSpec => EndedStaysEnded
<1>1. WorkerSpec => [][EndedStay]_workerVars
  BY WorkerInvHolds, StepEndedStay, PTL DEF WorkerSpec
<1>2. [][EndedStay]_workerVars => EndedStaysEnded
  BY PTL DEF EndedStaysEnded, EndedStay
<1>. QED  BY <1>1, <1>2, PTL

-----------------------------------------------------------------------------
(* The executor, as far as the daemon knows it: the status of a job.         *)
Moves(b) == job'[b] = job[b] \/ (job[b] = "queued" /\ job'[b] = "running")

LEMMA DrainQueueMoves ==
  ASSUME NEW j \in [Agreements -> WorkerStatus], NEW q, NEW n, NEW c,
         DrainQueue(j, q, n, c)
  PROVE  /\ job' \in [Agreements -> WorkerStatus]
         /\ \A b \in Agreements : job'[b] = j[b] \/ (j[b] = "queued" /\ job'[b] = "running")
<1>1. PICK S : /\ \A b \in S : j[b] = "queued"
               /\ job' = [b \in Agreements |-> IF b \in S THEN "running" ELSE j[b]]
  BY DEF DrainQueue
<1>. QED  BY <1>1 DEF WorkerStatus

LEMMA EnqueueMoves ==
  ASSUME TableInv, NEW a \in Agreements, Enqueue(a)
  PROVE  /\ job' \in [Agreements -> WorkerStatus]
         /\ \A b \in Agreements : b # a => Moves(b)
         /\ job[a] # "none" => job'[a] = job[a]
         /\ job[a] = "none" => job'[a] \in {"queued", "running"}
<1> DEFINE j == [job EXCEPT ![a] = "queued"]
<1>1. job \in [Agreements -> WorkerStatus]
  BY DEF TableInv
<1>2. CASE job[a] # "none"
  BY <1>1, <1>2 DEF Enqueue, workerVars, Moves
<1>3. CASE job[a] = "none"
  <2>1. DrainQueue(j, Append(queue, a), runningCount, children)
    BY <1>3 DEF Enqueue
  <2>2. j \in [Agreements -> WorkerStatus]
    BY <1>1 DEF WorkerStatus
  <2>3. j[a] = "queued" /\ \A b \in Agreements : b # a => j[b] = job[b]
    BY <1>1
  <2>. HIDE DEF j
  <2>4. /\ job' \in [Agreements -> WorkerStatus]
        /\ \A b \in Agreements : job'[b] = j[b] \/ (j[b] = "queued" /\ job'[b] = "running")
    BY <2>1, <2>2, DrainQueueMoves
  <2>. QED  BY <1>3, <2>3, <2>4 DEF Moves
<1>. QED  BY <1>2, <1>3

LEMMA EndJobMoves ==
  ASSUME TableInv, NEW a \in Agreements, NEW s \in {"completed", "failed"}, NEW c,
         EndJob(a, s, c)
  PROVE  /\ job' \in [Agreements -> WorkerStatus]
         /\ \A b \in Agreements : b # a => Moves(b)
         /\ job[a] = "running" /\ job'[a] = s
<1> DEFINE j == [job EXCEPT ![a] = s]
<1>1. job \in [Agreements -> WorkerStatus] /\ job[a] = "running"
  BY DEF TableInv, EndJob
<1>2. DrainQueue(j, queue, runningCount - 1, c)
  BY DEF EndJob
<1>3. j \in [Agreements -> WorkerStatus]
  BY <1>1 DEF WorkerStatus, Ended
<1>4. j[a] = s /\ \A b \in Agreements : b # a => j[b] = job[b]
  BY <1>1
<1>. HIDE DEF j
<1>5. /\ job' \in [Agreements -> WorkerStatus]
      /\ \A b \in Agreements : job'[b] = j[b] \/ (j[b] = "queued" /\ job'[b] = "running")
  BY <1>2, <1>3, DrainQueueMoves
<1>. QED  BY <1>1, <1>4, <1>5 DEF Moves

(* A job ends as completed or failed.                                       *)
LEMMA CallbackEnds ==
  ASSUME NEW a, JobCompleted(a) \/ JobFailed(a)
  PROVE  \E e \in {"completed", "failed"}, s \in {"delivered", "rejected"} : \E c :
           /\ EndJob(a, e, c) /\ Release(a) /\ SetStatus(LatestOf(a), s)
           /\ fulfilling' \subseteq fulfilling \cup {LatestOf(a)}
           /\ UNCHANGED <<posted, lastSeen, poll, deciding, arriving, contradicted, crashes>>
<1>1. CASE JobCompleted(a)
  <2>1. /\ EndJob(a, "completed", children \ {a}) /\ Release(a)
        /\ SetStatus(LatestOf(a), "delivered") /\ fulfilling' = fulfilling \cup {LatestOf(a)}
        /\ UNCHANGED <<posted, lastSeen, poll, deciding, arriving, contradicted, crashes>>
    BY <1>1 DEF JobCompleted, AgentSucceeds, http, listener
  <2>. QED  BY <2>1
<1>2. CASE JobFailed(a)
  <2>1. \E c : EndJob(a, "failed", c)
    BY <1>2 DEF JobFailed, AgentFails, JobTimeout
  <2>2. /\ Release(a) /\ SetStatus(LatestOf(a), "rejected") /\ fulfilling' = fulfilling
        /\ UNCHANGED <<posted, lastSeen, poll, deciding, arriving, contradicted, crashes>>
    BY <1>2 DEF JobFailed, http, listener
  <2>. QED  BY <2>1, <2>2
<1>. QED  BY <1>1, <1>2

-----------------------------------------------------------------------------
(* The table. *)
LEMMA AgreementTypes ==
  /\ AgreementOf \in [Hires -> Agreements] /\ RelayLog \in Seq(Hires)
  /\ Len(RelayLog) \in Nat /\ \A i \in 1..Len(RelayLog) : RelayLog[i] \in Hires
  /\ MaxCrashes \in Nat
  BY DaemonAssumption

LEMMA PollTypes ==
  ASSUME TableInv, NEW p \in Polls
  PROVE  /\ poll \in [Polls -> PollState] /\ poll[p] \in PollState
         /\ poll[p].at \in 0..Len(RelayLog) /\ poll[p].upto \in 0..Len(RelayLog)
         /\ posted \in 0..Len(RelayLog) /\ lastSeen \in 0..posted /\ poll[p].upto <= posted
         /\ poll[p].pc = "approving" => poll[p].at # 0
  BY DEF TableInv, PollState

(* The message a poll waits for the approval of is a request.               *)
LEMMA ApprovingIsHire ==
  ASSUME TableInv, NEW p \in Polls, poll[p].pc = "approving"
  PROVE  \E h \in Hires : h = RelayLog[poll[p].at] /\ Approving(p, h) /\ Waits(h)
<1>1. poll[p].at \in 1..Len(RelayLog)
  BY PollTypes, AgreementTypes
<1>. QED  BY <1>1, AgreementTypes DEF Approving, Waits

(* The first and the last of some rows are among them.                      *)
LEMMA FirstAndLast ==
  ASSUME rows \in Seq(Hires), NEW S \in SUBSET (DOMAIN rows), S # {}
  PROVE  Max(S) \in S /\ Min(S) \in S
<1>1. Len(rows) \in Nat /\ DOMAIN rows = 1..Len(rows)
  OBVIOUS
<1>2. S \in SUBSET Nat /\ S \in SUBSET Int /\ IsFiniteSet(S)
  <2>1. IsFiniteSet(DOMAIN rows)
    BY <1>1, FS_Interval
  <2>. QED  BY <1>1, <2>1, FS_Subset
<1>. QED  BY <1>2, MaxIsLargest, MinIsSmallest

(* A callback of a job finds a request of its agreement.                    *)
LEMMA LatestIsOf ==
  ASSUME TableInv, NEW a \in Agreements, job[a] # "none"
  PROVE  LatestOf(a) \in Known /\ AgreementOf[LatestOf(a)] = a
<1>1. PICK h \in Known : AgreementOf[h] = a
  BY DEF TableInv
<1>2. PICK i \in DOMAIN rows : rows[i] = h
  BY <1>1 DEF TableInv, Range
<1>3. i \in RowsOf(a) /\ RowsOf(a) \in SUBSET (DOMAIN rows)
  BY <1>1, <1>2 DEF RowsOf
<1>4. Max(RowsOf(a)) \in RowsOf(a)
  BY <1>3, FirstAndLast DEF TableInv
<1>5. rows[Max(RowsOf(a))] \in Range(rows) /\ AgreementOf[rows[Max(RowsOf(a))]] = a
  BY <1>4 DEF RowsOf, Range
<1>. QED  BY <1>5 DEF LatestOf, TableInv

(* What a delivery finds is an active request.                              *)
LEMMA FirstActiveIs ==
  ASSUME TableInv, NEW a \in Agreements, ActiveRowsOf(a) # {}
  PROVE  rows[Min(ActiveRowsOf(a))] \in Known
<1>1. ActiveRowsOf(a) \in SUBSET (DOMAIN rows) /\ rows \in Seq(Hires)
  BY DEF ActiveRowsOf, RowsOf, TableInv
<1>2. Min(ActiveRowsOf(a)) \in DOMAIN rows
  BY <1>1, FirstAndLast
<1>. QED  BY <1>2 DEF TableInv, Range

LEMMA TableInitial == Init => TableInv
<1> SUFFICES ASSUME Init PROVE TableInv
  OBVIOUS
<1> USE DEF Init
<1>1. \A p \in Polls : poll[p].pc = "idle" /\ poll[p].upto = 0
  BY DEF Idle
<1>2. poll \in [Polls -> PollState]
  BY AgreementTypes DEF Idle, PollState
<1>3. \A h \in Hires : ~Waits(h)
  BY <1>1 DEF Waits, Approving
<1>4. IsInjective(rows) /\ Range(rows) = {} /\ Known = {}
  BY DEF IsInjective, Range, Known
<1>5. HandlersInv
  BY DaemonAssumption DEF HandlersInv
<1>. QED
  BY <1>1, <1>2, <1>3, <1>4, <1>5, AgreementTypes
  DEF TableInv, HireStatus, LockStatus, WorkerInit, WorkerStatus

(* What a step that adds no row does to the handlers of POST /hire.         *)
HandlersStep == HandlersInv' /\ \A h \in Hires : arriving'[h] > 0 => h \in Known

LEMMA HandlersStay ==
  ASSUME TableInv, UNCHANGED <<deciding, arriving, contradicted>>
  PROVE  HandlersStep
  BY DEF TableInv, HandlersInv, HandlersStep, Waits

(* A step that adds no row, and makes no job but for a request in the table. *)
LEMMA TableStep ==
  ASSUME TableInv, rows' = rows, status' \in [Hires -> HireStatus], Known' = Known,
         HandlersStep, fulfilling' \subseteq Known, posted' \in posted..Len(RelayLog), lastSeen' \in 0..posted', poll' \in [Polls -> PollState],
         \A p \in Polls : /\ poll'[p].upto <= posted'
                          /\ poll'[p].pc = "approving" =>
                               poll[p].pc = "approving" /\ poll'[p].at = poll[p].at,
         lock' \in [Agreements -> LockStatus], job' \in [Agreements -> WorkerStatus],
         \A a \in Agreements : job'[a] # "none" =>
           job[a] # "none" \/ \E h \in Known : AgreementOf[h] = a,
         crashes' \in 0..MaxCrashes
  PROVE  TableInv'
<1>1. \A p \in Polls, h \in Hires : Approving(p, h)' => Approving(p, h)
  BY DEF Approving
<1>2. \A h \in Hires : Waits(h)' => Waits(h) \/ arriving'[h] > 0
  BY <1>1 DEF Waits
<1>3. \A h \in Hires : Waits(h)' => h \in Known'
  BY <1>2 DEF TableInv, HandlersStep
<1>4. posted' \in 0..Len(RelayLog)
  BY AgreementTypes DEF TableInv
<1>5. \A p \in Polls : poll'[p].upto <= posted' /\ (poll'[p].pc = "approving" => poll'[p].at # 0)
  BY DEF TableInv
<1>6. \A a \in Agreements : job'[a] # "none" => \E h \in Known' : AgreementOf[h] = a
  BY DEF TableInv
<1>7. HandlersInv' /\ fulfilling' \subseteq Known'
  BY DEF TableInv, HandlersStep
<1>8. rows' \in Seq(Hires) /\ IsInjective(rows') /\ Range(rows') = Known'
  BY DEF TableInv
<1>. QED  BY <1>3, <1>4, <1>5, <1>6, <1>7, <1>8 DEF TableInv

(* A step that takes up a request.                                          *)
LEMMA TableInsert ==
  ASSUME TableInv, NEW h \in Hires, status[h] = "none", NEW s \in {"accepted", "rejected", "pending_approval"},
         Insert(h, s), HandlersInv', \A o \in Hires : o # h /\ arriving'[o] > 0 => arriving[o] > 0,
         UNCHANGED <<posted, fulfilling, lock, job, crashes>>,
         lastSeen' \in 0..posted, poll' \in [Polls -> PollState],
         \A p \in Polls : /\ poll'[p].upto <= posted
                          /\ poll'[p].pc = "approving" =>
                               poll'[p].at # 0 /\ \A o \in Hires : Approving(p, o)' => Approving(p, o) \/ o = h
  PROVE  TableInv'
<1>1. /\ rows' = Append(rows, h) /\ status' = [status EXCEPT ![h] = s]
      /\ rows \in Seq(Hires) /\ status \in [Hires -> HireStatus]
      /\ Range(rows) = Known /\ IsInjective(rows) /\ h \notin Known
  BY DEF Insert, TableInv, Known
<1>2. status' \in [Hires -> HireStatus] /\ Known' = Known \cup {h}
  BY <1>1 DEF HireStatus, Known
<1>3. /\ rows' \in Seq(Hires) /\ DOMAIN rows' = 1..(Len(rows) + 1) /\ DOMAIN rows = 1..Len(rows)
      /\ Len(rows) \in Nat
      /\ rows'[Len(rows) + 1] = h /\ \A i \in 1..Len(rows) : rows'[i] = rows[i]
  BY <1>1
<1>4. \A i \in 1..(Len(rows) + 1) : i \in 1..Len(rows) \/ i = Len(rows) + 1
  BY <1>3
<1>5. \A i \in 1..Len(rows) : rows[i] # h /\ i \in 1..(Len(rows) + 1)
  BY <1>1, <1>3 DEF Range
<1>6. \A i, k \in 1..Len(rows) : rows[i] = rows[k] => i = k
  BY <1>1, <1>3 DEF IsInjective
<1>7. IsInjective(rows')
  <2>1. ASSUME NEW i \in 1..(Len(rows) + 1), NEW k \in 1..(Len(rows) + 1), rows'[i] = rows'[k]
        PROVE  i = k
    BY <1>3, <1>4, <1>5, <1>6, <2>1
  <2>. QED  BY <1>3, <2>1 DEF IsInjective
<1>8. Range(rows') = Known'
  <2>1. Range(rows') \subseteq Range(rows) \cup {h}
    BY <1>3, <1>4 DEF Range
  <2>2. Range(rows) \subseteq Range(rows')
    BY <1>3, <1>5 DEF Range
  <2>3. h \in Range(rows')
    <3>1. Len(rows) + 1 \in DOMAIN rows'
      BY <1>3
    <3>. QED  BY <1>3, <3>1 DEF Range
  <2>. QED  BY <1>1, <1>2, <2>1, <2>2, <2>3
<1>9. \A p \in Polls, o \in Hires : Approving(p, o)' => Approving(p, o) \/ o = h
  BY DEF Approving
<1>10. \A o \in Hires : Waits(o)' => Waits(o) \/ o = h
  BY <1>9 DEF Waits
<1>11. \A o \in Hires : Waits(o)' => o \in Known'
  BY <1>2, <1>10 DEF TableInv
<1>12. /\ HandlersInv' /\ fulfilling' \subseteq Known'
       /\ \A a \in Agreements : job'[a] # "none" => \E o \in Known' : AgreementOf[o] = a
  BY <1>2 DEF TableInv
<1>. QED  BY <1>2, <1>3, <1>7, <1>8, <1>11, <1>12 DEF TableInv

(* A step that lets no handler accept a request and touches neither a       *)
(* status, a lock nor a job.                                                *)
Quiet ==
  /\ UNCHANGED <<status, arriving, contradicted, lock, job>>
  /\ \A p \in Polls, h \in Hires : Approving(p, h)' => Approving(p, h)

LEMMA RelayReceivesTable ==
  ASSUME TableInv, RelayReceives
  PROVE  TableInv' /\ Quiet
<1>1. /\ posted' \in posted..Len(RelayLog) /\ lastSeen' \in 0..posted'
      /\ \A p \in Polls : poll[p].upto <= posted'
  BY AgreementTypes, PollTypes DEF TableInv, RelayReceives
<1>2. UNCHANGED <<rows, status, deciding, arriving, contradicted, fulfilling, lock, job, lastSeen, poll, crashes>>
  BY DEF RelayReceives, http, database, workerVars
<1>3. TableInv'
  BY <1>1, <1>2, HandlersStay, TableStep DEF TableInv, Known
<1>. QED  BY <1>2, <1>3 DEF Quiet, Approving

(* The steps of a poll on its position, and those that end it.               *)
LEMMA PollTable ==
  ASSUME TableInv, NEW p \in Polls,
         PollStart(p) \/ PollAnswered(p) \/ PollFails(p) \/ PollEnds(p) \/ ApprovedThrows(p)
  PROVE  TableInv' /\ Quiet
<1>1. PICK new \in PollState :
        poll' = [poll EXCEPT ![p] = new] /\ new.pc # "approving" /\ new.upto <= posted
  <2>1. CASE PollStart(p)
    <3> DEFINE new == [pc |-> "fetching", at |-> lastSeen, upto |-> lastSeen]
    <3>1. lastSeen \in 0..Len(RelayLog) /\ lastSeen <= posted
      BY PollTypes, AgreementTypes
    <3>2. new \in PollState /\ new.pc # "approving" /\ new.upto <= posted
      BY <3>1 DEF PollState
    <3>. QED  BY <2>1, <3>2 DEF PollStart
  <2>2. CASE PollAnswered(p)
    <3> DEFINE new == [[poll[p] EXCEPT !.pc = "handling"] EXCEPT !.upto = posted]
    <3>1. poll' = [poll EXCEPT ![p] = new]
      BY <2>2, PollTypes DEF PollAnswered
    <3>2. posted \in 0..Len(RelayLog) /\ posted <= posted
      BY PollTypes, AgreementTypes
    <3>3. new \in PollState /\ new.pc # "approving" /\ new.upto <= posted
      BY <3>2, PollTypes DEF PollState
    <3>. QED  BY <3>1, <3>3
  <2>3. CASE PollFails(p) \/ PollEnds(p) \/ ApprovedThrows(p)
    <3>1. Idle \in PollState /\ Idle.pc # "approving" /\ Idle.upto <= posted
      BY PollTypes, AgreementTypes DEF Idle, PollState
    <3>. QED  BY <2>3, <3>1 DEF PollFails, PollEnds, ApprovedThrows
  <2>. QED  BY <2>1, <2>2, <2>3
<1>2. UNCHANGED <<rows, status, deciding, arriving, contradicted, fulfilling, lock, job, posted, lastSeen, crashes>>
  BY DEF PollStart, PollAnswered, PollFails, PollEnds, ApprovedThrows, http, database, workerVars
<1>3. /\ poll' \in [Polls -> PollState] /\ poll'[p] = new
      /\ \A o \in Polls : o # p => poll'[o] = poll[o]
  BY <1>1, PollTypes
<1>4. \A o \in Polls : poll'[o].pc = "approving" => poll'[o] = poll[o]
  BY <1>1, <1>3
<1>5. Quiet
  BY <1>2, <1>4 DEF Quiet, Approving
<1>6. \A o \in Polls : poll'[o].upto <= posted'
  BY <1>1, <1>2, <1>3, PollTypes
<1>7. posted' \in posted..Len(RelayLog) /\ lastSeen' \in 0..posted'
  BY <1>2, AgreementTypes, PollTypes
<1>8. TableInv'
  BY <1>2, <1>3, <1>4, <1>6, <1>7, HandlersStay, TableStep DEF TableInv, Known
<1>. QED  BY <1>5, <1>8

(* What a round of the loop of poll does, whichever message it is at.        *)
LEMMA MessageTaken ==
  ASSUME TableInv, NEW p \in Polls, NEW acceptable \in BOOLEAN, HandleMessage(p, acceptable)
  PROVE  \E h \in Hires :
           /\ h = RelayLog[poll[p].at + 1] /\ poll[p].at + 1 \in 1..poll[p].upto
           /\ lastSeen' = poll[p].at + 1 /\ poll' \in [Polls -> PollState]
           /\ poll'[p].at = poll[p].at + 1 /\ poll'[p].upto = poll[p].upto
           /\ \A o \in Polls : o # p => poll'[o] = poll[o]
           /\ UNCHANGED <<posted, deciding, arriving, contradicted, fulfilling, lock, job, crashes>>
           /\ \/ status[h] # "none" /\ rows' = rows /\ status' = status /\ poll'[p].pc = "handling"
              \/ /\ status[h] = "none" /\ Insert(h, Decide(h, acceptable))
                 /\ poll'[p].pc = IF Decide(h, acceptable) = "accepted" THEN "approving" ELSE "handling"
<1> DEFINE next == poll[p].at + 1
           h == RelayLog[next]
           s == Decide(h, acceptable)
<1>1. /\ poll \in [Polls -> PollState] /\ poll[p] \in PollState /\ poll[p].pc = "handling"
      /\ next \in 1..poll[p].upto /\ next \in 1..Len(RelayLog) /\ lastSeen' = next
      /\ UNCHANGED <<posted, deciding, arriving, contradicted, fulfilling, lock, job, crashes>>
  <2>1. poll[p].at \in 0..Len(RelayLog) /\ poll[p].upto \in 0..Len(RelayLog) /\ next <= poll[p].upto
    BY PollTypes DEF HandleMessage
  <2>2. Len(RelayLog) \in Nat
    BY AgreementTypes
  <2>3. next \in 1..poll[p].upto /\ next \in 1..Len(RelayLog)
    BY <2>1, <2>2
  <2>. QED  BY <2>3, PollTypes DEF HandleMessage, http, workerVars
<1>2. h \in Hires /\ next \in 0..Len(RelayLog)
  BY <1>1, AgreementTypes
<1>3. CASE status[h] # "none"
  <2> DEFINE new == [poll[p] EXCEPT !.at = next]
  <2>1. poll' = [poll EXCEPT ![p] = new] /\ UNCHANGED <<rows, status>>
    BY <1>1, <1>3 DEF HandleMessage, database
  <2>2. new \in PollState /\ new.pc = "handling" /\ new.at = next /\ new.upto = poll[p].upto
    BY <1>1, <1>2 DEF PollState
  <2>. HIDE DEF new
  <2>3. /\ poll' \in [Polls -> PollState] /\ poll'[p] = new
        /\ \A o \in Polls : o # p => poll'[o] = poll[o]
    BY <1>1, <2>1, <2>2
  <2>. QED  BY <1>1, <1>2, <1>3, <2>1, <2>2, <2>3
<1>4. CASE status[h] = "none"
  <2> DEFINE pc == IF s = "accepted" THEN "approving" ELSE "handling"
             new == [[poll[p] EXCEPT !.at = next] EXCEPT !.pc = pc]
  <2>1. poll' = [poll EXCEPT ![p] = new] /\ Insert(h, s)
    BY <1>1, <1>4 DEF HandleMessage
  <2>2. new \in PollState /\ new.at = next /\ new.pc = pc /\ new.upto = poll[p].upto
    BY <1>1, <1>2 DEF PollState
  <2>. HIDE DEF new
  <2>3. /\ poll' \in [Polls -> PollState] /\ poll'[p] = new
        /\ \A o \in Polls : o # p => poll'[o] = poll[o]
    BY <1>1, <2>1, <2>2
  <2>. QED  BY <1>1, <1>2, <1>4, <2>1, <2>2, <2>3
<1>. QED  BY <1>3, <1>4

LEMMA DecideTypes ==
  ASSUME NEW h, NEW acceptable
  PROVE  Decide(h, acceptable) \in {"accepted", "rejected", "pending_approval"}
  BY DEF Decide

LEMMA HandleMessageTable ==
  ASSUME TableInv, NEW p \in Polls, NEW acceptable \in BOOLEAN, HandleMessage(p, acceptable)
  PROVE  TableInv'
<1>1. PICK h \in Hires :
        /\ h = RelayLog[poll[p].at + 1] /\ poll[p].at + 1 \in 1..poll[p].upto
        /\ lastSeen' = poll[p].at + 1 /\ poll' \in [Polls -> PollState]
        /\ poll'[p].at = poll[p].at + 1 /\ poll'[p].upto = poll[p].upto
        /\ \A o \in Polls : o # p => poll'[o] = poll[o]
        /\ UNCHANGED <<posted, deciding, arriving, contradicted, fulfilling, lock, job, crashes>>
        /\ \/ status[h] # "none" /\ rows' = rows /\ status' = status /\ poll'[p].pc = "handling"
           \/ /\ status[h] = "none" /\ Insert(h, Decide(h, acceptable))
              /\ poll'[p].pc = IF Decide(h, acceptable) = "accepted" THEN "approving" ELSE "handling"
  BY MessageTaken
<1>2. lastSeen' \in 0..posted /\ posted \in posted..Len(RelayLog) /\ poll[p].at + 1 # 0
  BY <1>1, PollTypes, AgreementTypes
<1>3. \A o \in Polls : poll'[o].upto <= posted
  BY <1>1, PollTypes
<1>4. CASE status[h] # "none"
  <2>1. \A o \in Polls : poll'[o].pc = "approving" => poll[o].pc = "approving" /\ poll'[o].at = poll[o].at
    BY <1>1, <1>4
  <2>. QED  BY <1>1, <1>2, <1>3, <1>4, <2>1, HandlersStay, TableStep DEF TableInv, Known
<1>5. CASE status[h] = "none"
  <2>1. PICK s \in {"accepted", "rejected", "pending_approval"} : Insert(h, s)
    BY <1>1, <1>5, DecideTypes
  <2>2. \A o \in Polls, x \in Hires : Approving(o, x)' => Approving(o, x) \/ x = h
    BY <1>1 DEF Approving
  <2>3. \A o \in Polls : poll'[o].pc = "approving" => poll'[o].at # 0
    BY <1>1, <1>2, PollTypes
  <2>4. HandlersInv' /\ arriving' = arriving
    BY <1>1, HandlersStay DEF HandlersStep
  <2>. QED  BY <1>1, <1>2, <1>3, <1>5, <2>1, <2>2, <2>3, <2>4, TableInsert
<1>. QED  BY <1>4, <1>5

LEMMA PostHireLooksUpTable ==
  ASSUME TableInv, NEW h \in Hires, PostHireLooksUp(h)
  PROVE  TableInv' /\ Quiet
<1>1. /\ deciding[h] + arriving[h] < MaxHandlers /\ deciding' = [deciding EXCEPT ![h] = @ + 1]
      /\ UNCHANGED <<rows, status, posted, lastSeen, poll, arriving, contradicted, fulfilling, lock, job, crashes>>
  BY DEF PostHireLooksUp, database, listener, workerVars
<1>2. MaxHandlers \in Nat
  BY DaemonAssumption
<1>3. HandlersInv'
  BY <1>1, <1>2 DEF TableInv, HandlersInv
<1>4. HandlersStep
  BY <1>1, <1>3 DEF TableInv, HandlersStep, Waits
<1>5. posted' \in posted..Len(RelayLog) /\ lastSeen' \in 0..posted'
  BY <1>1, AgreementTypes DEF TableInv
<1>6. TableInv'
  BY <1>1, <1>4, <1>5, TableStep DEF TableInv, Known
<1>. QED  BY <1>1, <1>6 DEF Quiet, Approving

(* What the decision of a handler does, with a row or without.              *)
LEMMA DecisionTaken ==
  ASSUME TableInv, NEW h \in Hires, NEW acceptable \in BOOLEAN, PostHireDecides(h, acceptable)
  PROVE  /\ UNCHANGED <<posted, lastSeen, poll, fulfilling, lock, job, crashes>>
         /\ HandlersInv' /\ \A o \in Hires : o # h /\ arriving'[o] > 0 => arriving[o] > 0
         /\ contradicted' = IF Decide(h, acceptable) = "accepted" /\ status[h] = "rejected"
                            THEN contradicted \cup {h} ELSE contradicted
         /\ Decide(h, acceptable) # "accepted" => arriving' = arriving
         /\ IF status[h] = "none" THEN Insert(h, Decide(h, acceptable)) ELSE UNCHANGED <<rows, status>>
<1> DEFINE s == Decide(h, acceptable)
<1>1. /\ deciding[h] > 0 /\ deciding' = [deciding EXCEPT ![h] = @ - 1]
      /\ arriving' = IF s = "accepted" THEN [arriving EXCEPT ![h] = @ + 1] ELSE arriving
      /\ contradicted' = IF s = "accepted" /\ status[h] = "rejected" THEN contradicted \cup {h} ELSE contradicted
      /\ IF status[h] = "none" THEN Insert(h, s) ELSE UNCHANGED <<rows, status>>
      /\ UNCHANGED <<posted, lastSeen, poll, fulfilling, lock, job, crashes>>
  BY DEF PostHireDecides, database, listener, workerVars
<1>. HIDE DEF s
<1>2. MaxHandlers \in Nat
  BY DaemonAssumption
<1>3. /\ deciding \in [Hires -> 0..MaxHandlers] /\ arriving \in [Hires -> 0..MaxHandlers]
      /\ \A o \in Hires : deciding[o] + arriving[o] <= MaxHandlers
      /\ contradicted \subseteq Hires
  BY DEF TableInv, HandlersInv
<1>4. deciding[h] - 1 \in 0..MaxHandlers /\ arriving[h] + 1 \in 0..MaxHandlers
  BY <1>1, <1>2, <1>3
<1>5. /\ deciding' \in [Hires -> 0..MaxHandlers] /\ arriving' \in [Hires -> 0..MaxHandlers]
      /\ contradicted' \subseteq Hires
  BY <1>1, <1>3, <1>4
<1>6. \A o \in Hires : o # h => deciding'[o] = deciding[o] /\ arriving'[o] = arriving[o]
  BY <1>1, <1>3
<1>7. deciding'[h] = deciding[h] - 1 /\ arriving'[h] \in {arriving[h], arriving[h] + 1}
  BY <1>1, <1>3
<1>8. \A o \in Hires : deciding'[o] + arriving'[o] <= MaxHandlers
  BY <1>2, <1>3, <1>6, <1>7
<1>9. HandlersInv'
  BY <1>5, <1>8 DEF HandlersInv
<1>. QED  BY <1>1, <1>6, <1>9 DEF s

LEMMA PostHireDecidesTable ==
  ASSUME TableInv, NEW h \in Hires, NEW acceptable \in BOOLEAN, PostHireDecides(h, acceptable)
  PROVE  TableInv'
<1>1. /\ UNCHANGED <<posted, lastSeen, poll, fulfilling, lock, job, crashes>>
      /\ HandlersInv' /\ \A o \in Hires : o # h /\ arriving'[o] > 0 => arriving[o] > 0
      /\ IF status[h] = "none" THEN Insert(h, Decide(h, acceptable)) ELSE UNCHANGED <<rows, status>>
  BY DecisionTaken
<1>2. \A p \in Polls, o \in Hires : Approving(p, o)' => Approving(p, o)
  BY <1>1 DEF Approving
<1>3. posted' \in posted..Len(RelayLog) /\ lastSeen' \in 0..posted'
  BY <1>1, AgreementTypes DEF TableInv
<1>4. CASE status[h] = "none"
  <2>1. PICK s \in {"accepted", "rejected", "pending_approval"} : Insert(h, s)
    BY <1>1, <1>4, DecideTypes
  <2>. QED  BY <1>1, <1>2, <1>4, <2>1, TableInsert DEF TableInv
<1>5. CASE status[h] # "none"
  <2>1. HandlersStep
    BY <1>1, <1>5 DEF TableInv, HandlersStep, Waits, Known
  <2>. QED  BY <1>1, <1>3, <1>5, <2>1, TableStep DEF TableInv, Known
<1>. QED  BY <1>4, <1>5

(* What enqueues a request and locks its job is a handler that holds it.    *)
LEMMA EnqueueAndLockTable ==
  ASSUME TableInv, NEW h \in Hires, Waits(h), EnqueueAndLock(AgreementOf[h]),
         UNCHANGED <<rows, status, posted, lastSeen, fulfilling, crashes>>,
         HandlersStep, poll' \in [Polls -> PollState],
         \A p \in Polls : /\ poll'[p].upto <= posted
                          /\ poll'[p].pc = "approving" =>
                               poll[p].pc = "approving" /\ poll'[p].at = poll[p].at
  PROVE  TableInv'
<1> DEFINE a == AgreementOf[h]
<1>1. a \in Agreements /\ h \in Known
  BY AgreementTypes DEF TableInv
<1>2. job' \in [Agreements -> WorkerStatus] /\ \A b \in Agreements : b # a => Moves(b)
  BY <1>1, EnqueueMoves DEF EnqueueAndLock
<1>3. lock' \in [Agreements -> LockStatus]
  BY <1>1 DEF EnqueueAndLock, TableInv, LockStatus
<1>4. \A b \in Agreements : job'[b] # "none" => job[b] # "none" \/ \E o \in Known : AgreementOf[o] = b
  BY <1>1, <1>2 DEF Moves
<1>5. posted' \in posted..Len(RelayLog) /\ lastSeen' \in 0..posted'
  BY AgreementTypes DEF TableInv
<1>. QED  BY <1>2, <1>3, <1>4, <1>5, TableStep DEF TableInv, Known

LEMMA ApprovedTable ==
  ASSUME TableInv, NEW p \in Polls, Approved(p)
  PROVE  \E h \in Hires :
           /\ Approving(p, h) /\ EnqueueAndLock(AgreementOf[h])
           /\ UNCHANGED <<rows, status, posted, lastSeen, deciding, arriving, contradicted, fulfilling, crashes>>
           /\ poll'[p].pc # "approving" /\ \A o \in Polls : o # p => poll'[o] = poll[o]
           /\ TableInv'
<1> DEFINE new == [poll[p] EXCEPT !.pc = "handling"]
<1>1. poll \in [Polls -> PollState] /\ poll[p] \in PollState /\ poll[p].pc = "approving"
  BY PollTypes DEF Approved
<1>2. PICK h \in Hires : h = RelayLog[poll[p].at] /\ Approving(p, h) /\ Waits(h)
  BY <1>1, ApprovingIsHire
<1>3. /\ EnqueueAndLock(AgreementOf[h]) /\ poll' = [poll EXCEPT ![p] = new]
      /\ UNCHANGED <<rows, status, posted, lastSeen, deciding, arriving, contradicted, fulfilling, crashes>>
  BY <1>1, <1>2 DEF Approved, http, database
<1>4. new \in PollState /\ new.pc = "handling" /\ new.upto = poll[p].upto
  BY <1>1 DEF PollState
<1>. HIDE DEF new
<1>5. /\ poll' \in [Polls -> PollState] /\ poll'[p] = new
      /\ \A o \in Polls : o # p => poll'[o] = poll[o]
  BY <1>1, <1>3, <1>4
<1>6. \A o \in Polls : poll'[o].upto <= posted
  BY <1>4, <1>5, PollTypes
<1>7. \A o \in Polls : poll'[o].pc = "approving" => poll[o].pc = "approving" /\ poll'[o].at = poll[o].at
  BY <1>4, <1>5
<1>8. TableInv'
  BY <1>2, <1>3, <1>5, <1>6, <1>7, HandlersStay, EnqueueAndLockTable
<1>. QED  BY <1>2, <1>3, <1>4, <1>5, <1>8

(* A handler that has enqueued its request, or failed to, is over.          *)
LEMMA HandlerEnds ==
  ASSUME TableInv, NEW h \in Hires, arriving[h] > 0, arriving' = [arriving EXCEPT ![h] = @ - 1],
         UNCHANGED <<deciding, contradicted>>
  PROVE  Waits(h) /\ HandlersStep /\ \A o \in Hires : arriving'[o] > 0 => arriving[o] > 0
<1>1. /\ deciding \in [Hires -> 0..MaxHandlers] /\ arriving \in [Hires -> 0..MaxHandlers]
      /\ MaxHandlers \in Nat
  BY DaemonAssumption DEF TableInv, HandlersInv
<1>2. arriving' \in [Hires -> 0..MaxHandlers] /\ \A o \in Hires : arriving'[o] <= arriving[o]
  BY <1>1
<1>3. \A o \in Hires : deciding'[o] + arriving'[o] <= MaxHandlers
  BY <1>1, <1>2 DEF TableInv, HandlersInv
<1>4. HandlersInv'
  BY <1>1, <1>2, <1>3 DEF TableInv, HandlersInv
<1>5. \A o \in Hires : arriving'[o] > 0 => arriving[o] > 0
  BY <1>1, <1>2
<1>. QED  BY <1>4, <1>5 DEF TableInv, HandlersStep, Waits

LEMMA HttpEnqueueTable ==
  ASSUME TableInv, NEW h \in Hires, HttpEnqueue(h)
  PROVE  TableInv'
<1>1. /\ arriving[h] > 0 /\ arriving' = [arriving EXCEPT ![h] = @ - 1] /\ EnqueueAndLock(AgreementOf[h])
      /\ UNCHANGED <<rows, status, posted, lastSeen, poll, deciding, contradicted, fulfilling, crashes>>
  BY DEF HttpEnqueue, database, listener
<1>2. Waits(h) /\ HandlersStep
  BY <1>1, HandlerEnds
<1>. QED  BY <1>1, <1>2, EnqueueAndLockTable DEF TableInv

(* What a step leaves alone of what TableStep speaks about.                  *)
LEMMA StayedInTable ==
  ASSUME TableInv, UNCHANGED <<rows, posted, lastSeen, poll, crashes>>,
         status' \in [Hires -> HireStatus], Known' = Known,
         HandlersStep, fulfilling' \subseteq Known,
         lock' \in [Agreements -> LockStatus], job' \in [Agreements -> WorkerStatus],
         \A a \in Agreements : job'[a] # "none" => job[a] # "none"
  PROVE  TableInv'
<1>1. posted' \in posted..Len(RelayLog) /\ lastSeen' \in 0..posted' /\ crashes' \in 0..MaxCrashes
  BY AgreementTypes DEF TableInv
<1>. QED  BY <1>1, TableStep DEF TableInv

LEMMA HttpEnqueueThrowsTable ==
  ASSUME TableInv, NEW h \in Hires, HttpEnqueueThrows(h)
  PROVE  /\ TableInv' /\ \A o \in Hires : arriving'[o] > 0 => arriving[o] > 0
         /\ UNCHANGED <<rows, status, posted, lastSeen, poll, contradicted, fulfilling, lock, job>>
<1>1. /\ arriving[h] > 0 /\ arriving' = [arriving EXCEPT ![h] = @ - 1]
      /\ UNCHANGED <<rows, status, posted, lastSeen, poll, deciding, contradicted, fulfilling, lock, job, crashes>>
  BY DEF HttpEnqueueThrows, database, listener, workerVars
<1>2. HandlersStep /\ \A o \in Hires : arriving'[o] > 0 => arriving[o] > 0
  BY <1>1, HandlerEnds
<1>3. Known' = Known
  BY <1>1 DEF Known
<1>. QED  BY <1>1, <1>2, <1>3, StayedInTable DEF TableInv

LEMMA PostHireFromJobTable ==
  ASSUME TableInv, NEW j \in Agreements, NEW delegated \in BOOLEAN, PostHireFromJob(j, delegated)
  PROVE  /\ TableInv' /\ \A a \in Agreements : lock[a] # "none" => lock'[a] # "none"
         /\ UNCHANGED <<rows, status, posted, lastSeen, poll, deciding, arriving, contradicted, fulfilling, job>>
<1>1. /\ \E l \in {"locked", "granted"} : lock' = [lock EXCEPT ![j] = l]
      /\ UNCHANGED <<rows, status, posted, lastSeen, poll, deciding, arriving, contradicted, fulfilling, job, crashes>>
  BY DEF PostHireFromJob, http, database, listener, workerVars
<1>2. lock \in [Agreements -> LockStatus]
  BY DEF TableInv
<1>3. lock' \in [Agreements -> LockStatus] /\ \A a \in Agreements : lock[a] # "none" => lock'[a] # "none"
  BY <1>1, <1>2 DEF LockStatus
<1>4. Known' = Known
  BY <1>1 DEF Known
<1>. QED  BY <1>1, <1>3, <1>4, HandlersStay, StayedInTable DEF TableInv

(* A change of the status of a request that the table has.                  *)
LEMMA SetStatusTable ==
  ASSUME TableInv, NEW h \in Known, NEW s \in HireStatus \ {"none"}, SetStatus(h, s)
  PROVE  /\ rows' = rows /\ status' \in [Hires -> HireStatus] /\ Known' = Known
         /\ status'[h] = s /\ \A o \in Hires : o # h => status'[o] = status[o]
<1>1. /\ rows' = rows /\ status' = [status EXCEPT ![h] = s] /\ status \in [Hires -> HireStatus]
      /\ h \in Hires /\ status[h] # "none"
  BY DEF SetStatus, TableInv, Known
<1>2. /\ status' \in [Hires -> HireStatus]
      /\ status'[h] = s /\ \A o \in Hires : o # h => status'[o] = status[o]
  BY <1>1
<1>3. \A o \in Hires : status'[o] # "none" <=> status[o] # "none"
  BY <1>1, <1>2
<1>. QED  BY <1>1, <1>2, <1>3 DEF Known

(* A delivery, a completion, or a decision of the operator.                 *)
LEMMA StatusTable ==
  ASSUME TableInv, NEW h \in Known, NEW s \in HireStatus \ {"none"}, SetStatus(h, s),
         fulfilling' \subseteq fulfilling,
         UNCHANGED <<posted, lastSeen, poll, deciding, arriving, contradicted, lock, job, crashes>>
  PROVE  TableInv'
<1>1. rows' = rows /\ status' \in [Hires -> HireStatus] /\ Known' = Known
  BY SetStatusTable
<1>. QED  BY <1>1, HandlersStay, StayedInTable DEF TableInv

(* What PostDelivery, the operator and the answer of a fulfil UserOp do: a   *)
(* status of a request in the table, or nothing.                            *)
LEMMA PostDeliverySets ==
  ASSUME TableInv, NEW a \in Agreements, NEW s, PostDelivery(a, s)
  PROVE  \/ UNCHANGED <<rows, status>>
         \/ \E h \in Known : SetStatus(h, s)
<1>1. CASE ActiveRowsOf(a) = {}
  BY <1>1 DEF PostDelivery, database
<1>2. CASE ActiveRowsOf(a) # {}
  <2>1. rows[Min(ActiveRowsOf(a))] \in Known
    BY <1>2, FirstActiveIs
  <2>2. SetStatus(rows[Min(ActiveRowsOf(a))], s)
    BY <1>2 DEF PostDelivery
  <2>. QED  BY <2>1, <2>2
<1>. QED  BY <1>1, <1>2

LEMMA PostDeliveryTable ==
  ASSUME TableInv, NEW a \in Agreements, NEW s \in {"delivered", "complete"}, PostDelivery(a, s)
  PROVE  TableInv'
<1>1. UNCHANGED <<posted, lastSeen, poll, deciding, arriving, contradicted, fulfilling, lock, job, crashes>>
  BY DEF PostDelivery, http, listener, workerVars
<1>2. CASE UNCHANGED <<rows, status>>
  BY <1>1, <1>2, HandlersStay, StayedInTable DEF TableInv, Known
<1>3. CASE \E h \in Known : SetStatus(h, s)
  BY <1>1, <1>3, StatusTable DEF HireStatus
<1>. QED  BY <1>2, <1>3, PostDeliverySets

LEMMA OperatorTable ==
  ASSUME TableInv, NEW h \in Hires, IpcApprove(h) \/ IpcReject(h) \/ IpcComplete(h)
  PROVE  TableInv'
<1>1. h \in Known /\ \E s \in HireStatus \ {"none"} : SetStatus(h, s)
  BY DEF IpcApprove, IpcReject, IpcComplete, Known, HireStatus
<1>2. UNCHANGED <<posted, lastSeen, poll, deciding, arriving, contradicted, fulfilling, lock, job, crashes>>
  BY DEF IpcApprove, IpcReject, IpcComplete, http, listener, workerVars
<1>. QED  BY <1>1, <1>2, StatusTable

LEMMA ApprovalTimeoutTable ==
  ASSUME TableInv, NEW late \in SUBSET Pending, ApprovalTimeout(late)
  PROVE  TableInv'
<1>1. /\ status' = [h \in Hires |-> IF h \in late THEN "rejected" ELSE status[h]]
      /\ UNCHANGED <<rows, posted, lastSeen, poll, deciding, arriving, contradicted, fulfilling, lock, job, crashes>>
  BY DEF ApprovalTimeout, http, listener, workerVars
<1>2. status' \in [Hires -> HireStatus] /\ \A h \in Hires : status'[h] # "none" <=> status[h] # "none"
  BY <1>1 DEF TableInv, HireStatus, Pending
<1>3. Known' = Known
  BY <1>2 DEF Known
<1>. QED  BY <1>1, <1>2, <1>3, HandlersStay, StayedInTable DEF TableInv

LEMMA FulfillTable ==
  ASSUME TableInv, NEW h \in Hires, FulfillSubmitted(h) \/ FulfillFails(h)
  PROVE  TableInv'
<1>1. h \in Known /\ fulfilling' \subseteq fulfilling
      /\ UNCHANGED <<posted, lastSeen, poll, deciding, arriving, contradicted, lock, job, crashes>>
  BY DEF FulfillSubmitted, FulfillFails, TableInv, http, listener, workerVars
<1>2. CASE FulfillSubmitted(h)
  BY <1>1, <1>2, StatusTable DEF FulfillSubmitted, HireStatus
<1>3. CASE FulfillFails(h)
  BY <1>1, <1>3, HandlersStay, StayedInTable DEF FulfillFails, http, database, TableInv, Known
<1>. QED  BY <1>2, <1>3

LEMMA CallbackTable ==
  ASSUME TableInv, NEW a \in Agreements, JobCompleted(a) \/ JobFailed(a)
  PROVE  TableInv'
<1>1. PICK e \in {"completed", "failed"}, s \in {"delivered", "rejected"} : \E c :
        /\ EndJob(a, e, c) /\ Release(a) /\ SetStatus(LatestOf(a), s)
        /\ fulfilling' \subseteq fulfilling \cup {LatestOf(a)}
        /\ UNCHANGED <<posted, lastSeen, poll, deciding, arriving, contradicted, crashes>>
  BY CallbackEnds
<1>2. /\ job' \in [Agreements -> WorkerStatus] /\ job[a] = "running"
      /\ \A b \in Agreements : b # a => Moves(b)
  BY <1>1, EndJobMoves
<1>3. PICK h \in Known : h = LatestOf(a)
  BY <1>2, LatestIsOf
<1>4. SetStatus(h, s) /\ s \in HireStatus \ {"none"}
  BY <1>1, <1>3 DEF HireStatus
<1>5. rows' = rows /\ status' \in [Hires -> HireStatus] /\ Known' = Known
  BY <1>4, SetStatusTable
<1>6. lock' \in [Agreements -> LockStatus] /\ fulfilling' \subseteq Known
  BY <1>1, <1>3 DEF Release, TableInv, LockStatus
<1>7. \A b \in Agreements : job'[b] # "none" => job[b] # "none"
  BY <1>2 DEF Moves
<1>. QED  BY <1>1, <1>2, <1>5, <1>6, <1>7, HandlersStay, StayedInTable DEF TableInv

LEMMA JobChildClosesTable ==
  ASSUME TableInv, NEW a \in Agreements, JobChildCloses(a)
  PROVE  TableInv' /\ Quiet
<1>1. UNCHANGED <<rows, status, posted, lastSeen, poll, deciding, arriving, contradicted, fulfilling, lock, job, crashes>>
  BY DEF JobChildCloses, ChildCloses, http, database, listener
<1>. QED  BY <1>1, HandlersStay, StayedInTable DEF TableInv, Known, Quiet, Approving

(* After a restart nothing has a job and nothing waits for one.             *)
LEMMA RestartTable ==
  ASSUME TableInv, Restart
  PROVE  TableInv'
<1>1. /\ rows' = rows /\ status' = status /\ posted' = posted /\ lastSeen' = 0
      /\ poll' = [p \in Polls |-> Idle] /\ fulfilling' = {} /\ contradicted' = contradicted
      /\ deciding' = [h \in Hires |-> 0] /\ arriving' = [h \in Hires |-> 0]
      /\ lock' = [a \in Agreements |-> "none"] /\ job' = [a \in Agreements |-> "none"]
      /\ crashes' = crashes + 1 /\ crashes < MaxCrashes
  BY DEF Restart, database
<1>2. /\ posted' \in posted..Len(RelayLog) /\ lastSeen' \in 0..posted' /\ crashes' \in 0..MaxCrashes
  BY <1>1, AgreementTypes DEF TableInv
<1>3. /\ poll' \in [Polls -> PollState]
      /\ \A p \in Polls : poll'[p].upto <= posted' /\ poll'[p].pc # "approving"
  BY <1>1, AgreementTypes DEF Idle, PollState, TableInv
<1>4. HandlersStep
  BY <1>1, DaemonAssumption DEF TableInv, HandlersInv, HandlersStep
<1>. QED  BY <1>1, <1>2, <1>3, <1>4, TableStep DEF TableInv, Known, LockStatus, WorkerStatus

LEMMA TableStepInv == TableInv /\ [Next]_vars => TableInv'
<1> SUFFICES ASSUME TableInv, [Next]_vars PROVE TableInv'
  OBVIOUS
<1>1. CASE UNCHANGED vars
  BY <1>1, HandlersStay, StayedInTable DEF vars, TableInv, Known
<1>2. CASE RelayReceives \/ Restart
  BY <1>2, RelayReceivesTable, RestartTable
<1>3. ASSUME NEW p \in Polls,
             \/ PollStart(p) \/ PollAnswered(p) \/ PollFails(p) \/ PollEnds(p)
             \/ \E acceptable \in BOOLEAN : HandleMessage(p, acceptable)
             \/ Approved(p) \/ ApprovedThrows(p)
      PROVE  TableInv'
  BY <1>3, PollTable, HandleMessageTable, ApprovedTable
<1>4. ASSUME NEW h \in Hires,
             \/ PostHireLooksUp(h) \/ \E acceptable \in BOOLEAN : PostHireDecides(h, acceptable)
             \/ HttpEnqueue(h) \/ HttpEnqueueThrows(h)
      PROVE  TableInv'
  BY <1>4, PostHireLooksUpTable, PostHireDecidesTable, HttpEnqueueTable, HttpEnqueueThrowsTable
<1>5. ASSUME NEW h \in Hires,
             \/ IpcApprove(h) \/ IpcReject(h) \/ IpcComplete(h)
             \/ FulfillSubmitted(h) \/ FulfillFails(h)
      PROVE  TableInv'
  BY <1>5, OperatorTable, FulfillTable
<1>6. ASSUME NEW late \in SUBSET Pending, ApprovalTimeout(late)
      PROVE  TableInv'
  BY <1>6, ApprovalTimeoutTable
<1>7. ASSUME NEW a \in Agreements,
             \/ \E delegated \in BOOLEAN : PostHireFromJob(a, delegated)
             \/ \E s \in {"delivered", "complete"} : PostDelivery(a, s)
             \/ JobCompleted(a) \/ JobFailed(a) \/ JobChildCloses(a)
      PROVE  TableInv'
  BY <1>7, PostHireFromJobTable, PostDeliveryTable, CallbackTable, JobChildClosesTable
<1>. QED  BY <1>1, <1>2, <1>3, <1>4, <1>5, <1>6, <1>7 DEF Next

-----------------------------------------------------------------------------
(* The executor within the daemon: every step of the daemon but its restart *)
(* is a step of the executor or leaves it alone.                            *)
LEMMA ExecutorSteps ==
  ASSUME TableInv, [Next]_vars
  PROVE  [WorkerNext]_workerVars \/ WorkerInit'
<1>1. CASE UNCHANGED vars
  BY <1>1 DEF vars, workerVars
<1>2. CASE RelayReceives \/ Restart
  BY <1>2 DEF RelayReceives, Restart, WorkerInit
<1>3. ASSUME NEW p \in Polls,
             \/ PollStart(p) \/ PollAnswered(p) \/ PollFails(p) \/ PollEnds(p)
             \/ \E acceptable \in BOOLEAN : HandleMessage(p, acceptable)
             \/ ApprovedThrows(p)
      PROVE  UNCHANGED workerVars
  BY <1>3 DEF PollStart, PollAnswered, PollFails, PollEnds, HandleMessage, ApprovedThrows
<1>4. ASSUME NEW p \in Polls, Approved(p)
      PROVE  WorkerNext
  <2>1. PICK h \in Hires : EnqueueAndLock(AgreementOf[h])
    BY <1>4, ApprovedTable
  <2>2. AgreementOf[h] \in Agreements
    BY AgreementTypes
  <2>. QED  BY <2>1, <2>2 DEF EnqueueAndLock, WorkerNext
<1>5. ASSUME NEW h \in Hires, HttpEnqueue(h)
      PROVE  WorkerNext
  BY <1>5, AgreementTypes DEF HttpEnqueue, EnqueueAndLock, WorkerNext
<1>6. ASSUME NEW h \in Hires,
             \/ PostHireLooksUp(h) \/ \E acceptable \in BOOLEAN : PostHireDecides(h, acceptable)
             \/ HttpEnqueueThrows(h)
             \/ IpcApprove(h) \/ IpcReject(h) \/ IpcComplete(h)
             \/ FulfillSubmitted(h) \/ FulfillFails(h)
      PROVE  UNCHANGED workerVars
  BY <1>6 DEF PostHireLooksUp, PostHireDecides, HttpEnqueueThrows, IpcApprove, IpcReject, IpcComplete,
              FulfillSubmitted, FulfillFails
<1>7. ASSUME NEW late \in SUBSET Pending, ApprovalTimeout(late)
      PROVE  UNCHANGED workerVars
  BY <1>7 DEF ApprovalTimeout
<1>8. ASSUME NEW a \in Agreements,
             \/ \E delegated \in BOOLEAN : PostHireFromJob(a, delegated)
             \/ \E s \in {"delivered", "complete"} : PostDelivery(a, s)
      PROVE  UNCHANGED workerVars
  BY <1>8 DEF PostHireFromJob, PostDelivery
<1>9. ASSUME NEW a \in Agreements, JobCompleted(a) \/ JobFailed(a) \/ JobChildCloses(a)
      PROVE  WorkerNext
  BY <1>9 DEF JobCompleted, JobFailed, JobChildCloses, WorkerNext
<1>. QED  BY <1>1, <1>2, <1>3, <1>4, <1>5, <1>6, <1>7, <1>8, <1>9 DEF Next

LEMMA DaemonStepInv == TableInv /\ WorkerInv /\ [Next]_vars => (TableInv /\ WorkerInv)'
<1>1. WorkerInit' => WorkerInv'
  BY WorkerInitInv, PTL
<1>. QED  BY <1>1, TableStepInv, ExecutorSteps, WorkerStepInv

LEMMA DaemonInvHolds == Spec => [](TableInv /\ WorkerInv)
<1>1. Init => TableInv /\ WorkerInv
  BY TableInitial, WorkerInitInv DEF Init
<1>. QED  BY <1>1, DaemonStepInv, PTL DEF Spec

(* In the daemon, whatever is hired, refused, restarted or raced, the        *)
(* records of the database, the polls and the executor are of their types,   *)
(* the table has every request once, and the executor's three records of a   *)
(* job agree.                                                                *)
THEOREM DaemonTypesAndSlots == Spec => [](TypeOK /\ SlotsAccounted)
<1>1. TableInv /\ WorkerInv => TypeOK /\ SlotsAccounted
  <2> SUFFICES ASSUME TableInv, WorkerInv PROVE TypeOK /\ SlotsAccounted
    OBVIOUS
  <2>1. fulfilling \subseteq Hires
    BY DEF TableInv, Known
  <2>. QED  BY <2>1 DEF TableInv, HandlersInv, WorkerInv, TypeOK, Known
<1>. QED  BY <1>1, DaemonInvHolds, PTL

-----------------------------------------------------------------------------
(* The limit, with automatic acceptance.  A step that is no decision makes    *)
(* no request active, and cannot pass the limit.                            *)
Undecided == \A h \in Hires : status'[h] \in {"accepted", "pending_approval"} => status'[h] = status[h]

LEMMA UndecidedLimit == LimitInv /\ Undecided => LimitInv'
<1> SUFFICES ASSUME LimitInv, Undecided PROVE LimitInv'
  OBVIOUS
<1>1. Active' \subseteq Active
  BY DEF Active, Undecided
<1>2. IsFiniteSet(Active') /\ Cardinality(Active') <= Cardinality(Active)
  BY <1>1, FS_Subset DEF LimitInv
<1>3. Cardinality(Active') \in Nat /\ Cardinality(Active) \in Nat /\ MaxConcurrentAgreements \in Nat
  BY <1>2, FS_CardinalityType, DaemonAssumption DEF LimitInv
<1>. QED  BY <1>2, <1>3 DEF LimitInv, Undecided

LEMMA DecisionLimit ==
  ASSUME AutoAccept, TableInv, LimitInv, NEW h \in Hires, NEW acceptable,
         Insert(h, Decide(h, acceptable))
  PROVE  LimitInv'
<1> DEFINE s == Decide(h, acceptable)
<1>1. s = "rejected" \/ (s = "accepted" /\ Cardinality(Active) < MaxConcurrentAgreements)
  BY DEF Decide
<1>2. Insert(h, s)
  OBVIOUS
<1>. HIDE DEF s
<1>3. status'[h] = s /\ \A o \in Hires : o # h => status'[o] = status[o]
  BY <1>2 DEF Insert, TableInv
<1>4. CASE s = "rejected"
  BY <1>3, <1>4, UndecidedLimit DEF Undecided
<1>5. CASE s = "accepted" /\ Cardinality(Active) < MaxConcurrentAgreements
  <2>1. Active' = Active \cup {h}
    BY <1>3, <1>5 DEF Active
  <2>2. IsFiniteSet(Active) /\ Cardinality(Active) \in Nat /\ MaxConcurrentAgreements \in Nat
    BY FS_CardinalityType, DaemonAssumption DEF LimitInv
  <2>3. IsFiniteSet(Active') /\ Cardinality(Active') \in {Cardinality(Active), Cardinality(Active) + 1}
    BY <2>1, <2>2, FS_AddElement
  <2>4. Cardinality(Active') <= MaxConcurrentAgreements
    BY <1>5, <2>2, <2>3
  <2>. QED  BY <1>3, <1>5, <2>3, <2>4 DEF LimitInv
<1>. QED  BY <1>1, <1>4, <1>5

(* No step but a decision makes a request active or leaves it to the         *)
(* operator; with automatic acceptance the operator has nothing to decide.  *)
LEMMA LimitStepInv ==
  ASSUME AutoAccept
  PROVE  TableInv /\ LimitInv /\ [Next]_vars => LimitInv'
<1> SUFFICES ASSUME TableInv, LimitInv, [Next]_vars PROVE LimitInv'
  OBVIOUS
<1>1. CASE UNCHANGED status
  BY <1>1, UndecidedLimit DEF Undecided
<1>2. ASSUME NEW h \in Hires, NEW acceptable \in BOOLEAN, PostHireDecides(h, acceptable)
      PROVE  LimitInv'
  <2>1. status' = status \/ Insert(h, Decide(h, acceptable))
    BY <1>2, DecisionTaken
  <2>. QED  BY <1>1, <2>1, DecisionLimit
<1>3. ASSUME NEW p \in Polls, NEW acceptable \in BOOLEAN, HandleMessage(p, acceptable)
      PROVE  LimitInv'
  <2>1. PICK h \in Hires : status' = status \/ Insert(h, Decide(h, acceptable))
    BY <1>3, MessageTaken
  <2>. QED  BY <1>1, <2>1, DecisionLimit
<1>4. ASSUME NEW h \in Known, NEW s \in {"rejected", "delivered", "complete"}, SetStatus(h, s)
      PROVE  LimitInv'
  BY <1>4, SetStatusTable, UndecidedLimit DEF Undecided, HireStatus
<1>5. ASSUME NEW p \in Polls,
             \/ PollStart(p) \/ PollAnswered(p) \/ PollFails(p) \/ PollEnds(p)
             \/ Approved(p) \/ ApprovedThrows(p)
      PROVE  UNCHANGED status
  BY <1>5 DEF PollStart, PollAnswered, PollFails, PollEnds, Approved, ApprovedThrows, database
<1>6. ASSUME NEW h \in Hires,
             \/ PostHireLooksUp(h) \/ HttpEnqueue(h) \/ HttpEnqueueThrows(h) \/ FulfillFails(h)
      PROVE  UNCHANGED status
  BY <1>6 DEF PostHireLooksUp, HttpEnqueue, HttpEnqueueThrows, FulfillFails, database
<1>7. ASSUME NEW h \in Hires, IpcApprove(h) \/ IpcReject(h) \/ IpcComplete(h) \/ FulfillSubmitted(h)
      PROVE  h \in Known /\ SetStatus(h, "complete")
  BY <1>7 DEF IpcApprove, IpcReject, IpcComplete, FulfillSubmitted, LimitInv, TableInv, Known
<1>8. ASSUME NEW late \in SUBSET Pending, ApprovalTimeout(late)
      PROVE  FALSE
  BY <1>8 DEF ApprovalTimeout, Pending, LimitInv
<1>9. ASSUME NEW a \in Agreements,
             \/ \E delegated \in BOOLEAN : PostHireFromJob(a, delegated)
             \/ JobChildCloses(a)
      PROVE  UNCHANGED status
  BY <1>9 DEF PostHireFromJob, JobChildCloses, database
<1>10. ASSUME NEW a \in Agreements, NEW s \in {"delivered", "complete"}, PostDelivery(a, s)
       PROVE  LimitInv'
  BY <1>1, <1>4, <1>10, PostDeliverySets
<1>11. ASSUME NEW a \in Agreements, JobCompleted(a) \/ JobFailed(a)
       PROVE  LimitInv'
  <2>1. PICK e \in {"completed", "failed"}, s \in {"delivered", "rejected"} : \E c :
          EndJob(a, e, c) /\ SetStatus(LatestOf(a), s)
    BY <1>11, CallbackEnds
  <2>2. job[a] # "none"
    BY <2>1 DEF EndJob
  <2>. QED  BY <1>4, <2>1, <2>2, LatestIsOf
<1>12. CASE UNCHANGED vars \/ RelayReceives \/ Restart
  BY <1>1, <1>12 DEF vars, RelayReceives, Restart, database
<1>. QED  BY <1>1, <1>2, <1>3, <1>4, <1>5, <1>6, <1>7, <1>8, <1>9, <1>10, <1>11, <1>12 DEF Next

(* With automatic acceptance, however relay polls, HTTP requests, jobs that  *)
(* end and restarts are interleaved, and however many requests an agreement *)
(* has, there are never more accepted agreements than the limit.            *)
THEOREM CapacityIsRespected ==
  ASSUME AutoAccept
  PROVE  Spec => []CapacityRespected
<1>1. Init => LimitInv
  <2> SUFFICES ASSUME Init PROVE LimitInv
    OBVIOUS
  <2>1. Active = {} /\ \A h \in Hires : status[h] # "pending_approval"
    BY DEF Init, Active
  <2>. QED  BY <2>1, FS_EmptySet, DaemonAssumption DEF LimitInv
<1>2. TableInv /\ LimitInv /\ [Next]_vars => LimitInv'
  BY LimitStepInv
<1>3. LimitInv => CapacityRespected
  BY DEF LimitInv, CapacityRespected
<1>. QED  BY <1>1, <1>2, <1>3, DaemonInvHolds, PTL DEF Spec

-----------------------------------------------------------------------------
(* Work and its request, with one request for an agreement.                 *)
LEMMA HireInitInv == Init => HireInv
<1> SUFFICES ASSUME Init PROVE HireInv
  OBVIOUS
<1> USE DEF Init
<1>1. \A h \in Hires : status[h] = "none" /\ job[AgreementOf[h]] = "none" /\ ~Waits(h)
  BY AgreementTypes DEF Waits, Approving, Idle, WorkerInit
<1>2. OneDecider
  BY <1>1 DEF OneDecider
<1>3. \A h \in Hires : Covered(h)
  BY <1>1 DEF Covered
<1>. QED  BY <1>2, <1>3 DEF HireInv

(* A step that gives nothing to do: what waits has waited, and no status     *)
(* that is refused or left to the operator is new.                          *)
LEMMA StayedInv ==
  ASSUME HireInv, \A h \in Hires : Waits(h)' => Waits(h),
         \A h \in Hires : status'[h] = status[h] \/ status'[h] \in {"delivered", "complete"},
         UNCHANGED <<contradicted, job>>,
         \A h \in Hires : lock[AgreementOf[h]] # "none" => lock'[AgreementOf[h]] # "none"
  PROVE  HireInv'
<1>1. OneDecider'
  BY DEF HireInv, OneDecider
<1>2. \A h \in Hires : Granted(h) => Granted(h)'
  BY DEF Granted, Taken
<1>3. ASSUME NEW h \in Hires PROVE Covered(h)'
  BY <1>2 DEF HireInv, Covered
<1>. QED  BY <1>1, <1>3 DEF HireInv

LEMMA QuietInv == HireInv /\ Quiet => HireInv'
<1> SUFFICES ASSUME HireInv, Quiet PROVE HireInv'
  OBVIOUS
<1>1. \A h \in Hires : Waits(h)' => Waits(h)
  BY DEF Quiet, Waits
<1>. QED  BY <1>1, StayedInv DEF Quiet

(* A request that is not in the table has no job, and nothing waits to give *)
(* it one.                                                                  *)
LEMMA UnknownIsIdle ==
  ASSUME TableInv, OneRequestEach, NEW h \in Hires, status[h] = "none"
  PROVE  job[AgreementOf[h]] = "none" /\ ~Waits(h)
<1>1. ASSUME job[AgreementOf[h]] # "none" PROVE FALSE
  BY <1>1, AgreementTypes DEF TableInv, OneRequestEach, Known
<1>2. ~Waits(h)
  BY DEF TableInv, Known
<1>. QED  BY <1>1, <1>2

(* The decision on a request that is new: only what was accepted waits.     *)
LEMMA InsertInv ==
  ASSUME TableInv, HireInv, OneRequestEach, NEW h \in Hires, NEW acceptable \in BOOLEAN,
         status[h] = "none", Insert(h, Decide(h, acceptable)),
         UNCHANGED <<contradicted, lock, job>>,
         \A o \in Hires : o # h /\ Waits(o)' => Waits(o),
         Waits(h)' => Decide(h, acceptable) = "accepted"
  PROVE  HireInv'
<1> DEFINE s == Decide(h, acceptable)
<1>1. /\ s = "accepted" => AutoAccept
      /\ s = "pending_approval" => ~AutoAccept
  BY DEF Decide
<1>2. Insert(h, s) /\ (Waits(h)' => s = "accepted")
  OBVIOUS
<1>. HIDE DEF s
<1>3. status'[h] = s /\ \A o \in Hires : o # h => status'[o] = status[o]
  BY <1>2 DEF Insert, TableInv
<1>4. job[AgreementOf[h]] = "none" /\ ~Waits(h)
  BY UnknownIsIdle
<1>5. OneDecider'
  <2>1. CASE AutoAccept
    BY <1>1, <1>3, <2>1 DEF HireInv, OneDecider
  <2>2. CASE ~AutoAccept
    BY <1>1, <1>2, <2>2 DEF HireInv, OneDecider
  <2>. QED  BY <2>1, <2>2
<1>6. ASSUME NEW o \in Hires PROVE Covered(o)'
  <2>1. CASE o = h
    BY <1>2, <1>3, <1>4, <2>1 DEF Covered, Granted, Taken
  <2>2. CASE o # h
    BY <1>3, <2>2 DEF HireInv, Covered, Granted
  <2>. QED  BY <2>1, <2>2
<1>. QED  BY <1>5, <1>6 DEF HireInv

LEMMA HandleMessageInv ==
  ASSUME TableInv, HireInv, OneRequestEach, NEW p \in Polls, NEW acceptable \in BOOLEAN,
         HandleMessage(p, acceptable)
  PROVE  HireInv'
<1>1. PICK h \in Hires :
        /\ h = RelayLog[poll[p].at + 1] /\ poll'[p].at = poll[p].at + 1
        /\ \A o \in Polls : o # p => poll'[o] = poll[o]
        /\ UNCHANGED <<posted, deciding, arriving, contradicted, fulfilling, lock, job, crashes>>
        /\ \/ status[h] # "none" /\ rows' = rows /\ status' = status /\ poll'[p].pc = "handling"
           \/ /\ status[h] = "none" /\ Insert(h, Decide(h, acceptable))
              /\ poll'[p].pc = IF Decide(h, acceptable) = "accepted" THEN "approving" ELSE "handling"
  BY MessageTaken
<1>2. CASE status[h] # "none"
  BY <1>1, <1>2, QuietInv DEF Quiet, Approving
<1>3. CASE status[h] = "none"
  <2> DEFINE s == Decide(h, acceptable)
  <2>1. Insert(h, s) /\ poll'[p].pc = IF s = "accepted" THEN "approving" ELSE "handling"
    BY <1>1, <1>3
  <2>. HIDE DEF s
  <2>2. ~Waits(h)
    BY <1>3, UnknownIsIdle
  <2>3. /\ \A o \in Polls, x \in Hires : o # p => (Approving(o, x)' <=> Approving(o, x))
        /\ \A x \in Hires : Approving(p, x)' => x = h /\ s = "accepted"
    BY <1>1, <2>1 DEF Approving
  <2>4. \A x \in Hires : Waits(x)' => (x # h /\ Waits(x)) \/ (x = h /\ s = "accepted")
    BY <1>1, <2>2, <2>3 DEF Waits
  <2>. QED  BY <1>1, <1>3, <2>1, <2>4, InsertInv DEF s
<1>. QED  BY <1>2, <1>3

(* The decision of a handler, for which another may have stored a row.      *)
LEMMA PostHireDecidesInv ==
  ASSUME TableInv, HireInv, OneRequestEach, NEW h \in Hires, NEW acceptable \in BOOLEAN,
         PostHireDecides(h, acceptable)
  PROVE  HireInv'
<1> DEFINE s == Decide(h, acceptable)
<1>1. /\ UNCHANGED <<posted, lastSeen, poll, fulfilling, lock, job, crashes>>
      /\ \A o \in Hires : o # h /\ arriving'[o] > 0 => arriving[o] > 0
      /\ contradicted' = IF s = "accepted" /\ status[h] = "rejected"
                         THEN contradicted \cup {h} ELSE contradicted
      /\ s # "accepted" => arriving' = arriving
      /\ IF status[h] = "none" THEN Insert(h, s) ELSE UNCHANGED <<rows, status>>
  BY DecisionTaken
<1>2. s = "accepted" => AutoAccept
  BY DEF Decide
<1>3. \A o \in Polls, x \in Hires : Approving(o, x)' <=> Approving(o, x)
  BY <1>1 DEF Approving
<1>4. \A x \in Hires : Waits(x)' => Waits(x) \/ (x = h /\ s = "accepted")
  BY <1>1, <1>3 DEF Waits
<1>5. CASE status[h] = "none"
  BY <1>1, <1>4, <1>5, UnknownIsIdle, InsertInv
<1>. HIDE DEF s
<1>6. CASE status[h] # "none"
  <2>1. UNCHANGED <<status, lock, job>> /\ contradicted \subseteq contradicted'
    BY <1>1, <1>6
  <2>2. OneDecider'
    <3>1. CASE AutoAccept
      BY <2>1, <3>1 DEF HireInv, OneDecider
    <3>2. CASE ~AutoAccept
      BY <1>2, <1>4, <2>1, <3>2 DEF HireInv, OneDecider
    <3>. QED  BY <3>1, <3>2
  <2>3. s = "accepted" => Granted(h)'
    <3> SUFFICES ASSUME s = "accepted" PROVE Granted(h)'
      OBVIOUS
    <3>1. status[h] \in {"accepted", "rejected", "delivered", "complete"}
      BY <1>2, <1>6 DEF HireInv, OneDecider, TableInv, HireStatus
    <3>2. status[h] = "rejected" => h \in contradicted'
      BY <1>1
    <3>. QED  BY <2>1, <3>1, <3>2 DEF Granted, Taken
  <2>4. \A o \in Hires : Granted(o) => Granted(o)'
    BY <2>1 DEF Granted
  <2>5. ASSUME NEW o \in Hires PROVE Covered(o)'
    BY <1>4, <2>1, <2>3, <2>4 DEF HireInv, Covered
  <2>. QED  BY <2>2, <2>5 DEF HireInv
<1>. QED  BY <1>5, <1>6

(* What waits is enqueued and locked in one step, or has its job already.   *)
LEMMA EnqueueAndLockInv ==
  ASSUME TableInv, HireInv, OneRequestEach, NEW h \in Hires, Waits(h), EnqueueAndLock(AgreementOf[h]),
         UNCHANGED <<status, contradicted>>, \A o \in Hires : Waits(o)' => Waits(o)
  PROVE  HireInv'
<1> DEFINE a == AgreementOf[h]
<1>1. a \in Agreements /\ \A o \in Hires : AgreementOf[o] \in Agreements
  BY AgreementTypes
<1>2. /\ \A b \in Agreements : b # a => Moves(b)
      /\ job[a] = "none" => job'[a] \in {"queued", "running"}
      /\ job[a] # "none" => job' = job
  BY <1>1, EnqueueMoves DEF EnqueueAndLock, Enqueue, workerVars
<1>3. lock'[a] = "locked" /\ \A b \in Agreements : b # a => lock'[b] = lock[b]
  BY <1>1 DEF EnqueueAndLock, TableInv
<1>4. \A o \in Hires : o # h => AgreementOf[o] # a
  BY DEF OneRequestEach
<1>. HIDE DEF a
<1>5. \A o \in Hires : Granted(o) => Granted(o)'
  BY DEF Granted
<1>6. AutoAccept /\ OneDecider'
  BY DEF HireInv, OneDecider
<1>7. ASSUME NEW o \in Hires PROVE Covered(o)'
  <2>1. CASE o = h
    <3>1. a = AgreementOf[o] /\ Covered(o) /\ Waits(o)
      BY <2>1 DEF a, HireInv
    <3>. QED  BY <1>2, <1>3, <1>5, <3>1 DEF Covered
  <2>2. CASE o # h
    <3>1. Moves(AgreementOf[o]) /\ lock'[AgreementOf[o]] = lock[AgreementOf[o]] /\ Covered(o)
      BY <1>1, <1>2, <1>3, <1>4, <2>2 DEF HireInv
    <3>. QED  BY <1>5, <3>1 DEF Covered, Moves
  <2>. QED  BY <2>1, <2>2
<1>. QED  BY <1>6, <1>7 DEF HireInv

LEMMA ApprovedInv ==
  ASSUME TableInv, HireInv, OneRequestEach, NEW p \in Polls, Approved(p)
  PROVE  HireInv'
<1>1. PICK h \in Hires :
        /\ Approving(p, h) /\ EnqueueAndLock(AgreementOf[h])
        /\ UNCHANGED <<rows, status, posted, lastSeen, deciding, arriving, contradicted, fulfilling, crashes>>
        /\ poll'[p].pc # "approving" /\ \A o \in Polls : o # p => poll'[o] = poll[o]
  BY ApprovedTable
<1>2. \A o \in Polls, x \in Hires : Approving(o, x)' => Approving(o, x)
  BY <1>1 DEF Approving
<1>3. Waits(h) /\ \A o \in Hires : Waits(o)' => Waits(o)
  BY <1>1, <1>2 DEF Waits
<1>. QED  BY <1>1, <1>3, EnqueueAndLockInv

LEMMA HttpEnqueueInv ==
  ASSUME TableInv, HireInv, OneRequestEach, NEW h \in Hires, HttpEnqueue(h)
  PROVE  HireInv'
<1>1. /\ arriving[h] > 0 /\ arriving' = [arriving EXCEPT ![h] = @ - 1] /\ EnqueueAndLock(AgreementOf[h])
      /\ UNCHANGED <<status, poll, deciding, contradicted>>
  BY DEF HttpEnqueue, database, listener
<1>2. Waits(h) /\ \A o \in Hires : arriving'[o] > 0 => arriving[o] > 0
  BY <1>1, HandlerEnds
<1>3. \A o \in Hires : Waits(o)' => Waits(o)
  BY <1>1, <1>2 DEF Waits, Approving
<1>. QED  BY <1>1, <1>2, <1>3, EnqueueAndLockInv

LEMMA HttpEnqueueThrowsInv ==
  ASSUME TableInv, HireInv, NEW h \in Hires, HttpEnqueueThrows(h)
  PROVE  HireInv'
<1>1. /\ \A o \in Hires : arriving'[o] > 0 => arriving[o] > 0
      /\ UNCHANGED <<status, poll, contradicted, lock, job>>
  BY HttpEnqueueThrowsTable
<1>2. \A o \in Hires : Waits(o)' => Waits(o)
  BY <1>1 DEF Waits, Approving
<1>. QED  BY <1>1, <1>2, StayedInv

(* A request sent by a worker locks its job anew.                           *)
LEMMA PostHireFromJobInv ==
  ASSUME TableInv, HireInv, NEW j \in Agreements, NEW delegated \in BOOLEAN, PostHireFromJob(j, delegated)
  PROVE  HireInv'
<1>1. /\ \A a \in Agreements : lock[a] # "none" => lock'[a] # "none"
      /\ UNCHANGED <<status, poll, arriving, contradicted, job>>
  BY PostHireFromJobTable
<1>2. \A h \in Hires : Waits(h)' => Waits(h)
  BY <1>1 DEF Waits, Approving
<1>. QED  BY <1>1, <1>2, AgreementTypes, StayedInv

(* A delivery or a completion of a request the table has, whatever its       *)
(* status.                                                                  *)
LEMMA FinishInv ==
  ASSUME TableInv, HireInv, NEW h \in Known, NEW s \in {"delivered", "complete"}, SetStatus(h, s),
         UNCHANGED <<poll, arriving, contradicted, lock, job>>
  PROVE  HireInv'
<1>1. \A o \in Hires : status'[o] = status[o] \/ status'[o] \in {"delivered", "complete"}
  BY SetStatusTable DEF HireStatus
<1>2. \A o \in Hires : Waits(o)' => Waits(o)
  BY DEF Waits, Approving
<1>. QED  BY <1>1, <1>2, StayedInv

LEMMA PostDeliveryInv ==
  ASSUME TableInv, HireInv, NEW a \in Agreements, NEW s \in {"delivered", "complete"}, PostDelivery(a, s)
  PROVE  HireInv'
<1>1. UNCHANGED <<poll, arriving, contradicted, lock, job>>
  BY DEF PostDelivery, listener, http, workerVars
<1>2. CASE UNCHANGED <<rows, status>>
  BY <1>1, <1>2, QuietInv DEF Quiet, Approving
<1>3. CASE \E h \in Known : SetStatus(h, s)
  BY <1>1, <1>3, FinishInv
<1>. QED  BY <1>2, <1>3, PostDeliverySets

(* A decision of the operator or of the timer: there is no job, and nothing *)
(* waits for one.                                                           *)
LEMMA DecisionInv ==
  ASSUME HireInv, \E h \in Hires : status[h] = "pending_approval",
         UNCHANGED <<poll, arriving, lock, job>>
  PROVE  HireInv'
<1>1. ~AutoAccept /\ \A h \in Hires : ~Waits(h) /\ job[AgreementOf[h]] = "none"
  BY DEF HireInv, OneDecider
<1>2. \A h \in Hires : ~Waits(h)' /\ job'[AgreementOf[h]] = "none"
  BY <1>1 DEF Waits, Approving
<1>. QED  BY <1>1, <1>2 DEF HireInv, OneDecider, Covered

LEMMA OperatorInv ==
  ASSUME TableInv, HireInv, NEW h \in Hires, IpcApprove(h) \/ IpcReject(h) \/ IpcComplete(h)
  PROVE  HireInv'
<1>1. CASE IpcComplete(h)
  BY <1>1, FinishInv DEF IpcComplete, listener, http, workerVars, Known
<1>2. CASE IpcApprove(h) \/ IpcReject(h)
  BY <1>2, DecisionInv DEF IpcApprove, IpcReject, listener, http, workerVars
<1>. QED  BY <1>1, <1>2

LEMMA ApprovalTimeoutInv ==
  ASSUME TableInv, HireInv, NEW late \in SUBSET Pending, ApprovalTimeout(late)
  PROVE  HireInv'
<1>1. \E h \in Hires : status[h] = "pending_approval"
  BY DEF ApprovalTimeout, Pending
<1>. QED  BY <1>1, DecisionInv DEF ApprovalTimeout, listener, http, workerVars

LEMMA FulfillInv ==
  ASSUME TableInv, HireInv, NEW h \in Hires, FulfillSubmitted(h) \/ FulfillFails(h)
  PROVE  HireInv'
<1>1. h \in Known
  BY DEF FulfillSubmitted, FulfillFails, TableInv
<1>2. CASE FulfillSubmitted(h)
  BY <1>1, <1>2, FinishInv DEF FulfillSubmitted, listener, http, workerVars
<1>3. CASE FulfillFails(h)
  BY <1>3, QuietInv DEF FulfillFails, database, listener, http, workerVars, Quiet, Approving
<1>. QED  BY <1>2, <1>3

(* The end of a job: its request, found by the agreement, is delivered or   *)
(* refused, and its lock released.                                          *)
LEMMA CallbackInv ==
  ASSUME TableInv, HireInv, OneRequestEach, NEW a \in Agreements, JobCompleted(a) \/ JobFailed(a)
  PROVE  HireInv'
<1>1. PICK e \in {"completed", "failed"}, s \in {"delivered", "rejected"} : \E c :
        /\ EndJob(a, e, c) /\ Release(a) /\ SetStatus(LatestOf(a), s)
        /\ fulfilling' \subseteq fulfilling \cup {LatestOf(a)}
        /\ UNCHANGED <<posted, lastSeen, poll, deciding, arriving, contradicted, crashes>>
  BY CallbackEnds
<1>2. job[a] = "running" /\ job'[a] = e /\ \A b \in Agreements : b # a => Moves(b)
  BY <1>1, EndJobMoves
<1>3. PICK h \in Known : h = LatestOf(a) /\ AgreementOf[h] = a
  BY <1>2, LatestIsOf
<1>4. status'[h] = s /\ \A o \in Hires : o # h => status'[o] = status[o]
  BY <1>1, <1>3, SetStatusTable DEF HireStatus
<1>5. \A b \in Agreements : b # a => lock'[b] = lock[b]
  BY <1>1 DEF Release, TableInv
<1>6. \A o \in Hires : o # h => AgreementOf[o] \in Agreements /\ AgreementOf[o] # a
  BY <1>3, AgreementTypes DEF OneRequestEach, Known
<1>7. \A o \in Hires : Waits(o)' <=> Waits(o)
  BY <1>1 DEF Waits, Approving
<1>8. h \in Hires /\ AutoAccept
  BY <1>2, <1>3 DEF HireInv, OneDecider, Known
<1>9. OneDecider'
  BY <1>4, <1>8 DEF HireInv, OneDecider
<1>10. ASSUME NEW o \in Hires PROVE Covered(o)'
  <2>1. CASE o = h
    BY <1>2, <1>3, <1>4, <2>1 DEF Covered
  <2>2. CASE o # h
    <3>1. /\ Moves(AgreementOf[o]) /\ lock'[AgreementOf[o]] = lock[AgreementOf[o]] /\ Covered(o)
          /\ status'[o] = status[o] /\ (Granted(o) => Granted(o)')
      BY <1>1, <1>2, <1>4, <1>5, <1>6, <2>2 DEF HireInv, Granted
    <3>. QED  BY <1>7, <3>1 DEF Covered, Moves
  <2>. QED  BY <2>1, <2>2
<1>. QED  BY <1>9, <1>10 DEF HireInv

LEMMA RestartInv == HireInv /\ Restart => HireInv'
<1> SUFFICES ASSUME HireInv, Restart PROVE HireInv'
  OBVIOUS
<1>1. /\ status' = status /\ poll' = [p \in Polls |-> Idle] /\ arriving' = [h \in Hires |-> 0]
      /\ job' = [a \in Agreements |-> "none"]
  BY DEF Restart, database
<1>2. \A h \in Hires : ~Waits(h)' /\ job'[AgreementOf[h]] = "none"
  BY <1>1, AgreementTypes DEF Waits, Approving, Idle
<1>3. OneDecider'
  BY <1>1, <1>2 DEF HireInv, OneDecider
<1>4. \A h \in Hires : Covered(h)'
  BY <1>2 DEF Covered
<1>. QED  BY <1>3, <1>4 DEF HireInv

LEMMA HireStepInv ==
  ASSUME OneRequestEach
  PROVE  TableInv /\ HireInv /\ [Next]_vars => HireInv'
<1> SUFFICES ASSUME TableInv, HireInv, [Next]_vars PROVE HireInv'
  OBVIOUS
<1>1. CASE UNCHANGED vars
  BY <1>1, QuietInv DEF vars, Quiet, Approving
<1>2. CASE RelayReceives \/ Restart
  BY <1>2, RelayReceivesTable, QuietInv, RestartInv
<1>3. ASSUME NEW p \in Polls,
             \/ PollStart(p) \/ PollAnswered(p) \/ PollFails(p) \/ PollEnds(p)
             \/ \E acceptable \in BOOLEAN : HandleMessage(p, acceptable)
             \/ Approved(p) \/ ApprovedThrows(p)
      PROVE  HireInv'
  BY <1>3, PollTable, QuietInv, HandleMessageInv, ApprovedInv
<1>4. ASSUME NEW h \in Hires,
             \/ PostHireLooksUp(h) \/ \E acceptable \in BOOLEAN : PostHireDecides(h, acceptable)
             \/ HttpEnqueue(h) \/ HttpEnqueueThrows(h)
      PROVE  HireInv'
  BY <1>4, PostHireLooksUpTable, QuietInv, PostHireDecidesInv, HttpEnqueueInv, HttpEnqueueThrowsInv
<1>5. ASSUME NEW h \in Hires,
             \/ IpcApprove(h) \/ IpcReject(h) \/ IpcComplete(h)
             \/ FulfillSubmitted(h) \/ FulfillFails(h)
      PROVE  HireInv'
  BY <1>5, OperatorInv, FulfillInv
<1>6. ASSUME NEW late \in SUBSET Pending, ApprovalTimeout(late)
      PROVE  HireInv'
  BY <1>6, ApprovalTimeoutInv
<1>7. ASSUME NEW a \in Agreements,
             \/ \E delegated \in BOOLEAN : PostHireFromJob(a, delegated)
             \/ \E s \in {"delivered", "complete"} : PostDelivery(a, s)
             \/ JobCompleted(a) \/ JobFailed(a) \/ JobChildCloses(a)
      PROVE  HireInv'
  BY <1>7, PostHireFromJobInv, PostDeliveryInv, CallbackInv, JobChildClosesTable, QuietInv
<1>. QED  BY <1>1, <1>2, <1>3, <1>4, <1>5, <1>6, <1>7 DEF Next

(* With one request for an agreement: however relay polls overlap, fail and  *)
(* move the position back, whatever comes over HTTP, in handlers that overlap *)
(* on one message too, from the operator and from workers, and whenever the  *)
(* daemon restarts, live work has its lock and was not refused, unless two   *)
(* handlers of its message disagreed, and a request whose job has ended      *)
(* gives its place back.                                                    *)
THEOREM WorkIsCovered ==
  ASSUME OneRequestEach
  PROVE  Spec => [](WorkCovered /\ PlaceGivenBack)
<1>1. HireInv => WorkCovered
  BY DEF HireInv, Covered, Granted, Taken, WorkCovered, Working
<1>2. HireInv => PlaceGivenBack
  BY DEF HireInv, Covered, PlaceGivenBack, Active, Ended
<1>3. TableInv /\ HireInv /\ [Next]_vars => HireInv'
  BY HireStepInv
<1>. QED  BY <1>1, <1>2, <1>3, DaemonInvHolds, HireInitInv, PTL DEF Spec

(* Both together: the limit holds, work that is under way is covered, and    *)
(* work that is over is not counted.                                        *)
THEOREM HireIsAccounted ==
  ASSUME OneRequestEach, AutoAccept
  PROVE  Spec => []HireAccounted
<1>1. CapacityRespected /\ WorkCovered /\ PlaceGivenBack => HireAccounted
  BY DEF HireAccounted
<1>. QED  BY <1>1, CapacityIsRespected, WorkIsCovered, PTL
=============================================================================
