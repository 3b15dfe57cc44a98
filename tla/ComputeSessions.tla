-------------------------- MODULE ComputeSessions ---------------------------
(***************************************************************************)
(* Compute rental at the provider's daemon: the sessions                   *)
(* (packages/arc402-daemon/src/compute-session.ts), the metering of their  *)
(* GPU (compute-metering.ts) and the POST /compute endpoints that drive    *)
(* them (server.ts).  appendUsageReport, which no endpoint and no timer    *)
(* calls, is left out.                                                     *)
(*                                                                         *)
(* An endpoint is one step: it changes the session before it waits for     *)
(* anything but the signature of a report, and a local key signs within    *)
(* the same turn of the event loop.  Session records are on disk after     *)
(* every step; the meters are timers in memory.  The calls to the chain    *)
(* that follow change nothing here, whether they succeed or not.  Files    *)
(* can be written and read.                                                *)
(*                                                                         *)
(* The clock counts in a unit shorter than the timers' periods.  A timer   *)
(* fires when it is due or one unit later, and next a period after that,   *)
(* as setInterval does.  taken and restarted are history variables.        *)
(***************************************************************************)
EXTENDS Integers, FiniteSets, FiniteSetsExt

CONSTANTS
  Sessions,
  MaxConcurrentSessions,    \* max_concurrent_sessions
  AutoAccept,               \* auto_accept_compute
  MeteringInterval,         \* period of the samples, in units of the clock
  ReportInterval,           \* period of the reports
  SamplesPerMinute,         \* 60 / metering_interval_seconds
  MaxClock, MaxRestarts      \* bounds

ASSUME ComputeSessionsAssumption ==
  /\ MaxConcurrentSessions \in Nat /\ AutoAccept \in BOOLEAN
  /\ MeteringInterval \in Nat \ {0} /\ ReportInterval \in Nat \ {0}
  /\ SamplesPerMinute \in Nat \ {0}
  /\ MaxClock \in Nat /\ MaxRestarts \in Nat

VARIABLES
  clock,
  status,      \* ComputeSessionState.status; "none" before the proposal
  consumed,    \* ComputeSessionState.consumedMinutes
  reports,     \* ComputeSessionState.usageReports
  meter,       \* ComputeMetering.sessions
  filed,       \* the reports in the session's directory
  taken,       \* samples ever taken
  restarted    \* how often the daemon was restarted

sessionVars == <<clock, status, consumed, reports, meter, filed, taken, restarted>>

NoMeter == [on |-> FALSE, lastReport |-> 0, samples |-> {}, sampleDue |-> 0, reportDue |-> 0]

SessionsInit ==
  /\ clock = 0
  /\ status = [s \in Sessions |-> "none"]
  /\ consumed = [s \in Sessions |-> 0]
  /\ reports = [s \in Sessions |-> {}]
  /\ meter = [s \in Sessions |-> NoMeter]
  /\ filed = [s \in Sessions |-> {}]
  /\ taken = [s \in Sessions |-> {}]
  /\ restarted = 0

With(st) == {s \in Sessions : status[s] = st}

(* Minutes of a report: the busy samples, rounded to the nearest minute. *)
Minutes(samples) ==
  (2 * Cardinality({m \in samples : m.busy}) + SamplesPerMinute) \div (2 * SamplesPerMinute)

Report(s) == [start |-> meter[s].lastReport, end |-> clock,
              minutes |-> Minutes(meter[s].samples), samples |-> meter[s].samples]

(* No timer is more than a unit late. *)
ClockTicks ==
  /\ clock < MaxClock
  /\ \A s \in Sessions : meter[s].on => meter[s].sampleDue >= clock /\ meter[s].reportDue >= clock
  /\ clock' = clock + 1
  /\ UNCHANGED <<status, consumed, reports, meter, filed, taken, restarted>>

(* POST /compute/propose: refused at capacity, and for a known session *)
Propose(s) ==
  /\ Cardinality(With("active")) < MaxConcurrentSessions
  /\ status[s] = "none"
  /\ status' = [status EXCEPT ![s] = IF AutoAccept THEN "accepted" ELSE "proposed"]
  /\ UNCHANGED <<clock, consumed, reports, meter, filed, taken, restarted>>

Accept(s) ==
  /\ status[s] = "proposed"
  /\ status' = [status EXCEPT ![s] = "accepted"]
  /\ UNCHANGED <<clock, consumed, reports, meter, filed, taken, restarted>>

(* The timers of the samples and of the reports; metered twice is metered once *)
StartMetering(s) ==
  meter' = IF meter[s].on THEN meter
           ELSE [meter EXCEPT ![s] = [on |-> TRUE, lastReport |-> clock, samples |-> {},
                   sampleDue |-> clock + MeteringInterval, reportDue |-> clock + ReportInterval]]

Start(s) ==
  /\ status[s] = "accepted"
  /\ status' = [status EXCEPT ![s] = "active"]
  /\ StartMetering(s)
  /\ UNCHANGED <<clock, consumed, reports, filed, taken, restarted>>

CollectMetric(s) ==
  /\ meter[s].on /\ clock >= meter[s].sampleDue
  /\ \E busy \in BOOLEAN :
       LET sample == [at |-> clock, busy |-> busy]
       IN /\ meter' = [meter EXCEPT ![s].samples = @ \cup {sample},
                                    ![s].sampleDue = clock + MeteringInterval]
          /\ taken' = [taken EXCEPT ![s] = @ \cup {sample}]
  /\ UNCHANGED <<clock, status, consumed, reports, filed, restarted>>

(* Faulty variant: the next report begins where this one began. *)
GenerateReport_SamePeriod(s) ==
  /\ meter[s].on /\ clock >= meter[s].reportDue
  /\ filed' = IF meter[s].samples = {} THEN filed
              ELSE [filed EXCEPT ![s] = @ \cup {Report(s)}]
  /\ meter' = [meter EXCEPT ![s].samples = {m \in @ : m.at >= clock},
                            ![s].reportDue = clock + ReportInterval]
  /\ UNCHANGED <<clock, status, consumed, reports, taken, restarted>>

(* The timer of the reports: none is made of no samples.  The samples kept  *)
(* are those not older than the end of the period.                          *)
GenerateReport(s) ==
  /\ meter[s].on /\ clock >= meter[s].reportDue
  /\ IF meter[s].samples = {}
     THEN meter' = [meter EXCEPT ![s].reportDue = clock + ReportInterval] /\ UNCHANGED filed
     ELSE /\ filed' = [filed EXCEPT ![s] = @ \cup {Report(s)}]
          /\ meter' = [meter EXCEPT ![s].lastReport = clock,
                                    ![s].samples = {m \in @ : m.at >= clock},
                                    ![s].reportDue = clock + ReportInterval]
  /\ UNCHANGED <<clock, status, consumed, reports, taken, restarted>>

(* stopMetering: the last report, if there are samples for it *)
FinalReport(s) == IF meter[s].on /\ meter[s].samples # {} THEN {Report(s)} ELSE {}

(* Faulty variant: only the final report is kept. *)
End_FinalOnly(s) ==
  /\ status[s] = "active"
  /\ filed' = [filed EXCEPT ![s] = @ \cup FinalReport(s)]
  /\ meter' = [meter EXCEPT ![s] = NoMeter]
  /\ reports' = [reports EXCEPT ![s] = @ \cup FinalReport(s)]
  /\ consumed' = [consumed EXCEPT ![s] = IF FinalReport(s) = {} THEN @ ELSE @ + Report(s).minutes]
  /\ status' = [status EXCEPT ![s] = "completed"]
  /\ UNCHANGED <<clock, taken, restarted>>

(* Faulty variant: the metering is not stopped. *)
End_MeterRuns(s) ==
  /\ status[s] = "active"
  /\ reports' = [reports EXCEPT ![s] = @ \cup filed[s]]
  /\ status' = [status EXCEPT ![s] = "completed"]
  /\ UNCHANGED <<clock, consumed, meter, filed, taken, restarted>>

(* POST /compute/end: the final report is counted; the reports on disk are  *)
(* taken over when none of the same period is there, and are not counted.   *)
End(s) ==
  LET final == FinalReport(s)
      onDisk == filed[s] \cup final
      own == reports[s] \cup final
  IN /\ status[s] = "active"
     /\ filed' = [filed EXCEPT ![s] = onDisk]
     /\ meter' = [meter EXCEPT ![s] = NoMeter]
     /\ reports' = [reports EXCEPT ![s] =
          own \cup {r \in onDisk : \A o \in own : o.start # r.start}]
     /\ consumed' = [consumed EXCEPT ![s] = IF final = {} THEN @ ELSE @ + Report(s).minutes]
     /\ status' = [status EXCEPT ![s] = "completed"]
     /\ UNCHANGED <<clock, taken, restarted>>

(* POST /compute/dispute: the meter runs on *)
Dispute(s) ==
  /\ status[s] = "active"
  /\ status' = [status EXCEPT ![s] = "disputed"]
  /\ UNCHANGED <<clock, consumed, reports, meter, filed, taken, restarted>>

(* The sessions are read from disk; the meters are gone. *)
Restart ==
  /\ restarted < MaxRestarts
  /\ restarted' = restarted + 1
  /\ meter' = [s \in Sessions |-> NoMeter]
  /\ UNCHANGED <<clock, status, consumed, reports, filed, taken>>

SessionsNext ==
  \/ ClockTicks
  \/ Restart
  \/ \E s \in Sessions :
       \/ Propose(s) \/ Accept(s) \/ Start(s) \/ End(s) \/ Dispute(s)
       \/ CollectMetric(s) \/ GenerateReport(s)

SessionsSpec == SessionsInit /\ [][SessionsNext]_sessionVars

-----------------------------------------------------------------------------
Times == 0..MaxClock
Samples == [at : Times, busy : BOOLEAN]
Reports == [start : Times, end : Times, minutes : Nat, samples : SUBSET Samples]

SessionsTypeOK ==
  /\ clock \in Times
  /\ \A s \in Sessions :
       /\ status[s] \in {"none", "proposed", "accepted", "active", "completed", "disputed"}
       /\ consumed[s] \in Nat
       /\ \A r \in reports[s] \cup filed[s] : r \in Reports /\ r.samples # {}
       /\ \A m \in taken[s] \cup meter[s].samples : m \in Samples
       /\ meter[s].on \in BOOLEAN /\ meter[s].lastReport \in Times
       /\ meter[s].sampleDue \in Nat /\ meter[s].reportDue \in Nat
  /\ restarted \in 0..MaxRestarts

(* A settlement is based on every report there is, also on those made       *)
(* before a restart.                                                        *)
SettledOnAllReports == \A s \in With("completed") : reports[s] = filed[s]

(* Without a restart no sample is lost: it waits in the meter until it is   *)
(* in a report.  And two reports of a session are about periods that do not *)
(* overlap, as the contract they are signed for expects of a provider.      *)
ReportsCover ==
  \A s \in Sessions :
    /\ restarted = 0 => taken[s] \subseteq meter[s].samples \cup UNION {r.samples : r \in filed[s]}
    /\ \A r, o \in filed[s] : r # o => r.end <= o.start \/ o.end <= r.start

(* A session that was settled is metered no more, and no report of it       *)
(* appears afterwards.                                                      *)
NothingAfterSettlement ==
  [][\A s \in With("completed") :
       filed'[s] = filed[s] /\ consumed'[s] = consumed[s] /\ taken'[s] = taken[s]]_sessionVars

(* Every report is accounted for: none is missing from a settlement or      *)
(* comes after it, none leaves a sample out or overlaps another.            *)
ReportsAccounted == [](SettledOnAllReports /\ ReportsCover) /\ NothingAfterSettlement

(* "running total from usage reports".  Fails: only the final report is     *)
(* added.                                                                   *)
ConsumedIsTotal ==
  \A s \in With("completed") :
    consumed[s] = MapThenSumSet(LAMBDA r : r.minutes, reports[s])
=============================================================================
