-------------------------- MODULE HandshakeWatcher ---------------------------
(***************************************************************************)
(* The daemon's watcher for handshakes sent to its wallet                  *)
(* (packages/arc402-daemon/src/handshake-watcher.ts): a scan of the last   *)
(* SCAN_BLOCKS blocks at start, then the live events; the ids of handled   *)
(* handshakes are kept on disk.                                            *)
(*                                                                         *)
(* Only handshakes to this wallet are in the model.  The scan handles one  *)
(* at a time and waits for it; live events are handled side by side.  The  *)
(* node's subscription starts at the block after the one it is made in and *)
(* delivers each event once.  scannedTo, liveFrom, delivered and failed    *)
(* are about the current run.                                              *)
(***************************************************************************)
EXTENDS Integers, FiniteSets

CONSTANTS
  Handshakes,
  SCAN_BLOCKS,
  MaxBlock, MaxRuns    \* bounds

ASSUME HandshakeAssumption == SCAN_BLOCKS \in Nat /\ MaxBlock \in Nat \ {0} /\ MaxRuns \in Nat

VARIABLES
  block,       \* the latest block
  sentAt,      \* the block of each handshake; 0: not sent
  phase,       \* what the watcher is doing
  runs,        \* how often it was started
  processed,   \* processedIds
  savedIds,    \* the ids in processedIdsPath
  logs,        \* what the scan found and has still to handle
  handling,    \* handshakes whose onHandshake has not returned
  delivered,   \* live events received
  failed,      \* handshakes whose onHandshake threw; all, when the scan itself did
  scannedTo, liveFrom

watcherVars == <<block, sentAt, phase, runs, processed, savedIds, logs, handling, delivered,
                 failed, scannedTo, liveFrom>>
chain == <<block, sentAt>>
thisRun == <<phase, runs, scannedTo, liveFrom>>

WatcherInit ==
  /\ block = 1
  /\ sentAt = [h \in Handshakes |-> 0]
  /\ phase = "down" /\ runs = 0
  /\ processed = {} /\ savedIds = {} /\ logs = {} /\ handling = {} /\ delivered = {} /\ failed = {}
  /\ scannedTo = 0 /\ liveFrom = 0

Sent == {h \in Handshakes : sentAt[h] > 0}

(* A block with some handshakes in it *)
Mine ==
  /\ block < MaxBlock
  /\ block' = block + 1
  /\ \E new \in SUBSET (Handshakes \ Sent) :
       sentAt' = [h \in Handshakes |-> IF h \in new THEN block' ELSE sentAt[h]]
  /\ UNCHANGED <<thisRun, processed, savedIds, logs, handling, delivered, failed>>

(* Faulty variant: the ids on disk are not read. *)
StartWatcher_Fresh ==
  /\ phase = "down" /\ runs < MaxRuns
  /\ phase' = "scanning" /\ runs' = runs + 1
  /\ processed' = {}
  /\ UNCHANGED <<chain, savedIds, logs, handling, delivered, failed, scannedTo, liveFrom>>

StartWatcher ==
  /\ phase = "down" /\ runs < MaxRuns
  /\ phase' = "scanning" /\ runs' = runs + 1
  /\ processed' = savedIds
  /\ UNCHANGED <<chain, savedIds, logs, handling, delivered, failed, scannedTo, liveFrom>>

FromBlock == IF block > SCAN_BLOCKS THEN block - SCAN_BLOCKS ELSE 0

(* The scan's query is answered with the logs up to the latest block, of    *)
(* which those already handled are passed over.                             *)
CatchupScan ==
  /\ phase = "scanning"
  /\ phase' = "catching_up" /\ scannedTo' = block
  /\ logs' = {h \in Sent : sentAt[h] >= FromBlock} \ processed
  /\ UNCHANGED <<chain, runs, processed, savedIds, handling, delivered, failed, liveFrom>>

(* The scan fails: the watcher goes on to the live events. *)
CatchupFails ==
  /\ phase = "scanning"
  /\ phase' = "catching_up" /\ failed' = Handshakes
  /\ UNCHANGED <<chain, runs, processed, savedIds, logs, handling, delivered, scannedTo, liveFrom>>

(* The next log of the scan *)
HandleNext(h) ==
  /\ phase = "catching_up" /\ handling = {} /\ h \in logs
  /\ \A o \in logs : sentAt[h] <= sentAt[o]
  /\ handling' = {h} /\ logs' = logs \ {h}
  /\ UNCHANGED <<chain, thisRun, processed, savedIds, delivered, failed>>

SubscribeLive ==
  /\ phase = "catching_up" /\ logs = {} /\ handling = {}
  /\ phase' = "live" /\ liveFrom' = block
  /\ UNCHANGED <<chain, runs, processed, savedIds, logs, handling, delivered, failed, scannedTo>>

(* A live event, handled unless its id is known *)
Deliver(h) ==
  /\ phase = "live" /\ sentAt[h] > liveFrom /\ h \notin delivered
  /\ delivered' = delivered \cup {h}
  /\ handling' = IF h \in processed THEN handling ELSE handling \cup {h}
  /\ UNCHANGED <<chain, thisRun, processed, savedIds, logs, failed>>

(* onHandshake returned; the ids are written, or that fails *)
HandlingEnds(h) ==
  /\ h \in handling
  /\ handling' = handling \ {h}
  /\ processed' = processed \cup {h}
  /\ savedIds' \in {savedIds, processed'}
  /\ UNCHANGED <<chain, thisRun, logs, delivered, failed>>

(* Faulty variant: what onHandshake throws ends the scan. *)
HandlingFails_EndsScan(h) ==
  /\ h \in handling
  /\ handling' = handling \ {h}
  /\ failed' = failed \cup {h} /\ logs' = {}
  /\ UNCHANGED <<chain, thisRun, processed, savedIds, delivered>>

(* onHandshake throws: only this handshake is left unprocessed *)
HandlingFails(h) ==
  /\ h \in handling
  /\ handling' = handling \ {h}
  /\ failed' = failed \cup {h}
  /\ UNCHANGED <<chain, thisRun, processed, savedIds, logs, delivered>>

(* The daemon stops or crashes; a write of the ids that was cut short       *)
(* leaves a file that cannot be read.                                       *)
StopWatcher ==
  /\ phase # "down"
  /\ phase' = "down"
  /\ processed' = {} /\ logs' = {} /\ handling' = {} /\ delivered' = {} /\ failed' = {}
  /\ savedIds' \in {savedIds} \cup (IF handling = {} THEN {} ELSE {{}})
  /\ scannedTo' = 0 /\ liveFrom' = 0
  /\ UNCHANGED <<chain, runs>>

WatcherNext ==
  \/ Mine \/ StartWatcher \/ CatchupScan \/ CatchupFails \/ SubscribeLive \/ StopWatcher
  \/ \E h \in Handshakes : HandleNext(h) \/ Deliver(h) \/ HandlingEnds(h) \/ HandlingFails(h)

WatcherSpec == WatcherInit /\ [][WatcherNext]_watcherVars

-----------------------------------------------------------------------------
WatcherTypeOK ==
  /\ block \in 1..MaxBlock /\ sentAt \in [Handshakes -> 0..MaxBlock]
  /\ phase \in {"down", "scanning", "catching_up", "live"} /\ runs \in 0..MaxRuns
  /\ processed \cup savedIds \cup logs \cup handling \cup delivered \cup failed \subseteq Handshakes
  /\ savedIds \subseteq Handshakes /\ scannedTo \in 0..block /\ liveFrom \in 0..block

(* Once a watcher is live, every handshake of the blocks it scanned was     *)
(* handled in this run or an earlier one, is being handled, or failed by    *)
(* itself, and each one mined since it subscribed is handled or to come.    *)
(* (What is mined between the scan and the subscription waits for the next  *)
(* start; SCAN_BLOCKS is counted back from the scan.)                       *)
NoneMissed ==
  phase = "live" =>
    \A h \in Sent :
      \/ h \in processed \cup handling \cup failed
      \/ sentAt[h] < scannedTo - SCAN_BLOCKS
      \/ sentAt[h] \in (scannedTo + 1)..liveFrom
      \/ sentAt[h] > liveFrom /\ h \notin delivered

(* A handshake is never handled again once its id is on disk, across        *)
(* restarts, nor twice in one run.                                          *)
NeverHandledTwice ==
  [][\A h \in handling' \ handling : h \notin savedIds \cup processed]_watcherVars

(* No handshake is lost and none is handled twice.                          *)
HandshakesHandled == []NoneMissed /\ NeverHandledTwice
=============================================================================
