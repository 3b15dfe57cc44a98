------------------------- MODULE MCServiceAgreement -------------------------
(***************************************************************************)
(* Three scenarios in one run.  In "cycle" two agreements in ETH go        *)
(* through the whole hire life cycle.  In "money" two agreements in either *)
(* token are settled at a price that a fee can be taken from, while the    *)
(* owner changes the treasury, which refuses ETH; there are no revisions.  *)
(* In "pause" there is one agreement while the guardian pauses and resumes *)
(* and the legacy fulfil mode is turned on and off.                        *)
(***************************************************************************)
EXTENDS ServiceAgreement

CONSTANTS prov, c1, tr, USDC

VARIABLE scenario

Proposed == {agreements[a] : a \in 1..nextId}
Undisturbed == ~paused /\ ~legacyFulfill
NoFee == protocolTreasury = NoUser /\ protocolFeeBps = 0

Cycle ==
  /\ Undisturbed /\ NoFee
  /\ \A a \in Proposed : a.price = 3 /\ a.token = ETH

Money ==
  /\ Undisturbed
  /\ protocolFeeBps = 100 /\ ETH \in allowedTokens
  /\ \A a \in Proposed :
       /\ a.price = 200
       /\ a.status \in {"PROPOSED", "ACCEPTED", "PENDING_VERIFICATION", "DISPUTED"} \cup TerminalStatuses

PauseAndResume ==
  /\ NoFee
  /\ nextId <= 1
  /\ \A a \in Proposed : a.price = 3 /\ a.token = ETH

Within ==
  CASE scenario = "cycle" -> Cycle
    [] scenario = "money" -> Money
    [] scenario = "pause" -> PauseAndResume

MCInit == Init /\ scenario \in {"cycle", "money", "pause"} /\ Within
MCNext == Next /\ UNCHANGED scenario /\ Within'

(* No restriction takes a step from a scenario that fairness asks for. *)
MCSpec ==
  /\ MCInit /\ [][MCNext]_<<vars, scenario>>
  /\ WF_vars(Tick)
  /\ \A a \in Ids :
       WF_vars(AutoRelease(a)) /\ WF_vars(ExpiredCancel(a)) /\ WF_vars(ExpiredDisputeRefund(a))
=============================================================================
