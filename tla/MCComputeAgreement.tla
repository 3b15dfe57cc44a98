------------------------- MODULE MCComputeAgreement -------------------------
(***************************************************************************)
(* Two scenarios in one run.  In "meter" sessions in ETH are reported for, *)
(* ended, disputed and cancelled as time passes.  In "money" sessions in   *)
(* either token are settled at a rate that a fee can be taken from, while  *)
(* the owner changes fee, treasury and arbitration contract.               *)
(***************************************************************************)
EXTENDS ComputeAgreement

CONSTANTS prov, c1, tr, USDC

VARIABLE scenario

Meter ==
  /\ \A s \in Sessions : Exists(s) => sessions[s].token = ETH /\ sessions[s].ratePerHour = 100
  /\ protocolTreasury = NoUser /\ protocolFeeBps = 0
  /\ ~daSet

Money ==
  /\ \A s \in Sessions : Exists(s) => sessions[s].ratePerHour = 500 /\ sessions[s].proposedAt = 1
  /\ \A r \in reportDigestUsed : r.computeMinutes = 40

Within == IF scenario = "meter" THEN Meter ELSE Money

MCInit == Init /\ scenario \in {"meter", "money"} /\ Within
MCNext == Next /\ UNCHANGED scenario /\ Within'

(* No restriction takes a step from a scenario that fairness asks for. *)
MCSpec ==
  /\ MCInit /\ [][MCNext]_<<vars, scenario>>
  /\ WF_vars(Tick)
  /\ \A s \in Sessions : WF_vars(CancelSession(s))
=============================================================================
