----------------------- MODULE MCSubscriptionAgreement -----------------------
(***************************************************************************)
(* Two scenarios in one run, since both together are too many states.  In  *)
(* "time" two subscribers share a small offering in ETH through its cap,   *)
(* renewals, expiry, top-ups and disputes.  In "money" one of them holds   *)
(* an offering in either token at a price that a fee can be taken from,    *)
(* while the owner changes the treasury and the arbitration contract.      *)
(***************************************************************************)
EXTENDS SubscriptionAgreement

CONSTANTS prov, s1, s2, tr, USDC

VARIABLE scenario

Offered == {offerings[o] : o \in {o \in OfferingIds : o < nextOfferingId}}
Subscribed(s) == \E o \in OfferingIds : subscriptions[<<s, o>>].subscriber # NoUser

Time ==
  /\ \A o \in Offered : o.token = ETH /\ o.pricePerPeriod = 2 /\ o.periodSeconds = 2
  /\ protocolTreasury = NoUser
  /\ ~daSet
  /\ balance[ETH] <= 4
  /\ Subscribed(s2) => Subscribed(s1)

Money ==
  /\ \A o \in Offered : o.pricePerPeriod = 500 /\ o.periodSeconds = 1 /\ o.active
  /\ ~Subscribed(s2)
  /\ \A k \in SubscriptionIds : subscriptions[k].deposited \in {0, 500, 1000}

Within == IF scenario = "time" THEN Time ELSE Money

MCInit == Init /\ scenario \in {"time", "money"}
MCNext == Next /\ UNCHANGED scenario /\ Within'

(* No restriction takes a step from a scenario that fairness asks for. *)
MCSpec ==
  /\ MCInit /\ [][MCNext]_<<vars, scenario>>
  /\ WF_vars(Tick)
  /\ \A k \in SubscriptionIds : WF_vars(ClaimDisputeTimeout(k))
=============================================================================
