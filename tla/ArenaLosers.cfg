\* One round refunded in part and resolved afterwards.
CONSTANTS
  a1 = a1
  a2 = a2
  a3 = a3
  w1 = w1
  w2 = w2
  w3 = w3
  Agents = {a1, a2}
  Watchtowers = {w1, w2}
  Amounts = {5, 10}
  MinEntries = {1}
  Durations = {2}
  FeeChoices = {0}
  STAKING_CUTOFF_BEFORE_RESOLVE = 1
  RESOLUTION_GRACE_PERIOD = 1
  EMERGENCY_REFUND_DELAY = 2
  RESOLUTION_QUORUM = 2
  MaxRounds = 1
  MaxTime = 7
SPECIFICATION Spec
CHECK_DEADLOCK FALSE
INVARIANT LosersReceiveNothing
