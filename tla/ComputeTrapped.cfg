\* ETH is sent along with a dispute while no arbitration contract is set.
CONSTANTS
  prov = prov
  c1 = c1
  tr = tr
  USDC = USDC
  Users = {prov, c1, tr}
  Clients = {c1}
  Providers = {prov}
  Treasuries = {tr}
  NoUser = NoUser
  Sessions = {s1, s2}
  ETH = ETH
  Tokens = {ETH}
  Rates = {100}
  HourChoices = {1}
  MinuteChoices = {25, 40}
  Metrics = {m1}
  Awards = {0, 40}
  FeeChoices = {0}
  ArbitrationSet = {}
  DisputeFees = {1}
  PROPOSAL_TTL = 1
  MaxTime = 3
SPECIFICATION MCSpec
CHECK_DEADLOCK FALSE
INVARIANTS NothingTrapped
