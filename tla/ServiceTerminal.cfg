\* A revision answered with a terminal status.
CONSTANTS
  prov = prov
  c1 = c1
  tr = tr
  USDC = USDC
  Users = {prov, c1}
  Clients = {c1}
  Providers = {prov}
  Treasuries = {}
  Refusers = {}
  NoUser = NoUser
  ETH = ETH
  Tokens = {ETH}
  Prices = {3}
  Deadlines = {2}
  Awards = {1, 4}
  FeeChoices = {0}
  PauseChoices = {}
  LegacyChoices = {}
  VERIFY_WINDOW = 1
  DISPUTE_TIMEOUT = 1
  MaxAgreements = 2
  MaxTime = 4
SPECIFICATION MCSpec
CHECK_DEADLOCK FALSE
INVARIANTS TerminalPaidOut
