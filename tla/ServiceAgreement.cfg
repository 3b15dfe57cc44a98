\* The three scenarios of MCServiceAgreement.
CONSTANTS
  prov = prov
  c1 = c1
  tr = tr
  USDC = USDC
  Users = {prov, c1, tr}
  Clients = {c1}
  Providers = {prov}
  Treasuries = {tr}
  Refusers = {tr}
  NoUser = NoUser
  ETH = ETH
  Tokens = {ETH, USDC}
  Prices = {3, 200}
  Deadlines = {2}
  Awards = {1, 100}
  FeeChoices = {0, 100}
  PauseChoices = {FALSE, TRUE}
  LegacyChoices = {FALSE, TRUE}
  VERIFY_WINDOW = 1
  DISPUTE_TIMEOUT = 1
  MaxAgreements = 2
  MaxTime = 4
SPECIFICATION MCSpec
CHECK_DEADLOCK FALSE
PROPERTIES SettledOnce ImplementsLedger AgreementsEnd
