\* The two scenarios of MCComputeAgreement, with two sessions each, at most an hour long: 65 minutes
\* can be reported.  No ETH is sent along with a dispute: see ComputeTrapped.cfg.
CONSTANTS
  prov = prov
  c1 = c1
  tr = tr
  USDC = USDC
  Users = {prov, c1, tr}
  Clients = {c1}
  Providers = {prov}
  Treasuries = {tr}
  NoUser = NoUser
  Sessions = {s1, s2}
  ETH = ETH
  Tokens = {ETH, USDC}
  Rates = {100, 500}
  HourChoices = {1}
  MinuteChoices = {25, 40}
  Metrics = {m1}
  Awards = {0, 40}
  FeeChoices = {0, 100}
  ArbitrationSet = {FALSE, TRUE}
  DisputeFees = {0}
  PROPOSAL_TTL = 1
  MaxTime = 3
SPECIFICATION MCSpec
CHECK_DEADLOCK FALSE
INVARIANT BilledOnce
PROPERTIES SettledOnce ImplementsLedger DepositNotLockedUp
