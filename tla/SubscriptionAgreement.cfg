\* The two scenarios of MCSubscriptionAgreement: admission, renewal, expiry and disputes over time;
\* tokens, fees and arbitration that takes or refuses the fee sent along.
CONSTANTS
  prov = prov
  s1 = s1
  s2 = s2
  tr = tr
  USDC = USDC
  Users = {prov, s1, s2, tr}
  Providers = {prov}
  Subscribers = {s1, s2}
  Treasuries = {tr}
  NoUser = NoUser
  ETH = ETH
  Tokens = {ETH, USDC}
  Prices = {2, 500}
  PeriodLengths = {1, 2}
  Caps = {0, 1}
  TopUps = {1}
  Awards = {1}
  FeeChoices = {100}
  ArbitrationSet = {FALSE, TRUE}
  DisputeFees = {0, 1}
  DISPUTE_WINDOW = 1
  DISPUTE_TIMEOUT = 2
  MaxOfferings = 1
  MaxPeriods = 2
  MaxBalance = 1001
  MaxTime = 3
SPECIFICATION MCSpec
INVARIANTS TypeOK SubscriberCountExact NothingStranded ChargedForGrantedTime Solvency
PROPERTIES AccessNeverShrinks ImplementsLedger DisputesEnd
CHECK_DEADLOCK FALSE
