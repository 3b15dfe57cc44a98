\* The same instance; the gateway must stay reachable.
CONSTANTS
  a1 = a1
  a2 = a2
  a3 = a3
  a4 = a4
  c1 = c1
  k1 = k1
  k2 = k2
  j1 = j1
  n1 = n1
  n2 = n2
  f1 = f1
  f2 = f2
  f3 = f3
  x = x
  y = y
  d1 = d1
  d2 = d2
  q1 = q1
  q2 = q2
  h1 = h1
  h2 = h2
  h3 = h3
  b1 = b1
  b2 = b2
  b6 = b6
  m1 = m1
  m2 = m2
  t1 = t1
  t2 = t2
  w1 = w1
  w2 = w2
  w3 = w3
  Agents = {a1, a2, a3}
  Watchtowers = {w1, w2, w3}
  Amounts = {5, 10}
  MinEntries = {1}
  Durations = {2}
  FeeChoices = {0, 1000, 1001}
  STAKING_CUTOFF_BEFORE_RESOLVE = 1
  RESOLUTION_GRACE_PERIOD = 1
  EMERGENCY_REFUND_DELAY = 2
  RESOLUTION_QUORUM = 2
  MaxRounds = 1
  MaxTime = 6
  Agreements = {a1, a2, a3, a4}
  MaxConcurrentJobs = 2
  Sessions = {c1}
  MaxConcurrentSessions = 1
  AutoAccept = FALSE
  MeteringInterval = 2
  ReportInterval = 4
  SamplesPerMinute = 2
  MaxClock = 11
  MaxRestarts = 1
  Checks = {k1, k2}
  Jobs = {j1}
  SpendAmounts = {1, 2}
  Limits = {0, 2}
  CacheTTL = 1
  MaxSpend = 2
  MaxGateTime = 2
  Handshakes = {n1, n2}
  SCAN_BLOCKS = 2
  MaxBlock = 5
  MaxRuns = 2
  Names = {f1, f2, f3}
  Contents = {x, y}
  SizeOf <- MCSizeOf
  OtherFiles <- MCOtherFiles
  Absent = Absent
  CutShort = CutShort
  MaxFileSize = 3
  MaxJobSize = 4
  MaxStoreCrashes = 2
  AuthWallets = {"w1", "w2"}
  SignIns = {q1, q2}
  AuthChallenges = {d1, d2}
  ChallengeTTL = 1
  AuthSessionTTL = 2
  MaxAuthTime = 3
  RemoteIds = {1, 2}
  RemoteChallenges = {1, 2, 3}
  Simulations = {1, 2}
  Parties = {"p"}
  StepUpTTL = 1
  SessionTTL = 2
  MaxRemoteTime = 2
  MaxWallets = 2
  MaxKeys = 1
  PolicyHosts = {h1, h2}
  ArenaHosts = {h3}
  ProviderHosts = {h2}
  Addresses = {b1, b2, b6}
  Refused = {b6}
  Unresolved = Unresolved
  Loops = {"e", "r"}
  Entry = "e"
  MaxChanges = 2
  Messages = {m1, m2}
  NonceOf <- MCNonceOf
  Spellings = {"short", "filled"}
  Verifies = {1, 2}
  Tolerance = 1
  NonceTTL = 3
  RegistryTimeout = 1
  MaxGuardTime = 6
  Terms = {t1, t2}
  NoTerms = NoTerms
  Commands = {1, 2, 3, 4}
  MaxTalk = 4
SPECIFICATION MCSpec
CHECK_DEADLOCK FALSE
INVARIANT GatewayReachable
