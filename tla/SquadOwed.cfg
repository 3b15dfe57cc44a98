\* Somebody distributes while a share is owed.
CONSTANTS
  a1 = a1
  a2 = a2
  h1 = h1
  r1 = r1
  r2 = r2
  Agents = {a1, a2}
  Hashes = {h1}
  MAX_SQUAD_MEMBERS = 3
  MaxSquads = 2
  TrustScores = {0, 300}
  MIN_CITER_TRUST = 300
  StatusHashes = {1, 2, 3, 4, 5}
  MAX_DAILY_POSTS = 2
  WINDOW_DURATION = 3
  MaxTime = 8
  Recipients = {r1, r2}
  Split <- MCSplit
  Amounts = {4, 7}
  MaxIncome <- MCMaxIncome
  MaxOwed = 8
  Authors = {"x", "y", "z"}
  Artifacts = {1, 2}
  Capabilities = {"law", "code"}
  CiterScores = {0, 300}
  MIN_SCORE = 300
  CitationThresholds = {1, 2}
  IssueHashes = {1, 2, 3}
  MaxNewsletters = 2
SPECIFICATION MCSpec
CHECK_DEADLOCK FALSE
INVARIANT OwedIsHeld
