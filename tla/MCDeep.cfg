SPECIFICATION DeepSpec
CONSTANTS
  r1 = r1  r2 = r2  r3 = r3  r4 = r4  t1 = t1  t2 = t2  u1 = u1
  Anonymous = Anonymous
  Requests = {r1, r2, r3, r4}
  Tenants = {t1, t2}
  Users = {u1}
  TenantOf <- MCTenantOf
  UserOf <- MCUserOf
  DegradeAllowed = {r2, r3}
  Cost = 7
  TTL = 2
  TenantLimit <- MCTenantLimit
  UserEnabled = TRUE
  UserLimit <- MCUserLimit
  FailOpen = FALSE
  Breadth = 1
  Depth = 2
  MaxChildren = 2
  TokenBudget = 8
  RootTokenEstimate = 3
  Tokens = {1, 2, 3}
  RetrySettings <- MCRetrySettings
  Evidence = {"e"}
  TreeNodes = {"n1", "n2"}
  Flushers = {"f1", "f2"}
  MaxFlushes = 3
  Screened = {"s1", "s2", "s3"}
  MaxFails = 2
  OpenFor = 2
  ThresholdProceed = 6
  ThresholdSuggest = 4
  ScreenScores = {3, 5, 7}
  FailOpenOnTimeout = FALSE
  MaxScreens = 6
  Reports <- MCReports
  Citations = {1, 2}
  MaxAgents = 2
  SidecarKinds = {"synthesis", "embedder", "deepreport", "tokenizer", "faithfulness"}
  SidecarRetries = 2
  MaxSidecarCalls = 1
  NumDocs = 4
  Rankings <- MCRankings
CHECK_DEADLOCK FALSE
INVARIANTS CapHolds RecentCounted DeepTypesOK TreeBudget DraftKept BreakerOpens 
PROPERTY NobodyWaitsForEver
