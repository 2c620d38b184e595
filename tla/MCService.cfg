SPECIFICATION ServiceSpec
CONSTANTS
  r1 = r1  c1 = c1  c2 = c2  d1 = d1  d2 = d2  d3 = d3  h1 = h1  h2 = h2
  Runs = {r1}
  Adapters_ = {"a", "b"}
  SourceOf <- MCSourceOf
  Answers <- MCAnswers
  MaxTokens = 2
  MaxTitle = 12
  Caps <- MCCaps
  LangTags <- MCLangTags
  ShardDocs <- MCShardDocs
  HangulShares <- MCHangul
  Clients = {c1, c2}
  Users = {"u", "v"}
  MaxSessions = 2
  DeepCalls = {d1, d2, d3}
  CallCap = 1
  DocIds = {1, 2}
  Writers = {"w1", "w2"}
  Job <- MCJob
  IndexQueries <- MCIndexQueries
  BulkBatchSize = 1
  RRFWeights <- MCWeights
  RRFConstantK = 60
  RRFUnit = 3782
  Teams = {"t1", "t2"}
  Members = {"u1", "u2"}
  TenancyModes = {"enforced", "permissive", "legacy"}
  DefaultTeam = ""
  MaxStored = 2
  AskIds = {"r1", "r2"}
  AnswerTeams = {"a", "b"}
  Asked = {"q"}
  Categories <- MCCategories
  DefaultTTL = 1
  Threshold <- MCThreshold
  Scores = {60}
  LRUCapacity = 1
  LRULife = 1
  MaxAge = 1
  Procs = {h1, h2}
  MaxEntries = 2
  RetentionDays = 2
  MaxWritten = 3
  MaxDay = 2
  BufferSize = 2
  Pollers = {"p", "q"}
  LLMCalls = {"c1"}
  Interval = 1
  MaxMinute = 4
  Months = 2
  MonthDays = 2
  RetentionHotDays = 3
  RequireS3Archive = TRUE
  MaxAuditDay = 7
  MaxReplays = 2
  MaxLinks = 3
  AuthTokens = {"t1"}
  Requesters = {"r", "s"}
  Modes = {"strict", "permissive", "disabled"}
  FailureModes = {"off", "fail-open", "fail-closed"}
  Limiters = {"memory", "redis"}
  MaxSecond = 3
  MaxRequests = 3
  CallbackLimit = 2
  CallbackWindow = 2
  RefillSeconds = 2
  Burst = 2
  Servers = {"s1", "s2"}
  Admins = {"a", "b"}
  TeamRoster <- MCMembers
  MaxChanges = 2
  PolicyTeam = "x"
CHECK_DEADLOCK FALSE
INVARIANTS ServiceTypesOK SurfacesHonest StreamWellFormed RoutingSound StoresHonest TenantIsolation
  FeedbackRespected HistoryKept TrailSound AccessSound
PROPERTY SessionsDistinct
