SPECIFICATION SourcesSpec
CONSTANTS
  f1 = f1  f2 = f2
  Fetches = {f1, f2}
  Skips = {{}, {"robots"}, {"robots", "head"}}
  MaxBrowsers = 1
  PlaywrightEnabled = TRUE
  IndexWired = TRUE
  WriteThrough = TRUE
  Corpora <- MCCorpora
  Asks = {0, 1, 3, 9}
  DefaultResults = 2
  MaxResults = 4
  NaverLastStart = 5
  ServicePage = 2
  XEnabled = TRUE
  Callers = {"a", "b", "c"}
  MaxTokens = 3
  MinInterval = 2
  Cooldown = 2
  MaxAttempts = 3
  RetryAfters = {0, 1, 3}
  Horizon = 6
  Feeds = {1, 2}
  MaxParallelFeeds = 1
  Pages = {"p", "q"}
  ProbedSources = {"s", "t", "u"}
  NeedsKey = {"t"}
  KeysSet = {}
  Admins = {"a"}
  MaxCalls = 1
CHECK_DEADLOCK FALSE
INVARIANTS SourcesTypesOK FetcherAccounted PhasesHonest AdaptersSound WaitsSound SiblingsIndependent
PROPERTY CallsReturn
