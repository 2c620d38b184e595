SPECIFICATION ProgressSpec
CONSTANTS
  anthropic = anthropic  openai = openai  summary = summary  embed = embed
  Callers = {c1, c2}
  Providers = {anthropic, openai}
  Classes = {summary}
  Priorities <- MCOneClass
  Kinds = {"complete"}
  Outcomes = {"ok", "retry", "cancel"}
  Window = 2
  OpenTimeout = 1
  MinSamples = 2
  MaxRetries = 2
  MaxObs = 2
  Cap = 2
  MaxChunks = 4
  TokenCallers = {"a", "b"}
  TokenLife = 2
  RefreshMargin = 1
  MaxIssues = 3
  MaxOnces = 2
  MaxRevokes = 1
CHECK_DEADLOCK FALSE
INVARIANTS StreamDelivers TokensSound
PROPERTIES OpenIsProbed LLMReturns ExpiredIsRenewed
