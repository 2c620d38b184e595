SPECIFICATION FairSpec
CONSTANTS
  anthropic = anthropic  openai = openai  summary = summary  embed = embed
  Callers = {c1, c2}
  Providers = {anthropic, openai}
  Classes = {summary}
  Priorities <- MCOneClass
  Kinds = {"complete"}
  Outcomes = {"ok", "retry"}
  Window = 2
  OpenTimeout = 1
  MinSamples = 2
  MaxRetries = 2
  MaxObs = 3
CHECK_DEADLOCK FALSE
PROPERTY HalfOpenResolves
