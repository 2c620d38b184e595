SPECIFICATION Spec
CONSTANTS
  anthropic = anthropic  openai = openai  summary = summary  embed = embed
  Callers = {c1, c2}
  Providers = {anthropic, openai}
  Classes = {summary, embed}
  Priorities <- MCPriorities
  Kinds = {"complete", "stream"}
  Outcomes = {"ok", "fatal", "retry", "cancel"}
  Window = 2
  OpenTimeout = 1
  MinSamples = 2
  MaxRetries = 2
  MaxObs = 3
CHECK_DEADLOCK FALSE
INVARIANTS TypeOK TrippedWhenDue
PROPERTIES OpenHolds
