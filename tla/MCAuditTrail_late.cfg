SPECIFICATION AuditSpec
CONSTANTS
  Pollers = {"p"}
  LLMCalls = {"c1"}
  Interval = 1
  MaxMinute = 4
  Months = 1
  MonthDays = 2
  RetentionHotDays = 3
  RequireS3Archive = TRUE
  MaxAuditDay = 0
  MaxReplays = 0
  MaxLinks = 0
CHECK_DEADLOCK FALSE
INVARIANT LatePollCatchesUp
