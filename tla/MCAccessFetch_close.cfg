SPECIFICATION Spec
CONSTANTS
  Fetches = {f1, f2}
  Skips = {{}}
  MaxBrowsers = 1
  PlaywrightEnabled = FALSE
  IndexWired = TRUE
  WriteThrough = TRUE
CHECK_DEADLOCK FALSE
INVARIANT NoUpsertAfterClose
