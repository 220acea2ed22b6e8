SPECIFICATION Spec
CONSTANTS
  Caller = {}
  RunOnStart = FALSE
  MaxCycles = 1
  APIEnabled = TRUE
  WatchdogEnabled = TRUE
INVARIANT ServeErrorNotReady
CHECK_DEADLOCK FALSE
