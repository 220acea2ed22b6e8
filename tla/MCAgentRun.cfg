SPECIFICATION FairSpec
CONSTANTS
  Caller = {}
  RunOnStart = TRUE
  MaxCycles = 2
  APIEnabled = TRUE
  WatchdogEnabled = TRUE
INVARIANTS
  StoreClosedLast
  ReadyAfterFirstCycle
PROPERTIES
  StoppingIsLast
  SignalEndsRun
CHECK_DEADLOCK FALSE
