SPECIFICATION FairSpec
CONSTANTS
  Caller = {"caller"}
  RunOnStart = TRUE
  MaxCycles = 3
INVARIANTS
  NoOverlap
  CountersExact
  SuccessIsStored
PROPERTIES
  QuietAfterStop
  CancelEndsLoop
CHECK_DEADLOCK FALSE
