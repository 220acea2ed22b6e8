SPECIFICATION FairSpec
CONSTANTS
  Incident = {"inc"}
  Receivers <- OffAndSevere
  Cycler = {agent}
  Sender = {send, dry}
  Enabled = TRUE
  DryRun = {dry}
  MaxTime = 2
  MaxStarts = 3
INVARIANTS
  TypeOK
  AttemptsAccounted
  DeliveredOnce
  AlertedBacked
PROPERTY DeliveryEnds
CHECK_DEADLOCK FALSE
