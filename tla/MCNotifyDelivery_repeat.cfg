SPECIFICATION Spec
CONSTANTS
  Incident = {"inc"}
  Receivers <- OneReceiver
  Cycler = {agent}
  Sender = {send1}
  Enabled = TRUE
  DryRun = {}
  MaxTime = 2
  MaxStarts = 3
PROPERTY RepeatSuppressed
CHECK_DEADLOCK FALSE
