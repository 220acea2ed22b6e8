SPECIFICATION HostSpec
CONSTANTS
  old = old
  new = new
  Limit = 2
  PipeSize = 2
  MaxOutput = 4
  Opener = {old, new}
  Latest <- HostLatest
  Statements = 2
  Strict = {3}
  MaxOpens = 2
  FileWriter = {w1, w2}
  MaxFiles = 3
  Configurations <- HostConfigurations
  MaxRules = 2
  MaxReceivers = 2
  UnsafeText = {"a b"}
  SecretText = {"token=1"}
  Loopback = {"127.0.0.1:9587", "localhost:80"}
  Routable = {"0.0.0.0:9587"}
  LongName <- HostLongName
  CleanPath <- HostCleanPath
  MaxUnits = 2
  MaxTargets = 2
  KnownMetric = {"pooly_cpu_used_ratio", "pooly_tasks_total"}
  RatioMetric = {"pooly_cpu_used_ratio"}
  NumberText <- HostNumberText
  NaNText = {"NaN"}
  Unit = {sshd, cron}
  p22 = p22
  p2222 = p2222
  Port = {p22, p2222}
  CutPort <- HostCutPort
  Profile = {root, admin}
  Value = {"no", "no_*", "yes"}
  CutValue <- HostCutValue
  Expected = "no"
  MaxChanges = 1
  MaxProbes = 1
  Appender = {w1, w2}
  MaxEvents = 3
  SyncOnWrite = TRUE
  ConfigFile = {"pooly.yaml"}
  Name = {"known"}
INVARIANTS
  TypeOK
  SchemaAsRecorded
  OpenedIsCurrent
  NeverTorn
  ReturnedIsDurable
  StartedAsAssumed
  ClaimsWereTrue
  WrittenIsOneLine
  UnaskedLeavesNothing
  ResultIsTrue
PROPERTIES
  CommandEnds
CHECK_DEADLOCK FALSE
