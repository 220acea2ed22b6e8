SPECIFICATION CollectorsSpec
CONSTANTS
  Reader = {agent, cli}
  MaxRecords = 2
  MaxEntries = 4
  MaxDamage = 1
  Watcher = {agent, cli}
  TargetType = "any"
  Mode = {public}
  Owner = {root}
  SpecialBits = {plain, setuid}
  ReadContents = TRUE
  TooLarge = {2}
  MaxWrites = 3
  Nic = {eth}
  Disk = {}
  MaxBytes = 2
  MaxBoots = 2
  MaxDay = 1
  MaxTicks = 1
  MaxReboots = 1
  BootReader = {agent, cli}
  LastBoot = 2
  Sampler = {agent, cli}
  Cycler = {agent, cli}
  CycleRules <- TwoRules
  MaxLogged = 2
  MaxCycles = 3
  MaxCycleTime = 1
SYMMETRY Symmetry
INVARIANTS
  TypeOK
  NoSilentSkip
  CollectedOnceUnlessRaced
  BaselineWasNoticed
  BaselineComplete
  DailyWithinTrafficUnlessOvertaken
  RebootReported
  LossIsReported
CHECK_DEADLOCK FALSE
