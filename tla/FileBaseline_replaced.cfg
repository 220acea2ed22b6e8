SPECIFICATION FileSpec
CONSTANTS
  Watcher = {agent}
  TargetType = "directory"
  Mode = {private}
  Owner = {root}
  SpecialBits = {plain}
  ReadContents = TRUE
  TooLarge = {}
  MaxWrites = 3
INVARIANTS
  SubstitutionIsIncomplete
CHECK_DEADLOCK FALSE
