SPECIFICATION CpuSpec
CONSTANTS
  MaxTicks = 2
  MaxReboots = 1
INVARIANT UsedWithinTotal
CHECK_DEADLOCK FALSE
