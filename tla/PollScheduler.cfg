CONSTANTS
  HotPaths <- SmallHot
  WarmPaths <- SmallWarm
  ColdPaths <- SmallCold
  HotPeriod = 3
  WarmPeriod = 6
  ColdPeriod = 12
  ReconcilePeriod = 12
  Second = 1
  ReadTicks = {1}
  TimeoutTicks = 2
  Broken = {}
  MaxEvents = 3
  MaxLate = 4
SPECIFICATION Spec
PROPERTIES NoNeedlessPoll UrgentFirst NothingStarves
