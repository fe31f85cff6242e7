CONSTANTS
  HotPaths <- HOT_PATHS
  WarmPaths <- WARM_PATHS
  ColdPaths <- COLD_PATHS
  HotPeriod = 10
  WarmPeriod = 60
  ColdPeriod = 600
  ReconcilePeriod = 600
  Second = 2
  ReadTicks = {1}
  TimeoutTicks = 16
  Broken = {"preset"}
  MaxEvents = 0
  MaxLate = 60
SPECIFICATION Spec
PROPERTY NothingStarves
