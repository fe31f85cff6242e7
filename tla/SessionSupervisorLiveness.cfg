CONSTANTS
  Commands = {"command"}
  Directs = {}
  Cancellable = {"start"}
  Signals = {"alert"}
  HotFailureLimit = 3
  DiscoveryPeriod = 3
  MaxSessions = 3
  MaxFaults = 5
SPECIFICATION Spec
INVARIANTS
  AvailableHasSession
  OutageIsRetried
PROPERTIES
  OutageEnds
  ShutdownEnds
