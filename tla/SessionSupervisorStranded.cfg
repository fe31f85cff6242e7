CONSTANTS
  Commands = {"command"}
  Directs = {}
  Cancellable = {"command"}
  Signals = {"alert"}
  HotFailureLimit = 3
  DiscoveryPeriod = 3
  MaxSessions = 3
  MaxFaults = 3
SPECIFICATION Spec
INVARIANT OutageIsRetried
