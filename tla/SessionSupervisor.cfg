CONSTANTS
  Commands = {"command"}
  Directs = {"direct"}
  Cancellable = {"start", "command"}
  Signals = {"alert", "code"}
  HotFailureLimit = 2
  DiscoveryPeriod = 2
  MaxSessions = 3
  MaxFaults = 3
SPECIFICATION Spec
INVARIANTS
  NoOrphan
  SessionsBounded
  SessionStable
  ShutdownCloses
PROPERTIES
  NoResurrection
  TwoGenerationsToReject
