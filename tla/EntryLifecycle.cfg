SPECIFICATION FairSpec
INVARIANTS
  RejectionAsksOnce
  NoStrayCoordinator
PROPERTIES
  SilentWhileUnloading
  StoredIsRead
  StopIsHeard
