CONSTANTS
  a = a
  b = b
  Entries = {a, b}
SPECIFICATION Spec
INVARIANTS
  IssuesFollowStore
  RemovedIsForgotten
PROPERTIES
  StandsUntilEvaluated
