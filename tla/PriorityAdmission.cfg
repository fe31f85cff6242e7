CONSTANTS
  t1 = t1
  t2 = t2
  t3 = t3
  Tasks = {t1, t2, t3}
  NoTask = NoTask
  Priorities <- PriorityValues
  MaxSequence = 4
SPECIFICATION Spec
INVARIANTS
  TypeOK
  NoLostGrant
  ServedInTurn
PROPERTIES
  WaiterServed
  ImplementsMutex
