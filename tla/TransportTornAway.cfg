CONSTANTS
  c1 = c1
  c2 = c2
  u1 = u1
  u2 = u2
  k1 = k1
  Connectors = {c1, c2}
  Users = {u1, u2}
  Closers = {k1}
  Cleaner = Cleaner
  Nobody = Nobody
SPECIFICATION ImpatientSpec
INVARIANT
  SessionUsedAlone
CHECK_DEADLOCK FALSE
