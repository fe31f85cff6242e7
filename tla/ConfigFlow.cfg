CONSTANTS
  f1 = f1
  f2 = f2
  Flows = {f1, f2}
  h1 = h1
  h2 = h2
  Hosts = {h1, h2}
  ac = ac
  other = other
  Devices = {ac, other}
  c1 = c1
  c2 = c2
  Credentials = {c1, c2}
  None = None
SPECIFICATION FairSpec
INVARIANTS
  ProbeClosedFirst
  CredentialStands
PROPERTIES
  EntryKeepsDevice
  ValidationEnds
