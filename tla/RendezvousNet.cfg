SPECIFICATION Spec
CONSTANTS
  Namespace = {na, nb}
  Record = {r1, r2}
  None = None
  MaxEntries = 1
  MaxTTL = 5
  Second = 1
  Node = {n1, n2}
  TTL = {0, 2}
  ReannounceInterval = 1
  MaxPersist = 1
  MaxDelay = 1
  MaxLost = 1
  MaxRegistrations = 2
SYMMETRY Symmetry
INVARIANTS
  NoneOverstays
  SpreadsInTime
