SPECIFICATION Spec
CONSTANTS
  Namespace = {n1, n2}
  Record = {r1}
  None = None
  MaxEntries = 1
  MaxTTL = 2
  Second = 2
  Writer = {w1, w2}
  TTL = {0, 1, 3}
  MaxClock = 3
INVARIANTS
  WithinLimit
  NoneOutlivesGrant
  SettledIsPersisted
PROPERTY LocalStays
