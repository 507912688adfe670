SPECIFICATION Spec
CONSTANTS
  Seg = {s1, s2, s3}
  Layer = {k1, k2}
  Req = {r1, r2}
  Target = {0, 1}
  MaxUnits = 4
SYMMETRY Symmetry
INVARIANTS
  TypeOK
  PinnedReadable
  PinAccounting
  MemoryBound
  IndexExact
  FailedInFlight
PROPERTIES
  EvictionIsLru
  ImplementsContract
