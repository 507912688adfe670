SPECIFICATION Spec
CONSTANTS
  Req = {r1}
  Length = 7
  Chunk = 2
  BlockSize = 2
  SparseQ = {TRUE, FALSE}
  Policies = {"recompute", "fail"}
  MaxMoves = 2
  MaxPreemptions = 1
  MaxFailures = 1
  None = None
SYMMETRY Symmetry
INVARIANTS TypeOK SlotsCurrent GatherExact ClaimsLoaded SharedWhileStable ComputedFilled SavedUntilFailure FirstLoadPinned
CHECK_DEADLOCK FALSE
