SPECIFICATION Spec
CONSTANTS
  Req = {r1}
  Length = 5
  Chunk = 2
  BlockSize = 2
  SparseQ = {FALSE}
  Policies = {"recompute"}
  MaxMoves = 2
  MaxPreemptions = 0
  MaxFailures = 0
  None = None
SYMMETRY Symmetry
INVARIANTS SharedUntouched
CHECK_DEADLOCK FALSE
