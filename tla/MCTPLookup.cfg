SPECIFICATION Spec
CONSTANTS
  s1 = s1
  s2 = s2
  Seg = {s1}
  Req = {r1, r2}
  Target = {0}
  Rank = {k0, k1}
  First = k0
  Prompt <- MCShortPrompt
  MaxTimeouts = 0
  None = None
INVARIANTS
  TypeOK
  PlanPinned
  PinsHaveOwner
PROPERTIES
  RankContracts
  LookupEnds
  FinishedUnpins
