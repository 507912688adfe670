SPECIFICATION Spec
CONSTANTS
  s1 = s1
  s2 = s2
  Seg = {s1, s2}
  Req = {r1}
  Target = {0, 1}
  Rank = {k0, k1}
  First = k0
  Prompt <- MCPrompt
  MaxTimeouts = 1
  None = None
INVARIANTS CancellationReleases
CHECK_DEADLOCK FALSE
