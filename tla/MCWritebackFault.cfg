SPECIFICATION WSpec
CONSTANTS
  r1 = r1
  r2 = r2
  s1 = s1
  s2 = s2
  Seg = {s1, s2}
  Layer <- MCLayers
  Req = {r1, r2}
  Target = {0}
  MaxUnits = 3
  NumLayers = 2
  Chunks <- MCChunks
  MaxInflight = 2
  Workers = 2
  MaxFaults = 1
INVARIANTS
  EntriesDiscarded
