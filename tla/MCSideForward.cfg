SPECIFICATION Spec
CONSTANTS
  Ranks <- MCRanks
  NumLayers = 3
  Plans <- MCPlans
  Configs <- MCConfigs
  Whole = 4
  None = None
INVARIANTS
  TypeOK
  GapsRecomputed
  ForcedRecomputed
  SameTokens
  CollectivesAgree
  MaskCurrent
PROPERTIES
  SideForwardEnds
