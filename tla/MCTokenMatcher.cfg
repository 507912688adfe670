SPECIFICATION Spec
CONSTANTS
  Records <- MCRecords
  Prompts <- MCPrompts
  Chunk = 2
  Base = 3
  Modulus = 4
INVARIANTS
  IndexesAgree
  MatchGreedy
  PlanAccepted
