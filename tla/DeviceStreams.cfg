SPECIFICATION Spec
CONSTANTS
  NumSlots = 2
  NumLayers = 3
  MaxSteps = 2
  MaxFaults = 1
  None = None
INVARIANTS
  NoRace
PROPERTIES
  ImplementsSerial
