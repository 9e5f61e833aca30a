SPECIFICATION Spec
CHECK_DEADLOCK FALSE
CONSTANTS
  Block = 2
  MaxBlocks = 2
  Cases <- MCCases
INVARIANTS MemorySafe Corrected DiffbinsFit
