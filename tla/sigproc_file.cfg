SPECIFICATION Spec
CHECK_DEADLOCK FALSE
CONSTANTS
  Scenarios <- MCScenarios
  HeaderLen = 5
  SizeWrap = 256
  IntWrap = 16
  MaxTransfer = 6
  MaxSpectra = 2
  MaxRuns = 2
  NoFile = NoFile
  NoHeader = NoHeader
  Junk = Junk
INVARIANTS TypeOK ReadRight LengthHolds ReadToTheEnd DataIntact
PROPERTIES EditKeepsLength ReaderEnds
