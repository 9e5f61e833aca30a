SPECIFICATION Spec
CHECK_DEADLOCK FALSE
CONSTANTS
  Commands <- EquatorCommands
  Present <- MCPresent
  Arrivals <- MCArrivals
  BadFiles <- MCBadFiles
  MaxRuns = 2
  NoScan = NoScan
  NoFile = NoFile
  Missing = Missing
INVARIANT DecAsInCatalogue
