SPECIFICATION Spec
CHECK_DEADLOCK FALSE
CONSTANTS
  Commands <- MCCommands
  Present <- MCPresent
  Arrivals <- MCArrivals
  BadFiles <- MCBadFiles
  MaxRuns = 2
  NoScan = NoScan
  NoFile = NoFile
  Missing = Missing
INVARIANTS TypeOK OwnFiles PastScansComplete HeaderOfScan
PROPERTIES DoneStaysDone Ends
