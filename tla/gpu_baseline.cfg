SPECIFICATION Spec
CHECK_DEADLOCK FALSE
CONSTANTS
  NumChans = 7
  MaxStreams = 4
  JobArgs <- MCJobs
  FitArgs = {0, 1, 2, 3, 9}
  Stale = Stale
  Zeros = Zeros
  Garbage = Garbage
INVARIANT NothingPending
PROPERTIES BaselineSpec Finishes
