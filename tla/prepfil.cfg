SPECIFICATION Spec
CHECK_DEADLOCK FALSE
CONSTANTS
  Inputs <- MCInputs
  Jobs <- MCJobs
  Buffers = {2, 4, 6, 20}
  ChunkFloats = 6
  CopyCells = 5
  MaxOutliers = 1
  MaxCrashes = 1
  Failures = {"kill", "power"}
  NoMask = NoMask
  NoFile = NoFile
  Zero = Zero
  Hole = Hole
INVARIANTS TypeOK PublishedWhole DoneIsDurable OutputRight CountedOnce BuffersFit
