SPECIFICATION Spec
CHECK_DEADLOCK FALSE
CONSTANTS
  Inputs <- MCOneIF
  Jobs <- MCMaskOnly
  Buffers = {20}
  ChunkFloats = 6
  CopyCells = 5
  MaxOutliers = 1
  MaxCrashes = 0
  Failures = {"kill"}
  NoMask = NoMask
  NoFile = NoFile
  Zero = Zero
  Hole = Hole
INVARIANT KilledChannelsAreZero
