SPECIFICATION Spec
CONSTANTS
  NumFils = 2
  NumChannels = 8
  HeaderWords = 3
  Wrap = 64
  SizeArgs <- Listings
  RangeArgs <- ChannelRanges
  SkipArgs = {0, 1}
  NumArgs = {0, 1}
  FlipArgs = {TRUE, FALSE}
  Failing = TRUE
  Stale = Stale
INVARIANTS Deinterleaved InStep CompleteWhenClosed
PROPERTY Ends
CHECK_DEADLOCK FALSE
