SPECIFICATION Spec
CONSTANTS
  NumFils = 1
  NumChannels = 4
  HeaderWords = 4
  Wrap = 64
  SizeArgs <- ShortListings
  RangeArgs <- ChannelRanges
  SkipArgs = {0}
  NumArgs = {0}
  FlipArgs = {TRUE}
  Failing = FALSE
  Stale = Stale
INVARIANT NoPhantomSpectra
CHECK_DEADLOCK FALSE
