SPECIFICATION Spec
CONSTANTS
  p1 = p1
  p2 = p2
  Prefixes = {p1}
  MaxFiles = 3
  MaxSize = 2
  HeaderBlocks = 1
  SpecBlocks = 1
  Wrap = 4
  StablePolls = 1
  MaxStall = 0
  QuietCap = 0
  Faults = {"late", "remove", "truncate", "stall", "crash"}
  MaxFaults = 1
  SkipArgs = {0, 1}
  NumArgs = {0}
  PrefixArgs = {NoPrefix}
  NoFile = NoFile
  NoPrefix = NoPrefix
INVARIANT InOrder
PROPERTIES ArchiveSpec PickSkipsNothing
