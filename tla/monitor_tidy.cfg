SPECIFICATION Spec
CONSTANTS
  p1 = p1
  p2 = p2
  Prefixes = {p1}
  MaxFiles = 3
  MaxSize = 3
  HeaderBlocks = 1
  SpecBlocks = 2
  Wrap = 16
  StablePolls = 5
  MaxStall = 3
  QuietCap = 3
  Faults = {"crash"}
  MaxFaults = 1
  SkipArgs = {0, 1}
  NumArgs = {0, 2}
  PrefixArgs = {p1, NoPrefix}
  NoFile = NoFile
  NoPrefix = NoPrefix
INVARIANTS TypeOK WholeFiles Contiguous NeverThrows ExitsWithRequested
PROPERTY EveryFileHandled
