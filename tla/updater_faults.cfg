SPECIFICATION Spec
CONSTANTS
  a = a
  b = b
  c = c
  Name <- TwoNames
  Ignored <- BIgnored
  MaxDepth = 2
  MaxEvents = 3
  Ops = {"create", "remove", "rename", "chmod", "wrap"}
  ReadLimit = 2
  CompactThreshold = 2
  Overflow = TRUE
  DropAbove = TRUE
  RebuildMayFail = TRUE
  Quiet = FALSE
  Starts <- BothStarts
CHECK_DEADLOCK FALSE
INVARIANTS TypeOK SiblingsUnique CutIsRebuilt
PROPERTY SnapshotsExtend
