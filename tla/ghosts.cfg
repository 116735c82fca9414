SPECIFICATION Spec
CONSTANTS
  a = a
  b = b
  c = c
  Name <- TwoNames
  Ignored <- NoneIgnored
  MaxDepth = 2
  MaxEvents = 4
  Ops = {"create", "remove"}
  ReadLimit = 5
  CompactThreshold = 5
  Overflow = FALSE
  DropAbove = FALSE
  RebuildMayFail = FALSE
  Quiet = FALSE
  Starts <- EmptyOnly
CHECK_DEADLOCK FALSE
INVARIANT PrintsDisk
