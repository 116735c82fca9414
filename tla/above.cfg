SPECIFICATION Spec
CONSTANTS
  a = a
  b = b
  c = c
  Name <- TwoNames
  Ignored <- NoneIgnored
  MaxDepth = 2
  MaxEvents = 2
  Ops = {"create", "remove"}
  ReadLimit = 2
  CompactThreshold = 2
  Overflow = FALSE
  DropAbove = TRUE
  RebuildMayFail = FALSE
  Quiet = FALSE
  Starts <- BothStarts
CHECK_DEADLOCK FALSE
INVARIANT FreshWhenIdle
