SPECIFICATION Spec
CONSTANTS
  a = a
  b = b
  c = c
  Name <- TwoNames
  Ignored <- NoneIgnored
  MaxDepth = 2
  MaxEvents = 2
  Ops = {"create", "chmod"}
  ReadLimit = 5
  CompactThreshold = 5
  Overflow = FALSE
  DropAbove = FALSE
  RebuildMayFail = FALSE
  Quiet = TRUE
  Starts <- NestedOnly
CHECK_DEADLOCK FALSE
INVARIANT FreshWhenIdle
