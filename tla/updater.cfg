SPECIFICATION FairSpec
CONSTANTS
  a = a
  b = b
  c = c
  Name <- TwoNames
  Ignored <- NoneIgnored
  MaxDepth = 2
  MaxEvents = 3
  Ops = {"create", "remove"}
  ReadLimit = 2
  CompactThreshold = 2
  Overflow = TRUE
  DropAbove = FALSE
  RebuildMayFail = FALSE
  Quiet = FALSE
  Starts <- BothStarts
CHECK_DEADLOCK FALSE
INVARIANT FreshWhenIdle
PROPERTY Converges
