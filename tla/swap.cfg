SPECIFICATION Spec
CONSTANTS
  a = a
  b = b
  c = c
  Name <- ThreeNames
  Ignored <- NoneIgnored
  MaxDepth = 3
  MaxEvents = 4
  Ops = {"rename"}
  ReadLimit = 9
  CompactThreshold = 9
  Overflow = FALSE
  DropAbove = FALSE
  RebuildMayFail = FALSE
  Quiet = FALSE
  Starts <- SwapOnly
CHECK_DEADLOCK FALSE
INVARIANT FreshWhenIdle
