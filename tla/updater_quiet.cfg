SPECIFICATION Spec
CONSTANTS
  a = a
  b = b
  c = c
  Name <- TwoNames
  Ignored <- NoneIgnored
  MaxDepth = 3
  MaxEvents = 4
  Ops = {"create", "remove", "move"}
  ReadLimit = 5
  CompactThreshold = 5
  Overflow = FALSE
  DropAbove = FALSE
  RebuildMayFail = FALSE
  Quiet = TRUE
  Starts <- DeepOrEmpty
CHECK_DEADLOCK FALSE
INVARIANTS FreshWhenIdle PrintsDisk
