CONSTANTS
  Name <- NamesUsed
  Ignored <- Nothing
  NThreads = 3
  MaxClimb = 256
  Unlimited = 1000
  Scenarios <- OnlyDaemonUp
  Snapshots <- OnlyTwins
  Files <- OnlyTwins
SPECIFICATION Spec
INVARIANT SameAsOffline
CHECK_DEADLOCK FALSE
