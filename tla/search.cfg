CONSTANTS
  Name <- NamesUsed
  Ignored <- Nothing
  NThreads = 3
  MaxClimb = 256
  Unlimited = 1000
  Scenarios <- SomeScenarios
  Snapshots <- SomeSnapshots
  Files <- SomeFiles
SPECIFICATION Spec
INVARIANTS TypeOK HitsAreTrue NothingLost CountedOnce LimitOnlyShortens FileAnswerExact OneWholeAnswer OneReply
PROPERTY Terminates
CHECK_DEADLOCK FALSE
