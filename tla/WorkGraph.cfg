SPECIFICATION LiveSpec
CONSTANTS
  Graphs <- AllGraphs
  MaxKept = 1
  MaxTurns = 2
INVARIANTS NeverStuckAtHome NoParentStarves SignalsFollowData InOrder FlushedIsDelivered
PROPERTIES IoReturnsAll ThreadsEnd
\* A graph stops for good when all its threads have ended.
CHECK_DEADLOCK FALSE
