SPECIFICATION Spec
CONSTANTS
  Inputs = {"left", "right"}
  Room = 1
  Budget = 1
  NumEdges = 1
  EdgeBound = 1
  MaxSent = 3
INVARIANTS NoFatal InOrder FlushedIsDelivered QuietMeansDone
