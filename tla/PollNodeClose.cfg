SPECIFICATION Spec
CONSTANTS
  Inputs = {"left", "right"}
  Room = 1
  Budget = 1
  NumEdges = 1
  EdgeBound = 1
  MaxSent = 1
INVARIANTS EitherCloseEndsTheNode
