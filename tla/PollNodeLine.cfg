SPECIFICATION LiveSpec
CONSTANTS
  Inputs = {"in"}
  Room = 1
  Budget = 2
  NumEdges = 2
  EdgeBound = 1
  MaxSent = 3
INVARIANTS EdgesInLockstep
PROPERTIES FlushesArrive EveryPhaseEnds
