CONSTANTS
  Nodes = {n1}
  MaxTime = 2
  MaxTimers = 4
SPECIFICATION Spec
INVARIANTS CellsBoundedByPeak
PROPERTIES CancelEndsItsOwn ExpireIsExact
