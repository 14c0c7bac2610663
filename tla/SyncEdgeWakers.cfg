CONSTANTS
  Handles = {p1, p2}
  Minted = {p1}
  Wakers = {w1, w2}
  None = None
  Bound = 1
  MaxSend = 2
  MaxBinds = 2
SPECIFICATION Spec
SYMMETRY Symmetry
INVARIANTS TypeOK RefusedMeansFull StuckIsOwedAWake ClosedIsFinal
