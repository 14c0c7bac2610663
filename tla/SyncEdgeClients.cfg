\* A writer, a work node and a poll node on a one-slot edge.
CONSTANTS
  Handles = {p1, p2, p3}
  Minted = {p1, p2, p3}
  Writers = {p1}
  Workers = {p2}
  Wakers = {p3}
  None = None
  Bound = 1
  MaxSend = 2
  WriterSends = 1
  MaxBinds = 1
SPECIFICATION ClientSpec
INVARIANTS RefusedTaskIsWoken
PROPERTIES EveryoneFinishes
