\* Three producers blocking on a two-slot edge; nobody is bound to a waker.
CONSTANTS
  Handles = {p1, p2, p3}
  Minted = {p1, p2, p3}
  Wakers = {}
  None = None
  Bound = 2
  MaxSend = 2
  MaxBinds = 0
SPECIFICATION Spec
SYMMETRY Symmetry
INVARIANTS NoStrandedProducer ConsumerNotStranded
PROPERTIES ChannelSpec
