CONSTANTS
  Requester = {c1, c2}
  MaxPlans = 2
  MaxIter = 2
  MaxDisturbances = 1
SYMMETRY Symmetry
SPECIFICATION LoopSpec
INVARIANTS OrderKept
PROPERTY ClosedStaysClosed
CHECK_DEADLOCK FALSE
