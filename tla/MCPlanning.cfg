CONSTANTS
  Plan = {p1}
  Cand = {x1, x2}
  Caller = {c1, c2}
  MaxNodes = 2
  MaxKeep = 1
  MaxNew = 1
  MaxCredit = 1
  MaxSpent = 2
  MaxMishaps = 1
  None = None
SYMMETRY Symmetry
SPECIFICATION Spec
INVARIANTS DecisionsStand PlansKept MadeAsAsked
CHECK_DEADLOCK FALSE
