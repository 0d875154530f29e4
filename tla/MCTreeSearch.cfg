CONSTANTS
  Caller = {c1, c2}
  MaxIter = 4
  MaxDepth = 2
  MaxNodes = 4
  MaxChildren = 2
  MaxRounds = 1
  NodeBudget = 3
  MaxMishaps = 1
  None = None
SYMMETRY Symmetry
SPECIFICATION Spec
INVARIANTS LimitsKept 
PROPERTY OverStaysOver
CHECK_DEADLOCK FALSE
