CONSTANTS
  Patch = {p1, p2}
  PerPatch = 1
  Caller = {c1, c2}
  MaxMishaps = 1
SYMMETRY Symmetry
SPECIFICATION Spec
INVARIANTS LedgerSound MainWasDecided
PROPERTIES MergeVetted 
CHECK_DEADLOCK FALSE
