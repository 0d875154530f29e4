SPECIFICATION IterFairSpec
CONSTANTS
  Iter = {i1}
  Requester = {c1, c2}
  Seeds = 2
  MinSeeds = 1
  MaxRuns = 3
  MaxDecisions = 2
  MaxRewrites = 1
  MaxDeaths = 1
INVARIANTS DecisionsSound NoRunForgotten
PROPERTY Concludes
CHECK_DEADLOCK FALSE
