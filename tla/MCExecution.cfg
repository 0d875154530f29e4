SPECIFICATION FairSpec
CONSTANTS
  e1 = e1
  n1 = n1
  Execution = {e1}
  Node = {n1}
  NodeOf <- MCNodeOf
  Caller = {c1}
  MaxRestarts = 1
  MaxCancels = 1
INVARIANTS ResultsKept  ContainersMinded
PROPERTY AllSettles
CHECK_DEADLOCK FALSE
