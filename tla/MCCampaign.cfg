SPECIFICATION FairSpec
CONSTANTS
  Campaign = {a, b}
  Caller = {k1, k2}
  MaxSteps = 2
  HardCap = 2
  MaxRestarts = 2
  MaxCalls = 2
INVARIANTS LeaseMatchesWorker PausedMeansIdle  ExtensionsKept
PROPERTY LeaseComesBack
CHECK_DEADLOCK FALSE
