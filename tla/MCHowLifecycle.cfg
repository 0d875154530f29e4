SPECIFICATION FairSpec
CONSTANTS
  l1 = l1
  v1 = v1
  P1 = P1
  P2 = P2
  Cand = {l1, v1}
  Invent = {v1}
  HowOf <- MCHowOf
  Daemon = daemon
  Caller = {k1}
  MaxTicks = 6
  MaxAttempts = 2
  MaxDrafts = 2
  MaxEvents = 2
INVARIANTS  HumanDecides
 
CHECK_DEADLOCK FALSE
