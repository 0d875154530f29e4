SPECIFICATION LeaseSpec
CONSTANTS
  t1 = t1
  t2 = t2
  t3 = t3
  p1 = p1
  p2 = p2
  Thread <- MCThread
  Process <- MCProcess
  HostOf <- MCHostOf
  Owner = {campA, campB}
  NoFile = NoFile
  NoOwner = NoOwner
  NoProcess = NoProcess
INVARIANTS ExclusiveUntilCrash LiveLeaseHasHolder
CHECK_DEADLOCK FALSE
