SPECIFICATION RemoteFairSpec
CONSTANTS
  Remote = {e1}
  Caller = {c1}
  NoExecution = NoExecution
  MaxCancels = 1
  MaxFaults = 1
  MaxClientRestarts = 1
  MaxWorkerRestarts = 1
INVARIANT Accounted
PROPERTY RowsSettle
CHECK_DEADLOCK FALSE
