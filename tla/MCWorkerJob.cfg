SPECIFICATION FairSpec
CONSTANTS
  j1 = j1
  j2 = j2
  j3 = j3
  r1 = r1
  r2 = r2
  e1 = e1
  Job <- MCJob
  RequestOf <- MCRequestOf
  ExecutionOf <- MCExecutionOf
  Request = {r1, r2}
  Execution = {e1}
  Canceller = {c1}
  MaxRestarts = 1
  NoRow = NoRow
  NoJob = NoJob
INVARIANT RowsSound
PROPERTIES CancelInTimeSticks StartedJobsEnd KeepsPromise
CHECK_DEADLOCK FALSE
