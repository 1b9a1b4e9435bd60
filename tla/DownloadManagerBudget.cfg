CONSTANTS
  j1 = j1 j2 = j2 j3 = j3
  Jobs <- MCTwoJobs
  Workers = {w1}
  Clients = {c1}
  QueueCap = 1
  MaxRetries = 1
  MaxPauses = 1
  ProgressPauses <- MCProgressPauses
  NoJob = NoJob
  NoOne = NoOne
SPECIFICATION Spec
INVARIANT DeadMeansExhausted
CHECK_DEADLOCK FALSE
