CONSTANTS
  j1 = j1 j2 = j2 j3 = j3
  Jobs <- MCTwoJobs
  Workers = {w1, w2}
  Clients = {c1, c2}
  QueueCap = 1
  MaxRetries = 1
  MaxPauses = 1
  ProgressPauses <- MCProgressPauses
  NoJob = NoJob
  NoOne = NoOne
SPECIFICATION FairSpec
INVARIANTS NoSendAfterClose SingleRunner AccountedFor RetryBudget
PROPERTIES TerminalIsFinal LifecycleSpec JobsSettle ShutdownDrains
CHECK_DEADLOCK FALSE
