SPECIFICATION Spec
CONSTANTS
  NoJob = NoJob
  Jobs = {j1, j2}
  SyncRequests = {}
  Deleters = {d1}
  Stoppers = {s1}
  MaxConcurrentOptimize = 1
  JobQueueDepth = 2
  Backend = "sqlite"
  MaxFaults = 0
  GraceMayExpire = FALSE
CHECK_DEADLOCK FALSE
INVARIANTS
  RunningIsExecuted
