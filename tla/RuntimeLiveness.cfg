SPECIFICATION StopperSpec
CONSTANTS
  NoJob = NoJob
  Jobs = {j1, j2}
  SyncRequests = {y1}
  Deleters = {d1}
  Stoppers = {s1}
  MaxConcurrentOptimize = 1
  JobQueueDepth = 2
  Backend = "sqlite"
  MaxFaults = 0
  GraceMayExpire = TRUE
CHECK_DEADLOCK FALSE
PROPERTIES
  StopReturns
  QueuedJobIsTakenUp
  DrainStops
