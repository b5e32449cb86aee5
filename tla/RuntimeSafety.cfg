SPECIFICATION Spec
CONSTANTS
  NoJob = NoJob
  Jobs = {j1, j2}
  SyncRequests = {y1}
  Deleters = {d1}
  Stoppers = {s1, s2}
  MaxConcurrentOptimize = 2
  JobQueueDepth = 1
  Backend = "sqlite"
  MaxFaults = 1
  GraceMayExpire = TRUE
CHECK_DEADLOCK FALSE
SYMMETRY JobSymmetry
INVARIANTS
  AdmissionIsAccounted
  StopIsSound
  ExecutingJobIsRunning
  DrainMissesNothing
PROPERTIES
  ImplementsLifecycle
