SPECIFICATION FairSpec
CONSTANTS
  NoJob = NoJob
  Jobs = {j1, j2}
  MaxCrashes = 2
  MaxFaults = 1
  MaxLosses = 1
CHECK_DEADLOCK FALSE
INVARIANTS
  ArtifactsAreWhole
  AcceptedJobIsSafe
PROPERTIES
  ServesFromSettledStore
  ImplementsLifecycle
  QueuedIsSettled
