SPECIFICATION Spec
CONSTANTS
  Width = 3
  Height = 2
  CoreSize = 2
  Halo = 1
  MaxRequeues = 2
  Verifiers = {v1}
  Masks <- MCMasks
  AnswersOn <- MCAnswersOn
  Advice = {"increase_halo", "subdivide"}
  ExtraHalo = 1
  Subdivision = 2
  BatchSize = 2
CHECK_DEADLOCK FALSE
INVARIANTS
  PartialCoverBlocksPass
