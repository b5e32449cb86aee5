SPECIFICATION MCSpec
CONSTANTS
  Harnesses = {h1, h2}
  Identities = {A, B}
  NumRows = 2
  MaxStarts = 2
  MaxFaults = 2
  Promoters = {p1, p2}
  Families = {f1, f2}
  NumMembers = 3
  MaxPromotions = 4
  MaxTroubles = 3
  MaxSide = 4
  MaxExtent = 10
  Sizes = {1, 2, 3}
  Budgets = {0, 2}
  Width = 3
  Height = 2
  CoreSize = 2
  Halo = 1
  MaxRequeues = 2
  Verifiers = {v1}
  Masks <- MCMasks
  AnswersOn <- MCAnswersOn
  Advice = {"increase_halo", "subdivide"}
  ExtraHalo = 1
  Subdivision = 2
  BatchSize = 2
CHECK_DEADLOCK FALSE
INVARIANTS
  AutoFailsClosed
