SPECIFICATION MCSpec
CONSTANTS
  NumTiles = 4
  NumWorkers = 3
  StreamTiles = 7
  StreamWorkers = 3
  QueueDepth = 1
  s1 = s1
  s2 = s2
  s3 = s3
  Submitters = {s1, s2, s3}
  Readers = {r1, r2}
  ScoreOf <- MCScoreOf
  Legacy <- MCLegacy
  p1 = p1
  d1 = d1
  d2 = d2
  x1 = x1
  NumJobs = 2
  HistoryCap = 1
  Pollers = {p1}
  Downloads = {d1, d2}
  Deleters = {x1}
  JobOf <- MCJobOf
  Destination <- MCDestination
CHECK_DEADLOCK FALSE
INVARIANTS
  OutcomeIsJust
  NothingLeftBehind
  ResidentIsBounded
  OutcomeIsEarned
  SubmissionsAreKept
  RankingIsSound
  LeasesAreAccounted
  LeasedArtifactIsKept
  NoPartIsLeftBehind
PROPERTIES
  CallEnds
  StreamEndsOrStarves
  WaitEnds
