SPECIFICATION HistorySpec
CONSTANTS
  ApproxDecay <- MCApproxDecay
  decaySpeedupFactor = 1
  MaxSupport = 3
  MaxTime = 4
  MaxStatements = 3
  maxRankedStatements = 2
  minStatementSupportToRank = 1
  engagementWindowSeconds = 1
  InitialSupports <- RankInitialSupports
  Changes <- RankChanges
  MaxBatch = 1
  StartTime = 1
CHECK_DEADLOCK FALSE
INVARIANTS RankingSound
PROPERTIES PlacesAreEarned
