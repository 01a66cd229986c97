SPECIFICATION HistorySpec
CONSTANTS
  ApproxDecay <- MCApproxDecay
  decaySpeedupFactor = 1
  MaxSupport = 5
  MaxTime = 4
  MaxStatements = 3
  maxRankedStatements = 3
  minStatementSupportToRank = 2
  engagementWindowSeconds = 1
  InitialSupports <- RoundingInitialSupports
  Changes <- RankChanges
  MaxBatch = 1
  StartTime = 1
CHECK_DEADLOCK FALSE
INVARIANTS RankConsistency
