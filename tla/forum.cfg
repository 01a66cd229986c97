SPECIFICATION Spec
CONSTANTS
  alice = alice
  bob = bob
  ApproxDecay <- MCApproxDecay
  decaySpeedupFactor = 1
  MaxSupport = 5
  MaxTime = 4
  MaxStatements = 2
  maxRankedStatements = 1
  minStatementSupportToRank = 2
  engagementWindowSeconds = 1
  creditMultiplier = 2
  refundPenaltyBps = 5000
  userStartingCredits = 3
  userCreditAllowancePerInterval = 1
  creditAllowanceIntervalSeconds = 2
  minAdjustmentIntervalSeconds = 1
  InitialSupports <- CallInitialSupports
  Adjustments <- CallAdjustments
  MaxBatch = 2
  StartTime = 2
  Users <- MCUsers
  registrationTimestamp <- MCRegistrationTimestamp
INVARIANT SupportIsSum
PROPERTY ImplementsBoth
CHECK_DEADLOCK FALSE
