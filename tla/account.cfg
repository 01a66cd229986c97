SPECIFICATION Spec
CONSTANTS
  ApproxDecay <- MCApproxDecay
  decaySpeedupFactor = 1
  MaxSupport = 6
  MaxTime = 4
  MaxStatements = 3
  creditMultiplier = 2
  refundPenaltyBps = 2000
  registrationTimestamp = 1
  userStartingCredits = 9
  userCreditAllowancePerInterval = 3
  creditAllowanceIntervalSeconds = 2
  minAdjustmentIntervalSeconds = 0
  InitialSupports <- CallInitialSupports
  Adjustments <- CallAdjustments
  MaxBatch = 2
  StartTime = 1
INVARIANTS NoFreeCredits
PROPERTIES AccountIsKept
CHECK_DEADLOCK FALSE
