SPECIFICATION MCSpec
CONSTANTS
  ApproxDecay <- MCApproxDecay
  decaySpeedupFactor = 1
  MaxSupport = 8
  MaxTime = 1
  creditMultiplier = 2
  refundPenaltyBps = 2000
  MaxListed = 3
  MaxShown = 2
  StartSupports <- MCStartSupports
  StartCredits <- MCStartCredits
  MaxMoves = 1
  MaxStaged = 2
  Capacity = 2
  LeakPerTick = 1
  Ttl = 1
  Weights = {1, 2}
  MaxOps = 4
  MaxOpenings = 3
  MaxTicks = 3
INVARIANTS CardShowsWhatWasAsked CreditsAreHonest ExecutedOnce BucketHolds
PROPERTIES FeeIsTrue
CHECK_DEADLOCK FALSE
