SPECIFICATION Spec
CONSTANTS
  HALF_LIFE_SECONDS = 4
  UINT_BITS = 18
  DECAY_MULTIPLIER_BITS = 8
  DecayMultipliers <- MCDecayMultipliers
  MaxStart = 15
  MaxTime = 10
  MaxTouches = 4
INVARIANTS DecayIsFair TouchDrift
CHECK_DEADLOCK FALSE
