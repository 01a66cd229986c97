SPECIFICATION Spec
CONSTANTS
  None = None
  e1 = e1
  e2 = e2
  here = here
  there = there
  Edits = {e1, e2}
  Forums <- TwoForums
  HomeForum <- AllHere
  Clocks <- MCClocks
  Hashes <- MCHashes
  MaxCommits = 2
  MaxForeign = 1
  MaxReloads = 1
  MaxSwitches = 1
INVARIANTS AppliedOnce NoLostWork ConfirmedMeansLanded
PROPERTIES SpinnerEnds LandedIsRecognised CatchesUp
CHECK_DEADLOCK FALSE
CONSTRAINT Unexcused
