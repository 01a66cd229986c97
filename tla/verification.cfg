SPECIFICATION MCSpec
CONSTANTS
  a1 = a1
  a2 = a2
  p1 = p1
  p2 = p2
  fr = fr
  NO_USER = NO_USER
  Undisclosed = Undisclosed
  Nobody = Nobody
  None = None
  Unknown = Unknown
  Addresses <- MCAddresses
  Ids <- MCIds
  Nationalities <- MCNationalities
  Passport <- MCPassport
  OwnIdentity <- MCOwnIdentity
  devMode = FALSE
  StartTime = 1
  MaxTime = 3
  MaxSwitches = 1
  MaxTxs = 1
  MaxVisits = 2
INVARIANTS BindingsHold DisclosedAsChosen VerifiedMeansRegistered
PROPERTIES NothingIsTaken StatusCatchesUp
CHECK_DEADLOCK FALSE
