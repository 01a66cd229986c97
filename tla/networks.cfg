CONSTANTS
  global = global  usa = usa  can = can
  Names <- MCNames  Configs <- MCConfigs FirstConfig <- MCFirstConfig
  None = none
  Develop = develop  Dispatch = dispatch  Developer = developer
  MaxEdits = 2  MaxDispatches = 1  MaxFailures = 1  MaxWipes = 1  MaxTrouble = 2
  UserCount = 3  Offset = 2  TargetLists <- MCTargetLists  MaxCost = 8
  Widths = {1, 2}  Starts = {0, 1}  NoJob = nojob
  Builds = {b1, b2}  b1 = b1  b2 = b2  Nothing = nothing  MaxDeploys = 2  MaxErrors = 1
SPECIFICATION Spec
CHECK_DEADLOCK FALSE
INVARIANTS DeploymentsAgree VotesMeetTargets
PROPERTIES ConfiguredIsDeployed MiningIsRestored SiteRuns
