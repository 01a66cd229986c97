SPECIFICATION SearchSpec
CONSTANTS
  Forums = {a, b}
  a = a
  Unvisited = Unvisited
  b = b
  Ids = {0, 1}
  Ranked = {0}
  Kinds = {"lexical", "hybrid"}
  Confirmations = 1
  lookbackBlocks = 2
  Window = 2
  MaxIndexes = 1
  LastBlock = 3
  MaxRestarts = 2
  MaxDeltas = 2
  MaxErrors = 1
INVARIANTS ForumsAreKeptApart IndexIsComplete
PROPERTIES EngagedIsFound
CHECK_DEADLOCK FALSE
