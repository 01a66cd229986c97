SPECIFICATION Spec
CONSTANTS
  s1 = s1
  s2 = s2
  f1 = f1
  f2 = f2
  None = None
  Statements <- MCStatements
  ForumOf <- MCForumOf
  BatchSize = 2
  Lookback = 1
  MaxAge = 1
  MaxHead = 3
  MaxFailures = 1
  MaxCrashes = 2
INVARIANTS NothingIsSkipped EngagementIsKept
PROPERTIES EventuallySearchable
CHECK_DEADLOCK FALSE
