SPECIFICATION BrowserSpec
CONSTANTS
  global = global
  usa = usa
  st1 = st1
  st2 = st2
  qu1 = qu1
  qu2 = qu2
  alice = alice
  text1 = text1
  id1 = id1
  nick1 = nick1
  NoNickname = NoNickname
  Nicknames <- MCNicknames
  Anonymous = Anonymous
  Unlisted = Unlisted
  NoQuery = NoQuery
  NoText = NoText
  None = None
  Unread = Unread
  Nowhere = Nowhere
  Global = global
  Forums <- MCForums
  Feeds <- MCForums
  Queries <- MCQueries
  Rankings <- MCRankings
  Accounts <- MCAccounts
  Texts <- MCTexts
  Ids <- MCIds
  PageSize = 1
  MaxMoves = 2
  MaxChanges = 1
  MaxPages = 3
  MaxEdits = 2
PROPERTIES ForumIsKept ForumFollowsRoute HomeSettles DraftIsKept RecordsSettle
CHECK_DEADLOCK FALSE
