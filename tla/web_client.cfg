SPECIFICATION ClientSpec
CONSTANTS
  Requests = {q1, q2}
  MaxEvents = 2
  Chats = {c1, c2, c3}
  FirstChat = c1
  NoChat = none
  MaxSends = 2
  MaxLoads = 1
  MaxFailures = 1
  MaxTexts = 3
  MaxFaults = 1
  MaxRetries = 1
  Dirs <- TreeDirs
  FirstDocs <- TreeDocs
  Queries <- TreeQueries
  MaxName = 2
  MaxDepth = 2
  MaxChanges = 2
  Rows = {r1}
  NoRow = none
  MaxAsks = 2
  MaxWrites = 2
  Sessions = {s1, s2}
  NoSession = none
  PageSize = 1
  MaxLog = 2
  MaxClicks = 3
  MaxUpsets = 1
  MaxRules = 2
  Tokens = {"specific", "ranges", "short"}
  MaxDrafts = 2
  Nodes = {n1, n2}
  FirstNodes = {}
  HistoryLimit = 1
  MaxMessages = 2
  MaxBatches = 3
  MaxListFaults = 1
  Threads = {k1, k2}
  NoChoice = none
  MaxPicks = 4
  MaxPolls = 4
  MaxSnapshots = 2
  Thresholds = {1, 3}
  MaxAnswers = 3
  MaxMoves = 5
  MaxRecent = 2
  ToastLimit = 1
  MaxRaised = 4
INVARIANTS ClientTypeOK CookieIsLive SignOutLeavesNothing QuietViewIsLog FollowUpStays WatchedIsFresh TypedIsKept
INVARIANTS TableIsCurrent DrawerShowsLog EditorHoldsForm VerdictIsCurrent TreeShowsDocuments
INVARIANTS GraphIsCurrent ShownIsChosen DashboardKeepsUp AskedOnce NewestToastStays
CHECK_DEADLOCK FALSE
