SPECIFICATION Spec
CONSTANTS
  ann = ann
  bob = bob
  cyd = cyd
  art = art
  a1 = a1
  a2 = a2
  h1 = h1
  x = x
  y = y
  colon = colon
  Users = {ann, bob}
  Maintainers = {ann}
  Locals = {ann}
  People = {ann, bob, cyd}
  Edges <- SomeEdges
  Writings = {art}
  Authors <- OwnAuthors
  Writers <- OtherAuthors
  Viewed = {a1, a2}
  Devices = {d1, d2}
  Server = srv
  Procs = {p1, p2}
  Syncers = {p1}
  Conns = {p1, p2}
  Urls = {h1, h2}
  Seeds <- SeedPeers
  Servers = {h1}
  Serves = {h1}
  Addresses = {h1}
  Names = {h1}
  Text <- ScreenText
  Chars = {x, y, colon}
  Colon = colon
  Null = none
  Scores = {100, 500}
  Hearsay = {"published"}
  Used = {"account.register", "compile", "review.decline", "sync.pull"}
  TTL = 2
  Window = 2
  Depth = 2
  MaxMessages = 3
  MaxPhases = 3
  MaxCommits = 3
  MaxFails = 1
  MaxKnown = 2
  MaxCount = 2
  MaxKept = 1
  MaxNodes = 3
  Limit = 1
  MaxReviews = 3
  MaxTyped = 2
  MaxArticles = 3
  MaxRefs = 1
  MaxRequests = 2
  MaxTime = 4
  MaxAsked = 3
  MaxCommands = 2
  Threads = {t1, t2}
  Locks = {l1, l2, l3}
  MaxLocks = 2
  K = 2
  MaxDepth = 6
  Retries = 1
  MaxHeight = 7
INVARIANTS
  TypeOK
  OneInvitation
  PoolIsAnonymous
  RowsHaveReviews
  RowsFollow
  BacksOff
  AnswersAreRecent
  WalkIsComplete
  NothingInvented
  NumbersAreEarned
  SessionHasAccount
  NamesClashByRaces
  CountsAreForks
  OkIsDurable
  AbsentIsAbsent
  LimitIsExact
  ReportsAreTrue
  MutualExclusion
  NoMessageLost
  FoundWasGranted
  FoundIsABoundary
  NoProbeTwice
PROPERTIES
  NothingLost
  Converges
  OpensTheMarked
  Terminates
CHECK_DEADLOCK FALSE
