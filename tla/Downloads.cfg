SPECIFICATION OutSpec
CONSTANTS
  Blocks = 3
  MaxRetries = 2
  RangeAnswers = {206}
  MayCrash = TRUE
  DbFaults = {"marking", "opening", "saving"}
  Clients = {c1, c2}
  Sizes = {3, 8}
  Memories = {8, 48}
  Stock <- MCStock
  Replies <- MCReplies
  NoReply = NoReply
  Unsaid = Unsaid
  Preferences = {"balanced", "speed"}
  MaxResults = 1
  CacheTtl = 2
  Timeout = 1
  MaxClock = 2
  MaxMishaps = 4
CHECK_DEADLOCK FALSE
INVARIANTS FilesTrue AdviceTrue
PROPERTIES DownloadStops ShellReturns
