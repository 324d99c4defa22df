SPECIFICATION FairSpec
CONSTANTS
  Hubs = {h1}
  NumTasks = 3
  Sources = {"v1", "v2"}
  Submissions <- MCSubmissions
  KnownFormats = {"mlx"}
  Concurrency = 1
  PageSize = 3
  ForeignKeys = TRUE
  DbFaults = FALSE
  MaxBoots = 2
INVARIANTS TypeOK SlotsAccounted CompletedIffOutput AnnouncementsTrue
PROPERTIES TerminalIsFinal EveryTaskEnds
CHECK_DEADLOCK FALSE
