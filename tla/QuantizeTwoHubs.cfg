SPECIFICATION Spec
CONSTANTS
  Hubs = {h1, h2}
  NumTasks = 2
  Sources = {"v1", "v2"}
  Submissions <- MCOneSubmission
  KnownFormats = {"mlx"}
  Concurrency = 1
  PageSize = 2
  ForeignKeys = FALSE
  DbFaults = TRUE
  MaxBoots = 2
CHECK_DEADLOCK FALSE
INVARIANTS NoOrphanOutput
