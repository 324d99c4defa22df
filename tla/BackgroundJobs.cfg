SPECIFICATION FairSpec
CONSTANTS
  Evals = {e1, e2}
  Merges = {m1}
  Fanouts = {f1}
  Nodes = {n1, n2}
  EvalSlots = 1
  RunnerEnabled = TRUE
  DbFaults = {"resolving", "storing", "queued", "working", "finishing", "failing"}
  MaxBoots = 2
INVARIANTS TypeOK RestartIsSafe VerdictEarned
PROPERTIES ImplementsLifecycle EveryJobEnds
CHECK_DEADLOCK FALSE
