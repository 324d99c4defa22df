SPECIFICATION ClusterFairSpec
CONSTANTS
  n1 = n1
  NodeIds = {n1, n2}
  Calls = {c1}
  Listers = {l1}
  SyncSets <- MCSyncSets
  StaleAge = 0
  Period = 2
INVARIANTS RoutesWell SyncReportsTruth
PROPERTIES WrongfullyReapedReturns
