SPECIFICATION Spec
CONSTANTS
  Versions = {v1, v2}
  Uploaded = {v1}
  Managed = {v1}
  ModelOf <- MCModelOf
  Weights = {w1}
  Branches = {b1}
  MergeLabel <- MCMergeLabel
  Scores = {0, 1}
  L1 = 1
  Thresholds = {1}
  Requests = {r1, r2}
  Ops = {"status", "retire", "promote", "dedup", "cleanup", "merge"}
  MayCrash = TRUE
INVARIANTS TypeOK PublishedWasTested ReclaimedWasRetired
PROPERTIES MergeLeavesVersion
SYMMETRY MCSymmetry
