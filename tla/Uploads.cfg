SPECIFICATION UploadsSpec
CONSTANTS
  s1 = s1
  s2 = s2
  l1 = l1
  pA = pA
  pB = pB
  t1 = t1
  Labels <- MCLabels
  Slots <- MCSlots
  Payloads <- MCPayloads
  Tasks <- MCTasks
  MaxBlocks = 2
  Stores <- MCStores
CONSTRAINT MCConstraint
SYMMETRY MCSymmetry
CHECK_DEADLOCK FALSE
INVARIANTS
  FilesRecorded
  DeletionTrue
