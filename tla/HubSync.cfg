SPECIFICATION SyncSpec
CONSTANTS
  s1 = s1
  s2 = s2
  n1 = n1
  n2 = n2
  v1 = v1
  v2 = v2
  local = local
  Local = local
  NoName = NoName
  Slots <- MCSlots
  Names <- MCNames
  Labels <- MCLabels
  Remote <- MCRemote
  MaxIds = 2
  LocalPage = 1
CONSTRAINT MCBound
SYMMETRY MCSymmetry
CHECK_DEADLOCK FALSE
INVARIANTS
  RowsTrue
PROPERTIES
  SyncHonest
