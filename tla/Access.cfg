SPECIFICATION Spec
CONSTANTS
  k1 = k1
  k2 = k2
  k3 = k3
  t1 = t1
  t2 = t2
  s1 = s1
  s2 = s2
  p1 = p1
  p2 = p2
  m1 = m1
  NoOne = NoOne
  BootPrefix = BootPrefix
  Keys <- MCKeys
  Tenants <- MCTenants
  Slots <- MCSlots
  Prefix <- MCPrefix
  Databases <- MCDatabases
  Calls <- MCCalls
  ModelIds <- MCModelIds
  ModuleIds = {"console"}
  Modes = {"off", "keys", "gateway", "identity"}
  BootLimit = 1
  HashMax = 1
  HashEvict = 1
  Window = 2
  EvictAt = 2
  TouchEvery = 3
  MaxTime = 2
  MaxCalls = 3
SYMMETRY MCSymmetry
CHECK_DEADLOCK FALSE
INVARIANTS
  AdmissionTrue
  TenantsTrue
