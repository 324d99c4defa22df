SPECIFICATION Spec
CONSTANTS
  m1 = m1
  m2 = m2
  m3 = m3
  tA = tA
  NoTenant = NoTenant
  Nobody = Nobody
  Models <- MCModels
  Events <- MCEvents
  Stored <- MCStored
  NameOf <- MCNameOf
  TenantOf <- MCTenantOf
  Subscriptions <- MCSubscriptions
  Hooks = {h1}
  MaxTries = 2
  Concurrency = 1
  Approvals = {a1}
  p1 = p1
  p2 = p2
  both = both
  Persons <- MCPersons
  PartsOf <- MCPartsOf
  Deciders = {c1, c2}
  Quorum = 2
  MarkKinds <- MCMarks
  Adders = {c1, c2}
  NoMark = NoMark
  PageSize = 1
  MaxFiles = 1
  MaxBackups = 2
  MaxOps = 3
  MaxRestarts = 1
INVARIANTS
  CatalogTrue
  SignedByQuorum
  BackupsTrue
PROPERTIES
  EveryDeliveryEnds
CHECK_DEADLOCK FALSE
