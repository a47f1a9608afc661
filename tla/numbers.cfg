CONSTANTS
  c1 = c1
  c2 = c2
  c3 = c3
  d1 = d1
  s1 = s1
  l1 = l1
  t1 = t1
  Tables = {t1}
  Starters = {s1}
  Creators = {c1, c2, c3}
  Updaters = {}
  Deleters = {d1}
  Closers = {}
  Leavers = {l1}
  TableOf <- OneTable
  MaxRetries = 2
  NoSession = NoSession
  NoOrder = NoOrder
  Store = Store
  MayFail = FALSE
SPECIFICATION FairSpec
INVARIANTS TypeOK OrderNumbersContiguous ConflictNeedsContention
PROPERTIES RequestsEnd CommitsAnnounced
