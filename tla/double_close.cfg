CONSTANTS
  t1 = t1
  a1 = a1
  a2 = a2
  c1 = c1
  s1 = s1
  Tables = {t1}
  Starters = {s1}
  Creators = {c1}
  Updaters = {}
  Deleters = {}
  Closers = {a1, a2}
  Leavers = {}
  TableOf <- OneTable
  MaxRetries = 3
  NoSession = NoSession
  NoOrder = NoOrder
  Store = Store
  MayFail = FALSE
SPECIFICATION Spec
INVARIANTS ArchivedOnce
