CONSTANTS
  a1 = a1
  c1 = c1
  d1 = d1
  s1 = s1
  s2 = s2
  u1 = u1
  t1 = t1
  Tables = {t1}
  Starters = {s1, s2}
  Creators = {c1}
  Updaters = {u1}
  Deleters = {d1}
  Closers = {a1}
  Leavers = {}
  TableOf <- OneTable
  MaxRetries = 3
  NoSession = NoSession
  NoOrder = NoOrder
  Store = Store
  MayFail = TRUE
SPECIFICATION FairSpec
INVARIANTS AtMostOneActive NoCircularWait NothingLost ArchivedIsGone EventsTruthful
PROPERTIES RowsOnlyMoveForward ImplementsLedger RequestsEnd
