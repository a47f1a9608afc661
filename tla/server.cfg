CONSTANTS
  r1 = r1
  r2 = r2
  r3 = r3
  r4 = r4
  Requests = {r1, r2, r3, r4}
  Kinds <- MCKinds
  Stores = {"A", "B"}
  Sessions = {1, 2, 3}
  Rows = {1, 2, 3}
  NoRow = NoRow
  NoStore = NoStore
  Owner <- MCOwner
  Caller <- MCCaller
  PoolSize = 1
  MaxOverflow = 1
  Threads = 2
  Idle = Idle
SPECIFICATION FairSpec
INVARIANTS TypeOK TenantScoped StandstillHasACause
PROPERTIES RequestsAnswered
CHECK_DEADLOCK FALSE
