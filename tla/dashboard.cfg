CONSTANTS
  t1 = t1
  t2 = t2
  o1 = o1
  r1 = r1
  r2 = r2
  k1 = k1
  Conns = {k1}
  TopicOf <- StoreTopic
  MaxQueue = 1
  MaxWire = 1
  Orders = {o1}
  Tables = {t1, t2}
  TableOf <- TwoTables
  Statuses = {"pending", "done"}
  Pending = "pending"
  Requests = {r1, r2}
  Own = {r2}
  MaxFetches = 2
  MaxExtras = 1
  All = All
  NoConn = NoConn
  Refused = Refused
SPECIFICATION FairSpec
INVARIANTS TypeOK
PROPERTIES ViewConverges
CHECK_DEADLOCK FALSE
