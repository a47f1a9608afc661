CONSTANTS
  Conns <- AllSessions
  TopicOf <- SessionTopic
  MaxQueue = 1
  MaxWire = 1
  MaxSessions = 2
  MaxCalls = 2
  MaxCart = 2
  MaxMoves = 3
  NoView = NoView
SPECIFICATION FairSpec
INVARIANTS TypeOK OwnOrdersOnly ClearedIsPlaced
PROPERTIES ListConverges
CHECK_DEADLOCK FALSE
