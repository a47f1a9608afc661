CONSTANTS
  Conns <- AllSessions
  TopicOf <- SessionTopic
  MaxQueue = 1
  MaxWire = 1
  MaxSessions = 2
  MaxCalls = 2
  MaxCart = 1
  MaxMoves = 2
  NoView = NoView
SPECIFICATION Spec
PROPERTIES KeepsValidSession
CHECK_DEADLOCK FALSE
