CONSTANTS
  k1 = k1
  k2 = k2
  store = store
  seat = seat
  Conns = {k1, k2}
  Topics = {store, seat}
  TopicOf <- SameTopic
  Readers = {k1}
  MaxQueue = 2
  MaxWire = 1
  MaxEvents = 4
  MayFail = TRUE
SPECIFICATION FairSpec
INVARIANTS TypeOK OwnTopicInOrder StreamsReleased
PROPERTIES EventsArrive
