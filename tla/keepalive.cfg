CONSTANTS
  k1 = k1
  k2 = k2
  store = store
  seat = seat
  Conns = {k1, k2}
  Topics = {store, seat}
  TopicOf <- SameTopic
  Readers = {k1}
  MaxQueue = 2
  MaxWire = 2
  MaxEvents = 1
  MayFail = FALSE
SPECIFICATION Spec
PROPERTIES KeepAliveKeeps
