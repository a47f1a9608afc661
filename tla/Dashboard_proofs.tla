--------------------------- MODULE Dashboard_proofs ---------------------------
(* Proofs for Dashboard. *)
EXTENDS Dashboard, SequenceTheorems, TLAPS

Delivery == [topic : {"store"}, data : Event]

Frame == {Open, End} \cup {Data(e) : e \in Event}

Fetch == {Idle} \cup [state : {"asked"}, filter : Filters] \cup [state : {"read"}, list : Shown]

Stages == {"idle", "sent", "committed", "published", "done"}

Status == Statuses \cup {"none", "gone"}

\* What is on its way to the dashboard are events, and a request that is not
\* over has one to announce.
BusTypes ==
  /\ ready \in Seq(Delivery)
  /\ subs \subseteq Conns
  /\ queue \in [Conns -> Seq(Event)] /\ \A c \in Conns : Len(queue[c]) <= MaxQueue
  /\ wire \in [Conns -> Seq(Frame)]

ServerTypes ==
  /\ rows \in [Orders -> Status]
  /\ up \in BOOLEAN
  /\ pc \in [Requests -> Stages]
  /\ event \in [Requests -> Event \cup {Nothing}]
  /\ \A r \in Requests : pc[r] \in {"committed", "published"} => event[r] \in Event

ClientTypes ==
  /\ es \in Conns \cup {NoConn, Refused}
  /\ view \in Shown
  /\ filter \in Filters
  /\ clicked \in [Requests -> Filters]
  /\ fetch \in [Fetches -> Fetch]
  /\ extras \in 0 .. MaxExtras

TInv == BusTypes /\ ServerTypes /\ ClientTypes

-----------------------------------------------------------------------------
(* The bus.                                                                *)

LEMMA Frames ==
  /\ Open \in Frame /\ End \in Frame
  /\ \A e \in Event : Data(e) \in Frame
  /\ \A f \in Frame : f.kind = "data" => f.data \in Event
<1>1. Open \in Frame /\ End \in Frame /\ \A e \in Event : Data(e) \in Frame
  BY DEF Frame
<1>2. ASSUME NEW f \in Frame, f.kind = "data" PROVE f.data \in Event
  <2>1. f # Open /\ f # End
    BY <1>2 DEF Open, End
  <2>2. PICK e \in Event : f = Data(e)
    BY <2>1 DEF Frame
  <2> QED
    BY <2>2 DEF Data
<1> QED
  BY <1>1, <1>2

\* One connection's entry of a function that holds sequences.
LEMMA Entries ==
  ASSUME NEW S, NEW f \in [Conns -> Seq(S)], NEW c \in Conns
  PROVE  /\ [f EXCEPT ![c] = <<>>] \in [Conns -> Seq(S)]
         /\ \A x \in S : [f EXCEPT ![c] = Append(@, x)] \in [Conns -> Seq(S)]
         /\ f[c] # <<>> => /\ [f EXCEPT ![c] = Tail(@)] \in [Conns -> Seq(S)]
                           /\ Head(f[c]) \in S
<1>1. <<>> \in Seq(S)
  OBVIOUS
<1>2. \A x \in S : Append(f[c], x) \in Seq(S)
  BY AppendProperties
<1>3. f[c] # <<>> => Tail(f[c]) \in Seq(S) /\ Head(f[c]) \in S
  BY HeadTailProperties
<1> QED
  BY <1>1, <1>2, <1>3

\* What happens to one connection only.
LEMMA ConnectionTypes ==
  ASSUME BusTypes, NEW c \in Conns, Accept(c) \/ Serve(c) \/ Timeout(c) \/ Hangup(c)
  PROVE  BusTypes'
<1>1. UNCHANGED ready /\ subs' \subseteq Conns
  BY DEF BusTypes, Accept, Serve, Greet, Listen, Send, Sent, Finish, Finalize, Timeout, Hangup,
         Unsubscribe
<1>2. queue' \in [Conns -> Seq(Event)] /\ \A k \in Conns : Len(queue'[k]) <= MaxQueue
  <2>1. CASE UNCHANGED queue
    BY <2>1 DEF BusTypes
  <2>2. CASE queue' = [queue EXCEPT ![c] = <<>>]
    <3>1. Len(<<>>) <= MaxQueue
      BY QueueBounds, EmptySeq
    <3> QED
      BY <2>2, <3>1, Entries DEF BusTypes
  <2>3. CASE queue[c] # <<>> /\ queue' = [queue EXCEPT ![c] = Tail(@)]
    <3>1. queue' \in [Conns -> Seq(Event)]
      BY <2>3, Entries DEF BusTypes
    <3>2. Len(Tail(queue[c])) = Len(queue[c]) - 1 /\ Len(queue[c]) \in Nat
      BY <2>3, HeadTailProperties, LenProperties DEF BusTypes
    <3>3. \A k \in Conns : Len(queue'[k]) <= MaxQueue
      BY <2>3, <3>2, QueueBounds DEF BusTypes
    <3> QED
      BY <3>1, <3>3
  <2> QED
    BY <2>1, <2>2, <2>3 DEF Accept, Serve, Greet, Listen, Send, Sent, Finish, Finalize, Timeout,
                            Hangup, Unsubscribe
<1>3. wire' \in [Conns -> Seq(Frame)]
  <2>1. CASE UNCHANGED wire
    BY <2>1 DEF BusTypes
  <2>2. CASE wire' = [wire EXCEPT ![c] = <<>>]
    BY <2>2, Entries DEF BusTypes
  <2>3. CASE Transmit(c, Open) \/ Transmit(c, End)
    <3>1. PICK f \in Frame : wire' = [wire EXCEPT ![c] = Append(@, f)]
      BY <2>3, Frames DEF Transmit
    <3> QED
      BY <3>1, Entries DEF BusTypes
  <2>4. CASE Send(c)
    <3>1. queue[c] # <<>> /\ wire' = [wire EXCEPT ![c] = Append(@, Data(Head(queue[c])))]
      BY <2>4 DEF Send, Transmit
    <3>2. Data(Head(queue[c])) \in Frame
      BY <3>1, Entries, Frames DEF BusTypes
    <3> QED
      BY <3>1, <3>2, Entries DEF BusTypes
  <2> QED
    BY <2>1, <2>2, <2>3, <2>4 DEF Accept, Serve, Greet, Listen, Sent, Finish, Finalize, Timeout,
                                  Hangup
<1> QED
  BY <1>1, <1>2, <1>3 DEF BusTypes

LEMMA DeliverTypes == ASSUME BusTypes, Deliver PROVE BusTypes'
<1>1. /\ ready # <<>> /\ ready' = Tail(ready) /\ UNCHANGED <<subs, wire>>
      /\ queue' = [c \in Conns |->
           IF c \in subs /\ TopicOf[c] = Head(ready).topic /\ Len(queue[c]) < MaxQueue
             THEN Append(queue[c], Head(ready).data) ELSE queue[c]]
  BY DEF Deliver
<1>2. ready' \in Seq(Delivery) /\ Head(ready) \in Delivery
  BY <1>1, HeadTailProperties DEF BusTypes
<1>3. Head(ready).data \in Event
  BY <1>2 DEF Delivery
<1>4. ASSUME NEW c \in Conns PROVE queue'[c] \in Seq(Event) /\ Len(queue'[c]) <= MaxQueue
  <2>1. queue[c] \in Seq(Event) /\ Len(queue[c]) <= MaxQueue /\ Len(queue[c]) \in Nat
    BY LenProperties DEF BusTypes
  <2>2. /\ Append(queue[c], Head(ready).data) \in Seq(Event)
        /\ Len(Append(queue[c], Head(ready).data)) = Len(queue[c]) + 1
    BY <1>3, <2>1, AppendProperties
  <2>3. CASE queue'[c] = queue[c]
    BY <2>1, <2>3
  <2>4. CASE queue'[c] = Append(queue[c], Head(ready).data) /\ Len(queue[c]) < MaxQueue
    BY <2>1, <2>2, <2>4, QueueBounds
  <2> QED
    BY <1>1, <2>3, <2>4
<1>5. queue' \in [Conns -> Seq(Event)]
  BY <1>1, <1>4
<1> QED
  BY <1>1, <1>2, <1>4, <1>5 DEF BusTypes

LEMMA RestartTypes == ASSUME BusTypes, Restart PROVE BusTypes'
<1>1. /\ ready' = <<>> /\ subs' = {} /\ queue' = [c \in Conns |-> <<>>]
      /\ wire' = [c \in Conns |-> IF gen[c] \in {"none", "abandoned"} THEN wire[c] ELSE <<End>>]
  BY DEF Restart
<1>2. <<End>> \in Seq(Frame) /\ <<>> \in Seq(Event) /\ Len(<<>>) = 0 /\ <<>> \in Seq(Delivery)
  BY Frames, EmptySeq
<1>3. wire' \in [Conns -> Seq(Frame)]
  BY <1>1, <1>2 DEF BusTypes
<1> QED
  BY <1>1, <1>2, <1>3, QueueBounds DEF BusTypes

\* The EventSource takes a frame off the wire.
LEMMA ReadTypes ==
  ASSUME BusTypes, NEW c \in Conns, Read(c), UNCHANGED <<ready, subs, queue>>
  PROVE  BusTypes' /\ Head(wire[c]) \in Frame
  BY Entries DEF BusTypes, Read

-----------------------------------------------------------------------------
(* The list on the screen.                                                 *)

\* What a refetch asks and what it is answered.
LEMMA Fetching ==
  ASSUME ServerTypes, ClientTypes
  PROVE  /\ \A f \in Fetches : fetch[f].state = "asked" => fetch[f].filter \in Filters
         /\ \A f \in Fetches : fetch[f].state = "read" => fetch[f].list \in Shown
         /\ \A x \in Filters : [state |-> "asked", filter |-> x] \in Fetch
         /\ \A x : [state |-> "read", list |-> Listed(x)] \in Fetch
         /\ Idle \in Fetch
<1>1. \A x : Listed(x) \in Shown
  BY DEF Listed, Shown
<1> HIDE DEF Listed
<1>2. \A f \in Fetches : fetch[f] \in Fetch
  BY DEF ClientTypes
<1> QED
  BY <1>1, <1>2 DEF Fetch, Idle

LEMMA RefetchTypes ==
  ASSUME ServerTypes, ClientTypes, NEW x \in Filters, Refetch(x)
  PROVE  fetch' \in [Fetches -> Fetch]
<1>1. PICK f \in Fetches : fetch' = [fetch EXCEPT ![f] = [state |-> "asked", filter |-> x]]
  BY DEF Refetch
<1>2. [state |-> "asked", filter |-> x] \in Fetch
  BY Fetching
<1> QED
  BY <1>1, <1>2 DEF ClientTypes

\* A patch leaves statuses in the list.
LEMMA PatchTypes ==
  ASSUME ServerTypes, ClientTypes, NEW e \in Event, NEW x \in Filters,
         UNCHANGED <<es, filter, extras>>, clicked' \in [Requests -> Filters], Patch(e, x)
  PROVE  ClientTypes'
<1>1. CASE e.type \in {"order_created", "session_closed"} /\ Refetch(x) /\ UNCHANGED view
  BY <1>1, RefetchTypes DEF ClientTypes
<1>2. CASE /\ e.type = "order_status" /\ UNCHANGED fetch
           /\ view' = [view EXCEPT ![e.order] = IF @ = "none" THEN @ ELSE e.status]
  <2>1. e.status \in Statuses
    BY <1>2 DEF Event
  <2> QED
    BY <1>2, <2>1 DEF ClientTypes, Shown
<1>3. CASE /\ e.type = "order_deleted" /\ UNCHANGED fetch
           /\ view' = [view EXCEPT ![e.order] = "none"]
  BY <1>3 DEF ClientTypes, Shown
<1> QED
  BY <1>1, <1>2, <1>3 DEF Patch

LEMMA ExtraTypes ==
  ASSUME ClientTypes, Extra \/ Fault PROVE extras' \in 0 .. MaxExtras
  BY BoundsType DEF ClientTypes, Extra, Fault

-----------------------------------------------------------------------------
(* The steps.                                                              *)

LEMMA InitTypes == Init => TInv
<1> SUFFICES ASSUME Init PROVE TInv
  OBVIOUS
<1>1. BusTypes
  <2>1. /\ <<>> \in Seq(Delivery) /\ <<>> \in Seq(Event) /\ <<>> \in Seq(Frame) /\ Len(<<>>) = 0
    BY EmptySeq
  <2> QED
    BY <2>1, QueueBounds DEF Init, BusInit, BusTypes
<1>2. ServerTypes
  BY StatusesType DEF Init, ServerTypes, Status, Stages
<1>3. ClientTypes
  BY BoundsType DEF Init, ClientTypes, Shown, Filters, Fetch, Fetches
<1> QED
  BY <1>1, <1>2, <1>3 DEF TInv

\* A request commits.
LEMMA CommitTypes ==
  ASSUME TInv, NEW r \in Requests, NEW e \in Event, Commit(r, e), rows' \in [Orders -> Status]
  PROVE  TInv'
<1>1. /\ pc' = [pc EXCEPT ![r] = "committed"] /\ event' = [event EXCEPT ![r] = e]
      /\ UNCHANGED <<ready, subs, queue, wire, up, es, view, filter, fetch, extras>>
  BY DEF Commit, bus
<1>2. ServerTypes'
  BY <1>1 DEF TInv, ServerTypes, Stages
<1>3. clicked' \in [Requests -> Filters]
  BY DEF Commit, TInv, ClientTypes, Filters
<1> QED
  BY <1>1, <1>2, <1>3 DEF TInv, BusTypes, ClientTypes

LEMMA ClickTypes == ASSUME TInv, NEW r \in Requests, Click(r) PROVE TInv'
<1>1. /\ pc' = [pc EXCEPT ![r] = "sent"] /\ clicked' = [clicked EXCEPT ![r] = filter]
      /\ UNCHANGED <<ready, subs, queue, wire, rows, event, up, es, view, filter, fetch, extras>>
  BY DEF Click, bus
<1>2. ServerTypes'
  BY <1>1 DEF TInv, ServerTypes, Stages
<1>3. ClientTypes'
  BY <1>1 DEF TInv, ClientTypes
<1> QED
  BY <1>1, <1>2, <1>3 DEF TInv, BusTypes

LEMMA RequestTypes ==
  ASSUME TInv, NEW r \in Requests,
         \/ CreateOrder(r) \/ UpdateStatus(r) \/ DeleteOrder(r) \/ CloseSession(r)
  PROVE  TInv'
<1>1. rows \in [Orders -> Status]
  BY DEF TInv, ServerTypes
<1>2. CASE CreateOrder(r)
  <2>1. PICK o \in Orders : rows' = [rows EXCEPT ![o] = Pending]
                            /\ Commit(r, [type |-> "order_created", order |-> o])
    BY <1>2 DEF CreateOrder
  <2>2. rows' \in [Orders -> Status] /\ [type |-> "order_created", order |-> o] \in Event
    BY <1>1, <2>1, StatusesType DEF Status, Event
  <2> QED
    BY <2>1, <2>2, CommitTypes
<1>3. CASE UpdateStatus(r)
  <2>1. PICK o \in Orders, v \in Statuses :
          /\ rows' = [rows EXCEPT ![o] = IF @ = "gone" THEN @ ELSE v]
          /\ Commit(r, [type |-> "order_status", order |-> o, status |-> v])
    BY <1>3 DEF UpdateStatus
  <2>2. rows' \in [Orders -> Status] /\ [type |-> "order_status", order |-> o, status |-> v] \in Event
    BY <1>1, <2>1 DEF Status, Event
  <2> QED
    BY <2>1, <2>2, CommitTypes
<1>4. CASE DeleteOrder(r)
  <2>1. PICK o \in Orders : rows' = [rows EXCEPT ![o] = "gone"]
                            /\ Commit(r, [type |-> "order_deleted", order |-> o])
    BY <1>4 DEF DeleteOrder
  <2>2. rows' \in [Orders -> Status] /\ [type |-> "order_deleted", order |-> o] \in Event
    BY <1>1, <2>1 DEF Status, Event
  <2> QED
    BY <2>1, <2>2, CommitTypes
<1>5. CASE CloseSession(r)
  <2>1. PICK moved : rows' = [o \in Orders |-> IF o \in moved THEN "gone" ELSE rows[o]]
                     /\ Commit(r, [type |-> "session_closed"])
    BY <1>5 DEF CloseSession
  <2>2. rows' \in [Orders -> Status] /\ [type |-> "session_closed"] \in Event
    BY <1>1, <2>1 DEF Status, Event
  <2> QED
    BY <2>1, <2>2, CommitTypes
<1> QED
  BY <1>2, <1>3, <1>4, <1>5

\* It publishes what it has committed, and only that.
LEMMA PublishTypes == ASSUME TInv, NEW r \in Requests, Publish(r) PROVE TInv'
<1>1. /\ pc[r] = "committed"
      /\ pc' = [pc EXCEPT ![r] = IF r \in Own THEN "published" ELSE "done"]
      /\ event' = [event EXCEPT ![r] = IF r \in Own THEN @ ELSE Nothing]
      /\ ready' = Append(ready, [topic |-> "store", data |-> event[r]])
      /\ UNCHANGED <<subs, queue, wire, rows, up, es, view, filter, clicked, fetch, extras>>
  BY DEF Publish, PublishSync, client
<1>2. [topic |-> "store", data |-> event[r]] \in Delivery
  BY <1>1 DEF TInv, ServerTypes, Delivery
<1>3. ready' \in Seq(Delivery)
  BY <1>1, <1>2, AppendProperties DEF TInv, BusTypes
<1>4. ServerTypes'
  BY <1>1 DEF TInv, ServerTypes, Stages
<1> QED
  BY <1>1, <1>3, <1>4 DEF TInv, BusTypes, ClientTypes

\* The answer arrives, or the call fails.
LEMMA AnswerTypes == ASSUME TInv, NEW r \in Requests, Answer(r) \/ CallFails(r) PROVE TInv'
<1>1. /\ Over(r) /\ pc[r] \in {"sent", "published"}
      /\ UNCHANGED <<ready, subs, queue, wire, rows, up, es, filter>>
  BY DEF Answer, CallFails, bus
<1>2. /\ pc' = [pc EXCEPT ![r] = "done"] /\ event' = [event EXCEPT ![r] = Nothing]
      /\ clicked' = [clicked EXCEPT ![r] = All]
  BY <1>1 DEF Over
<1>3. ServerTypes'
  BY <1>1, <1>2 DEF TInv, ServerTypes, Stages
<1>4. BusTypes'
  BY <1>1 DEF TInv, BusTypes
<1>5. clicked' \in [Requests -> Filters] /\ clicked[r] \in Filters
  BY <1>2 DEF TInv, ClientTypes, Filters
<1>6. ClientTypes'
  <2>1. CASE Answer(r)
    <3>1. event[r] \in Event
      BY <2>1 DEF TInv, ServerTypes, Answer
    <3> QED
      BY <2>1, <1>5, <3>1, PatchTypes DEF TInv, Answer
  <2>2. CASE CallFails(r)
    BY <2>2, <1>5, ExtraTypes DEF TInv, ClientTypes, CallFails
  <2> QED
    BY <2>1, <2>2
<1> QED
  BY <1>3, <1>4, <1>6 DEF TInv

LEMMA FetchTypes ==
  ASSUME TInv, NEW f \in Fetches, ReadRows(f) \/ Fetched(f) \/ FetchFails(f)
  PROVE  TInv'
<1>1. UNCHANGED <<ready, subs, queue, wire, rows, pc, event, up, es, filter, clicked>>
  BY DEF ReadRows, Fetched, FetchFails, bus, server
<1>2. view' \in Shown /\ fetch' \in [Fetches -> Fetch]
  BY Fetching DEF TInv, ClientTypes, ReadRows, Fetched, FetchFails
<1>3. extras' \in 0 .. MaxExtras
  BY ExtraTypes DEF TInv, ClientTypes, ReadRows, Fetched, FetchFails
<1> QED
  BY <1>1, <1>2, <1>3 DEF TInv, BusTypes, ServerTypes, ClientTypes

\* The EventSource and what comes through it.
LEMMA SourceTypes ==
  ASSUME TInv, Connect \/ OnOpen \/ OnMessage \/ OnError \/ ConnectionLost
  PROVE  TInv'
<1>1. CASE Connect
  <2>1. CASE UNCHANGED bus /\ es' = Refused
    BY <1>1, <2>1 DEF Connect, bus, server, TInv, BusTypes, ServerTypes, ClientTypes
  <2>2. ASSUME NEW c \in Conns, Accept(c) /\ es' = c PROVE TInv'
    <3>1. BusTypes'
      BY <2>2, ConnectionTypes DEF TInv
    <3> QED
      BY <1>1, <2>2, <3>1 DEF Connect, server, TInv, ServerTypes, ClientTypes
  <2> QED
    BY <1>1, <2>1, <2>2 DEF Connect
<1>2. CASE OnOpen \/ OnMessage \/ OnError
  <2>1. /\ es \in Conns /\ Read(es) /\ UNCHANGED <<ready, subs, queue, rows, pc, event, up, filter, clicked, extras>>
    BY <1>2 DEF OnOpen, OnMessage, OnError, server, TInv, ClientTypes
  <2>2. BusTypes' /\ Head(wire[es]) \in Frame
    BY <2>1, ReadTypes DEF TInv
  <2>3. ServerTypes'
    BY <2>1 DEF TInv, ServerTypes
  <2>4. CASE OnOpen
    BY <2>1, <2>2, <2>3, <2>4, RefetchTypes DEF OnOpen, TInv, ClientTypes
  <2>5. CASE OnMessage
    <3>1. Head(wire[es]).data \in Event
      BY <2>2, <2>5, Frames DEF OnMessage
    <3>2. filter \in Filters /\ clicked' \in [Requests -> Filters]
      BY <2>1 DEF TInv, ClientTypes
    <3>3. ClientTypes'
      BY <2>5, <3>1, <3>2, PatchTypes DEF OnMessage, TInv
    <3> QED
      BY <2>2, <2>3, <3>3 DEF TInv
  <2>6. CASE OnError
    BY <2>2, <2>3, <2>6 DEF OnError, TInv, ClientTypes
  <2> QED
    BY <1>2, <2>4, <2>5, <2>6
<1>3. CASE ConnectionLost
  <2>1. Hangup(es) /\ es \in Conns /\ UNCHANGED <<server, view, filter, clicked, fetch>> /\ es' = NoConn
    BY <1>3 DEF ConnectionLost
  <2>2. BusTypes'
    BY <2>1, ConnectionTypes DEF TInv
  <2>3. extras' \in 0 .. MaxExtras
    BY <1>3, ExtraTypes DEF ConnectionLost, TInv
  <2> QED
    BY <2>1, <2>2, <2>3 DEF server, TInv, ServerTypes, ClientTypes
<1> QED
  BY <1>1, <1>2, <1>3

LEMMA ServerStopsTypes == ASSUME TInv, ServerStops PROVE TInv'
<1>1. /\ Extra /\ Restart /\ up' = FALSE /\ UNCHANGED <<rows, es, view, filter, clicked>>
      /\ pc' = [r \in Requests |-> IF pc[r] = "committed" THEN "done" ELSE pc[r]]
      /\ event' = [r \in Requests |-> IF pc[r] = "committed" THEN Nothing ELSE event[r]]
      /\ fetch' = [f \in Fetches |-> IF fetch[f].state = "asked" THEN Idle ELSE fetch[f]]
  BY DEF ServerStops
<1>2. BusTypes'
  BY <1>1, RestartTypes DEF TInv
<1>3. ServerTypes'
  BY <1>1 DEF TInv, ServerTypes, Stages
<1>4. fetch' \in [Fetches -> Fetch]
  BY <1>1, Fetching DEF TInv, ClientTypes
<1> QED
  BY <1>1, <1>2, <1>3, <1>4, ExtraTypes DEF TInv, ClientTypes

LEMMA TypesStep == TInv /\ [Next]_vars => TInv'
<1> SUFFICES ASSUME TInv, [Next]_vars PROVE TInv'
  OBVIOUS
<1>1. CASE UNCHANGED vars
  BY <1>1 DEF vars, bus, server, client, TInv, BusTypes, ServerTypes, ClientTypes
<1>2. ASSUME NEW x \in Tables \cup {All}, SetFilter(x) PROVE TInv'
  <2>1. /\ filter' = x /\ x \in Filters /\ Refetch(x) /\ Extra
        /\ UNCHANGED <<ready, subs, queue, wire, rows, pc, event, up, es, view, clicked>>
    BY <1>2 DEF SetFilter, bus, server, Filters
  <2>2. fetch' \in [Fetches -> Fetch]
    BY <2>1, RefetchTypes DEF TInv
  <2> QED
    BY <2>1, <2>2, ExtraTypes DEF TInv, BusTypes, ServerTypes, ClientTypes
<1>3. ASSUME Rest, Deliver \/ \E c \in Conns : Serve(c) \/ Timeout(c) PROVE TInv'
  <2>1. BusTypes'
    BY <1>3, DeliverTypes, ConnectionTypes DEF TInv
  <2> QED
    BY <1>3, <2>1 DEF Rest, server, client, TInv, ServerTypes, ClientTypes
<1>4. CASE ServerStarts
  BY <1>4 DEF ServerStarts, bus, client, TInv, BusTypes, ServerTypes, ClientTypes
<1> QED
  BY <1>1, <1>2, <1>3, <1>4, ClickTypes, RequestTypes, PublishTypes, AnswerTypes, FetchTypes,
     SourceTypes, ServerStopsTypes DEF Next

\* Whatever is lost, restarted or refetched in whatever order: events the
\* server has committed are all that is queued, published and patched into the
\* list, and the list holds statuses only, for any number of orders, requests,
\* connections and refetches.
THEOREM TypeCorrect == Spec => []TypeOK
<1>1. TInv => TypeOK
  <2> SUFFICES ASSUME TInv PROVE TypeOK
    OBVIOUS
  <2>1. \A i \in DOMAIN ready : ready[i].data \in Event
    <3>1. \A i \in DOMAIN ready : ready[i] \in Delivery
      BY ElementOfSeq, LenProperties DEF TInv, BusTypes
    <3> QED
      BY <3>1 DEF Delivery
  <2>2. \A c \in Conns : \A i \in DOMAIN queue[c] : queue[c][i] \in Event
    BY ElementOfSeq, LenProperties DEF TInv, BusTypes
  <2> QED
    BY <2>1, <2>2 DEF TypeOK, TInv, BusTypes, ServerTypes, ClientTypes, Status, Stages, Fetch
<1> QED
  BY InitTypes, TypesStep, <1>1, PTL DEF Spec

=============================================================================
