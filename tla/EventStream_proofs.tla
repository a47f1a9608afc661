-------------------------- MODULE EventStream_proofs --------------------------
(* Proofs for EventStream. *)
EXTENDS EventStream, FiniteSetTheorems, SequenceTheorems, TLAPS

-----------------------------------------------------------------------------
(* Types.                                                                  *)

Delivery == [topic : Topics, data : Event]

\* A frame that carries an event carries one that was published.
LEMMA Frames ==
  /\ Open \in Frame /\ End \in Frame
  /\ \A e \in Event : Data(e) \in Frame
  /\ \A f \in Frame : f.kind = "data" => f.data \in Event
<1>1. Open \in Frame /\ End \in Frame /\ \A e \in Event : Data(e) \in Frame
  BY DEF Frame
<1>2. ASSUME NEW f \in Frame, f.kind = "data" PROVE f.data \in Event
  <2>1. f # Open /\ f # End
    BY <1>2 DEF Open, End
  <2>2. PICK e \in Event : f = Data(e)
    BY <2>1 DEF Frame
  <2> QED
    BY <2>2 DEF Data
<1> QED
  BY <1>1, <1>2

\* One connection's entry of a function that holds sequences.
LEMMA Entries ==
  ASSUME NEW S, NEW f \in [Conns -> Seq(S)], NEW c \in Conns
  PROVE  /\ [f EXCEPT ![c] = <<>>] \in [Conns -> Seq(S)]
         /\ \A x \in S : [f EXCEPT ![c] = Append(@, x)] \in [Conns -> Seq(S)]
         /\ f[c] # <<>> => /\ [f EXCEPT ![c] = Tail(@)] \in [Conns -> Seq(S)]
                           /\ Head(f[c]) \in S
<1>1. <<>> \in Seq(S)
  OBVIOUS
<1>2. \A x \in S : Append(f[c], x) \in Seq(S)
  BY AppendProperties
<1>3. f[c] # <<>> => Tail(f[c]) \in Seq(S) /\ Head(f[c]) \in S
  BY HeadTailProperties
<1> QED
  BY <1>1, <1>2, <1>3

LEMMA InitTypes == Init => TypeOK
<1> SUFFICES ASSUME Init PROVE TypeOK
  OBVIOUS
<1>1. /\ ready = <<>> /\ subs = {} /\ queue = [c \in Conns |-> <<>>]
      /\ gen = [c \in Conns |-> "none"] /\ wire = [c \in Conns |-> <<>>] /\ active = 0
      /\ log = <<>> /\ got = [c \in Conns |-> 0]
  BY DEF Init, BusInit
<1>2. 0 \in 0 .. MaxEvents /\ 0 <= MaxQueue
  BY EventsType, QueueBounds
<1>3. /\ <<>> \in Seq([topic : Topics, data : Event]) /\ <<>> \in Seq(Event)
      /\ <<>> \in Seq(Frame) /\ <<>> \in Seq(Topics) /\ Len(<<>>) = 0
  BY EmptySeq
<1> QED
  BY <1>1, <1>2, <1>3 DEF TypeOK

\* What happens to one connection only.
LEMMA ConnectionTypes ==
  ASSUME TypeOK, NEW c \in Conns,
         Accept(c) \/ Serve(c) \/ Timeout(c) \/ Hangup(c), UNCHANGED <<log, got>>
  PROVE  TypeOK'
<1>1. /\ subs \subseteq Conns /\ active \in Nat
      /\ queue \in [Conns -> Seq(Event)] /\ \A k \in Conns : Len(queue[k]) <= MaxQueue
      /\ wire \in [Conns -> Seq(Frame)]
      /\ gen \in [Conns -> {"none", "accepted", "greeting", "waiting", "sending",
                            "pinging", "abandoned"}]
  BY DEF TypeOK
<1>2. UNCHANGED ready
  BY DEF Accept, Serve, Greet, Listen, Send, Sent, Finish, Finalize, Timeout, Hangup
<1>3. gen' \in [Conns -> {"none", "accepted", "greeting", "waiting", "sending",
                          "pinging", "abandoned"}]
  BY <1>1 DEF Accept, Serve, Greet, Listen, Send, Sent, Finish, Finalize, Timeout, Hangup, Move
<1>4. subs' \subseteq Conns
  BY <1>1 DEF Accept, Serve, Greet, Listen, Send, Sent, Finish, Finalize, Timeout, Hangup,
              Unsubscribe
<1>5. active' \in Nat
  BY <1>1 DEF Accept, Serve, Greet, Listen, Send, Sent, Finish, Finalize, Timeout, Hangup, OneLess
<1>6. /\ queue' \in [Conns -> Seq(Event)] /\ \A k \in Conns : Len(queue'[k]) <= MaxQueue
  <2>1. CASE UNCHANGED queue
    BY <1>1, <2>1
  <2>2. CASE queue' = [queue EXCEPT ![c] = <<>>]
    <3>1. Len(<<>>) <= MaxQueue
      BY QueueBounds, EmptySeq
    <3> QED
      BY <1>1, <2>2, <3>1, Entries
  <2>3. CASE queue[c] # <<>> /\ queue' = [queue EXCEPT ![c] = Tail(@)]
    <3>1. queue' \in [Conns -> Seq(Event)]
      BY <1>1, <2>3, Entries
    <3>2. Len(Tail(queue[c])) = Len(queue[c]) - 1 /\ Len(queue[c]) \in Nat
      BY <1>1, <2>3, HeadTailProperties, LenProperties
    <3>3. ASSUME NEW k \in Conns PROVE Len(queue'[k]) <= MaxQueue
      <4>1. CASE k = c
        BY <1>1, <2>3, <3>2, <4>1, QueueBounds
      <4>2. CASE k # c
        BY <1>1, <2>3, <4>2
      <4> QED
        BY <4>1, <4>2
    <3> QED
      BY <3>1, <3>3
  <2> QED
    BY <2>1, <2>2, <2>3 DEF Accept, Serve, Greet, Listen, Send, Sent, Finish, Finalize, Timeout,
                            Hangup, Unsubscribe
<1>7. wire' \in [Conns -> Seq(Frame)]
  <2>1. CASE UNCHANGED wire
    BY <1>1, <2>1
  <2>2. CASE wire' = [wire EXCEPT ![c] = <<>>]
    BY <1>1, <2>2, Entries
  <2>3. CASE Transmit(c, Open) \/ Transmit(c, End)
    <3>1. PICK f \in Frame : wire' = [wire EXCEPT ![c] = Append(@, f)]
      BY <2>3, Frames DEF Transmit
    <3> QED
      BY <1>1, <3>1, Entries
  <2>4. CASE Send(c)
    <3>1. queue[c] # <<>> /\ wire' = [wire EXCEPT ![c] = Append(@, Data(Head(queue[c])))]
      BY <2>4 DEF Send, Transmit
    <3>2. Head(queue[c]) \in Event
      BY <1>1, <3>1, Entries
    <3>3. Data(Head(queue[c])) \in Frame
      BY <3>2, Frames
    <3> QED
      BY <1>1, <3>1, <3>3, Entries
  <2> QED
    BY <2>1, <2>2, <2>3, <2>4 DEF Accept, Serve, Greet, Listen, Sent, Finish, Finalize, Timeout,
                                  Hangup
<1> QED
  BY <1>1, <1>2, <1>3, <1>4, <1>5, <1>6, <1>7 DEF TypeOK

LEMMA PublishTypes == ASSUME TypeOK, NEW t \in Topics, Publish(t) PROVE TypeOK'
<1>1. /\ Len(log) < MaxEvents /\ log' = Append(log, t)
      /\ ready' = Append(ready, [topic |-> t, data |-> Len(log) + 1])
      /\ UNCHANGED <<subs, queue, gen, wire, active, got>>
  BY DEF Publish, PublishSync
<1>2. log \in Seq(Topics) /\ Len(log) \in Nat
  BY LenProperties DEF TypeOK
<1>3. [topic |-> t, data |-> Len(log) + 1] \in [topic : Topics, data : Event]
  BY <1>1, <1>2, EventsType DEF Event
<1>4. ready' \in Seq([topic : Topics, data : Event]) /\ log' \in Seq(Topics)
  BY <1>1, <1>2, <1>3, AppendProperties DEF TypeOK
<1> QED
  BY <1>1, <1>4 DEF TypeOK

LEMMA DeliverTypes == ASSUME TypeOK, Deliver, UNCHANGED <<log, got>> PROVE TypeOK'
<1>1. /\ ready # <<>> /\ ready' = Tail(ready) /\ UNCHANGED <<subs, gen, wire, active>>
      /\ queue' = [c \in Conns |->
           IF c \in subs /\ TopicOf[c] = Head(ready).topic /\ Len(queue[c]) < MaxQueue
             THEN Append(queue[c], Head(ready).data) ELSE queue[c]]
  BY DEF Deliver
<1>2. /\ ready' \in Seq([topic : Topics, data : Event])
      /\ Head(ready) \in [topic : Topics, data : Event]
  BY <1>1, HeadTailProperties DEF TypeOK
<1>3. ASSUME NEW c \in Conns PROVE queue'[c] \in Seq(Event) /\ Len(queue'[c]) <= MaxQueue
  <2>1. queue[c] \in Seq(Event) /\ Len(queue[c]) <= MaxQueue /\ Len(queue[c]) \in Nat
    BY LenProperties DEF TypeOK
  <2>2. CASE queue'[c] = queue[c]
    BY <2>1, <2>2
  <2>3. CASE queue'[c] = Append(queue[c], Head(ready).data) /\ Len(queue[c]) < MaxQueue
    <3>1. /\ Append(queue[c], Head(ready).data) \in Seq(Event)
          /\ Len(Append(queue[c], Head(ready).data)) = Len(queue[c]) + 1
      BY <1>2, <2>1, AppendProperties
    <3> QED
      BY <2>1, <2>3, <3>1, QueueBounds
  <2> QED
    BY <1>1, <2>2, <2>3
<1>4. queue' \in [Conns -> Seq(Event)]
  BY <1>1, <1>3
<1> QED
  BY <1>1, <1>2, <1>3, <1>4 DEF TypeOK

LEMMA ReadTypes == ASSUME TypeOK, NEW c \in Conns, Read(c) PROVE TypeOK'
<1>1. /\ wire[c] # <<>> /\ wire' = [wire EXCEPT ![c] = Tail(@)]
      /\ got' = [got EXCEPT ![c] = IF Head(wire[c]).kind = "data" THEN Head(wire[c]).data ELSE 0]
      /\ UNCHANGED <<ready, subs, queue, gen, active, log>>
  BY DEF Read
<1>2. wire' \in [Conns -> Seq(Frame)] /\ Head(wire[c]) \in Frame
  BY <1>1, Entries DEF TypeOK
<1>3. got'[c] \in 0 .. MaxEvents
  BY <1>1, <1>2, Frames, EventsType DEF TypeOK, Event
<1> QED
  BY <1>1, <1>2, <1>3 DEF TypeOK

LEMMA RestartTypes == ASSUME TypeOK, Restart, UNCHANGED <<log, got>> PROVE TypeOK'
<1>1. /\ ready' = <<>> /\ subs' = {} /\ queue' = [c \in Conns |-> <<>>]
      /\ gen' = [c \in Conns |-> "none"] /\ active' = 0
      /\ wire' = [c \in Conns |-> IF gen[c] \in {"none", "abandoned"} THEN wire[c] ELSE <<End>>]
  BY DEF Restart
<1>2. <<End>> \in Seq(Frame) /\ <<>> \in Seq(Event) /\ Len(<<>>) = 0
      /\ <<>> \in Seq([topic : Topics, data : Event])
  BY Frames, EmptySeq
<1>3. 0 <= MaxQueue
  BY QueueBounds
<1>4. wire' \in [Conns -> Seq(Frame)]
  BY <1>1, <1>2 DEF TypeOK
<1> QED
  BY <1>1, <1>2, <1>3, <1>4 DEF TypeOK

LEMMA TypesStep == TypeOK /\ [Next]_vars => TypeOK'
<1> SUFFICES ASSUME TypeOK, [Next]_vars PROVE TypeOK'
  OBVIOUS
<1>1. CASE UNCHANGED vars
  BY <1>1 DEF vars, bus, TypeOK
<1> QED
  BY <1>1, PublishTypes, DeliverTypes, ConnectionTypes, ReadTypes, RestartTypes DEF Next, Loop

\* The queue of a subscriber is bounded by max_queue, however slow its client
\* and however many events and connections there are.
THEOREM TypeCorrect == Spec => []TypeOK
  BY InitTypes, TypesStep, PTL DEF Spec

-----------------------------------------------------------------------------
(* Streams are released.                                                   *)

\* A queue is registered only while its generator can still unregister it.
Subscribed == \A c \in subs : gen[c] \in {"waiting", "sending", "abandoned"}

RInv ==
  /\ IsFiniteSet(Running) /\ active = Cardinality(Running)
  /\ Subscribed
  /\ \A c \in Conns \ subs : queue[c] = <<>>

\* A generator starts or ends to count itself together with sse_active.
LEMMA Counted ==
  ASSUME RInv, NEW c \in Conns,
         \/ active' = active /\ Running' = Running
         \/ active' = active + 1 /\ c \notin Running /\ Running' = Running \cup {c}
         \/ OneLess /\ c \in Running /\ Running' = Running \ {c}
  PROVE  IsFiniteSet(Running') /\ active' = Cardinality(Running')
<1>1. IsFiniteSet(Running) /\ active = Cardinality(Running) /\ Cardinality(Running) \in Nat
  BY FS_CardinalityType DEF RInv
<1>2. CASE active' = active /\ Running' = Running
  BY <1>1, <1>2
<1>3. CASE active' = active + 1 /\ c \notin Running /\ Running' = Running \cup {c}
  <2>1. IsFiniteSet(Running \cup {c}) /\ Cardinality(Running \cup {c}) = Cardinality(Running) + 1
    BY <1>1, <1>3, FS_AddElement
  <2> QED
    BY <1>1, <1>3, <2>1
<1>4. CASE OneLess /\ c \in Running /\ Running' = Running \ {c}
  <2>1. /\ IsFiniteSet(Running \ {c}) /\ Cardinality(Running \ {c}) = Cardinality(Running) - 1
        /\ Cardinality(Running \ {c}) \in Nat
    BY <1>1, <1>4, FS_RemoveElement, FS_CardinalityType
  <2>2. active' = active - 1
    BY <1>1, <1>4, <2>1 DEF OneLess
  <2> QED
    BY <1>1, <1>4, <2>1, <2>2
<1> QED
  BY <1>2, <1>3, <1>4

\* The steps of one generator, wherever it is cut off.
LEMMA ConnectionReleased ==
  ASSUME TypeOK, RInv, NEW c \in Conns,
         Accept(c) \/ Serve(c) \/ Timeout(c) \/ Hangup(c)
  PROVE  RInv'
<1>1. \A k \in Conns \ {c} : gen'[k] = gen[k] /\ queue'[k] = queue[k]
  BY DEF TypeOK, Accept, Serve, Greet, Listen, Send, Sent, Finish, Finalize, Timeout, Hangup, Move,
         Unsubscribe
<1>2. \A k \in Conns \ {c} : k \in Running' <=> k \in Running
  BY <1>1 DEF Running
<1>3. subs \subseteq Conns /\ \A k \in Conns \ {c} : k \in subs' <=> k \in subs
  BY DEF TypeOK, Accept, Serve, Greet, Listen, Send, Sent, Finish, Finalize, Timeout, Hangup,
         Unsubscribe
<1>4. \/ active' = active /\ (c \in Running' <=> c \in Running)
      \/ active' = active + 1 /\ c \notin Running /\ c \in Running'
      \/ OneLess /\ c \in Running /\ c \notin Running'
  BY DEF TypeOK, Accept, Serve, Greet, Listen, Send, Sent, Finish, Finalize, Timeout, Hangup, Move,
         Running
<1>5. Running \subseteq Conns /\ Running' \subseteq Conns
  BY DEF Running
<1>6. IsFiniteSet(Running') /\ active' = Cardinality(Running')
  <2>1. CASE active' = active /\ (c \in Running' <=> c \in Running)
    <3>1. Running' = Running
      BY <1>2, <1>5, <2>1
    <3> QED
      BY <2>1, <3>1, Counted
  <2>2. CASE active' = active + 1 /\ c \notin Running /\ c \in Running'
    <3>1. Running' = Running \cup {c}
      BY <1>2, <1>5, <2>2
    <3> QED
      BY <2>2, <3>1, Counted
  <2>3. CASE OneLess /\ c \in Running /\ c \notin Running'
    <3>1. Running' = Running \ {c}
      BY <1>2, <1>5, <2>3
    <3> QED
      BY <2>3, <3>1, Counted
  <2> QED
    BY <1>4, <2>1, <2>2, <2>3
<1>7. /\ c \in subs' => gen'[c] \in {"waiting", "sending", "abandoned"}
      /\ c \notin subs' => queue'[c] = <<>>
  BY <1>3 DEF TypeOK, RInv, Subscribed, Accept, Serve, Greet, Listen, Send, Sent, Finish, Finalize,
         Timeout, Hangup, Move, Unsubscribe
<1>8. subs' \subseteq Conns
  BY DEF TypeOK, Accept, Serve, Greet, Listen, Send, Sent, Finish, Finalize, Timeout, Hangup,
         Unsubscribe
<1> QED
  BY <1>1, <1>3, <1>6, <1>7, <1>8 DEF RInv, Subscribed

\* Deliveries go to registered queues only.
LEMMA DeliverReleased == ASSUME TypeOK, RInv, Deliver PROVE RInv'
<1>1. /\ UNCHANGED <<subs, gen, active>>
      /\ \A c \in Conns \ subs : queue'[c] = queue[c]
  BY DEF Deliver
<1>2. Running' = Running
  BY <1>1 DEF Running
<1> QED
  BY <1>1, <1>2 DEF RInv, Subscribed

\* A new process has none of the old one's streams.
LEMMA RestartReleased == ASSUME Restart PROVE RInv'
<1>1. /\ subs' = {} /\ active' = 0 /\ queue' = [c \in Conns |-> <<>>]
      /\ gen' = [c \in Conns |-> "none"]
  BY DEF Restart
<1>2. Running' = {}
  BY <1>1 DEF Running
<1> QED
  BY <1>1, <1>2, FS_EmptySet DEF RInv, Subscribed

LEMMA ReleasedStep == TypeOK /\ RInv /\ [Next]_vars => RInv'
<1> SUFFICES ASSUME TypeOK, RInv, [Next]_vars PROVE RInv'
  OBVIOUS
<1>1. CASE \/ UNCHANGED vars \/ \E t \in Topics : Publish(t)
           \/ \E c \in Conns : Read(c)
  <2>1. UNCHANGED <<subs, queue, gen, active>>
    BY <1>1 DEF vars, bus, Publish, Read
  <2> QED
    BY <2>1 DEF RInv, Running, Subscribed
<1> QED
  BY <1>1, DeliverReleased, ConnectionReleased, RestartReleased DEF Next, Loop

\* The finally clauses of subscribe and event_stream, with the restart of the
\* process, release every stream, for any number of connections.
THEOREM AllReleased == Spec => []StreamsReleased
<1>1. Init => RInv
  <2> SUFFICES ASSUME Init PROVE RInv
    OBVIOUS
  <2>1. Running = {}
    BY DEF Init, BusInit, Running
  <2> QED
    BY <2>1, FS_EmptySet DEF Init, BusInit, RInv, Subscribed
<1>2. TypeOK /\ RInv => StreamsReleased
  <2> SUFFICES ASSUME TypeOK, RInv PROVE StreamsReleased
    OBVIOUS
  <2>1. subs \subseteq Running
    BY DEF TypeOK, RInv, Subscribed, Running
  <2> QED
    BY <2>1 DEF RInv, StreamsReleased
<1> QED
  BY InitTypes, TypesStep, ReleasedStep, <1>1, <1>2, PTL DEF Spec

-----------------------------------------------------------------------------
(* Each client reads the events of its topic in order.                     *)

IsData(f) == f.kind = "data"

\* What a connection with topic t has on the wire w, in the queue q and
\* scheduled in r are events of that topic of the log l, in their order and
\* later than g, the last one read.  Other topics' deliveries may be between.
OnTopic(t, l, w, q, r) ==
  /\ \A i \in 1 .. Len(w) : IsData(w[i]) => w[i].data <= Len(l) /\ l[w[i].data] = t
  /\ \A i \in 1 .. Len(q) : q[i] <= Len(l) /\ l[q[i]] = t
  /\ \A i \in 1 .. Len(r) : r[i].topic = t => r[i].data <= Len(l) /\ l[r[i].data] = t

Later(t, g, w, q, r) ==
  /\ \A i \in 1 .. Len(w) : IsData(w[i]) => g < w[i].data
  /\ \A i \in 1 .. Len(q) : g < q[i]
  /\ \A i \in 1 .. Len(r) : r[i].topic = t => g < r[i].data

InLine(t, w, q, r) ==
  /\ \A i, j \in 1 .. Len(w) : i < j /\ IsData(w[i]) /\ IsData(w[j]) => w[i].data < w[j].data
  /\ \A i, j \in 1 .. Len(q) : i < j => q[i] < q[j]
  /\ \A i, j \in 1 .. Len(r) : i < j /\ r[i].topic = t /\ r[j].topic = t => r[i].data < r[j].data
  /\ \A i \in 1 .. Len(w), j \in 1 .. Len(q) : IsData(w[i]) => w[i].data < q[j]
  /\ \A i \in 1 .. Len(q), j \in 1 .. Len(r) : r[j].topic = t => q[i] < r[j].data
  /\ \A i \in 1 .. Len(w), j \in 1 .. Len(r) :
       IsData(w[i]) /\ r[j].topic = t => w[i].data < r[j].data

Lined(t, l, w, q, r, g) ==
  OnTopic(t, l, w, q, r) /\ Later(t, g, w, q, r) /\ InLine(t, w, q, r) /\ g <= Len(l)

OInv == \A c \in Conns : Lined(TopicOf[c], log, wire[c], queue[c], ready, got[c])

\* The parts in the form the lemmas below use them.
Parts(l, w, q, r, g) ==
  l \in Seq(Topics) /\ w \in Seq(Frame) /\ q \in Seq(Event) /\ r \in Seq(Delivery) /\ g \in Nat

LEMMA PartTypes ==
  ASSUME NEW l, NEW w, NEW q, NEW r, NEW g, Parts(l, w, q, r, g)
  PROVE  /\ Len(l) \in Nat /\ Len(w) \in Nat /\ Len(q) \in Nat /\ Len(r) \in Nat
         /\ \A i \in 1 .. Len(w) : w[i] \in Frame /\ (IsData(w[i]) => w[i].data \in Nat \ {0})
         /\ \A i \in 1 .. Len(q) : q[i] \in Nat \ {0}
         /\ \A i \in 1 .. Len(r) : r[i].topic \in Topics /\ r[i].data \in Nat \ {0}
<1>1. Event \subseteq Nat \ {0}
  BY EventsType DEF Event
<1>2. \A i \in 1 .. Len(w) : w[i] \in Frame
  BY ElementOfSeq DEF Parts
<1>3. \A i \in 1 .. Len(q) : q[i] \in Event
  BY ElementOfSeq DEF Parts
<1>4. \A i \in 1 .. Len(r) : r[i] \in Delivery
  BY ElementOfSeq DEF Parts
<1>5. Len(l) \in Nat /\ Len(w) \in Nat /\ Len(q) \in Nat /\ Len(r) \in Nat
  BY LenProperties DEF Parts
<1>6. \A i \in 1 .. Len(w) : IsData(w[i]) => w[i].data \in Nat \ {0}
  BY <1>1, <1>2, Frames DEF IsData
<1> QED
  BY <1>1, <1>2, <1>3, <1>4, <1>5, <1>6 DEF Delivery

\* A new event comes after all others.
LEMMA PublishLined ==
  ASSUME NEW t, NEW l, NEW w, NEW q, NEW r, NEW g, Parts(l, w, q, r, g),
         NEW u \in Topics, Len(l) < MaxEvents, Lined(t, l, w, q, r, g)
  PROVE  Lined(t, Append(l, u), w, q, Append(r, [topic |-> u, data |-> Len(l) + 1]), g)
<1> DEFINE d == [topic |-> u, data |-> Len(l) + 1]
           m == Append(l, u)
           s == Append(r, d)
<1>1. Len(l) \in Nat /\ d \in Delivery
  BY PartTypes, EventsType DEF Delivery, Event
<1>2. Len(m) = Len(l) + 1 /\ (\A i \in 1 .. Len(l) : m[i] = l[i]) /\ m[Len(l) + 1] = u
  BY AppendProperties DEF Parts
<1>3. Len(s) = Len(r) + 1 /\ (\A i \in 1 .. Len(r) : s[i] = r[i]) /\ s[Len(r) + 1] = d
  BY <1>1, AppendProperties DEF Parts
<1>4. d.topic = u /\ d.data = Len(l) + 1
  OBVIOUS
<1> HIDE DEF d, m, s
<1>5. \A i \in 1 .. Len(s) : i \in 1 .. Len(r) \/ i = Len(r) + 1
  BY <1>3, PartTypes
<1>6. OnTopic(t, m, w, q, s)
  <2>1. \A e \in Nat \ {0} : e <= Len(l) => e <= Len(m) /\ m[e] = l[e]
    BY <1>1, <1>2
  <2>2. \A i \in 1 .. Len(w) : IsData(w[i]) => w[i].data <= Len(m) /\ m[w[i].data] = t
    BY <2>1, PartTypes DEF Lined, OnTopic
  <2>3. \A i \in 1 .. Len(q) : q[i] <= Len(m) /\ m[q[i]] = t
    BY <2>1, PartTypes DEF Lined, OnTopic
  <2>4. \A i \in 1 .. Len(r) : s[i].topic = t => s[i].data <= Len(m) /\ m[s[i].data] = t
    BY <1>3, <2>1, PartTypes DEF Lined, OnTopic
  <2>5. s[Len(r) + 1].topic = t =>
          s[Len(r) + 1].data <= Len(m) /\ m[s[Len(r) + 1].data] = t
    BY <1>1, <1>2, <1>3, <1>4
  <2> QED
    BY <1>5, <2>2, <2>3, <2>4, <2>5 DEF OnTopic
<1>7. Later(t, g, w, q, s)
  <2>1. ASSUME NEW i \in 1 .. Len(s), s[i].topic = t PROVE g < s[i].data
    <3>1. CASE i \in 1 .. Len(r)
      BY <1>3, <2>1, <3>1 DEF Lined, Later
    <3>2. CASE i = Len(r) + 1
      <4>1. g <= Len(l) /\ g \in Nat
        BY DEF Lined, Parts
      <4>2. s[i].data = Len(l) + 1
        BY <1>3, <1>4, <3>2
      <4> QED
        BY <1>1, <4>1, <4>2
    <3> QED
      BY <1>5, <3>1, <3>2
  <2> QED
    BY <2>1 DEF Lined, Later
<1>8. InLine(t, w, q, s)
  <2>1. \A i, j \in 1 .. Len(s) : i < j /\ s[i].topic = t /\ s[j].topic = t => s[i].data < s[j].data
    <3>1. \A i \in 1 .. Len(r) : s[i].topic = t => s[i].data < s[Len(r) + 1].data
      <4>1. \A i \in 1 .. Len(r) : r[i].topic = t => r[i].data <= Len(l)
        BY DEF Lined, OnTopic
      <4>2. \A i \in 1 .. Len(r) : r[i].data \in Nat
        BY PartTypes
      <4> QED
        BY <1>1, <1>3, <1>4, <4>1, <4>2
    <3>2. \A i, j \in 1 .. Len(r) : i < j /\ s[i].topic = t /\ s[j].topic = t => s[i].data < s[j].data
      BY <1>3 DEF Lined, InLine
    <3>3. \A i, j \in 1 .. Len(s) : i < j => i \in 1 .. Len(r)
      BY <1>1, <1>3, PartTypes
    <3> QED
      BY <1>5, <3>1, <3>2, <3>3
  <2>2. ASSUME NEW i \in 1 .. Len(q), NEW j \in 1 .. Len(s), s[j].topic = t
        PROVE  q[i] < s[j].data
    <3>1. CASE j \in 1 .. Len(r)
      <4>1. r[j].topic = t /\ r[j].data = s[j].data
        BY <1>3, <2>2, <3>1
      <4> QED
        BY <3>1, <4>1 DEF Lined, InLine
    <3>2. CASE j = Len(r) + 1
      <4>1. q[i] \in Nat /\ q[i] <= Len(l)
        BY PartTypes DEF Lined, OnTopic
      <4>2. s[j].data = Len(l) + 1
        BY <1>3, <1>4, <3>2
      <4> QED
        BY <1>1, <4>1, <4>2
    <3> QED
      BY <1>5, <3>1, <3>2
  <2>3. ASSUME NEW i \in 1 .. Len(w), NEW j \in 1 .. Len(s), IsData(w[i]), s[j].topic = t
        PROVE  w[i].data < s[j].data
    <3>1. CASE j \in 1 .. Len(r)
      <4>1. r[j].topic = t /\ r[j].data = s[j].data
        BY <1>3, <2>3, <3>1
      <4> QED
        BY <2>3, <3>1, <4>1 DEF Lined, InLine
    <3>2. CASE j = Len(r) + 1
      <4>1. w[i].data \in Nat /\ w[i].data <= Len(l)
        BY <2>3, PartTypes DEF Lined, OnTopic
      <4>2. s[j].data = Len(l) + 1
        BY <1>3, <1>4, <3>2
      <4> QED
        BY <1>1, <4>1, <4>2
    <3> QED
      BY <1>5, <3>1, <3>2
  <2> QED
    BY <2>1, <2>2, <2>3 DEF Lined, InLine
<1>9. g <= Len(m)
  BY <1>1, <1>2 DEF Lined, Parts
<1> QED
  BY <1>6, <1>7, <1>8, <1>9 DEF Lined, d, m, s

\* The first delivery joins the queue or is dropped.
LEMMA DeliverLined ==
  ASSUME NEW t, NEW l, NEW w, NEW q, NEW r, NEW g, Parts(l, w, q, r, g),
         r # <<>>, NEW p, p = q \/ (Head(r).topic = t /\ p = Append(q, Head(r).data)),
         Lined(t, l, w, q, r, g)
  PROVE  Lined(t, l, w, p, Tail(r), g)
<1> DEFINE d == Head(r)
           s == Tail(r)
<1>1. /\ Len(s) = Len(r) - 1 /\ Len(r) \in Nat /\ Len(r) > 0
      /\ \A i \in 1 .. Len(s) : s[i] = r[i + 1] /\ i + 1 \in 1 .. Len(r)
      /\ d = r[1] /\ 1 \in 1 .. Len(r) /\ d \in Delivery
  BY HeadTailProperties, PartTypes DEF Parts
<1>2. d.data \in Event
  BY <1>1 DEF Delivery
<1>3. \/ p = q
      \/ /\ d.topic = t /\ Len(p) = Len(q) + 1
         /\ \A i \in 1 .. Len(q) : p[i] = q[i]
         /\ p[Len(q) + 1] = r[1].data
  BY <1>1, <1>2, AppendProperties DEF Parts
<1> HIDE DEF d, s
<1>4. \A i \in 1 .. Len(p) : (i \in 1 .. Len(q) /\ p[i] = q[i]) \/
                             (r[1].topic = t /\ i = Len(q) + 1 /\ p[i] = r[1].data)
  BY <1>1, <1>3, PartTypes
<1>a. \A i \in 1 .. Len(s) : \E k \in 1 .. Len(r) : k = i + 1 /\ s[i] = r[k] /\ 1 < k
  BY <1>1
<1>0. \A k \in 1 .. Len(r) :
        r[k].topic = t => r[k].data <= Len(l) /\ l[r[k].data] = t /\ g < r[k].data
  BY DEF Lined, OnTopic, Later
<1>b. \A i \in 1 .. Len(s) : s[i].topic = t => s[i].data <= Len(l) /\ l[s[i].data] = t /\ g < s[i].data
  BY <1>0, <1>a
<1>c. \A i \in 1 .. Len(s) : s[i].topic = t /\ r[1].topic = t => r[1].data < s[i].data
  <2>1. \A j, k \in 1 .. Len(r) : j < k /\ r[j].topic = t /\ r[k].topic = t => r[j].data < r[k].data
    BY DEF Lined, InLine
  <2> QED
    BY <1>1, <1>a, <2>1
<1>5. OnTopic(t, l, w, p, s)
  <2>1. \A i \in 1 .. Len(p) : p[i] <= Len(l) /\ l[p[i]] = t
    BY <1>1, <1>4 DEF Lined, OnTopic
  <2> QED
    BY <1>b, <2>1 DEF Lined, OnTopic
<1>6. Later(t, g, w, p, s)
  <2>1. \A i \in 1 .. Len(p) : g < p[i]
    BY <1>1, <1>4 DEF Lined, Later
  <2> QED
    BY <1>b, <2>1 DEF Lined, Later
<1>7. InLine(t, w, p, s)
  <2>1. \A i, j \in 1 .. Len(s) : i < j /\ s[i].topic = t /\ s[j].topic = t => s[i].data < s[j].data
    BY <1>a DEF Lined, InLine
  <2>2. \A i \in 1 .. Len(w), j \in 1 .. Len(s) :
          IsData(w[i]) /\ s[j].topic = t => w[i].data < s[j].data
    BY <1>a DEF Lined, InLine
  <2>3. \A i, j \in 1 .. Len(p) : i < j => p[i] < p[j]
    BY <1>1, <1>4, PartTypes DEF Lined, InLine
  <2>4. \A i \in 1 .. Len(w), j \in 1 .. Len(p) : IsData(w[i]) => w[i].data < p[j]
    BY <1>1, <1>4 DEF Lined, InLine
  <2>5. \A i \in 1 .. Len(p), j \in 1 .. Len(s) : s[j].topic = t => p[i] < s[j].data
    BY <1>4, <1>a, <1>c DEF Lined, InLine
  <2> QED
    BY <2>1, <2>2, <2>3, <2>4, <2>5 DEF Lined, InLine
<1> QED
  BY <1>5, <1>6, <1>7 DEF Lined, s

\* The oldest event of the queue goes out.
LEMMA SendLined ==
  ASSUME NEW t, NEW l, NEW w, NEW q, NEW r, NEW g, Parts(l, w, q, r, g),
         q # <<>>, Lined(t, l, w, q, r, g)
  PROVE  Lined(t, l, Append(w, Data(Head(q))), Tail(q), r, g)
<1> DEFINE x == Append(w, Data(Head(q)))
           p == Tail(q)
<1>1. /\ Len(p) = Len(q) - 1 /\ Len(q) \in Nat /\ Len(q) > 0
      /\ \A i \in 1 .. Len(p) : p[i] = q[i + 1] /\ i + 1 \in 1 .. Len(q)
      /\ Head(q) = q[1] /\ 1 \in 1 .. Len(q) /\ Head(q) \in Event
  BY HeadTailProperties, PartTypes DEF Parts
<1>2. /\ Len(x) = Len(w) + 1 /\ \A i \in 1 .. Len(w) : x[i] = w[i]
      /\ x[Len(w) + 1] = Data(q[1])
  BY <1>1, Frames, AppendProperties DEF Parts
<1>3. Data(q[1]).data = q[1]
  BY DEF Data
<1> HIDE DEF x, p
<1>4. \A i \in 1 .. Len(x) : (i \in 1 .. Len(w) /\ x[i] = w[i]) \/
                             (i = Len(w) + 1 /\ x[i].data = q[1])
  BY <1>2, <1>3, PartTypes
<1>a. \A i \in 1 .. Len(p) : \E k \in 1 .. Len(q) : k = i + 1 /\ p[i] = q[k] /\ 1 < k
  BY <1>1
<1>b. \A i \in 1 .. Len(p) : p[i] <= Len(l) /\ l[p[i]] = t /\ g < p[i] /\ q[1] < p[i]
  BY <1>1, <1>a DEF Lined, OnTopic, Later, InLine
<1>c. q[1] <= Len(l) /\ l[q[1]] = t /\ g < q[1]
  BY <1>1 DEF Lined, OnTopic, Later
<1>5. OnTopic(t, l, x, p, r)
  BY <1>4, <1>b, <1>c DEF Lined, OnTopic
<1>6. Later(t, g, x, p, r)
  BY <1>4, <1>b, <1>c DEF Lined, Later
<1>7. InLine(t, x, p, r)
  <2>1. \A i, j \in 1 .. Len(p) : i < j => p[i] < p[j]
    BY <1>a DEF Lined, InLine
  <2>2. \A i \in 1 .. Len(p), j \in 1 .. Len(r) : r[j].topic = t => p[i] < r[j].data
    BY <1>a DEF Lined, InLine
  <2>3. \A i, j \in 1 .. Len(x) : i < j /\ IsData(x[i]) /\ IsData(x[j]) => x[i].data < x[j].data
    <3>1. \A i \in 1 .. Len(w) : IsData(w[i]) => w[i].data < q[1]
      BY <1>1 DEF Lined, InLine
    <3>2. \A i, j \in 1 .. Len(w) : i < j /\ IsData(w[i]) /\ IsData(w[j]) => w[i].data < w[j].data
      BY DEF Lined, InLine
    <3>3. \A i, j \in 1 .. Len(x) : i < j => i \in 1 .. Len(w)
      BY <1>2, PartTypes
    <3> QED
      BY <1>2, <1>4, <3>1, <3>2, <3>3
  <2>4. \A i \in 1 .. Len(x), j \in 1 .. Len(p) : IsData(x[i]) => x[i].data < p[j]
    BY <1>4, <1>a, <1>b DEF Lined, InLine
  <2>5. \A i \in 1 .. Len(x), j \in 1 .. Len(r) :
          IsData(x[i]) /\ r[j].topic = t => x[i].data < r[j].data
    BY <1>1, <1>4 DEF Lined, InLine
  <2> QED
    BY <2>1, <2>2, <2>3, <2>4, <2>5 DEF Lined, InLine
<1> QED
  BY <1>5, <1>6, <1>7 DEF Lined, x, p

\* The client reads one frame.
LEMMA ReadLined ==
  ASSUME NEW t, NEW l, NEW w, NEW q, NEW r, NEW g, Parts(l, w, q, r, g),
         w # <<>>, NEW h, h = IF IsData(Head(w)) THEN Head(w).data ELSE 0,
         Lined(t, l, w, q, r, g)
  PROVE  Lined(t, l, Tail(w), q, r, h)
<1> DEFINE x == Tail(w)
<1>1. /\ Len(x) = Len(w) - 1 /\ Len(w) \in Nat /\ Len(w) > 0
      /\ \A i \in 1 .. Len(x) : x[i] = w[i + 1] /\ i + 1 \in 1 .. Len(w)
      /\ Head(w) = w[1] /\ 1 \in 1 .. Len(w)
  BY HeadTailProperties, PartTypes DEF Parts
<1> HIDE DEF x
<1>2. (IsData(w[1]) /\ h = w[1].data) \/ h = 0
  BY <1>1
<1>a. \A i \in 1 .. Len(x) : \E k \in 1 .. Len(w) : k = i + 1 /\ x[i] = w[k] /\ 1 < k
  BY <1>1
<1>3. OnTopic(t, l, x, q, r)
  BY <1>a DEF Lined, OnTopic
<1>4. Later(t, h, x, q, r)
  <2>1. CASE IsData(w[1]) /\ h = w[1].data
    <3>1. \A k \in 1 .. Len(w) : 1 < k /\ IsData(w[k]) => h < w[k].data
      BY <1>1, <2>1 DEF Lined, InLine
    <3>2. (\A k \in 1 .. Len(q) : h < q[k]) /\ \A k \in 1 .. Len(r) : r[k].topic = t => h < r[k].data
      BY <1>1, <2>1 DEF Lined, InLine
    <3> QED
      BY <1>a, <3>1, <3>2 DEF Later
  <2>2. CASE h = 0
    <3>1. \A k \in 1 .. Len(w) : IsData(w[k]) => 0 < w[k].data
      BY PartTypes
    <3>2. \A k \in 1 .. Len(q) : 0 < q[k]
      BY PartTypes
    <3>3. \A k \in 1 .. Len(r) : 0 < r[k].data
      BY PartTypes
    <3> QED
      BY <1>a, <2>2, <3>1, <3>2, <3>3 DEF Later
  <2> QED
    BY <1>2, <2>1, <2>2
<1>5. InLine(t, x, q, r)
  <2>1. \A i, j \in 1 .. Len(x) : i < j /\ IsData(x[i]) /\ IsData(x[j]) => x[i].data < x[j].data
    BY <1>a DEF Lined, InLine
  <2> QED
    BY <1>a, <2>1 DEF Lined, InLine
<1>6. h <= Len(l)
  BY <1>1, <1>2, PartTypes DEF Lined, OnTopic
<1> QED
  BY <1>3, <1>4, <1>5, <1>6 DEF Lined, x

\* A frame without an event goes out; a queue, the wire or all deliveries are
\* given up.
LEMMA OtherLined ==
  ASSUME NEW t, NEW l, NEW w, NEW q, NEW r, NEW g, Parts(l, w, q, r, g),
         Lined(t, l, w, q, r, g), NEW f \in {Open, End}
  PROVE  /\ Lined(t, l, Append(w, f), q, r, g)
         /\ Lined(t, l, w, <<>>, r, g) /\ Lined(t, l, <<>>, q, r, g)
         /\ Lined(t, l, w, <<>>, <<>>, g) /\ Lined(t, l, <<End>>, <<>>, <<>>, g)
<1>1. Len(<<>>) = 0
  OBVIOUS
<1>2. \A i \in 1 .. Len(<<End>>) : ~IsData(<<End>>[i])
  BY DEF End, IsData
<1> DEFINE x == Append(w, f)
<1>3. \A i \in 1 .. Len(x) : (i \in 1 .. Len(w) /\ x[i] = w[i]) \/ ~IsData(x[i])
  <2>1. f \in Frame /\ ~IsData(f)
    BY Frames DEF Open, End, IsData
  <2>2. /\ Len(x) = Len(w) + 1 /\ x[Len(w) + 1] = f
        /\ \A i \in 1 .. Len(w) : x[i] = w[i]
    <3>1. w \in Seq(Frame)
      BY DEF Parts
    <3> QED
      BY ONLY <2>1, <3>1, AppendProperties
  <2> HIDE DEF x
  <2> QED
    BY <2>1, <2>2, PartTypes
<1> HIDE DEF x
<1>4. Lined(t, l, x, q, r, g)
  <2>1. ASSUME NEW i \in 1 .. Len(x), IsData(x[i])
        PROVE  /\ x[i].data <= Len(l) /\ l[x[i].data] = t /\ g < x[i].data
               /\ \A j \in 1 .. Len(x) : i < j /\ IsData(x[j]) => x[i].data < x[j].data
               /\ \A j \in 1 .. Len(q) : x[i].data < q[j]
               /\ \A j \in 1 .. Len(r) : r[j].topic = t => x[i].data < r[j].data
    <3>1. i \in 1 .. Len(w) /\ x[i] = w[i]
      BY <1>3, <2>1
    <3>2. /\ w[i].data <= Len(l) /\ l[w[i].data] = t /\ g < w[i].data
          /\ \A j \in 1 .. Len(q) : w[i].data < q[j]
          /\ \A j \in 1 .. Len(r) : r[j].topic = t => w[i].data < r[j].data
      BY <2>1, <3>1 DEF Lined, OnTopic, Later, InLine
    <3>3. ASSUME NEW j \in 1 .. Len(x), i < j, IsData(x[j]) PROVE x[i].data < x[j].data
      <4>1. j \in 1 .. Len(w) /\ x[j] = w[j]
        BY <1>3, <3>3
      <4> QED
        BY <2>1, <3>1, <3>3, <4>1 DEF Lined, InLine
    <3> QED
      BY <3>1, <3>2, <3>3
  <2>2. OnTopic(t, l, x, q, r)
    BY <2>1 DEF Lined, OnTopic
  <2>3. Later(t, g, x, q, r)
    BY <2>1 DEF Lined, Later
  <2>4. InLine(t, x, q, r)
    BY <2>1 DEF Lined, InLine
  <2> QED
    BY <2>2, <2>3, <2>4 DEF Lined
<1>5. Lined(t, l, w, <<>>, r, g)
  BY <1>1 DEF Lined, OnTopic, Later, InLine
<1>6. Lined(t, l, <<>>, q, r, g)
  BY <1>1 DEF Lined, OnTopic, Later, InLine
<1>7. Lined(t, l, w, <<>>, <<>>, g)
  BY <1>1 DEF Lined, OnTopic, Later, InLine
<1>8. Lined(t, l, <<End>>, <<>>, <<>>, g)
  BY <1>1, <1>2 DEF Lined, OnTopic, Later, InLine
<1> QED
  BY <1>4, <1>5, <1>6, <1>7, <1>8 DEF x

LEMMA PartsOf ==
  ASSUME TypeOK, NEW c \in Conns
  PROVE  Parts(log, wire[c], queue[c], ready, got[c])
  BY EventsType DEF TypeOK, Parts, Delivery

\* What happens to one connection only.
LEMMA ConnectionLined ==
  ASSUME TypeOK, OInv, NEW c \in Conns,
         \/ (Accept(c) \/ Serve(c) \/ Timeout(c) \/ Hangup(c)) /\ UNCHANGED <<log, got>>
         \/ Read(c)
  PROVE  OInv'
<1> DEFINE t == TopicOf[c]
<1>1. UNCHANGED <<log, ready>>
  BY DEF Accept, Serve, Greet, Listen, Send, Sent, Finish, Finalize, Timeout, Hangup, Read
<1>2. \A k \in Conns \ {c} : wire'[k] = wire[k] /\ queue'[k] = queue[k] /\ got'[k] = got[k]
  BY DEF TypeOK, Accept, Serve, Greet, Listen, Send, Sent, Finish, Finalize, Timeout, Hangup, Read,
         Transmit, Unsubscribe
<1>3. Parts(log, wire[c], queue[c], ready, got[c]) /\ Lined(t, log, wire[c], queue[c], ready, got[c])
  BY PartsOf DEF OInv
<1>4. Lined(t, log, wire'[c], queue'[c], ready, got'[c])
  <2>1. CASE (Greet(c) \/ Sent(c)) /\ UNCHANGED got
    BY <1>3, <2>1 DEF Greet, Sent
  <2>2. CASE (Accept(c) \/ Finish(c)) /\ UNCHANGED got
    <3>1. PICK f \in {Open, End} : 
             wire'[c] = Append(wire[c], f) /\ queue'[c] = queue[c] /\ got'[c] = got[c]
      BY <2>2 DEF Accept, Finish, Transmit, TypeOK
    <3> QED
      BY <1>3, <3>1, OtherLined
  <2>3. CASE (Listen(c) \/ Timeout(c) \/ Finalize(c)) /\ UNCHANGED got
    <3>1. wire'[c] = wire[c] /\ queue'[c] = <<>> /\ got'[c] = got[c]
      BY <2>3 DEF Listen, Timeout, Finalize, Unsubscribe, TypeOK
    <3> QED
      BY <1>3, <3>1, OtherLined
  <2>4. CASE Hangup(c) /\ UNCHANGED got
    <3>1. wire'[c] = <<>> /\ queue'[c] = queue[c] /\ got'[c] = got[c]
      BY <2>4 DEF Hangup, TypeOK
    <3> QED
      BY <1>3, <3>1, OtherLined
  <2>5. CASE Send(c) /\ UNCHANGED got
    <3>1. /\ queue[c] # <<>> /\ queue'[c] = Tail(queue[c]) /\ got'[c] = got[c]
          /\ wire'[c] = Append(wire[c], Data(Head(queue[c])))
      BY <2>5 DEF Send, Transmit, TypeOK
    <3> QED
      BY <1>3, <3>1, SendLined
  <2>6. CASE Read(c)
    <3>1. /\ wire[c] # <<>> /\ wire'[c] = Tail(wire[c]) /\ queue'[c] = queue[c]
          /\ got'[c] = IF IsData(Head(wire[c])) THEN Head(wire[c]).data ELSE 0
      BY <2>6 DEF Read, TypeOK, IsData
    <3> QED
      BY <1>3, <3>1, ReadLined
  <2> QED
    BY <2>1, <2>2, <2>3, <2>4, <2>5, <2>6 DEF Serve
<1> QED
  BY <1>1, <1>2, <1>4 DEF OInv

LEMMA LinedStep == TypeOK /\ OInv /\ [Next]_vars => OInv'
<1> SUFFICES ASSUME TypeOK, OInv, [Next]_vars PROVE OInv'
  OBVIOUS
<1>1. CASE UNCHANGED vars
  BY <1>1 DEF vars, bus, OInv
<1>2. ASSUME NEW u \in Topics, Publish(u) PROVE OInv'
  <2>1. /\ Len(log) < MaxEvents /\ log' = Append(log, u)
        /\ ready' = Append(ready, [topic |-> u, data |-> Len(log) + 1])
        /\ UNCHANGED <<queue, wire, got>>
    BY <1>2 DEF Publish, PublishSync
  <2> QED
    BY <2>1, PartsOf, PublishLined DEF OInv
<1>3. ASSUME Deliver, UNCHANGED <<log, got>> PROVE OInv'
  <2>1. /\ ready # <<>> /\ ready' = Tail(ready) /\ UNCHANGED <<wire, log, got>>
        /\ \A c \in Conns : \/ queue'[c] = queue[c]
                            \/ /\ Head(ready).topic = TopicOf[c]
                               /\ queue'[c] = Append(queue[c], Head(ready).data)
    BY <1>3 DEF Deliver
  <2>2. ASSUME NEW c \in Conns PROVE Lined(TopicOf[c], log, wire[c], queue'[c], ready', got[c])
    <3>1. Parts(log, wire[c], queue[c], ready, got[c])
          /\ Lined(TopicOf[c], log, wire[c], queue[c], ready, got[c])
      BY PartsOf DEF OInv
    <3> QED
      BY <2>1, <3>1, DeliverLined
  <2> QED
    BY <2>1, <2>2 DEF OInv
<1>4. ASSUME Restart, UNCHANGED <<log, got>> PROVE OInv'
  <2>1. /\ ready' = <<>> /\ UNCHANGED <<log, got>>
        /\ \A c \in Conns : queue'[c] = <<>> /\ (wire'[c] = wire[c] \/ wire'[c] = <<End>>)
    BY <1>4 DEF Restart
  <2>2. ASSUME NEW c \in Conns PROVE Lined(TopicOf[c], log, wire'[c], <<>>, <<>>, got[c])
    <3>1. Parts(log, wire[c], queue[c], ready, got[c])
          /\ Lined(TopicOf[c], log, wire[c], queue[c], ready, got[c])
      BY PartsOf DEF OInv
    <3>2. Lined(TopicOf[c], log, wire[c], <<>>, <<>>, got[c])
          /\ Lined(TopicOf[c], log, <<End>>, <<>>, <<>>, got[c])
      BY <3>1, OtherLined
    <3> QED
      BY <2>1, <3>2
  <2> QED
    BY <2>1, <2>2 DEF OInv
<1> QED
  BY <1>1, <1>2, <1>3, <1>4, ConnectionLined DEF Next, Loop

\* However deliveries, reads, time-outs, hang-ups and restarts interleave, a
\* connection carries the events of its topic only, in the order they were
\* published and none twice, for any number of connections, topics and events.
THEOREM EventsInOrder == Spec => []OwnTopicInOrder
<1>1. Init => OInv
  <2> SUFFICES ASSUME Init PROVE OInv
    OBVIOUS
  <2>1. /\ ready = <<>> /\ log = <<>>
        /\ \A c \in Conns : wire[c] = <<>> /\ queue[c] = <<>> /\ got[c] = 0
    BY DEF Init, BusInit
  <2>2. Len(<<>>) = 0
    OBVIOUS
  <2>3. ASSUME NEW c \in Conns PROVE Lined(TopicOf[c], <<>>, <<>>, <<>>, <<>>, 0)
    BY <2>2 DEF Lined, OnTopic, Later, InLine
  <2> QED
    BY <2>1, <2>3 DEF OInv
<1>2. TypeOK /\ OInv => OwnTopicInOrder
  <2> SUFFICES ASSUME TypeOK, OInv, NEW c \in Conns
               PROVE  /\ \A f \in {OnWire(c), queue[c], Scheduled(c)} :
                           Ascending(f) /\ \A i \in DOMAIN f : log[f[i]] = TopicOf[c] /\ got[c] < f[i]
                      /\ Before(OnWire(c), queue[c]) /\ Before(queue[c], Scheduled(c))
                      /\ Before(OnWire(c), Scheduled(c))
    BY DEF OwnTopicInOrder
  <2> DEFINE t == TopicOf[c]
  <2>1. Lined(t, log, wire[c], queue[c], ready, got[c])
    BY DEF OInv
  <2>2. /\ DOMAIN wire[c] = 1 .. Len(wire[c]) /\ DOMAIN queue[c] = 1 .. Len(queue[c])
        /\ DOMAIN ready = 1 .. Len(ready)
    BY LenProperties DEF TypeOK
  <2>3. /\ DOMAIN OnWire(c) = {i \in 1 .. Len(wire[c]) : IsData(wire[c][i])}
        /\ \A i \in DOMAIN OnWire(c) : OnWire(c)[i] = wire[c][i].data
    BY <2>2 DEF OnWire, IsData
  <2>4. /\ DOMAIN Scheduled(c) = {i \in 1 .. Len(ready) : ready[i].topic = t}
        /\ \A i \in DOMAIN Scheduled(c) : Scheduled(c)[i] = ready[i].data
    BY <2>2 DEF Scheduled
  <2>5. Ascending(OnWire(c)) /\ \A i \in DOMAIN OnWire(c) : log[OnWire(c)[i]] = t /\ got[c] < OnWire(c)[i]
    BY <2>1, <2>3 DEF Lined, OnTopic, Later, InLine, Ascending
  <2>6. Ascending(queue[c]) /\ \A i \in DOMAIN queue[c] : log[queue[c][i]] = t /\ got[c] < queue[c][i]
    BY <2>1, <2>2 DEF Lined, OnTopic, Later, InLine, Ascending
  <2>7. Ascending(Scheduled(c))
        /\ \A i \in DOMAIN Scheduled(c) : log[Scheduled(c)[i]] = t /\ got[c] < Scheduled(c)[i]
    BY <2>1, <2>4 DEF Lined, OnTopic, Later, InLine, Ascending
  <2>8. /\ Before(OnWire(c), queue[c]) /\ Before(queue[c], Scheduled(c))
        /\ Before(OnWire(c), Scheduled(c))
    BY <2>1, <2>2, <2>3, <2>4 DEF Lined, InLine, Before
  <2> QED
    BY <2>5, <2>6, <2>7, <2>8
<1> QED
  BY InitTypes, TypesStep, LinedStep, <1>1, <1>2, PTL DEF Spec

=============================================================================
