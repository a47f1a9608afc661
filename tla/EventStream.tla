---------------------------- MODULE EventStream -----------------------------
(***************************************************************************)
(* The event bus with the threads that publish and with clients that do    *)
(* nothing but read, hang up and come back.  Events are numbered in the    *)
(* order they were published.                                              *)
(***************************************************************************)
EXTENDS EventBus, FiniteSets

CONSTANTS
  Topics,
  Readers,    \* connections whose client keeps reading
  MaxEvents,  \* bound on the number of events published
  MayFail     \* whether the process restarts

ASSUME ReadersType == Readers \subseteq Conns

ASSUME TopicType == TopicOf \in [Conns -> Topics]

ASSUME EventsType == MaxEvents \in Nat

VARIABLES
  log,  \* the topics of the events published so far
  got   \* the last event read on each connection, 0 if none

vars == <<bus, log, got>>

Init ==
  /\ BusInit
  /\ log = <<>>
  /\ got = [c \in Conns |-> 0]

Publish(t) ==
  /\ Len(log) < MaxEvents
  /\ log' = Append(log, t)
  /\ PublishSync(t, Len(log) + 1)
  /\ UNCHANGED <<subs, queue, gen, wire, active, got>>

\* The client reads; an ended response frees the connection.
Read(c) ==
  /\ wire[c] # <<>>
  /\ wire' = [wire EXCEPT ![c] = Tail(@)]
  /\ got' = [got EXCEPT ![c] = IF Head(wire[c]).kind = "data" THEN Head(wire[c]).data
                               ELSE 0]
  /\ UNCHANGED <<ready, subs, queue, gen, active, log>>

Loop(c) == Serve(c) /\ UNCHANGED <<log, got>>

Next ==
  \/ \E t \in Topics : Publish(t)
  \/ Deliver /\ UNCHANGED <<log, got>>
  \/ \E c \in Conns : \/ Accept(c) /\ UNCHANGED <<log, got>>
                      \/ Loop(c)
                      \/ Timeout(c) /\ UNCHANGED <<log, got>>
                      \/ Hangup(c) /\ UNCHANGED <<log, got>>
                      \/ Read(c)
  \/ MayFail /\ Restart /\ UNCHANGED <<log, got>>

Spec == Init /\ [][Next]_vars

\* The loop runs its callbacks and tasks; some clients keep reading.
Fairness ==
  /\ WF_vars(Deliver /\ UNCHANGED <<log, got>>)
  /\ \A c \in Conns : WF_vars(Loop(c))
  /\ \A c \in Readers : WF_vars(Read(c))

FairSpec == Spec /\ Fairness

-----------------------------------------------------------------------------
Event == 1 .. MaxEvents
Frame == {Open, End} \cup {Data(e) : e \in Event}

TypeOK ==
  /\ ready \in Seq([topic : Topics, data : Event])
  /\ subs \subseteq Conns
  /\ queue \in [Conns -> Seq(Event)] /\ \A c \in Conns : Len(queue[c]) <= MaxQueue
  /\ gen \in [Conns -> {"none", "accepted", "greeting", "waiting", "sending",
                        "pinging", "abandoned"}]
  /\ wire \in [Conns -> Seq(Frame)]
  /\ active \in Nat
  /\ log \in Seq(Topics)
  /\ got \in [Conns -> 0 .. MaxEvents]

\* Events on their way to the client of c by position: on the wire, and
\* scheduled; between the two there is the queue.
OnWire(c) == [i \in {i \in DOMAIN wire[c] : wire[c][i].kind = "data"} |-> wire[c][i].data]
Scheduled(c) == [i \in {i \in DOMAIN ready : ready[i].topic = TopicOf[c]} |-> ready[i].data]

Ascending(f) == \A i, j \in DOMAIN f : i < j => f[i] < f[j]
Before(f, g) == \A i \in DOMAIN f, j \in DOMAIN g : f[i] < g[j]

\* A client reads the events of its topic, and of no other, in the order they
\* were published and none of them twice, however the connection is used
\* (events.py, sse.py: one queue per connection).
OwnTopicInOrder ==
  \A c \in Conns :
    /\ \A f \in {OnWire(c), queue[c], Scheduled(c)} :
         Ascending(f) /\ \A i \in DOMAIN f : log[f[i]] = TopicOf[c] /\ got[c] < f[i]
    /\ Before(OnWire(c), queue[c]) /\ Before(queue[c], Scheduled(c))
    /\ Before(OnWire(c), Scheduled(c))

\* Generators that have counted themselves.
Running == {c \in Conns : gen[c] \notin {"none", "accepted"}}

\* A connection that is over has no queue left with the bus, and sse_active
\* is the number of streams that run, whether they end by themselves, are
\* abandoned by the client or die with the process (the finally clauses of
\* subscribe and event_stream).
StreamsReleased ==
  /\ active = Cardinality(Running)
  /\ subs \subseteq Running
  /\ \A c \in Conns \ subs : queue[c] = <<>>

\* Deliveries scheduled up to the i-th and queued events fit into c's queue.
HasRoom(c, i) ==
  Len(queue[c]) + Cardinality({j \in 1 .. i : ready[j].topic = TopicOf[c]}) <= MaxQueue

\* Every event published while a client that keeps reading is subscribed
\* reaches it or its stream ends, although other clients never read, unless
\* the events before it fill the queue (_deliver, event_stream).
EventsArrive ==
  \A c \in Readers : \A e \in Event :
    (/\ c \in subs
     /\ \E i \in DOMAIN ready :
          ready[i] = [topic |-> TopicOf[c], data |-> e] /\ HasRoom(c, i))
      ~> (got[c] >= e \/ c \notin subs)

\* The keep-alive comment holds the connection open (sse.py): a stream that
\* has just sent it goes on.
KeepAliveKeeps == [][\A c \in Conns : gen[c] = "pinging" => gen'[c] # "none"]_vars

=============================================================================
