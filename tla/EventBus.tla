------------------------------ MODULE EventBus ------------------------------
(***************************************************************************)
(* The in-memory event bus and the generator that serves one SSE           *)
(* connection.  Everything here runs on the event loop's thread, one step  *)
(* between two awaits at a time; only publish_sync is called from worker   *)
(* threads, and it just schedules a callback on the loop.                  *)
(*                                                                         *)
(* wire[c] is what the server has sent on connection c and the client has  *)
(* not read: the response headers, events, the end of the response.  The   *)
(* comment frames ": connected" and ": ping" are not events and leave no   *)
(* trace there.                                                            *)
(***************************************************************************)
EXTENDS Naturals, Sequences

CONSTANTS
  Conns,     \* SSE connections, each of them used again once it is over
  TopicOf,   \* the topic a connection subscribes to
  MaxQueue,  \* max_queue, 100 in the code
  MaxWire    \* events on the wire that make `await send` wait for the client

ASSUME QueueBounds == MaxQueue \in Nat \ {0} /\ MaxWire \in Nat \ {0}

VARIABLES
  ready,    \* deliveries scheduled on the loop, in order
  subs,     \* connections whose queue is registered with the bus
  queue,    \* the asyncio.Queue of each connection
  gen,      \* where the generator event_stream of a connection is
  wire,     \* sent and not yet read
  active    \* metrics.sse_active

bus == <<ready, subs, queue, gen, wire, active>>

Open == [kind |-> "open"]
Data(e) == [kind |-> "data", data |-> e]
End == [kind |-> "end"]

BusInit ==
  /\ ready = <<>>
  /\ subs = {}
  /\ queue = [c \in Conns |-> <<>>]
  /\ gen = [c \in Conns |-> "none"]
  /\ wire = [c \in Conns |-> <<>>]
  /\ active = 0

Move(c, from, to) == gen[c] = from /\ gen' = [gen EXCEPT ![c] = to]

Transmit(c, frame) == wire' = [wire EXCEPT ![c] = Append(@, frame)]

\* sse_disconnected never counts below zero.
OneLess == active' = IF active > 0 THEN active - 1 ELSE 0

\* The finally clause of subscribe.
Unsubscribe(c) == subs' = subs \ {c} /\ queue' = [queue EXCEPT ![c] = <<>>]

-----------------------------------------------------------------------------
(* Publishing.                                                             *)

\* publish_sync, from a worker thread.
PublishSync(t, e) == ready' = Append(ready, [topic |-> t, data |-> e])

\* Variant: only a connection that is waiting for an event gets one.
Deliver_WhenIdle ==
  /\ ready # <<>>
  /\ ready' = Tail(ready)
  /\ queue' = [c \in Conns |->
       IF gen[c] = "waiting" /\ TopicOf[c] = Head(ready).topic
         THEN Append(queue[c], Head(ready).data) ELSE queue[c]]
  /\ UNCHANGED <<subs, gen, wire, active>>

\* Variant: a queue without a bound.
Deliver_Unbounded ==
  /\ ready # <<>>
  /\ ready' = Tail(ready)
  /\ queue' = [c \in Conns |-> IF c \in subs /\ TopicOf[c] = Head(ready).topic
                               THEN Append(queue[c], Head(ready).data) ELSE queue[c]]
  /\ UNCHANGED <<subs, gen, wire, active>>

\* Variant: events go to every subscriber, whatever the topic.
Deliver_ToAll ==
  /\ ready # <<>>
  /\ ready' = Tail(ready)
  /\ queue' = [c \in Conns |-> IF c \in subs /\ Len(queue[c]) < MaxQueue
                               THEN Append(queue[c], Head(ready).data) ELSE queue[c]]
  /\ UNCHANGED <<subs, gen, wire, active>>

\* _deliver: put_nowait on every subscriber of the topic; a full queue drops
\* the event.
Deliver ==
  /\ ready # <<>>
  /\ ready' = Tail(ready)
  /\ queue' = [c \in Conns |->
       IF c \in subs /\ TopicOf[c] = Head(ready).topic /\ Len(queue[c]) < MaxQueue
         THEN Append(queue[c], Head(ready).data) ELSE queue[c]]
  /\ UNCHANGED <<subs, gen, wire, active>>

-----------------------------------------------------------------------------
(* One connection.                                                         *)

\* The endpoint answers with the stream: the headers go out first.
Accept(c) ==
  /\ wire[c] = <<>>
  /\ Move(c, "none", "accepted")
  /\ Transmit(c, Open)
  /\ UNCHANGED <<ready, subs, queue, active>>

\* event_stream is entered: it counts itself and yields ": connected".
Greet(c) ==
  /\ Move(c, "accepted", "greeting")
  /\ active' = active + 1
  /\ UNCHANGED <<ready, subs, queue, wire>>

\* The first __anext__ of the subscription registers the queue.
Listen(c) ==
  /\ Move(c, "greeting", "waiting")
  /\ subs' = subs \cup {c}
  /\ queue' = [queue EXCEPT ![c] = <<>>]
  /\ UNCHANGED <<ready, wire, active>>

\* An event is there in time and is yielded.
Send(c) ==
  /\ queue[c] # <<>>
  /\ Move(c, "waiting", "sending")
  /\ queue' = [queue EXCEPT ![c] = Tail(@)]
  /\ Transmit(c, Data(Head(queue[c])))
  /\ UNCHANGED <<ready, subs, active>>

\* `await send` returns when the client keeps up.
Sent(c) ==
  /\ Len(wire[c]) < MaxWire
  /\ Move(c, "sending", "waiting")
  /\ UNCHANGED <<ready, subs, queue, wire, active>>

\* Variant: the keep-alive leaves the subscription as it is.
Timeout_KeepsListening(c) ==
  /\ gen[c] = "waiting"
  /\ UNCHANGED bus

\* _KEEPALIVE_SECONDS without an event: wait_for cancels __anext__, which
\* ends the subscription, and ": ping" is yielded.
Timeout(c) ==
  /\ Move(c, "waiting", "pinging")
  /\ Unsubscribe(c)
  /\ UNCHANGED <<ready, wire, active>>

\* The next __anext__ raises StopAsyncIteration and the response ends.
Finish(c) ==
  /\ Len(wire[c]) < MaxWire
  /\ Move(c, "pinging", "none")
  /\ Transmit(c, End)
  /\ OneLess
  /\ UNCHANGED <<ready, subs, queue>>

\* The client goes away.  The generator is thrown away with the connection;
\* its finally clause runs when the server notices.
Hangup(c) ==
  /\ gen[c] \notin {"none", "abandoned"}
  /\ gen' = [gen EXCEPT ![c] = IF @ = "accepted" THEN "none" ELSE "abandoned"]
  /\ wire' = [wire EXCEPT ![c] = <<>>]
  /\ UNCHANGED <<ready, subs, queue, active>>

\* Variant: without the finally clause of event_stream.
Finalize_NotCounted(c) ==
  /\ Move(c, "abandoned", "none")
  /\ Unsubscribe(c)
  /\ UNCHANGED <<ready, wire, active>>

Finalize(c) ==
  /\ Move(c, "abandoned", "none")
  /\ Unsubscribe(c)
  /\ OneLess
  /\ UNCHANGED <<ready, wire>>

\* The process dies; clients see their connections end.
Restart ==
  /\ ready' = <<>>
  /\ subs' = {}
  /\ queue' = [c \in Conns |-> <<>>]
  /\ gen' = [c \in Conns |-> "none"]
  /\ wire' = [c \in Conns |-> IF gen[c] \in {"none", "abandoned"} THEN wire[c] ELSE <<End>>]
  /\ active' = 0

\* What the loop does for a connection without anybody's help.
Serve(c) == Greet(c) \/ Listen(c) \/ Send(c) \/ Sent(c) \/ Finish(c) \/ Finalize(c)

=============================================================================
