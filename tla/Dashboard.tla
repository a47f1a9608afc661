----------------------------- MODULE Dashboard ------------------------------
(***************************************************************************)
(* The administrator's order dashboard (DashboardPage and its hook         *)
(* useOrderStream) on top of the event bus: what it shows, the full        *)
(* refetches it has under way, its EventSource, and the requests, its own  *)
(* and other people's, that change orders and publish events.              *)
(*                                                                         *)
(* A request is the part of OrderDesk the dashboard can tell: it commits,  *)
(* then publishes; one of the dashboard is sent first and answered last.   *)
(* While the server is down its proxy answers every call with 502, and     *)
(* that is also what an EventSource gets that connects: it gives up for    *)
(* good, and useOrderStream makes no other.  The administrator's login     *)
(* lasts.  The detail pane and the highlight of new orders are left out.   *)
(***************************************************************************)
EXTENDS EventBus

CONSTANTS
  Orders, Tables, TableOf,  \* every order belongs to a table
  Statuses, Pending,        \* order statuses; that of a new order
  Requests,                 \* requests that change orders
  Own,                      \* those sent from this dashboard
  MaxFetches,               \* bound on list requests at the same time
  MaxExtras,                \* bound on uses of the table filter or refresh button,
                            \* lost connections, failed calls and restarts, together
  All,                      \* no filter
  NoConn,                   \* the EventSource is about to connect (again)
  Refused                   \* the EventSource was refused: it is closed for good

ASSUME OrdersType == TableOf \in [Orders -> Tables] /\ Own \subseteq Requests

ASSUME BoundsType == MaxFetches \in Nat \ {0} /\ MaxExtras \in Nat

ASSUME SourceType == NoConn \notin Conns /\ Refused \notin Conns \cup {NoConn}

ASSUME StatusesType == Pending \in Statuses /\ "none" \notin Statuses /\ "gone" \notin Statuses

VARIABLES
  rows,     \* orders as committed: a status, "none" before, "gone" after
  pc,       \* of a request: "idle", "sent", "committed", "published", "done"
  event,    \* what a request announces
  up,       \* the server's process runs
  es,       \* the connection the EventSource reads, NoConn or Refused
  view,     \* the list on the screen: the status of each order, or "none"
  filter,   \* filterTable
  clicked,  \* filterTable in the render whose button sent an own request, as
            \* long as that may turn out to be a close
  fetch,    \* list requests under way
  extras    \* uses of those buttons and faults so far

server == <<rows, pc, event, up>>
client == <<es, view, filter, clicked, fetch>>
vars == <<bus, server, client, extras>>

Idle == [state |-> "idle"]
Nothing == [type |-> "nothing"]
Fetches == 1 .. MaxFetches

\* Variant: deleted orders are listed too.
Listed_Deleted(f) == [o \in Orders |-> IF f \in {All, TableOf[o]} THEN rows[o] ELSE "none"]

\* What a list request with this filter answers now.
Listed(f) == [o \in Orders |-> IF rows[o] \in Statuses /\ f \in {All, TableOf[o]}
                               THEN rows[o] ELSE "none"]

\* The page has been mounted: the first list request is out and the
\* EventSource is created.
Init ==
  /\ BusInit
  /\ rows \in [Orders -> {"none", Pending}]
  /\ pc = [r \in Requests |-> "idle"]
  /\ event = [r \in Requests |-> Nothing]
  /\ up = TRUE
  /\ es = NoConn
  /\ view = [o \in Orders |-> "none"]
  /\ filter = All
  /\ clicked = [r \in Requests |-> All]
  /\ fetch = [f \in Fetches |-> IF f = 1 THEN [state |-> "asked", filter |-> All] ELSE Idle]
  /\ extras = 0

Extra == extras < MaxExtras /\ extras' = extras + 1

-----------------------------------------------------------------------------
(* Requests.                                                               *)

\* A button of the dashboard.
Click(r) ==
  /\ r \in Own /\ pc[r] = "idle"
  /\ pc' = [pc EXCEPT ![r] = "sent"]
  /\ clicked' = [clicked EXCEPT ![r] = filter]
  /\ UNCHANGED <<bus, rows, event, up, es, view, filter, fetch, extras>>

Commit(r, e) ==
  /\ up
  /\ pc[r] = IF r \in Own THEN "sent" ELSE "idle"
  /\ pc' = [pc EXCEPT ![r] = "committed"]
  /\ event' = [event EXCEPT ![r] = e]
  /\ clicked' = [clicked EXCEPT ![r] = IF e.type = "session_closed" THEN @ ELSE All]
  /\ UNCHANGED <<bus, up, es, view, filter, fetch, extras>>

\* A customer orders.
CreateOrder(r) ==
  \E o \in Orders :
    /\ r \notin Own /\ rows[o] = "none"
    /\ rows' = [rows EXCEPT ![o] = Pending]
    /\ Commit(r, [type |-> "order_created", order |-> o])

\* The row may have been deleted since it was loaded.
UpdateStatus(r) ==
  \E o \in Orders, v \in Statuses :
    /\ rows[o] # "none"
    /\ rows' = [rows EXCEPT ![o] = IF @ = "gone" THEN @ ELSE v]
    /\ Commit(r, [type |-> "order_status", order |-> o, status |-> v])

DeleteOrder(r) ==
  \E o \in Orders :
    /\ rows[o] # "none"
    /\ rows' = [rows EXCEPT ![o] = "gone"]
    /\ Commit(r, [type |-> "order_deleted", order |-> o])

\* Some of the table's orders may have come too late to be listed.
CloseSession(r) ==
  \E t \in Tables : \E moved \in SUBSET {o \in Orders : TableOf[o] = t} :
    /\ \A o \in moved : rows[o] \in Statuses
    /\ rows' = [o \in Orders |-> IF o \in moved THEN "gone" ELSE rows[o]]
    /\ Commit(r, [type |-> "session_closed"])

\* _publish, on the store topic.
Publish(r) ==
  /\ pc[r] = "committed"
  /\ pc' = [pc EXCEPT ![r] = IF r \in Own THEN "published" ELSE "done"]
  /\ event' = [event EXCEPT ![r] = IF r \in Own THEN @ ELSE Nothing]
  /\ PublishSync("store", event[r])
  /\ UNCHANGED <<subs, queue, gen, wire, active, rows, up, client, extras>>

-----------------------------------------------------------------------------
(* Refetching and patching the list.                                       *)

\* refetch: a list request with the filter of the render it comes from.
Refetch(x) ==
  \E f \in Fetches :
    /\ fetch[f] = Idle /\ \A g \in 1 .. f - 1 : fetch[g] # Idle
    /\ fetch' = [fetch EXCEPT ![f] = [state |-> "asked", filter |-> x]]

\* The server reads the rows.
ReadRows(f) ==
  /\ up
  /\ fetch[f].state = "asked"
  /\ fetch' = [fetch EXCEPT ![f] = [state |-> "read", list |-> Listed(fetch[f].filter)]]
  /\ UNCHANGED <<bus, server, es, view, filter, clicked, extras>>

\* setOrders(list), whatever happened since the list was read.
Fetched(f) ==
  /\ fetch[f].state = "read"
  /\ view' = fetch[f].list
  /\ fetch' = [fetch EXCEPT ![f] = Idle]
  /\ UNCHANGED <<bus, server, es, filter, clicked, extras>>

\* A fault, or the 502 while the server is down.
Fault == Extra \/ (~up /\ UNCHANGED extras)

FetchFails(f) ==
  /\ Fault
  /\ fetch[f].state \in {"asked", "read"}
  /\ fetch' = [fetch EXCEPT ![f] = Idle]
  /\ UNCHANGED <<bus, server, es, view, filter, clicked>>

\* What is done to the list for an event, or for the answer to an own request,
\* with the filter x for a refetch.
Patch(e, x) ==
  \/ /\ e.type \in {"order_created", "session_closed"}
     /\ Refetch(x)
     /\ UNCHANGED view
  \/ /\ e.type = "order_status"
     /\ view' = [view EXCEPT ![e.order] = IF @ = "none" THEN @ ELSE e.status]
     /\ UNCHANGED fetch
  \/ /\ e.type = "order_deleted"
     /\ view' = [view EXCEPT ![e.order] = "none"]
     /\ UNCHANGED fetch

Over(r) ==
  /\ pc' = [pc EXCEPT ![r] = "done"]
  /\ event' = [event EXCEPT ![r] = Nothing]
  /\ clicked' = [clicked EXCEPT ![r] = All]

\* doStatus, doDelete, doCloseSession: the answer has arrived.  The refetch
\* after a close is the one of the render in which the button was clicked.
Answer(r) ==
  /\ pc[r] = "published" /\ Over(r)
  /\ UNCHANGED <<bus, rows, up, es, filter, extras>>
  /\ Patch(event[r], clicked[r])

\* The call does not reach the server, or its answer not the dashboard.
CallFails(r) ==
  /\ Fault
  /\ pc[r] \in {"sent", "published"} /\ Over(r)
  /\ UNCHANGED <<bus, rows, up, es, view, filter, fetch>>

\* The table filter, or (x = filter) the refresh button.
SetFilter(x) ==
  /\ Extra
  /\ filter' = x
  /\ Refetch(x)
  /\ UNCHANGED <<bus, server, es, view, clicked>>

-----------------------------------------------------------------------------
(* The EventSource.                                                        *)

\* The endpoint accepts every administrator.  While it is down, the proxy
\* answers 502.
Connect ==
  /\ es = NoConn
  /\ \/ up /\ \E c \in Conns : Accept(c) /\ es' = c
     \/ ~up /\ es' = Refused /\ UNCHANGED bus
  /\ UNCHANGED <<server, view, filter, clicked, fetch, extras>>

Read(c) == wire[c] # <<>> /\ wire' = [wire EXCEPT ![c] = Tail(@)]

\* onopen: the gap is healed by a refetch.
OnOpen ==
  /\ es \in Conns /\ Read(es) /\ Head(wire[es]) = Open
  /\ UNCHANGED <<ready, subs, queue, gen, active, server, es, view, filter, clicked, extras>>
  /\ Refetch(filter)

OnMessage ==
  /\ es \in Conns /\ Read(es) /\ Head(wire[es]).kind = "data"
  /\ UNCHANGED <<ready, subs, queue, gen, active, server, es, filter, clicked, extras>>
  /\ Patch(Head(wire[es]).data, filter)

\* The response has ended; the browser will connect again.
OnError ==
  /\ es \in Conns /\ Read(es) /\ Head(wire[es]) = End
  /\ es' = NoConn
  /\ UNCHANGED <<ready, subs, queue, gen, active, server, view, filter, clicked, fetch, extras>>

ConnectionLost ==
  /\ Extra
  /\ es \in Conns /\ Hangup(es)
  /\ es' = NoConn
  /\ UNCHANGED <<server, view, filter, clicked, fetch>>

\* The server's process ends: what was not published never will be, and calls
\* that it has not answered fail.
ServerStops ==
  /\ Extra
  /\ up /\ up' = FALSE
  /\ Restart
  /\ pc' = [r \in Requests |-> IF pc[r] = "committed" THEN "done" ELSE pc[r]]
  /\ event' = [r \in Requests |-> IF pc[r] = "committed" THEN Nothing ELSE event[r]]
  /\ fetch' = [f \in Fetches |-> IF fetch[f].state = "asked" THEN Idle ELSE fetch[f]]
  /\ UNCHANGED <<rows, es, view, filter, clicked>>

\* Its container is started again.
ServerStarts ==
  /\ ~up /\ up' = TRUE
  /\ UNCHANGED <<bus, rows, pc, event, client, extras>>

-----------------------------------------------------------------------------
Rest == UNCHANGED <<server, client, extras>>

Next ==
  \/ \E r \in Requests : \/ Click(r) \/ CreateOrder(r) \/ UpdateStatus(r)
                         \/ DeleteOrder(r) \/ CloseSession(r)
                         \/ Publish(r) \/ Answer(r) \/ CallFails(r)
  \/ \E f \in Fetches : ReadRows(f) \/ Fetched(f) \/ FetchFails(f)
  \/ \E x \in Tables \cup {All} : SetFilter(x)
  \/ Connect \/ OnOpen \/ OnMessage \/ OnError
  \/ ConnectionLost \/ ServerStops \/ ServerStarts
  \/ Deliver /\ Rest
  \/ \E c \in Conns : (Serve(c) /\ Rest) \/ (Timeout(c) /\ Rest)

Spec == Init /\ [][Next]_vars

\* The server's threads, loop and timers run, calls are answered, and the
\* browser reads and tries to reconnect, with whatever result.  Nobody has to
\* send requests, nor does the server have to come back.
Fairness ==
  /\ \A r \in Requests : WF_vars(Publish(r) \/ Answer(r))
  /\ \A f \in Fetches : WF_vars(ReadRows(f) \/ Fetched(f))
  /\ WF_vars(Connect) /\ WF_vars(OnOpen \/ OnMessage \/ OnError)
  /\ WF_vars(Deliver /\ Rest)
  /\ \A c \in Conns : WF_vars(Serve(c) /\ Rest) /\ WF_vars(Timeout(c) /\ Rest)

FairSpec == Spec /\ Fairness

-----------------------------------------------------------------------------
Shown == [Orders -> Statuses \cup {"none"}]

Filters == Tables \cup {All}

Event ==
  [type : {"order_created", "order_deleted"}, order : Orders]
    \cup [type : {"order_status"}, order : Orders, status : Statuses]
    \cup [type : {"session_closed"}]

TypeOK ==
  /\ \A i \in DOMAIN ready : ready[i].data \in Event
  /\ subs \subseteq Conns
  /\ \A c \in Conns : Len(queue[c]) <= MaxQueue /\ \A i \in DOMAIN queue[c] : queue[c][i] \in Event
  /\ rows \in [Orders -> Statuses \cup {"none", "gone"}]
  /\ pc \in [Requests -> {"idle", "sent", "committed", "published", "done"}]
  /\ event \in [Requests -> Event \cup {Nothing}]
  /\ up \in BOOLEAN
  /\ es \in Conns \cup {NoConn, Refused}
  /\ view \in Shown
  /\ filter \in Filters
  /\ clicked \in [Requests -> Filters]
  /\ fetch \in [Fetches -> {Idle} \cup [state : {"asked"}, filter : Filters]
                                 \cup [state : {"read"}, list : Shown]]
  /\ extras \in 0 .. MaxExtras

-----------------------------------------------------------------------------
\* The list on the screen ends up as the committed orders that pass the
\* filter, unless a reconnect meets the server while it is down: although
\* events are published out of order, dropped, missed between the headers and
\* the subscription or lost with the process, refetches overtake each other,
\* and one after a close asks for an old filter (DashboardPage,
\* useOrderStream).  It is the stream's end after every silent
\* _KEEPALIVE_SECONDS that sees to it; a page whose EventSource has been
\* refused refetches for its own user's sake only, and may stay wrong.
ViewConverges == <>[](es # Refused => view = Listed(filter))

=============================================================================
