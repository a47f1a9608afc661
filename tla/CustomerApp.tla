---------------------------- MODULE CustomerApp -----------------------------
(***************************************************************************)
(* The application on a table's tablet on top of the event bus: the        *)
(* session it keeps, its pages, the calls it has under way, its cart and   *)
(* its EventSource; and of the server what it can tell: which session of   *)
(* the table is valid, how often the orders of a session have changed, and *)
(* the events of that.                                                     *)
(*                                                                         *)
(* `session` stands for the React state, its copy in localStorage and the  *)
(* token in the API client: start and clear set all three.  They differ    *)
(* only while a page is loaded, see Reload.  A session has a connection    *)
(* and a topic of its own.  Sessions are numbered as they are started.     *)
(*                                                                         *)
(* While the server is down its proxy answers every call with 502.  An     *)
(* EventSource that gets that, or any other error, gives up for good, and  *)
(* useOrderStream makes no other until the page is opened anew.            *)
(***************************************************************************)
EXTENDS EventBus

CONSTANTS
  MaxSessions,  \* bound on sessions of the table
  MaxCalls,     \* bound on calls at the same time
  MaxCart,      \* bound on items in the cart
  MaxMoves,     \* bound on what customers do, changes by others and faults, together
  NoView        \* the order list has not been loaded

ASSUME BoundsType ==
  /\ {MaxSessions, MaxCart, MaxMoves} \subseteq Nat
  /\ MaxCalls \in Nat \ {0}

NoSession == 0
Sessions == 1 .. MaxSessions
Calls == 1 .. MaxCalls

ASSUME ConnsType == Conns = Sessions /\ \A s \in Sessions : TopicOf[s] = s

VARIABLES
  begun,    \* sessions started so far
  valid,    \* the table's valid session, or NoSession
  changes,  \* per session, committed changes of its orders
  due,      \* events of committed transactions, not yet published
  placed,   \* orders of this tablet the server has committed
  up,       \* the server's process runs
  session,  \* the session the tablet keeps
  page,     \* "start", "menu" or "orders"
  menu,     \* what the menu page shows: "loading", "shown" or "failed"
  view,     \* the list on the orders page: which session's, after which change
  source,   \* the EventSource: "off", "connecting", "open" or "refused"
  calls,    \* calls under way
  cart,     \* items in the cart
  cleared,  \* times the application has emptied the cart
  jump,     \* the timer that opens the orders page after an order
  moves     \* of customers, of others, and faults, so far

server == <<begun, valid, changes, due, placed, up>>
screen == <<session, page, menu, view, source, jump>>
vars == <<bus, server, screen, calls, cart, cleared, moves>>

Idle == [state |-> "idle"]

\* What the session_closed event carries; every other event carries a change.
Closed == 0

Init ==
  /\ BusInit
  /\ begun = 0
  /\ valid = NoSession
  /\ changes = [s \in Sessions |-> 0]
  /\ due = {}
  /\ placed = 0
  /\ up = TRUE
  /\ session = NoSession
  /\ page = "start"
  /\ menu = "loading"
  /\ view = NoView
  /\ source = "off"
  /\ calls = [i \in Calls |-> Idle]
  /\ cart = 0
  /\ cleared = 0
  /\ jump = FALSE
  /\ moves = 0

Count == moves < MaxMoves /\ moves' = moves + 1

-----------------------------------------------------------------------------
(* Calls.  Its page is the one that made a call as long as that is mounted; *)
(* then the call is the application's, until a reload forgets it.           *)

\* request: the token goes out with the call.
Issue(base, kind, token) ==
  \E i \in Calls :
    /\ base[i] = Idle /\ \A j \in 1 .. i - 1 : base[j] # Idle
    /\ calls' = [base EXCEPT ![i] =
         [state |-> "asked", kind |-> kind, token |-> token, owner |-> "page"]]

\* The calls after the page that made them is unmounted.
Unmounted(base) ==
  [i \in Calls |-> IF base[i] # Idle /\ base[i].owner = "page"
                   THEN [base[i] EXCEPT !.owner = "app"] ELSE base[i]]

\* The calls after a reload: the server may still do what it was asked to.
Forgotten == [i \in Calls |-> IF calls[i] # Idle /\ calls[i].state = "asked"
                                 /\ calls[i].kind \in {"start", "order"}
                              THEN [calls[i] EXCEPT !.owner = "nobody"] ELSE Idle]

Underway(kind) ==
  \E i \in Calls : calls[i] # Idle /\ calls[i].kind = kind /\ calls[i].owner = "page"

-----------------------------------------------------------------------------
(* Pages.                                                                  *)

\* es.close() when the orders page is unmounted or the browser leaves it.
CloseSource ==
  IF source = "open" /\ gen[session] # "none" THEN Hangup(session)
  ELSE /\ wire' = IF source = "open" THEN [wire EXCEPT ![session] = <<>>] ELSE wire
       /\ UNCHANGED <<ready, subs, queue, gen, active>>

\* A page is mounted: its effects load its data and open the stream.
Mount(p, base, token) ==
  /\ page' = p
  /\ menu' = "loading"
  /\ view' = NoView
  /\ source' = IF p = "orders" THEN "connecting" ELSE "off"
  /\ Issue(base, p, token)

\* Variant: without SessionRoute the page stays.
Clear_NoGuard(base) ==
  /\ session' = NoSession
  /\ source' = "off"
  /\ calls' = base
  /\ CloseSource
  /\ UNCHANGED <<page, menu, view>>

\* clear, after which SessionRoute shows /start.
Clear(base) ==
  /\ session' = NoSession
  /\ page' = "start"
  /\ menu' = "loading"
  /\ view' = NoView
  /\ source' = "off"
  /\ calls' = base
  /\ CloseSource

\* The page is loaded again at this path.  The effects of a page run before
\* that of SessionProvider, so its first call has no token; only from the
\* root, which redirects, it comes later than that.
Reload(p, root) ==
  /\ Count
  /\ session # NoSession
  /\ Mount(p, Forgotten, IF root THEN session ELSE NoSession)
  /\ CloseSource
  /\ jump' = FALSE
  /\ UNCHANGED <<server, session, cart, cleared>>

\* A tab of the layout.
GoTo(p) ==
  /\ Count
  /\ session # NoSession /\ p # page
  /\ Mount(p, Unmounted(calls), session)
  /\ CloseSource
  /\ UNCHANGED <<server, session, jump, cart, cleared>>

\* The timer after an order fires, wherever the tablet is by then; /start,
\* to which SessionRoute sends it back, is mounted anew.
Jump ==
  /\ jump
  /\ jump' = FALSE
  /\ \/ /\ page = "menu"
        /\ Mount("orders", Unmounted(calls), session)
        /\ CloseSource
     \/ /\ page # "menu"
        /\ calls' = IF page = "start" THEN Unmounted(calls) ELSE calls
        /\ UNCHANGED <<bus, page, menu, view, source>>
  /\ UNCHANGED <<server, session, cart, cleared, moves>>

\* StartPage is submitted.
Start ==
  /\ page = "start" /\ ~Underway("start")
  /\ Issue(calls, "start", NoSession)
  /\ UNCHANGED <<bus, server, screen, cart, cleared, moves>>

-----------------------------------------------------------------------------
(* Cart.                                                                   *)

\* add and setQty; remove and clear are several of the latter.
ChangeCart(n) ==
  /\ Count
  /\ page = "menu" /\ menu = "shown"
  /\ n \in 0 .. MaxCart /\ n \in {cart + 1, cart - 1}
  /\ cart' = n
  /\ UNCHANGED <<bus, server, screen, calls, cleared>>

\* confirmOrder.
Confirm ==
  /\ Count
  /\ page = "menu" /\ menu = "shown"
  /\ cart > 0 /\ ~Underway("order")
  /\ Issue(calls, "order", session)
  /\ UNCHANGED <<bus, server, screen, cart, cleared>>

-----------------------------------------------------------------------------
(* The server.                                                             *)

\* A commit that changes the orders of a session, and its event.
Changed(s) ==
  /\ changes' = [changes EXCEPT ![s] = @ + 1]
  /\ due' = due \cup {[topic |-> s, data |-> changes[s] + 1]}

\* A session's orders as they are now.
Upto(s) == [of |-> s, upto |-> changes[s]]

Reply(i, status, value) ==
  calls' = [calls EXCEPT ![i] = IF @.owner = "nobody" THEN Idle ELSE
    [state |-> "answered", kind |-> @.kind, owner |-> @.owner,
     status |-> status, value |-> value]]

\* start_session: the valid session of the table, or a new one.
ServeStart(i) ==
  /\ calls[i].kind = "start"
  /\ \/ /\ valid # NoSession
        /\ Reply(i, "ok", Upto(valid))
        /\ UNCHANGED <<begun, valid>>
     \/ /\ valid = NoSession /\ begun < MaxSessions
        /\ begun' = begun + 1
        /\ valid' = begun'
        /\ Reply(i, "ok", Upto(begun + 1))
  /\ UNCHANGED <<changes, due, placed, up>>

\* verify_session finds no valid session for the token, or the password of
\* a start is wrong.
ServeDenied(i) ==
  /\ calls[i].kind = "start" \/ calls[i].token # valid \/ valid = NoSession
  /\ Reply(i, "denied", NoView)
  /\ UNCHANGED server

ServeRead(i) ==
  /\ calls[i].kind \in {"menu", "orders"}
  /\ calls[i].token = valid /\ valid # NoSession
  /\ Reply(i, "ok", Upto(valid))
  /\ UNCHANGED server

ServeOrder(i) ==
  /\ calls[i].kind = "order"
  /\ calls[i].token = valid /\ valid # NoSession
  /\ Changed(valid)
  /\ placed' = placed + 1
  /\ Reply(i, "ok", NoView)
  /\ UNCHANGED <<begun, valid, up>>

Handle(i) ==
  /\ up
  /\ calls[i].state = "asked"
  /\ ServeStart(i) \/ ServeDenied(i) \/ ServeRead(i) \/ ServeOrder(i)
  /\ UNCHANGED <<bus, screen, cart, cleared, moves>>

\* A call fails before the server has done anything about it, or its answer
\* is lost: a fault, or the 502 while the server is down.
CallFails(i) ==
  /\ Count \/ (~up /\ UNCHANGED moves)
  /\ calls[i].state \in {"asked", "answered"}
  /\ Reply(i, "error", NoView)
  /\ UNCHANGED <<bus, server, screen, cart, cleared>>

\* Somebody else changes an order of the session.
OtherChange ==
  /\ Count
  /\ up /\ valid # NoSession /\ Changed(valid)
  /\ UNCHANGED <<bus, begun, valid, placed, up, screen, calls, cart, cleared>>

\* The administrator closes the session.
CloseSession ==
  /\ Count
  /\ up /\ valid # NoSession
  /\ valid' = NoSession
  /\ due' = due \cup {[topic |-> valid, data |-> Closed]}
  /\ UNCHANGED <<bus, begun, changes, placed, up, screen, calls, cart, cleared>>

\* The session expires, or a customer closes it: there is no event.
Expire ==
  /\ Count
  /\ valid # NoSession
  /\ valid' = NoSession
  /\ UNCHANGED <<bus, begun, changes, due, placed, up, screen, calls, cart, cleared>>

\* _publish, in any order.
Publish(e) ==
  /\ due' = due \ {e}
  /\ PublishSync(e.topic, e.data)
  /\ UNCHANGED <<subs, queue, gen, wire, active, begun, valid, changes, placed,
                 up, screen, calls, cart, cleared, moves>>

\* The server's process ends; what was not published never will be.
ServerStops ==
  /\ Count
  /\ up /\ up' = FALSE
  /\ Restart
  /\ due' = {}
  /\ UNCHANGED <<begun, valid, changes, placed, screen, calls, cart, cleared>>

\* Its container is started again.
ServerStarts ==
  /\ ~up /\ up' = TRUE
  /\ UNCHANGED <<bus, begun, valid, changes, due, placed, screen, calls, cart, cleared, moves>>

-----------------------------------------------------------------------------
(* Answers.                                                                *)

Freed(i) == [calls EXCEPT ![i] = Idle]

\* 401: the handler drops the session, whichever session the call was for.
ReceiveDenied(i) ==
  /\ calls[i].status = "denied"
  /\ \/ session = NoSession
        /\ calls' = Freed(i)
        /\ UNCHANGED <<bus, session, page, menu, view, source>>
     \/ session # NoSession
        /\ Clear(Unmounted(Freed(i)))
  /\ UNCHANGED <<jump, cart, cleared>>

\* start: the session is kept and the menu page opens, if it is not open
\* already because of another start.
ReceiveStart(i) ==
  /\ calls[i].status = "ok" /\ calls[i].kind = "start"
  /\ session' = calls[i].value.of
  /\ \/ /\ page = "menu"
        /\ calls' = Freed(i)
        /\ UNCHANGED <<bus, page, menu, view, source>>
     \/ /\ page # "menu"
        /\ Mount("menu", Unmounted(Freed(i)), calls[i].value.of)
        /\ CloseSource
  /\ UNCHANGED <<jump, cart, cleared>>

ReceiveMenu(i) ==
  /\ calls[i].kind = "menu" /\ calls[i].status \in {"ok", "error"}
  /\ menu' = IF calls[i].owner # "page" THEN menu
             ELSE IF calls[i].status = "ok" THEN "shown" ELSE "failed"
  /\ calls' = Freed(i)
  /\ UNCHANGED <<bus, session, page, view, source, jump, cart, cleared>>

\* Variant: the answer is shown by whichever orders page there is.
ReceiveOrders_AnyPage(i) ==
  /\ calls[i].kind = "orders" /\ calls[i].status \in {"ok", "error"}
  /\ view' = IF page = "orders" /\ calls[i].status = "ok" THEN calls[i].value ELSE view
  /\ calls' = Freed(i)
  /\ UNCHANGED <<bus, session, page, menu, source, jump, cart, cleared>>

\* setOrders of the page that asked; a failed refetch keeps the old list.
ReceiveOrders(i) ==
  /\ calls[i].kind = "orders" /\ calls[i].status \in {"ok", "error"}
  /\ view' = IF calls[i].owner = "page" /\ calls[i].status = "ok" THEN calls[i].value ELSE view
  /\ calls' = Freed(i)
  /\ UNCHANGED <<bus, session, page, menu, source, jump, cart, cleared>>

\* Variant: the cart is emptied whatever came of the order.
ReceiveOrder_ClearsAlways(i) ==
  /\ calls[i].kind = "order" /\ calls[i].status \in {"ok", "error"}
  /\ cart' = 0 /\ cleared' = cleared + 1
  /\ jump' = (jump \/ calls[i].status = "ok")
  /\ calls' = Freed(i)
  /\ UNCHANGED <<bus, session, page, menu, view, source>>

\* The rest of confirmOrder, also when its page is no longer mounted.
ReceiveOrder(i) ==
  /\ calls[i].kind = "order" /\ calls[i].status \in {"ok", "error"}
  /\ IF calls[i].status = "ok"
       THEN cart' = 0 /\ cleared' = cleared + 1 /\ jump' = TRUE
       ELSE UNCHANGED <<cart, cleared, jump>>
  /\ calls' = Freed(i)
  /\ UNCHANGED <<bus, session, page, menu, view, source>>

StartFails(i) ==
  /\ calls[i].kind = "start" /\ calls[i].status = "error"
  /\ calls' = Freed(i)
  /\ UNCHANGED <<bus, screen, cart, cleared>>

Receive(i) ==
  /\ calls[i].state = "answered"
  /\ \/ ReceiveDenied(i) \/ ReceiveStart(i) \/ StartFails(i)
     \/ ReceiveMenu(i) \/ ReceiveOrders(i) \/ ReceiveOrder(i)
  /\ UNCHANGED <<server, moves>>

-----------------------------------------------------------------------------
(* The EventSource of the orders page.                                     *)

Rest == UNCHANGED <<server, session, page, menu, view, jump, cart, cleared, moves>>

\* The endpoint verifies the token: a stream, or 401.  While it is down, the
\* proxy answers 502.
Connect ==
  /\ source = "connecting"
  /\ \/ up /\ session = valid /\ Accept(session) /\ source' = "open"
     \/ (session # valid \/ ~up) /\ source' = "refused" /\ UNCHANGED bus
  /\ UNCHANGED calls
  /\ Rest

\* The pool has no connection for the endpoint until its timeout: 500.
ConnectFails ==
  /\ Count
  /\ up /\ source = "connecting" /\ source' = "refused"
  /\ UNCHANGED <<bus, server, session, page, menu, view, jump, calls, cart, cleared>>

Read(frame) ==
  /\ source = "open" /\ wire[session] # <<>> /\ Head(wire[session]) = frame
  /\ wire' = [wire EXCEPT ![session] = Tail(@)]
  /\ UNCHANGED <<ready, subs, queue, gen, active>>

\* Variant: no refetch when the stream is open (again).
OnFrame_EventsOnly ==
  /\ \/ Read(Open) /\ UNCHANGED calls
     \/ /\ \E n \in 1 .. MaxMoves : Read(Data(n))
        /\ Issue(calls, "orders", session)
  /\ UNCHANGED source
  /\ Rest

\* onopen and every event but session_closed: refetch.
OnFrame ==
  /\ Read(Open) \/ \E n \in 1 .. MaxMoves : Read(Data(n))
  /\ Issue(calls, "orders", session)
  /\ UNCHANGED source
  /\ Rest

OnClosed ==
  /\ source = "open" /\ wire[session] # <<>> /\ Head(wire[session]) = Data(Closed)
  /\ Clear(Unmounted(calls))
  /\ UNCHANGED <<server, jump, cart, cleared, moves>>

OnError ==
  /\ Read(End)
  /\ source' = "connecting"
  /\ UNCHANGED calls
  /\ Rest

ConnectionLost ==
  /\ Count
  /\ source = "open" /\ Hangup(session)
  /\ source' = "connecting"
  /\ UNCHANGED <<server, session, page, menu, view, jump, calls, cart, cleared>>

-----------------------------------------------------------------------------
Apart == UNCHANGED <<server, screen, calls, cart, cleared, moves>>

Next ==
  \/ \E p \in {"menu", "orders"} : Reload(p, FALSE) \/ GoTo(p)
  \/ Reload("menu", TRUE)
  \/ Jump \/ Start \/ Confirm
  \/ \E n \in 0 .. MaxCart : ChangeCart(n)
  \/ \E i \in Calls : Handle(i) \/ CallFails(i) \/ Receive(i)
  \/ OtherChange \/ CloseSession \/ Expire
  \/ \E e \in due : Publish(e)
  \/ ServerStops \/ ServerStarts
  \/ Connect \/ ConnectFails \/ OnFrame \/ OnClosed \/ OnError \/ ConnectionLost
  \/ Deliver /\ Apart
  \/ \E c \in Conns : (Serve(c) /\ Apart) \/ (Timeout(c) /\ Apart)

Spec == Init /\ [][Next]_vars

\* Calls are answered, the server's loop and timers run, and the browser
\* reads and tries to reconnect, with whatever result.  Nobody has to touch
\* the tablet, nor does the server have to come back.
Fairness ==
  /\ \A i \in Calls : WF_vars(Handle(i)) /\ WF_vars(Receive(i))
  /\ WF_vars(\E e \in due : Publish(e))
  /\ WF_vars(Connect) /\ WF_vars(OnFrame) /\ WF_vars(OnClosed) /\ WF_vars(OnError)
  /\ WF_vars(Deliver /\ Apart)
  /\ \A c \in Conns : WF_vars(Serve(c) /\ Apart) /\ WF_vars(Timeout(c) /\ Apart)

FairSpec == Spec /\ Fairness

-----------------------------------------------------------------------------
Version == [of : Sessions, upto : 0 .. MaxMoves]
MaybeSession == Sessions \cup {NoSession}
Owners == {"page", "app", "nobody"}
Kinds == {"start", "menu", "orders", "order"}

TypeOK ==
  /\ begun \in 0 .. MaxSessions
  /\ valid \in MaybeSession
  /\ changes \in [Sessions -> 0 .. MaxMoves]
  /\ due \subseteq [topic : Sessions, data : {Closed} \cup 1 .. MaxMoves]
  /\ placed \in Nat /\ cleared \in Nat
  /\ up \in BOOLEAN
  /\ session \in MaybeSession
  /\ (page = "start") = (session = NoSession)
  /\ source # "off" => page = "orders"
  /\ view \in Version \cup {NoView}
  /\ calls \in [Calls -> {Idle}
       \cup [state : {"asked"}, kind : Kinds, token : MaybeSession, owner : Owners]
       \cup [state : {"answered"}, kind : Kinds, owner : Owners, status : {"denied", "error"},
             value : {NoView}]
       \cup [state : {"answered"}, kind : Kinds, owner : Owners, status : {"ok"},
             value : Version \cup {NoView}]]
  /\ cart \in 0 .. MaxCart
  /\ moves \in 0 .. MaxMoves

\* The orders page never shows the orders of an earlier session of the table,
\* however late the answers to that session's calls come (US-ORDER-07;
\* OrdersPage, SessionContext).
OwnOrdersOnly == page = "orders" /\ view # NoView => view.of = session

\* Each time the application empties the cart, the server has committed one
\* more order of this tablet: failed calls, lost answers and 401s keep the
\* cart (BR-FC08; confirmOrder).
ClearedIsPlaced == cleared <= placed

\* As long as the session is valid and no reconnect is refused, an orders page
\* that is left open ends up with the session's orders as committed: events
\* may be dropped, missed or lost, refetches fail or overtake each other
\* (OrdersPage, useOrderStream).  A page whose EventSource met the server
\* down, or its pool exhausted, refetches no more and may stay wrong.
Watching == page = "orders" /\ session = valid /\ source # "refused"

ListConverges ==
  <>[]Watching => <>[](Watching /\ view = Upto(session))

\* Only a session that is closed or expired is dropped: the tablet logs in by
\* itself after a reload (BR-FC02).
KeepsValidSession ==
  [][session # NoSession /\ session' = NoSession => session # valid]_vars

=============================================================================
