------------------------------- MODULE Server -------------------------------
(***************************************************************************)
(* How the process serves requests: the event loop's thread, the worker    *)
(* threads of the sync dependencies and endpoints, the connection pool,    *)
(* the tenant context and the repositories it scopes.                      *)
(*                                                                         *)
(* A sync request runs on a worker twice, in its guard and in its          *)
(* endpoint, each time with a copy of its task's context, which the        *)
(* middleware has seeded without a store.  Its SQLAlchemy session takes a  *)
(* connection at its first SELECT and returns it at the commit or when     *)
(* get_db closes the session, which the loop starts once the answer is     *)
(* sent (so from FastAPI 0.118; what the comment on the session stream     *)
(* says of its connection is true from there).  The session stream         *)
(* and the deep health check take theirs on the loop itself, which does    *)
(* nothing else while they wait.  The database is up all the time.         *)
(*                                                                         *)
(* What the endpoints do to orders and menus is in OrderDesk and           *)
(* MenuCatalog; here a row is something a store and a session own.         *)
(***************************************************************************)
EXTENDS Naturals, FiniteSets

CONSTANTS
  Requests,     \* requests that may arrive
  Kinds,        \* the endpoints each of them may be for
  Stores, Sessions, NoStore,
  Rows, NoRow,  \* stored rows
  Owner,        \* store and session of each row
  Caller,       \* store and session of whoever sends each request
  PoolSize, MaxOverflow,
  Threads,      \* worker threads
  Idle          \* nothing occupies the loop

Endpoints ==
  {"myOrders", "storeOrders", "order", "status", "history", "menus", "menu", "stream", "health"}

ASSUME KindsKnown == Kinds \in [Requests -> SUBSET Endpoints]
ASSUME Owners ==
  /\ Owner \in [Rows -> [store : Stores, session : Sessions]]
  /\ Caller \in [Requests -> [store : Stores, session : Sessions]]
  /\ NoStore \notin Stores /\ Idle \notin Requests
ASSUME Capacities ==
  PoolSize \in Nat /\ MaxOverflow \in Nat /\ PoolSize + MaxOverflow > 0 /\ Threads \in Nat \ {0}

VARIABLES
  kind,    \* endpoint of each request
  role,    \* whose credentials it carries
  asked,   \* the row in its path, once that is used
  pc,      \* how far it is
  ctx,     \* store in the context of the thread it runs on
  result,  \* rows it is answered
  status,  \* HTTP status of the answer, 0 before
  conn,    \* requests whose session holds a connection
  loop     \* the request the loop's thread waits with, or Idle

request == <<kind, role, asked>>
vars == <<request, pc, ctx, result, status, conn, loop>>

Init ==
  /\ kind = [r \in Requests |-> "none"]
  /\ role = [r \in Requests |-> "anonymous"]
  /\ asked = [r \in Requests |-> NoRow]
  /\ pc = [r \in Requests |-> "new"]
  /\ ctx = [r \in Requests |-> NoStore]
  /\ result = [r \in Requests |-> {}]
  /\ status = [r \in Requests |-> 0]
  /\ conn = {}
  /\ loop = Idle

Goto(r, label) == pc' = [pc EXCEPT ![r] = label]

OnThread(r) == pc[r] \in {"guard", "endpoint", "flushed"}
ThreadFree == Cardinality({r \in Requests : OnThread(r)}) < Threads
Full == Cardinality(conn) = PoolSize + MaxOverflow

\* The answers of a handler and of the errors it raises.
Codes == {200, 401, 403, 404, 500, 503}

\* The handler is done, or an exception is on its way to its own.
Respond(r, code) == Goto(r, "closing") /\ status' = [status EXCEPT ![r] = code]

\* Whether the path names a row.
Named(k) == k \in {"order", "status", "menu"}

\* Roles an endpoint accepts: require_viewer and require_order_viewer take
\* either.
Viewed(k) == k \in {"order", "menus", "menu"}

Roles(k) ==
  CASE k \in {"storeOrders", "status", "history"} -> {"admin"}
    [] k \in {"myOrders", "stream"} -> {"customer"}
    [] Viewed(k)                    -> {"admin", "customer"}
    [] OTHER                        -> {"anonymous"}

\* The middleware seeds the context of the request's task without a store.
Arrive(r) ==
  /\ pc[r] = "new" /\ loop = Idle
  /\ \E k \in Kinds[r] : \E who \in Roles(k) :
       /\ kind' = [kind EXCEPT ![r] = k]
       /\ role' = [role EXCEPT ![r] = who]
       /\ Goto(r, IF k = "stream" THEN "opening" ELSE IF k = "health" THEN "ready" ELSE "arrived")
  /\ UNCHANGED <<asked, ctx, result, status, conn, loop>>

-----------------------------------------------------------------------------
(* Connections.                                                            *)

\* Whether the handler is at a query: verify_session in a guard, or whatever
\* an endpoint does once the repository has found its store.
NeedsConnection(r) ==
  /\ r \notin conn
  /\ \/ pc[r] = "guard" /\ role[r] = "customer"
     \/ pc[r] = "endpoint" /\ ctx[r] # NoStore
     \/ loop = r

\* Variant: nothing limits the connections.
Connect_Unlimited(r) ==
  /\ NeedsConnection(r) /\ loop # r
  /\ conn' = conn \cup {r}
  /\ UNCHANGED <<request, pc, ctx, result, status, loop>>

\* The pool hands one to a worker.
Connect(r) ==
  /\ NeedsConnection(r) /\ loop # r /\ ~Full
  /\ conn' = conn \cup {r}
  /\ UNCHANGED <<request, pc, ctx, result, status, loop>>

-----------------------------------------------------------------------------
(* Guards and endpoints on the workers.                                    *)

EnterGuard(r) ==
  /\ pc[r] = "arrived" /\ loop = Idle /\ ThreadFree
  /\ Goto(r, "guard")
  /\ UNCHANGED <<request, ctx, result, status, conn, loop>>

\* The guard returns the context, or 401; what it set on its thread is lost.
Decides(r) ==
  /\ \/ Goto(r, "passed") /\ UNCHANGED status
     \/ Respond(r, 401)
  /\ UNCHANGED <<request, ctx, result, conn, loop>>

\* The cookie is verified without the database.
RequireAdmin(r) == pc[r] = "guard" /\ role[r] = "admin" /\ Decides(r)

\* The token by a SELECT.
RequireCustomer(r) == pc[r] = "guard" /\ role[r] = "customer" /\ r \in conn /\ Decides(r)

\* Variant: the endpoint relies on the context its guard has set.
EnterEndpoint_NotReasserted(r) ==
  /\ pc[r] = "passed" /\ loop = Idle /\ ThreadFree
  /\ Goto(r, "endpoint")
  /\ UNCHANGED <<request, ctx, result, status, conn, loop>>

\* The endpoint's thread has a fresh copy; set_context(ctx) comes first.
EnterEndpoint(r) ==
  /\ pc[r] = "passed" /\ loop = Idle /\ ThreadFree
  /\ Goto(r, "endpoint")
  /\ ctx' = [ctx EXCEPT ![r] = Caller[r].store]
  /\ UNCHANGED <<request, result, status, conn, loop>>

\* What _base_query selects from.
Scoped(store) == {row \in Rows : Owner[row].store = store}

\* Orders of the caller's session.
SessionOrders(r) == {row \in Scoped(ctx[r]) : Owner[row].session = Caller[r].session}

\* All that belongs to the store: the lists for administrators, menus, history.
StoreRows(r) == Scoped(ctx[r])

\* get_or_404: the row, unless it is another store's.
StoreRow(r, row) == Scoped(ctx[r]) \cap {row}

\* An administrator reads any order of the store, a customer one of the session.
OrderDetail(r, row) ==
  {o \in StoreRow(r, row) :
     role[r] = "customer" => Owner[o].session = Caller[r].session}

Found(r, row) ==
  CASE kind[r] = "myOrders" -> SessionOrders(r)
    [] kind[r] = "order"    -> OrderDetail(r, row)
    [] kind[r] \in {"status", "menu"} -> StoreRow(r, row)
    [] OTHER                -> StoreRows(r)

\* 403 without a store (require_store_id), 404 when the path names a row that
\* is not found; a status change still has to be committed.
Outcome(r, row) ==
  IF ctx[r] = NoStore THEN Respond(r, 403)
  ELSE IF row # NoRow /\ Found(r, row) = {} THEN Respond(r, 404)
  ELSE IF kind[r] = "status" THEN Goto(r, "flushed") /\ UNCHANGED status
  ELSE Respond(r, 200)

Query(r) ==
  /\ pc[r] = "endpoint" /\ ~NeedsConnection(r)
  /\ \E row \in IF Named(kind[r]) THEN Rows ELSE {NoRow} :
       /\ asked' = [asked EXCEPT ![r] = row]
       /\ result' = [result EXCEPT ![r] = Found(r, row)]
       /\ Outcome(r, row)
  /\ UNCHANGED <<kind, role, ctx, conn, loop>>

\* A commit returns the connection while the worker still runs.
Commit(r) ==
  /\ pc[r] = "flushed"
  /\ Respond(r, 200)
  /\ conn' = conn \ {r}
  /\ UNCHANGED <<request, ctx, result, loop>>

\* The request is over; nothing refers to what it was.
End(r) ==
  /\ Goto(r, "ended")
  /\ kind' = [kind EXCEPT ![r] = "none"] /\ role' = [role EXCEPT ![r] = "anonymous"]
  /\ asked' = [asked EXCEPT ![r] = NoRow] /\ ctx' = [ctx EXCEPT ![r] = NoStore]
  /\ result' = [result EXCEPT ![r] = {}] /\ status' = [status EXCEPT ![r] = 0]

\* Variant: the session is not closed.
Close_Leaks(r) == pc[r] = "closing" /\ loop = Idle /\ End(r) /\ UNCHANGED <<conn, loop>>

\* get_db's finally, on a thread of its own, and the answer.
Close(r) ==
  /\ pc[r] = "closing" /\ loop = Idle
  /\ End(r)
  /\ conn' = conn \ {r}
  /\ UNCHANGED loop

-----------------------------------------------------------------------------
(* Handlers on the loop.                                                   *)

\* The stream's get_db is a sync dependency and needs a worker for a moment.
OpenSession(r) ==
  /\ pc[r] = "opening" /\ loop = Idle /\ ThreadFree
  /\ Goto(r, "ready")
  /\ UNCHANGED <<request, ctx, result, status, conn, loop>>

\* The handler asks for a connection and keeps the loop until it has one.
Occupy(r) ==
  /\ pc[r] = "ready" /\ loop = Idle
  /\ loop' = r
  /\ Goto(r, "asking")
  /\ UNCHANGED <<request, ctx, result, status, conn>>

\* verify_session, then the response, whose body lasts while the connection
\* stays with the request.
StreamOpens(r) ==
  /\ loop = r /\ kind[r] = "stream" /\ ~Full
  /\ conn' = conn \cup {r}
  /\ loop' = Idle
  /\ \/ Goto(r, "serving") /\ UNCHANGED status
     \/ Respond(r, 401)
  /\ UNCHANGED <<request, ctx, result>>

\* SELECT 1, and the connection is returned at once.
Healthy(r) ==
  /\ loop = r /\ kind[r] = "health" /\ ~Full
  /\ Respond(r, 200)
  /\ loop' = Idle
  /\ UNCHANGED <<request, ctx, result, conn>>

\* The client of a stream goes away.
HangUp(r) ==
  /\ pc[r] = "serving"
  /\ Respond(r, 200)
  /\ UNCHANGED <<request, ctx, result, conn, loop>>

-----------------------------------------------------------------------------
Step(r) ==
  \/ Connect(r) \/ EnterGuard(r) \/ RequireAdmin(r) \/ RequireCustomer(r)
  \/ EnterEndpoint(r) \/ Query(r) \/ Commit(r) \/ Close(r)
  \/ OpenSession(r) \/ Occupy(r) \/ StreamOpens(r) \/ Healthy(r)

\* Whether the server can go on with r: with a connection from the pool, with
\* what r does on its thread, or with what the loop does next for it.
CanStep(r) ==
  \/ NeedsConnection(r) /\ ~Full
  \/ OnThread(r) /\ ~NeedsConnection(r)
  \/ loop = Idle /\ \/ pc[r] \in {"ready", "closing"}
                    \/ pc[r] \in {"arrived", "passed", "opening"} /\ ThreadFree

\* Some request waits for a connection and no step of the server can bring one.
Standstill ==
  /\ \E r \in Requests : NeedsConnection(r)
  /\ \A r \in Requests : ~CanStep(r)

\* Variant: the pool waits without limit.
GiveUp_Never(r) == FALSE /\ UNCHANGED vars

\* The pool's timeout, longer than whatever the server still has to do: 500
\* from the handler of all exceptions, 503 from the health check's own.
GiveUp(r) ==
  /\ NeedsConnection(r) /\ Standstill
  /\ Respond(r, IF kind[r] = "health" THEN 503 ELSE 500)
  /\ loop' = IF loop = r THEN Idle ELSE loop
  /\ UNCHANGED <<request, ctx, result, conn>>

Next == \E r \in Requests : Arrive(r) \/ Step(r) \/ GiveUp(r) \/ HangUp(r)

Spec == Init /\ [][Next]_vars

FairSpec == Spec /\ \A r \in Requests : WF_vars(Step(r)) /\ WF_vars(GiveUp(r))

-----------------------------------------------------------------------------
TypeOK ==
  /\ kind \in [Requests -> Endpoints \cup {"none"}]
  /\ role \in [Requests -> {"anonymous", "admin", "customer"}]
  /\ asked \in [Requests -> Rows \cup {NoRow}]
  /\ pc \in [Requests -> {"new", "arrived", "guard", "passed", "endpoint", "flushed", "closing",
                          "opening", "ready", "asking", "serving", "ended"}]
  /\ ctx \in [Requests -> Stores \cup {NoStore}]
  /\ result \in [Requests -> SUBSET Rows]
  /\ status \in [Requests -> Codes \cup {0}]
  /\ conn \subseteq Requests /\ Cardinality(conn) <= PoolSize + MaxOverflow
  /\ loop \in Requests \cup {Idle}

\* The rows the caller of r may see through its endpoint.
Visible(r) ==
  {row \in Rows :
     /\ Owner[row].store = Caller[r].store
     /\ (kind[r] \in {"myOrders", "order"} /\ role[r] = "customer")
          => Owner[row].session = Caller[r].session
     /\ Named(kind[r]) => row = asked[r]}

\* Whatever threads a request has run on, it is answered exactly the rows of
\* its caller's store, and of its session where that counts; 404 means there
\* are none, and no caller with valid credentials is without a store (the
\* guards, set_context in every endpoint, TenantScopedRepository).
TenantScoped ==
  \A r \in Requests : kind[r] \notin {"stream", "health"} =>
    /\ status[r] = 200 => result[r] = Visible(r)
    /\ status[r] = 404 => Visible(r) = {}
    /\ status[r] # 403

Streaming == {r \in Requests : pc[r] = "serving"}
Underway ==
  {r \in Requests : pc[r] \in {"arrived", "guard", "passed", "endpoint", "flushed", "closing"}}

\* All that can bring the server to a standstill, in which connections are
\* only freed by clients that go away or by the pool's timeout: a handler that
\* waits on the loop, streams that hold every connection, or more requests
\* than threads, those that wait for a connection keeping the threads from
\* those that hold one (engine, get_db, stream_session_orders, health_deep).
StandstillHasACause ==
  Standstill =>
    \/ loop # Idle
    \/ Cardinality(Streaming) = PoolSize + MaxOverflow
    \/ Cardinality(Underway) > Threads

\* Every request is answered, with an error if need be: no standstill lasts.
RequestsAnswered == <>[](\A r \in Requests : pc[r] \in {"new", "serving", "ended"})

=============================================================================
