# Table-Order: a verification project

TLA+ models of the table-order system (a FastAPI backend over PostgreSQL, an
administrator's and a customer's React application), the TLC runs that check
them on small instances, and TLAPS proofs of every safety property of those runs
for any number of requests, sessions, connections and menus.

Contents: 1 inventory, 2 modules and how they correspond to the code, 3 runs,
4 fairness, 5 proofs, 6 disagreements between code and documents, 7 what is
not modelled, 8 plan.

## 1. The system

| component | state | operations |
|---|---|---|
| Orders and table sessions (`backend/app/order`, `auth/service.py`) | rows of `table_sessions`, `orders`, `order_history` | start session, create order, change status, delete, administrator's close, customer's close |
| Event bus and SSE (`core/events.py`, `order/sse.py`, `core/metrics.py`) | one bounded `asyncio.Queue` per connection, callbacks on the loop, `sse_active` | publish, deliver, subscribe, keep-alive, disconnect |
| Administrator dashboard (`frontend-admin`: `DashboardPage`, `useOrderStream`) | the list shown, the filter, list requests under way, an `EventSource` | refetch, patch on event, patch on answer, reconnect |
| Menu catalogue (`menu/`) | rows of `menus` | create, update, delete, reorder, grouped list |
| Login rate limiter (`core/ratelimit.py`, `AuthService.admin_login`) | a deque of times per key | allow, reset |
| Customer application (`frontend-customer`) | session and cart in `localStorage`, token in the API client, page, calls under way, order list, an `EventSource` | start, reload, change pages, fill the cart, order, refetch on event, leave on 401 or `session_closed` |
| Pool and threads (`core/database.py`, `core/health.py`, the sync endpoints) | up to 15 connections, the event loop's thread, the worker threads | a connection per request, for a stream's whole life; wait for one, give up |
| Tenant context (`core/context.py`, `core/middleware.py`, `shared/repository.py`) | a context variable per task and thread | seeded by the middleware, set by guards and again by endpoints, read by repositories |
| Administrator login, table setup, other pages, logging, errors, metrics, migrations, scripts | - | see 7 |

How they interact.  Every CRUD endpoint is a `def` function: FastAPI runs it on
a worker thread with its own SQLAlchemy session, which is one transaction at
PostgreSQL's default READ COMMITTED level, committed by the router
(`db.commit()`) and rolled back when the session is closed without that.  After
the commit `_publish` hands one event to the bus for the store's topic and one
for the session's; `call_soon_threadsafe` puts the delivery on the event loop.
There, one async generator per SSE connection waits for its queue and writes to
the client.  The dashboard refetches or patches its list on events; the tablet
refetches its own, and drops its session when any call is answered 401.  Both
reach the backend through the `nginx` that serves them.  It answers 502 while
the backend is down, and an `EventSource` that gets anything but 200 closes for
good.  The guard of a request and its endpoint run on worker threads, each with a copy of
the task's context and both with the request's one database connection; the
session stream and the deep health check take theirs on the loop itself.

What makes it hard: transactions interleave at every SELECT and flush; a
flushed row blocks others until its transaction ends, unique keys block and
fail; events are published outside the transaction, possibly inverted, dropped
by a full queue or lost in a crash; the clients' refetches overtake each other
and their streams come, go and are refused; requests wait for threads while they hold
connections and for connections while they hold threads.  `PROJECT.json` lists each hazard at its line.

What makes each component correct:

* orders and sessions: one active session per table, order numbers 1..n in a
  session, closing moves orders (none lost, none left, none twice), no write
  from a stale copy undoes a committed one, no circle of waits for rows and keys,
  every request ends, every commit is announced and nothing else is;
* bus and streams: own topic, in order, at most once, released at the end, and
  to a client that reads, everything;
* dashboard: the list ends up as what is committed, at least while its stream is
  accepted;
* customer application: only its own session's orders are shown, and in the end,
  while its stream is accepted, all of them; a valid session is kept, an ended one left; the cart is emptied
  for a committed order only;
* menus: list order as requested, groups that agree with it and with BR-M19,
  deleted menus stay deleted, no circle of row waits;
* server: every request sees the rows of its own store and session only,
  whatever threads it runs on, and is answered in the end;
* login limiter: at most the limit in a window, and nobody refused for good.

## 2. Modules

| module | what | corresponds to |
|---|---|---|
| `OrderDesk` | the transactions on orders and sessions, their events | `order/service.py`, `order/repository.py`, `order/router.py`, `auth/service.py`, `auth/router.py`, unique keys of `shared/models.py` |
| `Ledger` | abstract: the same operations, each in one step | the net effect of those services |
| `OrderDeskLedger` | the refinement mapping from `OrderDesk` to `Ledger` | - |
| `EventBus` | the bus and the generator of a stream, without an environment | `core/events.py`, `order/sse.py` |
| `EventStream` | `EventBus` with publishers and simple clients | `_publish`, any SSE client |
| `Dashboard` | `EventBus` with the dashboard and the requests that change orders | `DashboardPage.jsx`, `useOrderStream.js`, the order endpoints |
| `CustomerApp` | `EventBus` with a table's tablet and what of the server it can tell | `frontend-customer/src`, the session and order endpoints |
| `MenuCatalog` | the transactions on menus, the grouped list | `menu/service.py`, `menu/repository.py`, `menu/router.py` |
| `Server` | the loop, the worker threads, the pool, the tenant context and the queries it scopes | `core/database.py`, `core/context.py`, `core/middleware.py`, `core/errors.py`, `core/health.py`, `shared/repository.py`, the guards in `auth/dependencies.py` and both routers |
| `LoginLimiter` | one key of the limiter under concurrent logins | `core/ratelimit.py`, `AuthService.admin_login` |
| `X_proofs` | the proofs about `X` | - |
| `MC...` | instances for TLC | - |

**OrderDesk.**  A request is a constant; `pc[r]` is how far its handler has come
and the other per-request variables are its local variables (`sess`, `ord`,
`want`, `tries`, `listed`).  Each SELECT and each flush of the handler is an
action, the commit is one more, each `publish_sync` another.  What a
transaction has written but not committed is in those locals and in `held`, the
rows it has locked; the commit action copies it to the row variables at once.
Rows are named after the requests that insert them, so an order's unchanging
columns (items, prices, total, created_at) are its name.  `Expire` is the
passing of `jwt_expire_hours`.  `Abort` is any error before the commit, `Crash`
the death of the process.  An INSERT waits while a rival of its unique key is
uncommitted and fails once it is committed, as PostgreSQL does.  A close
locks the session row first, since SQLAlchemy's unit of work flushes parents
first, and its orders in any order.  `SELECT`s of one handler between which
nothing else can be told (menu lookups) are one step.

**EventBus.**  All its actions run on the loop's thread, one between two
awaits.  `gen[c]` is where the generator of connection `c` is suspended, and
`Timeout` is the cancellation of `__anext__` by `asyncio.wait_for`: the
subscription's `finally` runs and the stream ends after its next frame.
`Hangup` abandons the generator in any state, `Finalize` runs its `finally`.
Headers (`Open`) leave before the body generator is entered, since the
middleware forwards the response start first.  Comment frames do not show.

**Dashboard.**  A foreign or own request is commit, publish, answer; that is
what of `OrderDesk` the page can tell.  An own one begins with the click, because
`doCloseSession` refetches, once it is answered, with the filter of the render
whose button was clicked (`clicked`), not with that of the screen.  Publishing is separate from the commit,
so events may be inverted.  A status change may follow a delete (it had loaded
the row before) and a close may miss orders (they came after its SELECT), as in
`OrderDesk`.  `fetch` holds the list requests under way: asked, read by the
server, applied.  `up` says whether the server's process runs: while it does
not, every call fails, and an `EventSource` that connects is `Refused`, for good,
because `useOrderStream` makes one when the page is opened and never again.
`SetFilter` takes any table, the page offers those of the orders it shows.
Faults (a lost connection, a failed call, a lost answer, the death of the server)
and uses of the filter or the refresh button are bounded together by
`MaxExtras`; calls that fail because the server is down are not counted.

**CustomerApp.**  The tablet of one table, through several of its sessions;
session *s* has connection and topic *s*.  `calls` holds the requests under way:
asked with the token of that moment, then answered, and the server may handle
them at any time in between or fail.  A call belongs to its page while that is
mounted (`alive`, `setOrders` of an unmounted component), then to the
application, whose 401 handler, `cart.clear` and timer work all the same; a
reload makes it nobody's, though the server may still commit it.  `Reload` sends
the first call without a token: React runs the effects of the pages before that
of `SessionProvider`, which puts the token into `client.js`; only a path that
redirects gives the provider time.  An `EventSource` that is answered 401 (the
session is over), 502 (the server is down) or 500 (`ConnectFails`: the endpoint
got no connection from the pool, as in `Server`) is `"refused"` for good.  The server is reduced to the valid session, a number of
committed changes per session (what a list was read at) and the events still to
be published.  `moves` bounds everything customers, others and faults do.

**MenuCatalog.**  As `OrderDesk`, with the rows of `menus` and the rule that a
flush updates only the rows whose columns changed, in key order.  Primary keys
are UUIDs; the module identifies a menu's place in key order with its place in
name order.  Validation (403, 404, 422) is a request that goes no further.
`Grouped` is `list_grouped`: the categories in the order in which the list first
meets one, each with its menus.

**Server.**  Each endpoint is a kind of request, and a request is of one of the
kinds its constant allows.  `pc[r]` says where it is: on a thread in its guard
or its endpoint, between them, in `get_db`'s `finally`, or, for the two `async`
handlers that use the database, on the loop (`loop = r`, and nothing else of
the loop happens).  `conn` is the set of requests whose SQLAlchemy session has
a connection; it takes one at its first SELECT and returns it at the commit or
the close, a stream when its client is gone.  `ctx[r]` is the context variable
as the thread that runs `r` sees it: `Arrive` seeds it empty, a guard sets a
copy that is lost, the endpoint sets it again.  A row is something a store and a
session own, and `Found` is what the endpoint's query selects from; what the
endpoints do to rows is in `OrderDesk` and `MenuCatalog`.  `GiveUp` is
`pool_timeout`, and is taken to be longer than anything the server can still do
by itself: it comes only in a `Standstill`, when somebody waits for a connection
and no request can go on.  `CanStep(r)` writes out when `r` can; it is
`ENABLED Step(r)`, as TLC has found in all 359,860 states of the instance of
`server`, and one half of that is proved (`StandstillStands`).

**LoginLimiter.**  A login reads the clock before it takes the lock, so
`ReadClock` and `Allow` are two steps and another login may come between them.
`Pruned` drops old entries from the left only.  The password check is a choice;
a success resets the key in a step of its own.  `counted`, for the properties,
keeps all times since the last reset.

## 3. Runs

All bounds are constants of the cfg.  Requests are used once, so their number
bounds a run; the only other bound in `OrderDesk` is `MaxRetries`, the code's
constant 3.

| run | checks | bounds, and why they are enough |
|---|---|---|
| `numbers` | `TypeOK`, `OrderNumbersContiguous`, `ConflictNeedsContention`, `RequestsEnd`, `CommitsAnnounced` | three creates with two attempts each, the least that can exhaust the attempts of one (the theorems of section 5 are about any number of both); a delete, since deleted numbers count; the customer's close; no failures, since a crash excuses silence |
| `desk` | `AtMostOneActive`, `NoCircularWait`, `NothingLost`, `ArchivedIsGone`, `EventsTruthful`, `RowsOnlyMoveForward`, `ImplementsLedger`, `RequestsEnd` | two starts at one table, so that a session is reused, expires and is replaced; one create, status change, delete and close, which all meet at one order, so that a start waits for a close that waits for a delete; aborts and crashes anywhere |
| `stream` | `TypeOK`, `OwnTopicInOrder`, `StreamsReleased`, `EventsArrive` | two connections of one topic, one of which reads; four events on two topics and queues of two, so that queues overflow; hang-ups and restarts |
| `dashboard` | `TypeOK`, `ViewConverges` | one order and two tables (so that a filter shows or hides it), one foreign and one own request, queue of one, two list requests at a time (the least that can be answered out of order), one use of the filter or refresh button or one fault, of which the death of the server takes all calls with it until it comes back |
| `tablet` | `TypeOK`, `OwnOrdersOnly`, `ClearedIsPlaced`, `ListConverges` | two sessions (the least in which an answer can come too late), two calls at a time, a cart of two, queue of one, three moves: a second session takes its close, which leaves two for a late answer and a change |
| `menus` | `NoCircularWait`, `GroupsInOrder`, `AloneIsExact`, `DeletedStays` | two menus and a new one in two categories, so that categories alternate in the list; one create, update and delete and two reorders, the least that could wait for each other in a circle |
| `server` | `TypeOK`, `TenantScoped`, `StandstillHasACause`, `RequestsAnswered` | four requests for all nine kinds of endpoint over two threads and two connections, the least with which threads can wait for connections while connections wait for threads; two stores, and two sessions in one of them |
| `login` | `TypeOK`, `NeverTooMany`, `NeverLockedOut` | five logins, a limit of two and a window of two ticks of six, so that entries expire, are overtaken and fill the key again; the threads are symmetric |

What they show: each listed property holds in every interleaving of those
requests.  Worth knowing:

* `ViewConverges` and `ListConverges` are about pages whose `EventSource` has not
  been refused.  Once a reconnect is answered 502 (the backend is down), 401 or,
  on the tablet, 500 (the pool is exhausted), the browser gives up, nothing makes another
  `EventSource` and nothing polls: the periodic refetch of BR-FA10
  (`src/aidlc-docs/construction/frontend-admin/functional-design/ui-business-rules.md:16`)
  and BR-FC14 (`frontend-customer/functional-design/ui-business-rules.md:20`) does
  not exist, and "Browser will retry automatically"
  (`frontend-admin/src/hooks/useOrderStream.js:35`) holds for lost connections
  only.  Both models contain these refusals, after which the list may stay wrong
  until its user does something; the proxy answers so whenever the backend is
  restarted under an open page and the browser reconnects too soon.
* Under that condition both hold *because* of the keep-alive flaw (section 6): a
  silent stream ends after 15 seconds, the browser reconnects and refetches, and
  that repairs whatever was missed.  With a keep-alive that keeps the stream (the
  variant `Timeout_KeepsListening`) a lost event stays lost.  Whoever repairs
  the keep-alive has to add the periodic refetch, which would also do away with
  the condition.
* Both speak of the end.  Before it, an older list may replace the one that
  `onopen` fetched, since both applications show whichever answer comes last; it
  stays until the next event or reconnect.
* `NoCircularWait` of `OrderDesk` depends on the order of locks: a close and a
  start take a session's row first, so of two closes of a session only one gets
  as far as the orders, and a request that updates a single row waits for nothing
  once it has it: nobody who holds an order asks for a session.
* `EventsTruthful` and `CommitsAnnounced` do not order events, and neither notices
  one that is lost on its way: two status changes may be announced in the other
  order than they were committed.  What that does to a list is `ViewConverges`.
* `EventsArrive` promises an event only to a stream whose queue had room for it
  when it was published; `publish` drops it otherwise.
* `AloneIsExact` is about a reorder or create between whose read and commit
  nothing is committed.  Two reorders that overlap may leave a mixture of both
  orders, since each writes only the rows that differ from what it read, and two
  creates may get the same place; BR-M14 and BR-M16 do not speak of overlapping
  requests.
* `ListConverges` is about a valid session only.  When the session ends and no
  event of that reaches the page, it keeps the list of the ended session: the
  reconnect is answered 401, which an `EventSource` keeps to itself.
* A closed session may keep current orders: an order verified before an
  administrator's close and committed after it, and all orders of a session that
  the customer closes or that expires.  `ArchivedIsGone` and `NothingLost` are
  about what was moved.
* `StandstillHasACause` names what makes the server stand still until the pool's
  timeout (30 seconds, SQLAlchemy's default).  With 5 + 10 connections and some
  40 worker threads: fifteen tablets with an open orders page hold every
  connection, and the sixteenth stream, or a deep health check, then waits for
  one *on the loop*; and 55 customers' calls at once suffice without any stream,
  fifteen between guard and endpoint with a connection and no thread, forty in
  their guards with a thread and no connection.  `RequestsAnswered` holds in
  spite of that, with 500 (and 503 from `/health/deep`, which `health.py` has
  for a database that is down, though here it is up).
* A stream's connection is held for as long as the stream from FastAPI 0.118 on,
  as the comment at `stream_session_orders` says; before that, `get_db` is
  closed before the response's body starts.
* `TenantScoped` depends on each endpoint's own `set_context`: without it (the
  variant `EnterEndpoint_NotReasserted`) the endpoint's thread has no store and
  the request is answered 403.
* `NeverTooMany` excepts overtaken logins: one that read the clock before
  others recorded later times prunes less than the window asks of them, and an
  entry behind a later one outlives its window.  BR-A08 counts failures; the code
  counts every admitted login until one succeeds, and a success also forgets those
  whose password is still being checked.  The properties count from the last
  reset, so they do not see that.
* `GroupsInOrder` leaves open which of two categories comes first when their
  lowest `display_order` is the same.  BR-M19 decides that by the category's name,
  and the code does not (`CategoriesByName`, run `groups`, section 6).
* `ArchivedIsGone` is what one close does; that two closes do not archive twice is
  `ArchivedOnce`, which fails (section 6).
* The runs of `Server` and `LoginLimiter` set `CHECK_DEADLOCK FALSE`: their
  requests are used once.
* The runs of `CustomerApp` set `CHECK_DEADLOCK FALSE`: nobody has to touch the
  tablet, and on the menu page nothing happens by itself.  So does that of
  `Dashboard`: a page whose `EventSource` was refused waits for its user.
* The runs of `MenuCatalog` set `CHECK_DEADLOCK FALSE`: the catalogue stops when
  no request is left.  A deadlock among its transactions is a circle of row
  waits, which `NoCircularWait` excludes.

The runs that end in a violation are in section 6.

The definitions named `X_Something` beside an action `X` are variants of it with
a plausible mistake; the entry `mutants` of `PROJECT.json` says which property
each one breaks.

## 4. Fairness

Weak fairness of each request's own steps: a worker thread that runs goes on,
and PostgreSQL grants a row or decides a key as soon as its holder is gone;
holders are finitely many, so a waiting step stays enabled in the end.  Weak
fairness of delivery, of each generator's steps and of the keep-alive timer: the
event loop runs what is ready and its timers.  Weak fairness of connecting,
reading and answering for the dashboard and the tablet: the browser tries to
reconnect by itself as long as it has not been refused, whatever that attempt
is answered; a page that is open reads; and calls are answered.  None for the
arrival of requests, expiry, aborts, crashes, hang-ups, lost connections, the
start of a server that is down, filter changes or anything a customer does; in
`EventStream` a client outside `Readers` need not read.  In `Server` weak fairness of each
request's steps (a free thread takes what waits, the pool hands out what is
free) and of the pool's timeout; none of arrivals and of clients that go away.
`MenuCatalog` and `LoginLimiter` state no fairness and no liveness.

## 5. Proofs

TLAPS checks, for all values of the constants that the named assumptions allow
(TLC evaluates each of those in a run):

| module | theorem | says |
|---|---|---|
| `OrderDesk_proofs` | `TypeCorrect` | `Spec => []TypeOK` |
| | `NumbersContiguous`, `ConflictsAreReal` | order numbers are 1..n; a 409 has `MaxRetries` committed rivals |
| | `OneActiveSession` | never two active sessions at a table |
| | `NoCircle` | `NoCircularWait`: no deadlock among transactions |
| | `RowsMoveForward` | the action property `RowsOnlyMoveForward` |
| | `NothingIsLost`, `ArchiveMoves`, `EventsAfterCommit` | the history and event invariants |
| `OrderDeskLedger_proofs` | `Refinement` | `Spec => ImplementsLedger` |
| `MenuCatalog_proofs` | `NoCircle`, `DeletedIsFinal`, `AloneDoesAsAsked` | `NoCircularWait`, `DeletedStays`, `AloneIsExact` |
| | `ListGrouped` | `GroupsInOrder`: what the recursion of `list_grouped` returns |
| `Server_proofs` | `TypeCorrect`, `TenantsApart` | the pool's limit; `TenantScoped` |
| | `StandstillsExplained` | `StandstillHasACause` |
| | `StandstillStands` | in a standstill no step of the server is possible |
| `LoginLimiter_proofs` | `TypeCorrect`, `LimitHolds`, `RefusalHasAReason` | the deque's bound; `NeverTooMany`; `NeverLockedOut` |
| `CustomerApp_proofs` | `TypeCorrect`, `OwnOrders`, `CartsAreOrders` | `TypeOK`; `OwnOrdersOnly`; `ClearedIsPlaced` |
| `EventStream_proofs` | `TypeCorrect`, `AllReleased` | the queues' bound; `StreamsReleased` |
| | `EventsInOrder` | `OwnTopicInOrder` |
| `Dashboard_proofs` | `TypeCorrect` | `TypeOK` |

Assumptions: the kinds of requests are disjoint (`KindsDisjoint` of `OrderDesk`
and `MenuCatalog`, `KindsKnown` of `Server`), every start has a table, every row
and caller a store and a session (`Owners`), the null values are none of what
they stand for (`NoValues`, `StatusesType`, `SourceType`), and the bounds are natural numbers (`RetriesType`,
`MenuBounds`, `Capacities`, `LimitType`, `QueueBounds`,
`EventsType`; the `BoundsType` of `CustomerApp` and of `Dashboard`), positive
where the code's are.  Each connection has a topic and each order a table
(`TopicType`, `ConnsType`, `OrdersType`).  Tables, menus, requests, rows and
the values of every bound are otherwise arbitrary.

**OrderDesk.**  The invariants are not inductive by themselves; `IInv` in
`OrderDesk` is, and TLC has confirmed it on instances like those of
`numbers` and `desk`.  The proofs take it in five layers, each
using the ones before:

1. `TInv`: types, and that a request refers to committed rows only
   (`RefersToRows`);
2. `NInv`: a number computed and not yet committed is at most the next one,
   because numbers are never removed, not even by a delete
   (`NumbersInFlight`); and each collision has left a committed number behind
   (`AttemptsBehind`), so the n-th means that 1..n are taken.  Contiguity and
   the 409 follow;
3. `SInv`: between the flush of a new session and its commit no rival of its
   table is active, except the expired one the same transaction closes
   (`StartsInFlight`);
4. `HInv`: what a close has listed belongs to its session
   (`ListedOfSession`), what a committed request announces has happened, and
   stays so (`AnnouncedAtCommit`);
5. `LInv`: who holds which row and how far he has come (`LocksInFlight`).

For `NoCircularWait`, `SomebodyGoesOn` names a transaction that can go on: one
that has flushed waits for nothing.  If there is none, a close that holds its
session's row gets the orders, since whoever held one would hold that row too.
If there is no such close either, the only rows held are sessions that starts
are replacing, and by `AtMostOneActive` a start that holds an active one has no
rival to wait for.

For the refinement, `LedgerStep` shows that each commit is a step of the
ledger and every other step leaves the mapped state alone; the number an order
got long before its commit is still the next one then, by `NInv` and the unique
key.

**MenuCatalog.**  A reorder updates its rows in key order, so one that still
awaits a row holds smaller ones only, and an update or delete that waits holds
none (`WInv`).  In a circle of waits the request that awaits the smallest row
would be waited for by one that awaits a row it holds, which is smaller still.
For `AloneIsExact`: what was read is then what is committed, and the rows the
flush skips have the requested value already.

`GroupsInOrder` needs no more of the invariant than the types, but an argument
about sequences.  The number of menus before a menu in list order grows with it,
so it is a bijection between the menus and `0 .. n-1` and the list has each menu
once (`ListingSorted`).  `AddToGroup` keeps the groups in order when the menu it
adds comes after all that were added (`AddToGroupStep`).  The induction over the
list is by the smallest beginning of it that is not grouped (`GroupedGroups`),
and so is the existence of the recursive function (`Unfolding`), since the
library's induction theorems are out of the provers' reach.

**Server.**  An answer's rows are those of the context, and from the endpoint's
first step to the answer the context is the caller's store; a connection is
held only from a first SELECT on and counted against the pool.  For the
standstills, whoever holds a connection is on its way to return it or streams,
and finitely many requests are underway (`SInv`).  Where there are no more of
these than threads and the loop is free, each holder that does not stream has a
thread or finds one and could go on; so in a standstill all of them stream.

**LoginLimiter.**  The deque is always the end of all that was recorded, and
each entry it has dropped is more than a window older than another recorded
one (`HInv`).  For a login that was not overtaken the dropped ones are then
outside its window, so its window holds no more than the deque does.  A refused
login dropped none: had the first entry gone, there would be room.

**CustomerApp.**  A list request of the mounted orders page is for the session
the tablet keeps: a new session starts only where no orders page is mounted, and
unmounting it ends the page's claim to its calls.  For the carts, those emptied
and the committed answers not yet seen are together no more than the orders
placed (`PInv`).  The type invariant bounds what a list may have been read at:
the changes made to a session's orders and those its open orders still stand for
are together no more than the `moves` (`Budget`).

**EventStream.**  A queue is registered exactly while its generator is where
its `finally` will still run, and `active` counts those generators.  Order is kept
along the whole way of an event (`OInv`): what the client has got, what is on
its wire, in its queue and still scheduled on the loop are each in the order of
publication, and each before the next, with the connection's own topic on all but
the last (`Lined`).  A delivery, a frame and a read move one event across one of
these borders; a full queue, a hang-up and a restart only take events away.

**Dashboard.**  Its types are the bus's, the server's and the page's (`TInv`);
what the first two need of each other is that a request between commit and
publication has an event to publish.

Only model-checked: liveness, that is `RequestsEnd`, `CommitsAnnounced`,
`EventsArrive`, `ViewConverges`, `ListConverges` and `RequestsAnswered` (the
prover does not treat fairness), and that `CanStep` suffices for a step, which
is about ENABLED.

## 6. Where code and documents disagree

Each is a run that TLC ends with a counterexample; `PROJECT.json` "findings"
quotes the line.

| run | property | what happens |
|---|---|---|
| `double_close` | `ArchivedOnce` | two closes at once archive the same orders twice |
| `keepalive` | `KeepAliveKeeps` | the first keep-alive ends the stream it should keep open |
| `groups` | `CategoriesByName` | of two categories with the same lowest `display_order`, the one whose first menu comes first in name order is listed first, whatever the categories are called |
| `reload` | `KeepsValidSession` | a reload of the menu or orders page ends a valid session: the first call goes out before the token is set |

One more disagreement shows as the condition of `ViewConverges` and
`ListConverges` (section 3): the periodic refetch of BR-FA10 and BR-FC14 does not
exist, and a refused stream is never opened again.

## 7. Not modelled

Of modelled components: prices, totals and item snapshots; reads that change
nothing (detail, history query); the dashboard's pane with an order's detail
and the highlight of new orders; expiry of the administrator's login, after
which a reconnect is refused; the contents of the menu and other tablets that
start the same session; unreadable `localStorage`, and the doubled effects of
React's development mode; other stores, except in `Server`; the store an
inserted row is stamped with (`add`); the correlation id; a database that is
down, and statements that run long; an update that changes a menu's category.

Components: table setup (single rows; two setups of a new table race for a
unique key as two session starts do), JWTs, cookies and password hashes
(functions of one request), the other administrator pages (one request at a
time), logging, notifier and metrics other than `sse_active` (formatting and
counters), the texts of errors, migrations, seeding, backup, deployment (run
alone; the models take the unique indexes from the migration).

## 8. Plan

1. `Dashboard` with the pane that shows one order, whose answers may come after
   the order was deleted or another one opened.
2. `MenusPage`: reorders sent before the answer to the previous one, over
   `MenuCatalog`.
3. Table setup beside `start_session`, in `OrderDesk`.
4. `OrderDesk` and `EventBus` composed: every commit reaches a connected
   reader or its stream ends.
5. `EventStream` as an implementation of an abstract lossy channel that keeps
   order, and `Dashboard`'s list as always that of some answer or event, proved.
