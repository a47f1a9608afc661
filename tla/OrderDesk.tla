----------------------------- MODULE OrderDesk -----------------------------
(***************************************************************************)
(* The request handlers that share the orders, table_sessions and          *)
(* order_history tables: session start, order create, status change,       *)
(* delete, the administrator's session close and the customer's own.       *)
(*                                                                         *)
(* A request is one HTTP call, served by a worker thread with one database *)
(* transaction at PostgreSQL's default READ COMMITTED level, so every      *)
(* SELECT is a step that sees what is committed at that moment, a flushed  *)
(* UPDATE holds its row until the transaction ends, and a flushed INSERT   *)
(* makes any INSERT of the same unique key wait.  What a transaction       *)
(* wrote becomes visible when it commits; events go out after that.        *)
(*                                                                         *)
(* Rows are named after the request that inserts them: session s is the    *)
(* one start request s inserts, order c the one create request c inserts.  *)
(* items, total and created_at never change after the INSERT, so the name  *)
(* of an order stands for them.                                            *)
(***************************************************************************)
EXTENDS Naturals

CONSTANTS
  Tables,      \* restaurant tables of one store
  Starters,    \* POST /sessions requests; a session is named after its request
  Creators,    \* POST /api/orders requests; an order is named after its request
  Updaters,    \* PATCH /api/orders/{id}/status requests
  Deleters,    \* DELETE /api/orders/{id} requests
  Closers,     \* POST /api/sessions/{id}/close requests (administrator)
  Leavers,     \* POST /sessions/close requests (customer)
  TableOf,     \* the table each start request is for
  MaxRetries,  \* _MAX_ORDER_NO_RETRIES
  NoSession,   \* no session / no order
  NoOrder,
  Store,       \* the store's event topic
  MayFail      \* whether transactions abort and the process crashes

Req == Starters \cup Creators \cup Updaters \cup Deleters \cup Closers \cup Leavers

Disjoint(A, B) == A \cap B = {}

ASSUME KindsDisjoint ==
  /\ Disjoint(Starters, Creators \cup Updaters \cup Deleters \cup Closers \cup Leavers)
  /\ Disjoint(Creators, Updaters \cup Deleters \cup Closers \cup Leavers)
  /\ Disjoint(Updaters, Deleters \cup Closers \cup Leavers)
  /\ Disjoint(Deleters, Closers \cup Leavers)
  /\ Disjoint(Closers, Leavers)

ASSUME TableOfType == TableOf \in [Starters -> Tables]

ASSUME RetriesType == MaxRetries \in Nat \ {0}

ASSUME FailType == MayFail \in BOOLEAN

ASSUME NoValues == NoSession \notin Req /\ NoOrder \notin Req /\ Store \notin Req

OrderStatus == {"pending", "preparing", "done"}

Topics == {Store} \cup Starters

\* Requests that publish an event once their transaction is committed.
Publishers == Creators \cup Updaters \cup Deleters \cup Closers

VARIABLES
  sStatus,   \* committed table_sessions: status of session s ("none": no row)
  expired,   \* sessions started more than jwt_expire_hours ago
  orders,    \* committed orders rows
  orderNo,   \* order_no, from the moment a create request computes it
  oStatus,   \* status column of an order
  deleted,   \* orders whose deleted_at is set
  history,   \* order_history rows
  pc,        \* how far each request has come
  sess,      \* the session a request works on
  ord,       \* the order an update or delete request loaded
  want,      \* the status an update request sets
  tries,     \* order numbers a create request has computed
  listed,    \* the orders a close request read, with the status it read
  held,      \* rows a transaction has updated and not yet committed
  bus        \* per topic, the requests whose event was published

rows == <<sStatus, expired, orders, oStatus, deleted, history>>
vars == <<rows, orderNo, pc, sess, ord, want, tries, listed, held, bus>>

\* Values of pc that end a request: answered, refused (4xx/5xx), or aborted.
Final == {"done", "refused", "aborted"}

\* The transaction is committed and its events are due.
Committed == {"committed", "told", "done"}

InFlight(r) == pc[r] \notin {"idle"} \cup Final

Goto(r, label) == pc' = [pc EXCEPT ![r] = label]

\* No other transaction has an uncommitted UPDATE of this row.
RowFree(row) == \A q \in Req : row \notin held[q]

Take(r, row) == RowFree(row) /\ held' = [held EXCEPT ![r] = @ \cup {row}]

Release(r) == held' = [held EXCEPT ![r] = {}]

\* verify_session: the token's session is active and not expired.
Valid(s) == sStatus[s] = "active" /\ s \notin expired

SessionRows == {s \in Starters : sStatus[s] # "none"}

Live(s) == {o \in orders \ deleted : sess[o] = s}

Archived == {h.order : h \in history}

Init ==
  /\ sStatus = [s \in Starters |-> "none"]
  /\ expired = {}
  /\ orders = {}
  /\ orderNo = [c \in Creators |-> 0]
  /\ oStatus = [c \in Creators |-> "pending"]
  /\ deleted = {}
  /\ history = {}
  /\ pc = [r \in Req |-> "idle"]
  /\ sess = [r \in Req |-> NoSession]
  /\ ord = [r \in Updaters \cup Deleters |-> NoOrder]
  /\ want = [u \in Updaters |-> "pending"]
  /\ tries = [c \in Creators |-> 0]
  /\ listed = [a \in Closers |-> {}]
  /\ held = [r \in Req |-> {}]
  /\ bus = [t \in Topics |-> {}]

-----------------------------------------------------------------------------
(* Session start: reuse the table's active session, or close an expired one *)
(* and insert a new one.                                                    *)

ActiveOn(t) == {s \in Starters : TableOf[s] = t /\ sStatus[s] = "active"}

\* SELECT the table's active session.  A current one is returned as it is.
StartRead(r) ==
  /\ pc[r] = "idle"
  /\ \/ /\ ActiveOn(TableOf[r]) = {}
        /\ Goto(r, "insert")
        /\ UNCHANGED sess
     \/ \E s \in ActiveOn(TableOf[r]) :
          /\ sess' = [sess EXCEPT ![r] = s]
          /\ Goto(r, IF s \in expired THEN "found" ELSE "done")
  /\ UNCHANGED <<rows, orderNo, ord, want, tries, listed, held, bus>>

\* Flush of the expired session's close.  Its orders are not touched.
StartExpire(r) ==
  /\ pc[r] = "found"
  /\ Take(r, sess[r])
  /\ Goto(r, "insert")
  /\ UNCHANGED <<rows, orderNo, sess, ord, want, tries, listed, bus>>

\* Rows that collide with r's new row in uq_active_session_per_table.
ActiveRivals(r) == ActiveOn(TableOf[r]) \ {sess[r]}

PendingRivals(r) ==
  {q \in Starters \ {r} : pc[q] = "flushed" /\ TableOf[q] = TableOf[r]}

\* Variant: without the partial unique index any number of sessions go in.
StartInsert_NoIndex(r) ==
  /\ pc[r] = "insert"
  /\ Goto(r, "flushed")
  /\ UNCHANGED <<rows, orderNo, sess, ord, want, tries, listed, held, bus>>

\* Flush of the INSERT: it waits for a transaction that is inserting or
\* closing a rival row, and a committed rival is an IntegrityError (500).
StartInsert(r) ==
  /\ pc[r] = "insert"
  /\ PendingRivals(r) = {}
  /\ \A s \in ActiveRivals(r) : RowFree(s)
  /\ IF ActiveRivals(r) = {}
       THEN Goto(r, "flushed") /\ UNCHANGED held
       ELSE Goto(r, "refused") /\ Release(r)
  /\ UNCHANGED <<rows, orderNo, sess, ord, want, tries, listed, bus>>

StartCommit(r) ==
  /\ pc[r] = "flushed"
  /\ sStatus' = [s \in Starters |-> IF s = r THEN "active"
                                    ELSE IF s = sess[r] THEN "closed"
                                    ELSE sStatus[s]]
  /\ Goto(r, "done")
  /\ Release(r)
  /\ UNCHANGED <<expired, orders, oStatus, deleted, history,
                 orderNo, sess, ord, want, tries, listed, bus>>

\* jwt_expire_hours go by.
Expire(s) ==
  /\ sStatus[s] = "active" /\ s \notin expired
  /\ expired' = expired \cup {s}
  /\ UNCHANGED <<sStatus, orders, oStatus, deleted, history,
                 orderNo, pc, sess, ord, want, tries, listed, held, bus>>

-----------------------------------------------------------------------------
(* Order create.                                                           *)

\* require_customer, then the menu lookups (one may be unavailable: 422).
CreateVerify(c) ==
  /\ pc[c] = "idle"
  /\ \E s \in SessionRows :
       /\ sess' = [sess EXCEPT ![c] = s]
       /\ \/ Valid(s) /\ Goto(c, "verified")
          \/ Goto(c, "refused")
  /\ UNCHANGED <<rows, orderNo, ord, want, tries, listed, held, bus>>

\* Variant: the maximum is taken over current orders, as every other query is.
Numbers_Current(s) == {orderNo[o] : o \in {q \in orders \ deleted : sess[q] = s}}

\* Committed order numbers of a session, those of deleted orders included.
Numbers(s) == {orderNo[o] : o \in {q \in orders : sess[q] = s}}

\* order_no = max_order_no + 1, the maximum being 0 when there is none.
CreateNumber(c) ==
  /\ pc[c] = "verified"
  /\ \E top \in {0} \cup Numbers(sess[c]) :
       /\ \A n \in Numbers(sess[c]) : n <= top
       /\ orderNo' = [orderNo EXCEPT ![c] = top + 1]
  /\ tries' = [tries EXCEPT ![c] = @ + 1]
  /\ Goto(c, "numbered")
  /\ UNCHANGED <<rows, sess, ord, want, listed, held, bus>>

SameKey(c, q) == sess[q] = sess[c] /\ orderNo[q] = orderNo[c]

\* Another transaction has inserted the same (session_id, order_no).
KeyPending(c) == \E q \in Creators \ {c} : pc[q] = "flushed" /\ SameKey(c, q)

KeyTaken(c) == \E o \in orders : SameKey(c, o)

\* Variant: collisions are retried without end.
CreateInsert_Endless(c) ==
  /\ pc[c] = "numbered" /\ ~KeyPending(c)
  /\ Goto(c, IF KeyTaken(c) THEN "verified" ELSE "flushed")
  /\ UNCHANGED <<rows, orderNo, sess, ord, want, tries, listed, held, bus>>

\* Variant: no unique key on (session_id, order_no).
CreateInsert_NoKey(c) ==
  /\ pc[c] = "numbered"
  /\ Goto(c, "flushed")
  /\ UNCHANGED <<rows, orderNo, sess, ord, want, tries, listed, held, bus>>

\* Variant: a retry inserts the old number again.
CreateInsert_SameNumber(c) ==
  /\ pc[c] = "numbered" /\ ~KeyPending(c)
  /\ Goto(c, IF KeyTaken(c) THEN "numbered" ELSE "flushed")
  /\ UNCHANGED <<rows, orderNo, sess, ord, want, tries, listed, held, bus>>

\* Flush of the INSERT.  A collision rolls back and allocates again, and the
\* last allowed attempt answers 409.
CreateInsert(c) ==
  /\ pc[c] = "numbered"
  /\ ~KeyPending(c)
  /\ Goto(c, IF ~KeyTaken(c) THEN "flushed"
             ELSE IF tries[c] < MaxRetries THEN "verified" ELSE "refused")
  /\ UNCHANGED <<rows, orderNo, sess, ord, want, tries, listed, held, bus>>

CreateCommit(c) ==
  /\ pc[c] = "flushed"
  /\ orders' = orders \cup {c}
  /\ Goto(c, "committed")
  /\ UNCHANGED <<sStatus, expired, oStatus, deleted, history,
                 orderNo, sess, ord, want, tries, listed, held, bus>>

-----------------------------------------------------------------------------
(* Status change and delete: load a live order, update its row, commit.     *)

\* get_or_404: a deleted order is not found.
Load(r, o, label) ==
  /\ ord' = [ord EXCEPT ![r] = o]
  /\ sess' = [sess EXCEPT ![r] = sess[o]]
  /\ Goto(r, IF o \in deleted THEN "refused" ELSE label)

\* Setting the status the row already has leaves nothing to flush.
UpdateLoad(u) ==
  /\ pc[u] = "idle"
  /\ \E o \in orders, v \in OrderStatus :
       /\ Load(u, o, IF v = oStatus[o] THEN "unchanged" ELSE "loaded")
       /\ want' = [want EXCEPT ![u] = v]
  /\ UNCHANGED <<rows, orderNo, tries, listed, held, bus>>

UpdateFlush(u) ==
  /\ pc[u] = "loaded"
  /\ Take(u, ord[u])
  /\ Goto(u, "flushed")
  /\ UNCHANGED <<rows, orderNo, sess, ord, want, tries, listed, bus>>

\* Variant: the whole row is written back as it was loaded.
UpdateCommit_WholeRow(u) ==
  /\ \/ /\ pc[u] = "flushed"
        /\ oStatus' = [oStatus EXCEPT ![ord[u]] = want[u]]
        /\ deleted' = deleted \ {ord[u]}
     \/ pc[u] = "unchanged" /\ UNCHANGED <<oStatus, deleted>>
  /\ Goto(u, "committed")
  /\ Release(u)
  /\ UNCHANGED <<sStatus, expired, orders, history,
                 orderNo, sess, ord, want, tries, listed, bus>>

UpdateCommit(u) ==
  /\ \/ pc[u] = "flushed" /\ oStatus' = [oStatus EXCEPT ![ord[u]] = want[u]]
     \/ pc[u] = "unchanged" /\ UNCHANGED oStatus
  /\ Goto(u, "committed")
  /\ Release(u)
  /\ UNCHANGED <<sStatus, expired, orders, deleted, history,
                 orderNo, sess, ord, want, tries, listed, bus>>

DeleteLoad(d) ==
  /\ pc[d] = "idle"
  /\ \E o \in orders : Load(d, o, "loaded")
  /\ UNCHANGED <<rows, orderNo, want, tries, listed, held, bus>>

DeleteFlush(d) ==
  /\ pc[d] = "loaded"
  /\ Take(d, ord[d])
  /\ Goto(d, "flushed")
  /\ UNCHANGED <<rows, orderNo, sess, ord, want, tries, listed, bus>>

DeleteCommit(d) ==
  /\ pc[d] = "flushed"
  /\ deleted' = deleted \cup {ord[d]}
  /\ Goto(d, "committed")
  /\ Release(d)
  /\ UNCHANGED <<sStatus, expired, orders, oStatus, history,
                 orderNo, sess, ord, want, tries, listed, bus>>

-----------------------------------------------------------------------------
(* The administrator's close: copy the session's live orders to history,    *)
(* delete them and close the session, in one transaction.                   *)

\* get_session: the row only has to exist, its status is not looked at.
CloseLoad(a) ==
  /\ pc[a] = "idle"
  /\ \E s \in SessionRows : sess' = [sess EXCEPT ![a] = s]
  /\ Goto(a, "loaded")
  /\ UNCHANGED <<rows, orderNo, ord, want, tries, listed, held, bus>>

\* session_orders, each with the status the history row will carry.
CloseList(a) ==
  /\ pc[a] = "loaded"
  /\ listed' = [listed EXCEPT ![a] =
                  {[order |-> o, status |-> oStatus[o]] : o \in Live(sess[a])}]
  /\ Goto(a, "listed")
  /\ UNCHANGED <<rows, orderNo, sess, ord, want, tries, held, bus>>

\* The flush updates the session row first, then the orders.
CloseFlush(a) ==
  /\ pc[a] = "listed"
  /\ Take(a, sess[a])
  /\ Goto(a, "flushing")
  /\ UNCHANGED <<rows, orderNo, sess, ord, want, tries, listed, bus>>

ListedOrders(a) == {l.order : l \in listed[a]}

CloseFlushOrder(a) ==
  /\ pc[a] = "flushing"
  /\ \E o \in ListedOrders(a) \ held[a] : Take(a, o)
  /\ UNCHANGED <<rows, orderNo, pc, sess, ord, want, tries, listed, bus>>

\* The history rows a close inserts.
HistoryOf(a) ==
  {[closer |-> a, order |-> l.order, status |-> l.status] : l \in listed[a]}

\* Variant: whatever the session has by now is deleted, listed or not.
CloseCommit_DeletesAll(a) ==
  /\ pc[a] = "flushing" /\ ListedOrders(a) \subseteq held[a]
  /\ history' = history \cup HistoryOf(a)
  /\ deleted' = deleted \cup Live(sess[a])
  /\ sStatus' = [sStatus EXCEPT ![sess[a]] = "closed"]
  /\ Goto(a, "committed")
  /\ Release(a)
  /\ UNCHANGED <<expired, orders, oStatus,
                 orderNo, sess, ord, want, tries, listed, bus>>

\* Variant: the archived orders are not deleted.
CloseCommit_Copies(a) ==
  /\ pc[a] = "flushing" /\ ListedOrders(a) \subseteq held[a]
  /\ history' = history \cup HistoryOf(a)
  /\ UNCHANGED deleted
  /\ sStatus' = [sStatus EXCEPT ![sess[a]] = "closed"]
  /\ Goto(a, "committed")
  /\ Release(a)
  /\ UNCHANGED <<expired, orders, oStatus,
                 orderNo, sess, ord, want, tries, listed, bus>>

\* Variant: the session stays open.
CloseCommit_StaysOpen(a) ==
  /\ pc[a] = "flushing" /\ ListedOrders(a) \subseteq held[a]
  /\ history' = history \cup HistoryOf(a)
  /\ deleted' = deleted \cup ListedOrders(a)
  /\ UNCHANGED sStatus
  /\ Goto(a, "committed")
  /\ Release(a)
  /\ UNCHANGED <<expired, orders, oStatus,
                 orderNo, sess, ord, want, tries, listed, bus>>

CloseCommit(a) ==
  /\ pc[a] = "flushing"
  /\ ListedOrders(a) \subseteq held[a]
  /\ history' = history \cup HistoryOf(a)
  /\ deleted' = deleted \cup ListedOrders(a)
  /\ sStatus' = [sStatus EXCEPT ![sess[a]] = "closed"]
  /\ Goto(a, "committed")
  /\ Release(a)
  /\ UNCHANGED <<expired, orders, oStatus,
                 orderNo, sess, ord, want, tries, listed, bus>>

-----------------------------------------------------------------------------
(* The customer's close: the session is closed, its orders are left alone,  *)
(* and nothing is published.                                                *)

LeaveVerify(l) ==
  /\ pc[l] = "idle"
  /\ \E s \in SessionRows :
       /\ sess' = [sess EXCEPT ![l] = s]
       /\ Goto(l, IF Valid(s) THEN "verified" ELSE "refused")
  /\ UNCHANGED <<rows, orderNo, ord, want, tries, listed, held, bus>>

LeaveFlush(l) ==
  /\ pc[l] = "verified"
  /\ Take(l, sess[l])
  /\ Goto(l, "flushed")
  /\ UNCHANGED <<rows, orderNo, sess, ord, want, tries, listed, bus>>

LeaveCommit(l) ==
  /\ pc[l] = "flushed"
  /\ sStatus' = [sStatus EXCEPT ![sess[l]] = "closed"]
  /\ Goto(l, "done")
  /\ Release(l)
  /\ UNCHANGED <<expired, orders, oStatus, deleted, history,
                 orderNo, sess, ord, want, tries, listed, bus>>

-----------------------------------------------------------------------------
(* _publish, after the commit: the store topic, then the session topic.     *)

Publish(r, topic) == bus' = [bus EXCEPT ![topic] = @ \cup {r}]

\* Variant: the event may go out before the commit.
PublishStore_Early(r) ==
  /\ pc[r] \in {"flushed", "committed"}
  /\ Publish(r, Store)
  /\ Goto(r, IF pc[r] = "committed" THEN "told" ELSE pc[r])
  /\ UNCHANGED <<rows, orderNo, sess, ord, want, tries, listed, held>>

\* Variant: the session topic is forgotten.
PublishStore_Only(r) ==
  /\ pc[r] = "committed"
  /\ Publish(r, Store)
  /\ Goto(r, "done")
  /\ UNCHANGED <<rows, orderNo, sess, ord, want, tries, listed, held>>

PublishStore(r) ==
  /\ pc[r] = "committed"
  /\ Publish(r, Store)
  /\ Goto(r, "told")
  /\ UNCHANGED <<rows, orderNo, sess, ord, want, tries, listed, held>>

PublishSession(r) ==
  /\ pc[r] = "told"
  /\ Publish(r, sess[r])
  /\ Goto(r, "done")
  /\ UNCHANGED <<rows, orderNo, sess, ord, want, tries, listed, held>>

-----------------------------------------------------------------------------
(* Failures.  A database error before the commit rolls the transaction      *)
(* back.  A crash of the process does that to every open transaction, and   *)
(* the events of the committed ones are never published.                    *)

CanAbort(r) == InFlight(r) /\ pc[r] \notin Committed

\* Variant: the transaction of a failed request is not rolled back.
Abort_KeepsRows(r) ==
  /\ MayFail
  /\ CanAbort(r)
  /\ Goto(r, "aborted")
  /\ UNCHANGED <<rows, orderNo, sess, ord, want, tries, listed, held, bus>>

Abort(r) ==
  /\ MayFail
  /\ CanAbort(r)
  /\ Goto(r, "aborted")
  /\ Release(r)
  /\ UNCHANGED <<rows, orderNo, sess, ord, want, tries, listed, bus>>

Crash ==
  /\ MayFail
  /\ \E r \in Req : InFlight(r)
  /\ pc' = [r \in Req |-> IF CanAbort(r) THEN "aborted"
                          ELSE IF InFlight(r) THEN "done" ELSE pc[r]]
  /\ held' = [r \in Req |-> {}]
  /\ UNCHANGED <<rows, orderNo, sess, ord, want, tries, listed, bus>>

\* Nothing is in flight and no further request comes.
Quiet ==
  /\ \A r \in Req : ~InFlight(r)
  /\ UNCHANGED vars

-----------------------------------------------------------------------------
StartStep(r) == StartExpire(r) \/ StartInsert(r) \/ StartCommit(r)
CreateStep(c) == CreateNumber(c) \/ CreateInsert(c) \/ CreateCommit(c)
UpdateStep(u) == UpdateFlush(u) \/ UpdateCommit(u)
DeleteStep(d) == DeleteFlush(d) \/ DeleteCommit(d)
CloseStep(a) == CloseList(a) \/ CloseFlush(a) \/ CloseFlushOrder(a) \/ CloseCommit(a)
LeaveStep(l) == LeaveFlush(l) \/ LeaveCommit(l)
PublishStep(r) == PublishStore(r) \/ PublishSession(r)

Next ==
  \/ \E r \in Starters : StartRead(r) \/ StartStep(r) \/ Expire(r)
  \/ \E c \in Creators : CreateVerify(c) \/ CreateStep(c)
  \/ \E u \in Updaters : UpdateLoad(u) \/ UpdateStep(u)
  \/ \E d \in Deleters : DeleteLoad(d) \/ DeleteStep(d)
  \/ \E a \in Closers : CloseLoad(a) \/ CloseStep(a)
  \/ \E l \in Leavers : LeaveVerify(l) \/ LeaveStep(l)
  \/ \E r \in Publishers : PublishStep(r)
  \/ \E r \in Req : Abort(r)
  \/ Crash
  \/ Quiet

Spec == Init /\ [][Next]_vars

\* A worker thread goes on with the request it serves, and PostgreSQL grants
\* a row to somebody who waits for it; whether a client sends a request, a
\* session gets old or something fails is not up to the program.
Fairness ==
  /\ \A r \in Starters : WF_vars(StartStep(r))
  /\ \A c \in Creators : WF_vars(CreateStep(c))
  /\ \A u \in Updaters : WF_vars(UpdateStep(u))
  /\ \A d \in Deleters : WF_vars(DeleteStep(d))
  /\ \A a \in Closers : WF_vars(CloseStep(a))
  /\ \A l \in Leavers : WF_vars(LeaveStep(l))
  /\ \A r \in Publishers : WF_vars(PublishStep(r))

FairSpec == Spec /\ Fairness

-----------------------------------------------------------------------------
(* Types.                                                                  *)

Rows == Starters \cup Creators
Label == {"idle", "found", "insert", "verified", "numbered", "loaded", "unchanged",
          "listed", "flushing", "flushed", "committed", "told"} \cup Final

TypeOK ==
  /\ sStatus \in [Starters -> {"none", "active", "closed"}]
  /\ expired \subseteq Starters
  /\ orders \subseteq Creators
  /\ orderNo \in [Creators -> Nat]
  /\ oStatus \in [Creators -> OrderStatus]
  /\ deleted \subseteq orders
  /\ history \subseteq [closer : Closers, order : orders, status : OrderStatus]
  /\ pc \in [Req -> Label]
  /\ sess \in [Req -> Starters \cup {NoSession}]
  /\ ord \in [Updaters \cup Deleters -> Creators \cup {NoOrder}]
  /\ want \in [Updaters -> OrderStatus]
  /\ tries \in [Creators -> 0 .. MaxRetries]
  /\ listed \in [Closers -> SUBSET [order : orders, status : OrderStatus]]
  /\ held \in [Req -> SUBSET Rows]
  /\ bus \in [Topics -> SUBSET Publishers]

-----------------------------------------------------------------------------
(* Safety.                                                                 *)

\* However start requests, expiry and closes interleave, a table never has
\* two active sessions (start_session, uq_active_session_per_table).
AtMostOneActive ==
  \A s, t \in Starters :
    (sStatus[s] = "active" /\ sStatus[t] = "active" /\ TableOf[s] = TableOf[t])
      => s = t

\* The order numbers of a session, deleted orders included, are 1, 2, ... n
\* without gap or repetition, whichever creates collide, retry or abort
\* (max_order_no, the retry loop of create, uq_order_session_no).
OrderNumbersContiguous ==
  \A o \in orders :
    /\ orderNo[o] > 0
    /\ \A n \in 1 .. orderNo[o] - 1 : n \in Numbers(sess[o])
    /\ \A p \in orders : SameKey(o, p) => p = o

\* A create is answered 409 only after as many other orders were committed in
\* its session as it made attempts: a create without rivals never is.
ConflictNeedsContention ==
  \A c \in Creators :
    (pc[c] = "refused" /\ tries[c] > 0) => 1 .. MaxRetries \subseteq Numbers(sess[c])

\* The orders whose deletion by an administrator is committed.
AdminDeleted == {ord[d] : d \in {q \in Deleters : pc[q] \in Committed}}

\* An order disappears from the current list only into history or because an
\* administrator deleted it: no close drops one that was ordered meanwhile.
NothingLost == deleted \subseteq AdminDeleted \cup Archived

\* An order that is in history is not current any more and its session is
\* closed: close_session moves orders, it does not copy them.
ArchivedIsGone == \A o \in Archived : o \in deleted /\ sStatus[sess[o]] = "closed"

\* The database already holds what the event of request r announces.
Announced(r) ==
  /\ r \in Creators => r \in orders
  /\ r \in Updaters => ord[r] \in orders
  /\ r \in Deleters => ord[r] \in deleted
  /\ r \in Closers => sStatus[sess[r]] = "closed" /\ ListedOrders(r) \subseteq deleted

\* Every published event tells of something committed, on the store's topic
\* and on no other session's topic than that of the session it is about.
EventsTruthful ==
  \A t \in Topics : \A r \in bus[t] : Announced(r) /\ t \in {Store, sess[r]}

\* The rows r has to get before it can go on: those its next statement updates,
\* and the rivals of its INSERT, each of which may be being closed.
Awaited(r) == {row \in Rows :
  \/ r \in Starters /\ pc[r] = "found" /\ row = sess[r]
  \/ r \in Starters /\ pc[r] = "insert" /\ row \in ActiveRivals(r)
  \/ r \in Updaters \cup Deleters /\ pc[r] = "loaded" /\ row = ord[r]
  \/ r \in Closers /\ pc[r] = "listed" /\ row = sess[r]
  \/ r \in Closers /\ pc[r] = "flushing" /\ row \in ListedOrders(r) \ held[r]
  \/ r \in Leavers /\ pc[r] = "verified" /\ row = sess[r]}

\* Another transaction has inserted the unique key that r inserts next.
KeyAwaited(r) ==
  \/ r \in Starters /\ pc[r] = "insert" /\ PendingRivals(r) # {}
  \/ r \in Creators /\ pc[r] = "numbered" /\ KeyPending(r)

\* Open transactions never wait for each other's rows and keys in a circle,
\* which PostgreSQL would end with an error, nor for a transaction nobody will
\* end: as long as one is open, one of them finds all it needs free (the
\* session row before the orders in the flush of close_session, the rollback of
\* get_db).
NoCircularWait ==
  LET Open == {r \in Req : CanAbort(r)}
  IN  Open # {} => \E r \in Open :
        ~KeyAwaited(r) /\ \A row \in Awaited(r) : RowFree(row)

\* Committed rows only move forward: a closed session stays closed, a deleted
\* or archived order never comes back, and an order keeps its number and
\* session, whichever stale copy a concurrent request writes from.
RowsOnlyMoveForward ==
  [][/\ orders \subseteq orders' /\ deleted \subseteq deleted' /\ history \subseteq history'
     /\ \A s \in Starters : /\ sStatus[s] = "closed" => sStatus'[s] = "closed"
                            /\ sStatus[s] = "active" => sStatus'[s] # "none"
     /\ \A o \in orders : orderNo'[o] = orderNo[o] /\ sess'[o] = sess[o]]_vars

-----------------------------------------------------------------------------
(* Liveness.                                                               *)

\* Every request in flight ends, and as there are only so many, nothing is in
\* flight at last: no transaction waits for ever for the rows or keys of
\* others, and the retry loop of create stops.
RequestsEnd == <>[](\A r \in Req : ~InFlight(r))

\* When nothing crashes, whatever is committed is announced on both topics in
\* the end.
CommitsAnnounced ==
  <>[](\A r \in Publishers :
         pc[r] \in Committed => r \in bus[Store] /\ r \in bus[sess[r]])

-----------------------------------------------------------------------------
(* What the safety properties rest on: the inductive invariant.             *)

\* A request that has loaded rows refers to committed ones, and a create that
\* may still allocate has attempts left.
RefersToRows ==
  /\ \A c \in Creators : /\ pc[c] = "idle" => tries[c] = 0
                         /\ pc[c] = "verified" => tries[c] < MaxRetries
  /\ \A r \in Updaters \cup Deleters :
       pc[r] \in {"loaded", "unchanged", "flushed"} \cup Committed => ord[r] \in orders
  /\ \A r \in Req :
       pc[r] \in {"found", "verified", "numbered", "loaded", "unchanged", "listed",
                  "flushing", "committed", "told"} => sess[r] \in SessionRows
  /\ \A r \in Req \ Starters : pc[r] \in {"flushed", "done"} => sess[r] \in SessionRows
  /\ \A r \in Req : sess[r] \in SessionRows \cup {NoSession}
  /\ \A o \in orders : sess[o] \in SessionRows

\* An order exists only once its create is committed.
OrderedAtCommit == \A c \in orders : pc[c] \in Committed

\* An uncommitted order number is the next one, and no other transaction has
\* inserted or committed the same.
NumbersInFlight ==
  /\ \A c \in Creators : pc[c] \in {"numbered", "flushed"} =>
       orderNo[c] > 0 /\ \A n \in 1 .. orderNo[c] - 1 : n \in Numbers(sess[c])
  /\ \A c \in Creators : pc[c] = "flushed" => ~KeyPending(c) /\ ~KeyTaken(c)

\* Each attempt that collided left one more number behind it.
AttemptsBehind ==
  \A c \in Creators :
    /\ pc[c] = "verified" => 1 .. tries[c] \subseteq Numbers(sess[c])
    /\ pc[c] = "numbered" => tries[c] > 0 /\ tries[c] <= orderNo[c]

\* An uncommitted new session is the only one of its table, except for the
\* expired one its own transaction closes.
StartsInFlight ==
  /\ \A s \in Starters : sStatus[s] # "none" => pc[s] = "done"
  /\ \A r \in Starters : sess[r] # NoSession => TableOf[sess[r]] = TableOf[r]
  /\ \A r \in Starters : pc[r] = "flushed" =>
       ActiveRivals(r) = {} /\ PendingRivals(r) = {}

\* What a close has listed belongs to its session.
ListedOfSession ==
  \A a \in Closers : pc[a] \in {"listed", "flushing"} =>
    \A o \in ListedOrders(a) : sess[o] = sess[a]

\* Who holds rows, and when: no row is held twice, a start holds the session it
\* closes until it is committed, and a close holds its session's row before it
\* holds any of the orders it has listed.
LocksInFlight ==
  /\ \A q, r \in Req : q # r => Disjoint(held[q], held[r])
  /\ \A r \in Starters : held[r] # {} =>
       pc[r] \in {"insert", "flushed"} /\ held[r] = {sess[r]}
  /\ \A c \in Creators : held[c] = {}
  /\ \A r \in Updaters \cup Deleters \cup Leavers : held[r] # {} => pc[r] = "flushed"
  /\ \A a \in Closers : held[a] # {} =>
       pc[a] = "flushing" /\ held[a] \subseteq {sess[a]} \cup ListedOrders(a)
  /\ \A a \in Closers : pc[a] = "flushing" => sess[a] \in held[a]

\* Whoever is committed has done what its event announces, and only then is
\* its event on a topic.
AnnouncedAtCommit ==
  /\ \A r \in Publishers : pc[r] \in Committed => Announced(r)
  /\ \A t \in Topics : \A r \in bus[t] :
       pc[r] \in {"told", "done"} /\ t \in {Store, sess[r]}

IInv ==
  /\ TypeOK /\ RefersToRows
  /\ OrderedAtCommit /\ NumbersInFlight /\ AttemptsBehind
  /\ OrderNumbersContiguous /\ ConflictNeedsContention
  /\ StartsInFlight /\ AtMostOneActive
  /\ ListedOfSession /\ LocksInFlight /\ NothingLost /\ ArchivedIsGone
  /\ AnnouncedAtCommit /\ EventsTruthful

-----------------------------------------------------------------------------
(* What the documents say and the code does not do.                        *)

\* Closing a session again moves nothing a second time (requirements NFR-T3,
\* BR-O18): no order is in history twice.
ArchivedOnce ==
  \A h, k \in history : h.order = k.order => h = k

=============================================================================
