----------------------- MODULE OrderDeskLedger_proofs -----------------------
(* OrderDesk implements Ledger, for every set of requests. *)
EXTENDS OrderDeskLedger, OrderDesk_proofs

\* The initial state of the order desk is that of an empty ledger.
LEMMA LedgerInit == Init => Desk!Init
BY DEF Init, Desk!Init, PlacedIn, NumberOf, Archived

\* Unless an order is committed, the placed orders and numbers are the same.
LEMMA MappingKept ==
  ASSUME TInv, Forward, orders' = orders
  PROVE  PlacedIn' = PlacedIn /\ NumberOf' = NumberOf
BY DEF PlacedIn, NumberOf, Forward, TInv, TypeOK

\* The ledger's placed orders and their numbers are the committed rows.
LEMMA MappingRows ==
  ASSUME TInv
  PROVE  /\ Desk!Placed = orders
         /\ \A s \in Starters : Desk!NumbersOf(s) = Numbers(s)
<1>1. \A o \in Creators : PlacedIn[o] # NoSession <=> o \in orders
  BY KindsApart DEF PlacedIn, TInv, RefersToRows, SessionRows, Req
<1>2. Desk!Placed = orders
  BY <1>1 DEF Desk!Placed, TInv, TypeOK
<1>3. ASSUME NEW s \in Starters PROVE Desk!NumbersOf(s) = Numbers(s)
  BY <1>2 DEF Desk!NumbersOf, Numbers, PlacedIn, NumberOf, TInv, TypeOK
<1>4. QED
  BY <1>2, <1>3

\* The steps that commit nothing.
LEMMA CommitsNothing ==
  ASSUME TInv, Forward, [Next]_vars,
         ~ \E r \in Starters : StartCommit(r),
         ~ \E c \in Creators : CreateCommit(c),
         ~ \E u \in Updaters : UpdateCommit(u),
         ~ \E d \in Deleters : DeleteCommit(d),
         ~ \E a \in Closers : CloseCommit(a),
         ~ \E l \in Leavers : LeaveCommit(l)
  PROVE  UNCHANGED <<sStatus, PlacedIn, NumberOf, oStatus, deleted, Archived>>
<1>1. UNCHANGED <<sStatus, orders, oStatus, deleted, history>>
  BY DEF Next, Quiet, vars, rows, StartStep, CreateStep, UpdateStep, DeleteStep, CloseStep,
         LeaveStep, PublishStep, StartRead, StartExpire, StartInsert, Expire,
         CreateVerify, CreateNumber, CreateInsert, UpdateLoad, UpdateFlush,
         DeleteLoad, DeleteFlush, CloseLoad, CloseList, CloseFlush, CloseFlushOrder,
         LeaveVerify, LeaveFlush, PublishStore, PublishSession, Abort, Crash
<1>2. QED
  BY <1>1, MappingKept DEF Archived

\* Every commit is the ledger operation of its request; nothing else shows.
LEMMA LedgerStep ==
  TInv /\ TInv' /\ NInv /\ SInv /\ HInv /\ [Next]_vars => [Desk!Next]_(Desk!ledger)
<1> SUFFICES ASSUME TInv, TInv', NInv, SInv, HInv, [Next]_vars
             PROVE  [Desk!Next]_(Desk!ledger)
  OBVIOUS
<1>1. Forward
  BY StepForward
<1>2. ASSUME NEW r \in Starters, StartCommit(r) PROVE Desk!Next
  <2>1. /\ sStatus[r] = "none" /\ ActiveRivals(r) = {}
        /\ sess[r] # NoSession => TableOf[sess[r]] = TableOf[r] /\ sStatus[sess[r]] # "none"
    BY <1>2 DEF StartCommit, SInv, StartsInFlight, TInv, RefersToRows, SessionRows, Req
  <2>2. sStatus' = [t \in Starters |->
                      IF t = r THEN "active"
                      ELSE IF TableOf[t] = TableOf[r] /\ sStatus[t] = "active" THEN "closed"
                      ELSE sStatus[t]]
    <3>1. ASSUME NEW t \in Starters, t # r, t # sess[r]
          PROVE  ~ (TableOf[t] = TableOf[r] /\ sStatus[t] = "active")
      BY <2>1, <3>1 DEF ActiveRivals, ActiveOn
    <3>2. ASSUME sess[r] \in Starters
          PROVE  TableOf[sess[r]] = TableOf[r] /\ sStatus[sess[r]] \in {"active", "closed"}
      BY <2>1, <3>2, KindsApart DEF TInv, TypeOK, Req
    <3>3. sStatus' = [t \in Starters |-> IF t = r THEN "active"
                                         ELSE IF t = sess[r] THEN "closed"
                                         ELSE sStatus[t]]
      BY <1>2 DEF StartCommit
    <3>4. ASSUME NEW t \in Starters, t # r
          PROVE  sStatus'[t] = IF TableOf[t] = TableOf[r] /\ sStatus[t] = "active"
                               THEN "closed" ELSE sStatus[t]
      BY <3>1, <3>2, <3>3, <3>4
    <3>5. QED
      BY <3>3, <3>4
  <2>3. UNCHANGED <<PlacedIn, NumberOf, oStatus, deleted, Archived>>
    BY <1>1, <1>2, MappingKept DEF StartCommit, Archived
  <2>4. Desk!Open(r)
    BY <2>1, <2>2, <2>3 DEF Desk!Open
  <2>5. QED
    BY <2>4 DEF Desk!Next
<1>3. ASSUME NEW c \in Creators, CreateCommit(c) PROVE Desk!Next
  <2>1. /\ pc[c] = "flushed" /\ orders' = orders \cup {c} /\ sess[c] \in SessionRows
        /\ UNCHANGED <<orderNo, sess, sStatus, oStatus, deleted, history>>
    BY <1>3, KindsApart DEF CreateCommit, TInv, RefersToRows, Req
  <2>2. c \notin orders
    BY <2>1 DEF NInv, OrderedAtCommit, Committed
  <2>3. sess[c] \in Starters /\ sStatus[sess[c]] # "none"
    BY <2>1 DEF SessionRows
  <2>4. PlacedIn' = [PlacedIn EXCEPT ![c] = sess[c]]
    BY <2>1, <2>2 DEF PlacedIn
  <2>5. NumberOf' = [NumberOf EXCEPT ![c] = orderNo[c]]
    BY <2>1, <2>2 DEF NumberOf
  <2>6. /\ orderNo[c] \in Nat /\ orderNo[c] > 0
        /\ 1 .. orderNo[c] - 1 \subseteq Numbers(sess[c])
        /\ orderNo[c] \notin Numbers(sess[c])
    BY <2>1 DEF NInv, NumbersInFlight, KeyTaken, SameKey, Numbers, TInv, TypeOK
  <2>7. orderNo[c] \in {1} \cup {m + 1 : m \in Numbers(sess[c])}
    <3>1. CASE orderNo[c] = 1
      BY <3>1
    <3>2. CASE orderNo[c] # 1
      <4>1. orderNo[c] - 1 \in Numbers(sess[c])
        BY <2>6, <3>2
      <4>2. QED
        BY <2>6, <4>1
    <3>3. QED
      BY <3>1, <3>2
  <2>8. Desk!Place(c, sess[c])
    <3>1. c \notin Desk!Placed /\ Desk!NumbersOf(sess[c]) = Numbers(sess[c])
      BY <2>2, <2>3, MappingRows
    <3>2. UNCHANGED <<sStatus, oStatus, deleted, Archived>>
      BY <2>1 DEF Archived
    <3>3. QED
      BY <2>3, <2>4, <2>5, <2>6, <2>7, <3>1, <3>2 DEF Desk!Place
  <2>9. QED
    BY <2>3, <2>8 DEF Desk!Next
<1>4. ASSUME NEW u \in Updaters, UpdateCommit(u) PROVE [Desk!Next]_(Desk!ledger)
  <2>1. UNCHANGED <<sStatus, PlacedIn, NumberOf, deleted, Archived>>
    BY <1>1, <1>4, MappingKept DEF UpdateCommit, Archived
  <2>2. CASE UNCHANGED oStatus
    BY <2>1, <2>2 DEF Desk!ledger
  <2>3. CASE pc[u] = "flushed" /\ oStatus' = [oStatus EXCEPT ![ord[u]] = want[u]]
    <3>1. ord[u] \in orders /\ want[u] \in Desk!OrderStates
      BY <2>3 DEF TInv, TypeOK, RefersToRows, OrderStatus, Desk!OrderStates
    <3>2. Desk!SetState(ord[u], want[u])
      BY <2>1, <2>3, <3>1, MappingRows DEF Desk!SetState
    <3>3. QED
      BY <3>1, <3>2 DEF Desk!Next, TInv, TypeOK
  <2>4. QED
    BY <1>4, <2>2, <2>3 DEF UpdateCommit
<1>5. ASSUME NEW d \in Deleters, DeleteCommit(d) PROVE Desk!Next
  <2>1. UNCHANGED <<sStatus, PlacedIn, NumberOf, oStatus, Archived>>
    BY <1>1, <1>5, MappingKept DEF DeleteCommit, Archived
  <2>2. ord[d] \in orders /\ deleted' = deleted \cup {ord[d]}
    BY <1>5 DEF DeleteCommit, TInv, RefersToRows
  <2>3. Desk!Remove(ord[d])
    BY <2>1, <2>2, MappingRows DEF Desk!Remove
  <2>4. QED
    BY <2>2, <2>3 DEF Desk!Next, TInv, TypeOK
<1>6. ASSUME NEW a \in Closers, CloseCommit(a) PROVE Desk!Next
  <2>1. UNCHANGED <<PlacedIn, NumberOf, oStatus>>
    BY <1>1, <1>6, MappingKept DEF CloseCommit
  <2>2. /\ sess[a] \in Starters /\ sStatus[sess[a]] # "none"
        /\ sStatus' = [sStatus EXCEPT ![sess[a]] = "closed"]
        /\ deleted' = deleted \cup ListedOrders(a)
        /\ pc[a] = "flushing"
    BY <1>6 DEF CloseCommit, TInv, RefersToRows, SessionRows, Req
  <2>3. Archived' = Archived \cup ListedOrders(a)
    BY <1>6, ArchivedByClose
  <2>4. \A o \in ListedOrders(a) : o \in orders /\ PlacedIn[o] = sess[a]
    BY <2>2 DEF ListedOrders, PlacedIn, HInv, ListedOfSession, TInv, TypeOK
  <2>5. Desk!Archive(sess[a], ListedOrders(a))
    BY <2>1, <2>2, <2>3, <2>4, MappingRows DEF Desk!Archive
  <2>6. ListedOrders(a) \in SUBSET Creators
    BY <2>4 DEF TInv, TypeOK
  <2>7. QED
    BY <2>2, <2>5, <2>6 DEF Desk!Next
<1>7. ASSUME NEW l \in Leavers, LeaveCommit(l) PROVE Desk!Next
  <2>1. UNCHANGED <<PlacedIn, NumberOf, oStatus, deleted, Archived>>
    BY <1>1, <1>7, MappingKept DEF LeaveCommit, Archived
  <2>2. /\ sess[l] \in Starters /\ sStatus[sess[l]] # "none"
        /\ sStatus' = [sStatus EXCEPT ![sess[l]] = "closed"]
    BY <1>7, KindsApart DEF LeaveCommit, TInv, RefersToRows, SessionRows, Req
  <2>3. Desk!Close(sess[l])
    BY <2>1, <2>2 DEF Desk!Close
  <2>4. QED
    BY <2>2, <2>3 DEF Desk!Next
<1>8. QED
  BY <1>1, <1>2, <1>3, <1>4, <1>5, <1>6, <1>7, CommitsNothing DEF Desk!ledger

\* The order desk implements the ledger: its transactions, however they
\* interleave, abort or crash, act as the ledger's atomic operations.
THEOREM Refinement == Spec => ImplementsLedger
<1>1. QED
  BY LedgerInit, LedgerStep, Typing, NumbersInvariant, SessionsInvariant,
     HistoryInvariant, PTL
  DEF Spec, ImplementsLedger, Desk!Spec

=============================================================================
