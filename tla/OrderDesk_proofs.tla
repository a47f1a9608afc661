-------------------------- MODULE OrderDesk_proofs --------------------------
(* Invariance proofs for OrderDesk. *)
EXTENDS OrderDesk, TLAPS

\* No request is of two kinds.
LEMMA KindsApart ==
  ASSUME NEW r \in Req
  PROVE  /\ r \in Starters => r \notin Creators \cup Updaters \cup Deleters \cup Closers \cup Leavers
         /\ r \in Creators => r \notin Updaters \cup Deleters \cup Closers \cup Leavers
         /\ r \in Updaters => r \notin Deleters \cup Closers \cup Leavers
         /\ r \in Deleters => r \notin Closers \cup Leavers
         /\ r \in Closers => r \notin Leavers
         /\ r # NoSession /\ r # NoOrder /\ r # Store
BY KindsDisjoint, NoValues DEF Disjoint

\* What every step preserves about types and references.
TInv == TypeOK /\ RefersToRows

\* Initially every variable has its type and nothing refers to a row.
LEMMA TInvInit == Init => TInv
BY RetriesType, KindsApart, NoValues DEF Init, TInv, TypeOK, RefersToRows, Req, Label, Final, OrderStatus, Committed,
       SessionRows

\* No handler step breaks a type or leaves a reference to an uncommitted row.
LEMMA TInvNext == TInv /\ [Next]_vars => TInv'
<1> SUFFICES ASSUME TInv, [Next]_vars PROVE TInv'
  OBVIOUS
<1> USE KindsApart, RetriesType, TableOfType
    DEF TInv, TypeOK, RefersToRows, Req, Label, Final, OrderStatus, Committed,
        rows, Goto, Release, Rows, Publishers, Topics, SessionRows
<1>1. ASSUME NEW r \in Starters, StartRead(r) PROVE TInv'
  <2>1. CASE ActiveOn(TableOf[r]) = {} /\ Goto(r, "insert") /\ UNCHANGED sess
    BY <1>1, <2>1 DEF StartRead
  <2>2. ASSUME NEW s \in SessionRows, sess' = [sess EXCEPT ![r] = s],
               Goto(r, IF s \in expired THEN "found" ELSE "done")
        PROVE  TInv'
    BY <1>1, <2>2 DEF StartRead
  <2>3. QED
    BY <1>1, <2>1, <2>2 DEF StartRead, ActiveOn
<1>2. ASSUME NEW r \in Starters, StartExpire(r) PROVE TInv'
  BY <1>2 DEF StartExpire, Take
<1>3. ASSUME NEW r \in Starters, StartInsert(r) PROVE TInv'
  <2>1. CASE Goto(r, "flushed") /\ UNCHANGED held
    BY <1>3, <2>1 DEF StartInsert
  <2>2. CASE Goto(r, "refused") /\ Release(r)
    BY <1>3, <2>2 DEF StartInsert
  <2>3. QED
    BY <1>3, <2>1, <2>2 DEF StartInsert
<1>4. ASSUME NEW r \in Starters, StartCommit(r) PROVE TInv'
  BY <1>4 DEF StartCommit
<1>5. ASSUME NEW r \in Starters, Expire(r) PROVE TInv'
  BY <1>5 DEF Expire
<1>6. ASSUME NEW c \in Creators, CreateVerify(c) PROVE TInv'
  <2>1. PICK s \in Starters : sStatus[s] # "none" /\ sess' = [sess EXCEPT ![c] = s]
    BY <1>6 DEF CreateVerify
  <2>2. \/ pc' = [pc EXCEPT ![c] = "verified"]
        \/ pc' = [pc EXCEPT ![c] = "refused"]
    BY <1>6 DEF CreateVerify
  <2>3. TypeOK'
    <3>1. pc' \in [Req -> Label] /\ sess' \in [Req -> Starters \cup {NoSession}]
      <4>1. pc \in [Req -> Label] /\ sess \in [Req -> Starters \cup {NoSession}]
        OBVIOUS
      <4>2. {"verified", "refused"} \subseteq Label
        OBVIOUS
      <4> HIDE DEF TInv, TypeOK, RefersToRows, Req, Label, Final
      <4> QED
        BY <2>1, <2>2, <4>1, <4>2
    <3>2. UNCHANGED <<rows, orderNo, ord, want, tries, listed, held, bus>>
      BY <1>6 DEF CreateVerify
    <3> QED
      BY <3>1, <3>2
  <2>4. RefersToRows'
    BY <1>6, <2>1, <2>2 DEF CreateVerify
  <2>5. QED
    BY <2>3, <2>4
<1>7. ASSUME NEW c \in Creators, CreateNumber(c) PROVE TInv'
  BY <1>7 DEF CreateNumber, Numbers
<1>8. ASSUME NEW c \in Creators, CreateInsert(c) PROVE TInv'
  BY <1>8 DEF CreateInsert
<1>9. ASSUME NEW c \in Creators, CreateCommit(c) PROVE TInv'
  BY <1>9 DEF CreateCommit
<1>10. ASSUME NEW u \in Updaters, UpdateLoad(u) PROVE TInv'
  BY <1>10 DEF UpdateLoad, Load
<1>11. ASSUME NEW u \in Updaters, UpdateFlush(u) PROVE TInv'
  BY <1>11 DEF UpdateFlush, Take
<1>12. ASSUME NEW u \in Updaters, UpdateCommit(u) PROVE TInv'
  <2>1. CASE pc[u] = "flushed" /\ oStatus' = [oStatus EXCEPT ![ord[u]] = want[u]]
    BY <1>12, <2>1 DEF UpdateCommit
  <2>2. CASE pc[u] = "unchanged" /\ UNCHANGED oStatus
    BY <1>12, <2>2 DEF UpdateCommit
  <2>3. QED
    BY <1>12, <2>1, <2>2 DEF UpdateCommit
<1>13. ASSUME NEW d \in Deleters, DeleteLoad(d) PROVE TInv'
  BY <1>13 DEF DeleteLoad, Load
<1>14. ASSUME NEW d \in Deleters, DeleteFlush(d) PROVE TInv'
  BY <1>14 DEF DeleteFlush, Take
<1>15. ASSUME NEW d \in Deleters, DeleteCommit(d) PROVE TInv'
  <2>1. ord[d] \in orders
    BY <1>15 DEF DeleteCommit
  <2>2. TypeOK'
    BY <1>15, <2>1 DEF DeleteCommit
  <2>3. RefersToRows'
    BY <1>15 DEF DeleteCommit
  <2>4. QED
    BY <2>2, <2>3
<1>16. ASSUME NEW a \in Closers, CloseLoad(a) PROVE TInv'
  BY <1>16 DEF CloseLoad
<1>17. ASSUME NEW a \in Closers, CloseList(a) PROVE TInv'
  BY <1>17 DEF CloseList, Live
<1>18. ASSUME NEW a \in Closers, CloseFlush(a) PROVE TInv'
  BY <1>18 DEF CloseFlush, Take
<1>19. ASSUME NEW a \in Closers, CloseFlushOrder(a) PROVE TInv'
  BY <1>19 DEF CloseFlushOrder, Take, ListedOrders
<1>20. ASSUME NEW a \in Closers, CloseCommit(a) PROVE TInv'
  BY <1>20 DEF CloseCommit, ListedOrders, HistoryOf
<1>21. ASSUME NEW l \in Leavers, LeaveVerify(l) PROVE TInv'
  BY <1>21 DEF LeaveVerify
<1>22. ASSUME NEW l \in Leavers, LeaveFlush(l) PROVE TInv'
  BY <1>22 DEF LeaveFlush, Take
<1>23. ASSUME NEW l \in Leavers, LeaveCommit(l) PROVE TInv'
  BY <1>23 DEF LeaveCommit
<1>24. ASSUME NEW r \in Publishers, PublishStore(r) PROVE TInv'
  BY <1>24 DEF PublishStore, Publish
<1>25. ASSUME NEW r \in Publishers, PublishSession(r) PROVE TInv'
  BY <1>25 DEF PublishSession, Publish
<1>26. ASSUME NEW r \in Req, Abort(r) PROVE TInv'
  BY <1>26 DEF Abort, CanAbort, InFlight
<1>27. CASE Crash
  BY <1>27 DEF Crash, CanAbort, InFlight
<1>28. CASE UNCHANGED vars
  BY <1>28 DEF vars
<1>29. QED
  BY <1>1, <1>2, <1>3, <1>4, <1>5, <1>6, <1>7, <1>8, <1>9, <1>10, <1>11, <1>12, <1>13, <1>14,
     <1>15, <1>16, <1>17, <1>18, <1>19, <1>20, <1>21, <1>22, <1>23, <1>24, <1>25, <1>26, <1>27, <1>28
  DEF Next, Quiet, StartStep, CreateStep, UpdateStep, DeleteStep, CloseStep, LeaveStep, PublishStep

\* Every value the system can hold has its type, and requests refer to rows
\* that are committed.
THEOREM Typing == Spec => []TInv
<1>1. QED
  BY TInvInit, TInvNext, PTL DEF Spec

\* Every variable keeps its type; in particular a create never computes more
\* than MaxRetries order numbers, and only committed orders are deleted or
\* archived.
THEOREM TypeCorrect == Spec => []TypeOK
<1>1. TInv => TypeOK
  BY DEF TInv
<1>2. QED
  BY <1>1, Typing, PTL

-----------------------------------------------------------------------------
(* Order numbers.                                                          *)

NInv ==
  /\ OrderedAtCommit /\ NumbersInFlight /\ AttemptsBehind
  /\ OrderNumbersContiguous /\ ConflictNeedsContention

\* How the pc of a request moves in the steps of others, in its publishing
\* steps, and in failures.
Bystander(r) ==
  \/ pc'[r] = pc[r]
  \/ pc'[r] = "aborted" /\ pc[r] \notin Committed
  \/ pc'[r] \in {"told", "done"} /\ pc[r] \in Committed

\* There are no orders and no attempts at first.
LEMMA NInvInit == Init => NInv
BY RetriesType DEF Init, NInv, OrderedAtCommit, NumbersInFlight, AttemptsBehind,
   OrderNumbersContiguous, ConflictNeedsContention, Req

\* A step that allocates, inserts and commits no order preserves NInv.
LEMMA NInvFrame ==
  ASSUME TInv, NInv, UNCHANGED <<orders, orderNo, tries>>,
         \A c \in Creators : sess'[c] = sess[c] /\ Bystander(c)
  PROVE  NInv'
<1>1. \A c \in Creators : Numbers(sess[c])' = Numbers(sess[c])
  BY DEF Numbers, TInv, TypeOK
<1>2. \A c, q \in Creators : SameKey(c, q)' = SameKey(c, q)
  BY DEF SameKey
<1>3. OrderedAtCommit'
  BY DEF NInv, OrderedAtCommit, Bystander, Committed, TInv, TypeOK
<1>4. NumbersInFlight'
  BY <1>1, <1>2 DEF NInv, NumbersInFlight, KeyPending, KeyTaken, Bystander, Committed, TInv, TypeOK
<1>5. AttemptsBehind'
  BY <1>1 DEF NInv, AttemptsBehind, Bystander, Committed
<1>6. OrderNumbersContiguous'
  BY <1>1, <1>2 DEF NInv, OrderNumbersContiguous, TInv, TypeOK
<1>7. ConflictNeedsContention'
  BY <1>1 DEF NInv, ConflictNeedsContention, Bystander, Committed
<1>8. QED
  BY <1>3, <1>4, <1>5, <1>6, <1>7 DEF NInv

\* What the steps that no create request takes by itself leave alone.
LEMMA CreatorsFrame ==
  ASSUME TInv, [Next]_vars,
         ~ \E c \in Creators : CreateVerify(c) \/ CreateStep(c)
  PROVE  /\ UNCHANGED <<orders, orderNo, tries>>
         /\ \A c \in Creators : sess'[c] = sess[c] /\ Bystander(c)
<1> DEFINE Kept == /\ UNCHANGED <<orders, orderNo, tries>>
                   /\ \A c \in Creators : sess'[c] = sess[c] /\ Bystander(c)
<1> USE DEF Goto, rows, TInv, TypeOK, Bystander, Req
<1>1. ASSUME NEW r \in Starters, StartRead(r) \/ StartStep(r) \/ Expire(r) PROVE Kept
  BY <1>1, KindsApart DEF StartStep, StartRead, StartExpire, StartInsert, StartCommit, Expire
<1>2. ASSUME NEW u \in Updaters, UpdateLoad(u) \/ UpdateStep(u) PROVE Kept
  BY <1>2, KindsApart DEF UpdateStep, UpdateLoad, UpdateFlush, UpdateCommit, Load
<1>3. ASSUME NEW d \in Deleters, DeleteLoad(d) \/ DeleteStep(d) PROVE Kept
  BY <1>3, KindsApart DEF DeleteStep, DeleteLoad, DeleteFlush, DeleteCommit, Load
<1>4. ASSUME NEW a \in Closers, CloseLoad(a) \/ CloseStep(a) PROVE Kept
  BY <1>4, KindsApart DEF CloseStep, CloseLoad, CloseList, CloseFlush, CloseFlushOrder, CloseCommit
<1>5. ASSUME NEW l \in Leavers, LeaveVerify(l) \/ LeaveStep(l) PROVE Kept
  BY <1>5, KindsApart DEF LeaveStep, LeaveVerify, LeaveFlush, LeaveCommit
<1>6. ASSUME NEW r \in Publishers, PublishStep(r) PROVE Kept
  BY <1>6 DEF PublishStep, PublishStore, PublishSession, Committed, Publishers
<1>7. ASSUME NEW r \in Req, Abort(r) PROVE Kept
  BY <1>7 DEF Abort, CanAbort
<1>8. CASE Crash
  BY <1>8 DEF Crash, CanAbort, InFlight, Final
<1>9. CASE UNCHANGED vars
  BY <1>9 DEF vars
<1>10. QED
  BY <1>1, <1>2, <1>3, <1>4, <1>5, <1>6, <1>7, <1>8, <1>9 DEF Next, Quiet

\* The steps of a create keep the numbers contiguous: the number computed last
\* is committed, taken by a rival, or recomputed.
LEMMA NInvNext == TInv /\ TInv' /\ NInv /\ [Next]_vars => NInv'
<1> SUFFICES ASSUME TInv, TInv', NInv, [Next]_vars PROVE NInv'
  OBVIOUS
<1>1. ASSUME NEW c \in Creators, CreateVerify(c) PROVE NInv'
  <2>1. /\ pc[c] = "idle" /\ pc'[c] \in {"verified", "refused"} /\ tries[c] = 0
        /\ \A q \in Creators \ {c} : pc'[q] = pc[q] /\ sess'[q] = sess[q]
        /\ UNCHANGED <<orders, orderNo, tries>>
    BY <1>1 DEF CreateVerify, rows, Goto, TInv, TypeOK, RefersToRows, Req
  <2>2. c \notin orders
    BY <2>1 DEF NInv, OrderedAtCommit, Committed
  <2>3. \A s \in Starters : Numbers(s)' = Numbers(s)
    BY <2>1, <2>2 DEF Numbers, TInv, TypeOK
  <2>4. OrderedAtCommit'
    BY <2>1, <2>2 DEF NInv, OrderedAtCommit, TInv, TypeOK
  <2>5. \A q \in Creators \ {c} : Numbers(sess[q])' = Numbers(sess[q])
    BY <2>1, <2>2 DEF Numbers, TInv, TypeOK
  <2>6. NumbersInFlight'
    BY <2>1, <2>2, <2>5 DEF NInv, NumbersInFlight, KeyPending, KeyTaken, SameKey, TInv, TypeOK
  <2>7. AttemptsBehind'
    BY <2>1, <2>2, <2>5 DEF NInv, AttemptsBehind
  <2>8. OrderNumbersContiguous'
    BY <2>1, <2>2, <2>5 DEF NInv, OrderNumbersContiguous, SameKey, TInv, TypeOK
  <2>9. ConflictNeedsContention'
    BY <2>1, <2>2, <2>5 DEF NInv, ConflictNeedsContention
  <2>10. QED
    BY <2>4, <2>6, <2>7, <2>8, <2>9 DEF NInv
<1>2. ASSUME NEW c \in Creators, CreateNumber(c) PROVE NInv'
  <2>1. /\ pc[c] = "verified" /\ pc'[c] = "numbered" /\ tries'[c] = tries[c] + 1
        /\ \A q \in Creators \ {c} : pc'[q] = pc[q] /\ orderNo'[q] = orderNo[q] /\ tries'[q] = tries[q]
        /\ UNCHANGED <<orders, sess>>
    BY <1>2 DEF CreateNumber, rows, Goto, TInv, TypeOK, Req
  <2>2. c \notin orders
    BY <2>1 DEF NInv, OrderedAtCommit, Committed
  <2>3. PICK top \in {0} \cup Numbers(sess[c]) :
          (\A n \in Numbers(sess[c]) : n <= top) /\ orderNo'[c] = top + 1
    BY <1>2 DEF CreateNumber, TInv, TypeOK
  <2>4. \A q \in Creators : Numbers(sess[q])' = Numbers(sess[q])
    BY <2>1, <2>2 DEF Numbers, TInv, TypeOK
  <2>5. top \in Nat /\ \A n \in 1 .. top : n \in Numbers(sess[c])
    BY <2>3 DEF NInv, OrderNumbersContiguous, Numbers, TInv, TypeOK
  <2>6. tries[c] <= top
    <3>1. tries[c] \in Nat /\ 1 .. tries[c] \subseteq Numbers(sess[c])
      BY <2>1 DEF NInv, AttemptsBehind, TInv, TypeOK
    <3>2. QED
      BY <3>1, <2>3, <2>5
  <2>7. OrderedAtCommit'
    BY <2>1, <2>2 DEF NInv, OrderedAtCommit, TInv, TypeOK
  <2>8. NumbersInFlight'
    <3>1. ASSUME NEW q \in Creators, pc'[q] \in {"numbered", "flushed"}
          PROVE  orderNo'[q] > 0 /\ \A n \in 1 .. orderNo'[q] - 1 : n \in Numbers(sess[q])'
      BY <2>1, <2>3, <2>4, <2>5, <3>1 DEF NInv, NumbersInFlight, TInv, TypeOK
    <3>2. ASSUME NEW q \in Creators, pc'[q] = "flushed"
          PROVE  ~KeyPending(q)' /\ ~KeyTaken(q)'
      BY <2>1, <2>2, <3>2 DEF NInv, NumbersInFlight, KeyPending, KeyTaken, SameKey, TInv, TypeOK
    <3> QED
      BY <3>1, <3>2 DEF NumbersInFlight
  <2>9. AttemptsBehind'
    BY <2>1, <2>3, <2>4, <2>5, <2>6 DEF NInv, AttemptsBehind, TInv, TypeOK
  <2>10. OrderNumbersContiguous'
    BY <2>1, <2>2, <2>4 DEF NInv, OrderNumbersContiguous, SameKey, TInv, TypeOK
  <2>11. ConflictNeedsContention'
    BY <2>1, <2>4 DEF NInv, ConflictNeedsContention
  <2>12. QED
    BY <2>7, <2>8, <2>9, <2>10, <2>11 DEF NInv
<1>3. ASSUME NEW c \in Creators, CreateInsert(c) PROVE NInv'
  <2>1. /\ pc[c] = "numbered" /\ ~KeyPending(c)
        /\ pc'[c] = IF ~KeyTaken(c) THEN "flushed"
                    ELSE IF tries[c] < MaxRetries THEN "verified" ELSE "refused"
        /\ \A q \in Creators \ {c} : pc'[q] = pc[q]
        /\ UNCHANGED <<orders, orderNo, sess, tries>>
    BY <1>3 DEF CreateInsert, rows, Goto, TInv, TypeOK, Req
  <2>2. c \notin orders
    BY <2>1 DEF NInv, OrderedAtCommit, Committed
  <2>3. \A q \in Creators : Numbers(sess[q])' = Numbers(sess[q])
    BY <2>1 DEF Numbers, TInv, TypeOK
  <2>4. KeyTaken(c) => 1 .. tries[c] \subseteq Numbers(sess[c])
    <3>1. SUFFICES ASSUME KeyTaken(c) PROVE 1 .. tries[c] \subseteq Numbers(sess[c])
      OBVIOUS
    <3>2. orderNo[c] \in Numbers(sess[c])
      BY <3>1 DEF KeyTaken, SameKey, Numbers
    <3>3. /\ tries[c] <= orderNo[c] /\ tries[c] \in Nat /\ orderNo[c] \in Nat
          /\ \A n \in 1 .. orderNo[c] - 1 : n \in Numbers(sess[c])
      BY <2>1 DEF NInv, AttemptsBehind, NumbersInFlight, TInv, TypeOK
    <3>4. QED
      BY <3>2, <3>3
  <2>5. OrderedAtCommit'
    BY <2>1, <2>2 DEF NInv, OrderedAtCommit, TInv, TypeOK
  <2>6. NumbersInFlight'
    <3>1. ASSUME NEW q \in Creators, pc'[q] \in {"numbered", "flushed"}
          PROVE  orderNo'[q] > 0 /\ \A n \in 1 .. orderNo'[q] - 1 : n \in Numbers(sess[q])'
      BY <2>1, <2>3, <3>1 DEF NInv, NumbersInFlight
    <3>2. ASSUME NEW q \in Creators, pc'[q] = "flushed"
          PROVE  ~KeyPending(q)' /\ ~KeyTaken(q)'
      <4>1. \A o \in Creators : pc'[o] = "flushed" => pc[o] = "flushed" \/ o = c
        BY <2>1
      <4>2. (KeyTaken(q)' <=> KeyTaken(q)) /\ \A o \in Creators : SameKey(q, o)' <=> SameKey(q, o)
        BY <2>1 DEF KeyTaken, SameKey
      <4>3. CASE q = c
        BY <2>1, <3>2, <4>1, <4>2, <4>3 DEF KeyPending
      <4>4. CASE q # c
        <5>1. ~KeyPending(q) /\ ~KeyTaken(q) /\ pc[q] = "flushed"
          BY <2>1, <3>2, <4>4 DEF NInv, NumbersInFlight
        <5>2. pc'[c] = "flushed" => ~SameKey(q, c)
          BY <2>1, <4>4, <5>1 DEF KeyPending, SameKey
        <5> QED
          BY <4>1, <4>2, <5>1, <5>2 DEF KeyPending
      <4> QED
        BY <4>3, <4>4
    <3> QED
      BY <3>1, <3>2 DEF NumbersInFlight
  <2>7. AttemptsBehind'
    BY <2>1, <2>3, <2>4 DEF NInv, AttemptsBehind, TInv, TypeOK
  <2>8. OrderNumbersContiguous'
    BY <2>1, <2>3 DEF NInv, OrderNumbersContiguous, SameKey, TInv, TypeOK
  <2>9. ConflictNeedsContention'
    <3>1. pc'[c] = "refused" => tries[c] = MaxRetries /\ KeyTaken(c)
      <4>1. tries[c] \in 0 .. MaxRetries
        BY DEF TInv, TypeOK
      <4> QED
        BY <2>1, <4>1, RetriesType
    <3>2. QED
      BY <2>1, <2>3, <2>4, <3>1 DEF NInv, ConflictNeedsContention
  <2>10. QED
    BY <2>5, <2>6, <2>7, <2>8, <2>9 DEF NInv
<1>4. ASSUME NEW c \in Creators, CreateCommit(c) PROVE NInv'
  <2>1. /\ pc[c] = "flushed" /\ pc'[c] = "committed" /\ orders' = orders \cup {c}
        /\ \A q \in Creators \ {c} : pc'[q] = pc[q]
        /\ UNCHANGED <<orderNo, sess, tries>>
    BY <1>4 DEF CreateCommit, Goto, TInv, TypeOK, Req
  <2>2. \A q \in Creators : Numbers(sess[q])' = Numbers(sess[q]) \cup
                              (IF sess[q] = sess[c] THEN {orderNo[c]} ELSE {})
    BY <2>1 DEF Numbers, TInv, TypeOK
  <2>3. /\ ~KeyTaken(c) /\ ~KeyPending(c) /\ orderNo[c] > 0
        /\ \A n \in 1 .. orderNo[c] - 1 : n \in Numbers(sess[c])
    BY <2>1 DEF NInv, NumbersInFlight
  <2>4. OrderedAtCommit'
    BY <2>1 DEF NInv, OrderedAtCommit, Committed, TInv, TypeOK
  <2>5. NumbersInFlight'
    <3>1. ASSUME NEW q \in Creators, pc'[q] \in {"numbered", "flushed"}
          PROVE  orderNo'[q] > 0 /\ \A n \in 1 .. orderNo'[q] - 1 : n \in Numbers(sess[q])'
      BY <2>1, <2>2, <3>1 DEF NInv, NumbersInFlight
    <3>2. ASSUME NEW q \in Creators, pc'[q] = "flushed"
          PROVE  ~KeyPending(q)' /\ ~KeyTaken(q)'
      <4>1. q # c /\ pc[q] = "flushed" /\ ~KeyPending(q) /\ ~KeyTaken(q)
        BY <2>1, <3>2 DEF NInv, NumbersInFlight
      <4>2. \A o \in Creators \cup orders : SameKey(q, o)' <=> SameKey(q, o)
        BY <2>1 DEF SameKey
      <4>3. ~SameKey(q, c) /\ \A o \in Creators : pc'[o] = "flushed" => pc[o] = "flushed"
        BY <2>1, <4>1 DEF KeyPending
      <4> QED
        BY <2>1, <4>1, <4>2, <4>3 DEF KeyPending, KeyTaken
    <3> QED
      BY <3>1, <3>2 DEF NumbersInFlight
  <2>6. AttemptsBehind'
    BY <2>1, <2>2 DEF NInv, AttemptsBehind, TInv, TypeOK
  <2>7. OrderNumbersContiguous'
    <3>1. ASSUME NEW o \in orders', NEW p \in orders', SameKey(o, p)' PROVE p = o
      <4>1. SameKey(o, p) /\ SameKey(p, o) /\ o \in orders \cup {c} /\ p \in orders \cup {c}
        BY <2>1, <3>1 DEF SameKey
      <4>2. CASE o = c \/ p = c
        BY <2>3, <4>1, <4>2 DEF KeyTaken
      <4>3. CASE o # c /\ p # c
        BY <4>1, <4>3 DEF NInv, OrderNumbersContiguous
      <4> QED
        BY <4>2, <4>3
    <3>2. ASSUME NEW o \in orders'
          PROVE  orderNo'[o] > 0 /\ \A n \in 1 .. orderNo'[o] - 1 : n \in Numbers(sess[o])'
      <4>1. o \in orders \cup {c} /\ o \in Creators /\ orderNo'[o] = orderNo[o]
        BY <2>1, <3>2 DEF TInv, TypeOK
      <4>2. orderNo[o] > 0 /\ \A n \in 1 .. orderNo[o] - 1 : n \in Numbers(sess[o])
        BY <2>3, <4>1 DEF NInv, OrderNumbersContiguous
      <4> QED
        BY <2>2, <4>1, <4>2
    <3>3. QED
      BY <3>1, <3>2, <2>1 DEF OrderNumbersContiguous
  <2>8. ConflictNeedsContention'
    BY <2>1, <2>2 DEF NInv, ConflictNeedsContention
  <2>9. QED
    BY <2>4, <2>5, <2>6, <2>7, <2>8 DEF NInv
<1>5. ASSUME UNCHANGED <<orders, orderNo, tries>>,
             \A c \in Creators : sess'[c] = sess[c] /\ Bystander(c)
      PROVE  NInv'
  BY <1>5, NInvFrame
<1>6. QED
  BY <1>1, <1>2, <1>3, <1>4, <1>5, CreatorsFrame DEF CreateStep

\* What is known of order numbers, committed and in flight, at any time.
THEOREM NumbersInvariant == Spec => []NInv
<1>1. QED
  BY NInvInit, NInvNext, Typing, PTL DEF Spec

\* BR-O01, BR-O16: whatever collides, retries, aborts or is deleted, a
\* session's order numbers are 1, 2, ... n.
THEOREM NumbersContiguous == Spec => []OrderNumbersContiguous
<1>1. NInv => OrderNumbersContiguous
  BY DEF NInv
<1>2. QED
  BY <1>1, NumbersInvariant, PTL

\* A 409 is only ever the answer to real contention.
THEOREM ConflictsAreReal == Spec => []ConflictNeedsContention
<1>1. NInv => ConflictNeedsContention
  BY DEF NInv
<1>2. QED
  BY <1>1, NumbersInvariant, PTL

-----------------------------------------------------------------------------
(* Sessions.                                                               *)

SInv == StartsInFlight /\ AtMostOneActive

\* There are no sessions at first.
LEMMA SInvInit == Init => SInv
BY DEF Init, SInv, StartsInFlight, AtMostOneActive, Req

\* Steps that insert no session may close sessions and end start requests.
LEMMA StartersFrame ==
  ASSUME TInv, [Next]_vars,
         ~ \E r \in Starters : StartInsert(r) \/ StartCommit(r)
  PROVE  \A s \in Starters :
           /\ \/ sStatus'[s] = sStatus[s]
              \/ sStatus[s] # "none" /\ sStatus'[s] = "closed"
           /\ pc'[s] = "flushed" => pc[s] = "flushed" /\ sess'[s] = sess[s]
           /\ pc[s] = "done" => pc'[s] = "done"
           /\ sess'[s] = sess[s] \/ TableOf[sess'[s]] = TableOf[s]
<1> DEFINE Kept(s) == /\ \/ sStatus'[s] = sStatus[s]
                         \/ sStatus[s] # "none" /\ sStatus'[s] = "closed"
                      /\ pc'[s] = "flushed" => pc[s] = "flushed" /\ sess'[s] = sess[s]
                      /\ pc[s] = "done" => pc'[s] = "done"
                      /\ sess'[s] = sess[s] \/ TableOf[sess'[s]] = TableOf[s]
<1> SUFFICES ASSUME NEW s \in Starters PROVE Kept(s)
  OBVIOUS
<1> USE DEF Goto, rows, TInv, TypeOK, Req
<1>1. ASSUME NEW r \in Starters, StartRead(r) \/ StartExpire(r) \/ Expire(r) PROVE Kept(s)
  BY <1>1 DEF StartRead, StartExpire, Expire, ActiveOn
<1>2. ASSUME NEW c \in Creators, CreateVerify(c) \/ CreateStep(c) PROVE Kept(s)
  BY <1>2, KindsApart DEF CreateStep, CreateVerify, CreateNumber, CreateInsert, CreateCommit
<1>3. ASSUME NEW u \in Updaters, UpdateLoad(u) \/ UpdateStep(u) PROVE Kept(s)
  BY <1>3, KindsApart DEF UpdateStep, UpdateLoad, UpdateFlush, UpdateCommit, Load
<1>4. ASSUME NEW d \in Deleters, DeleteLoad(d) \/ DeleteStep(d) PROVE Kept(s)
  BY <1>4, KindsApart DEF DeleteStep, DeleteLoad, DeleteFlush, DeleteCommit, Load
<1>5. ASSUME NEW a \in Closers, CloseLoad(a) \/ CloseStep(a) PROVE Kept(s)
  BY <1>5, KindsApart
  DEF CloseStep, CloseLoad, CloseList, CloseFlush, CloseFlushOrder, CloseCommit,
      RefersToRows, SessionRows
<1>6. ASSUME NEW l \in Leavers, LeaveVerify(l) \/ LeaveStep(l) PROVE Kept(s)
  BY <1>6, KindsApart
  DEF LeaveStep, LeaveVerify, LeaveFlush, LeaveCommit, RefersToRows, SessionRows
<1>7. ASSUME NEW r \in Publishers, PublishStep(r) PROVE Kept(s)
  BY <1>7, KindsApart DEF PublishStep, PublishStore, PublishSession, Publishers
<1>8. ASSUME NEW r \in Req, Abort(r) PROVE Kept(s)
  BY <1>8 DEF Abort, CanAbort, InFlight, Final
<1>9. CASE Crash
  BY <1>9 DEF Crash, CanAbort, InFlight, Final
<1>10. CASE UNCHANGED vars
  BY <1>10 DEF vars
<1>11. QED
  BY <1>1, <1>2, <1>3, <1>4, <1>5, <1>6, <1>7, <1>8, <1>9, <1>10 DEF Next, Quiet, StartStep

\* No step makes a second session of a table active: the partial unique index
\* refuses or delays the INSERT that would.
LEMMA SInvNext == TInv /\ SInv /\ [Next]_vars => SInv'
<1> SUFFICES ASSUME TInv, SInv, [Next]_vars PROVE SInv'
  OBVIOUS
<1>1. ASSUME NEW r \in Starters, StartInsert(r) PROVE SInv'
  <2>1. /\ pc[r] = "insert" /\ PendingRivals(r) = {}
        /\ pc'[r] \in {"flushed", "refused"}
        /\ pc'[r] = "flushed" => ActiveRivals(r) = {}
        /\ \A q \in Starters \ {r} : pc'[q] = pc[q]
        /\ UNCHANGED <<sStatus, sess>>
    BY <1>1 DEF StartInsert, rows, Goto, TInv, TypeOK, Req
  <2>2. \A q \in Starters : ActiveRivals(q)' = ActiveRivals(q)
    BY <2>1 DEF ActiveRivals, ActiveOn
  <2>3. \A q \in Starters : pc'[q] = "flushed" => PendingRivals(q)' = {}
    BY <2>1 DEF SInv, StartsInFlight, PendingRivals
  <2>4. StartsInFlight'
    BY <2>1, <2>2, <2>3 DEF SInv, StartsInFlight
  <2>5. AtMostOneActive'
    BY <2>1 DEF SInv, AtMostOneActive
  <2>6. QED
    BY <2>4, <2>5 DEF SInv
<1>2. ASSUME NEW r \in Starters, StartCommit(r) PROVE SInv'
  <2>1. /\ pc[r] = "flushed" /\ pc'[r] = "done"
        /\ sStatus' = [s \in Starters |-> IF s = r THEN "active"
                                          ELSE IF s = sess[r] THEN "closed"
                                          ELSE sStatus[s]]
        /\ \A q \in Starters \ {r} : pc'[q] = pc[q]
        /\ UNCHANGED sess
    BY <1>2 DEF StartCommit, Goto, TInv, TypeOK, Req
  <2>2. ActiveRivals(r) = {} /\ PendingRivals(r) = {}
    BY <2>1 DEF SInv, StartsInFlight
  <2>3. ASSUME NEW s \in Starters, s # r, sStatus'[s] = "active", TableOf[s] = TableOf[r]
        PROVE  FALSE
    BY <2>1, <2>2, <2>3 DEF ActiveRivals, ActiveOn
  <2>4. AtMostOneActive'
    BY <2>1, <2>3 DEF SInv, AtMostOneActive
  <2>5. \A s \in Starters : sStatus'[s] # "none" => pc'[s] = "done"
    <3>1. sess[r] \in Starters => sStatus[sess[r]] # "none"
      BY <2>1, KindsApart DEF TInv, RefersToRows, SessionRows, Req
    <3>2. QED
      BY <2>1, <3>1 DEF SInv, StartsInFlight
  <2>6. ASSUME NEW q \in Starters, pc'[q] = "flushed"
        PROVE  ActiveRivals(q)' = {} /\ PendingRivals(q)' = {}
    <3>1. q # r /\ pc[q] = "flushed" /\ ActiveRivals(q) = {} /\ PendingRivals(q) = {}
      BY <2>1, <2>6 DEF SInv, StartsInFlight
    <3>2. TableOf[q] # TableOf[r]
      BY <2>2, <3>1 DEF PendingRivals
    <3>3. ActiveRivals(q)' = {}
      BY <2>1, <3>1, <3>2 DEF ActiveRivals, ActiveOn
    <3>4. PendingRivals(q)' = {}
      BY <2>1, <3>1 DEF PendingRivals
    <3>5. QED
      BY <3>3, <3>4
  <2>7. QED
    BY <2>1, <2>4, <2>5, <2>6 DEF SInv, StartsInFlight
<1>3. CASE ~ \E r \in Starters : StartInsert(r) \/ StartCommit(r)
  <2> DEFINE Kept(s) ==
        /\ \/ sStatus'[s] = sStatus[s]
           \/ sStatus[s] # "none" /\ sStatus'[s] = "closed"
        /\ pc'[s] = "flushed" => pc[s] = "flushed" /\ sess'[s] = sess[s]
        /\ pc[s] = "done" => pc'[s] = "done"
        /\ sess'[s] = sess[s] \/ TableOf[sess'[s]] = TableOf[s]
  <2>1. \A s \in Starters : Kept(s)
    BY <1>3, StartersFrame
  <2>2. AtMostOneActive'
    BY <2>1 DEF SInv, AtMostOneActive
  <2>3. \A s \in Starters : sStatus'[s] # "none" => pc'[s] = "done"
    BY <2>1 DEF SInv, StartsInFlight
  <2>4. ASSUME NEW r \in Starters, pc'[r] = "flushed"
        PROVE  ActiveRivals(r)' = {} /\ PendingRivals(r)' = {}
    BY <2>1, <2>4 DEF SInv, StartsInFlight, ActiveRivals, ActiveOn, PendingRivals
  <2>5. \A s \in Starters : sess'[s] # NoSession => TableOf[sess'[s]] = TableOf[s]
    BY <2>1 DEF SInv, StartsInFlight
  <2>6. QED
    BY <2>2, <2>3, <2>4, <2>5 DEF SInv, StartsInFlight
<1>4. QED
  BY <1>1, <1>2, <1>3

\* What is known of sessions, committed and in flight, at any time.
THEOREM SessionsInvariant == Spec => []SInv
<1>1. QED
  BY SInvInit, SInvNext, Typing, PTL DEF Spec

\* A table never has two active sessions, for any set of requests.
THEOREM OneActiveSession == Spec => []AtMostOneActive
<1>1. SInv => AtMostOneActive
  BY DEF SInv
<1>2. QED
  BY <1>1, SessionsInvariant, PTL

-----------------------------------------------------------------------------
(* History and events.                                                     *)

HInv == ListedOfSession /\ NothingLost /\ ArchivedIsGone /\ AnnouncedAtCommit

\* Committed rows only move forward in one step.
Forward ==
  /\ orders \subseteq orders' /\ deleted \subseteq deleted' /\ history \subseteq history'
  /\ \A s \in Starters : /\ sStatus[s] = "closed" => sStatus'[s] = "closed"
                         /\ sStatus[s] = "active" => sStatus'[s] # "none"
  /\ \A o \in orders : orderNo'[o] = orderNo[o] /\ sess'[o] = sess[o]

\* One step never takes a committed row back.
LEMMA StepForward == TInv /\ NInv /\ SInv /\ [Next]_vars => Forward
<1> SUFFICES ASSUME TInv, NInv, SInv, [Next]_vars PROVE Forward
  OBVIOUS
<1>1. /\ orders \subseteq orders' /\ deleted \subseteq deleted' /\ history \subseteq history'
  BY DEF Next, Quiet, vars, rows, StartStep, CreateStep, UpdateStep, DeleteStep, CloseStep,
         LeaveStep, PublishStep, StartRead, StartExpire, StartInsert, StartCommit, Expire,
         CreateVerify, CreateNumber, CreateInsert, CreateCommit, UpdateLoad, UpdateFlush,
         UpdateCommit, DeleteLoad, DeleteFlush, DeleteCommit, CloseLoad, CloseList,
         CloseFlush, CloseFlushOrder, CloseCommit, LeaveVerify, LeaveFlush, LeaveCommit,
         PublishStore, PublishSession, Abort, Crash
<1>2. \A s \in Starters : /\ sStatus[s] = "closed" => sStatus'[s] = "closed"
                          /\ sStatus[s] = "active" => sStatus'[s] # "none"
  <2>1. ASSUME NEW r \in Starters, StartInsert(r) \/ StartCommit(r),
               NEW s \in Starters
        PROVE  /\ sStatus[s] = "closed" => sStatus'[s] = "closed"
               /\ sStatus[s] = "active" => sStatus'[s] # "none"
    BY <2>1 DEF StartInsert, StartCommit, rows, SInv, StartsInFlight, TInv, TypeOK
  <2>2. QED
    BY <2>1, StartersFrame
<1>3. \A o \in orders : orderNo'[o] = orderNo[o] /\ sess'[o] = sess[o]
  <2>1. ASSUME NEW c \in Creators, CreateVerify(c) \/ CreateStep(c), NEW o \in orders
        PROVE  orderNo'[o] = orderNo[o] /\ sess'[o] = sess[o]
    <3>1. pc[o] \in Committed
      BY DEF NInv, OrderedAtCommit
    <3>2. o # c \/ UNCHANGED <<orderNo, sess>>
      BY <2>1, <3>1 DEF Committed, CreateStep, CreateVerify, CreateNumber, CreateInsert, CreateCommit
    <3>3. QED
      BY <2>1, <3>2
      DEF CreateStep, CreateVerify, CreateNumber, CreateInsert, CreateCommit, TInv, TypeOK, Req
  <2>2. QED
    BY <2>1, CreatorsFrame DEF TInv, TypeOK
<1>4. QED
  BY <1>1, <1>2, <1>3 DEF Forward

\* No concurrent request overwrites a row from a stale copy of it.
THEOREM RowsMoveForward == Spec => RowsOnlyMoveForward
<1>1. TInv /\ NInv /\ SInv /\ [Next]_vars => [Forward]_vars
  BY StepForward
<1>2. QED
  BY <1>1, Typing, NumbersInvariant, SessionsInvariant, PTL
  DEF Spec, RowsOnlyMoveForward, Forward

\* There is no history, no deletion and no event at first.
LEMMA HInvInit == Init => HInv
BY DEF Init, HInv, ListedOfSession, NothingLost, ArchivedIsGone, AnnouncedAtCommit,
       Archived, Publishers, Committed, Req

\* A committed request keeps what it worked on, and only publishes.
Settled(r) ==
  /\ pc'[r] \in Committed /\ sess'[r] = sess[r]
  /\ pc[r] \in {"told", "done"} => pc'[r] \in {"told", "done"}
  /\ r \in Updaters \cup Deleters => ord'[r] = ord[r]
  /\ r \in Closers => listed'[r] = listed[r]

LEMMA CommittedSettled ==
  ASSUME TInv, [Next]_vars, NEW r \in Req, pc[r] \in Committed
  PROVE  Settled(r)
<1> USE DEF Settled, Committed, Goto, TInv, TypeOK, Req
<1>1. ASSUME NEW q \in Starters, StartRead(q) \/ StartStep(q) \/ Expire(q) PROVE Settled(r)
  BY <1>1 DEF StartStep, StartRead, StartExpire, StartInsert, StartCommit, Expire
<1>2. ASSUME NEW c \in Creators, CreateVerify(c) \/ CreateStep(c) PROVE Settled(r)
  BY <1>2 DEF CreateStep, CreateVerify, CreateNumber, CreateInsert, CreateCommit
<1>3. ASSUME NEW u \in Updaters, UpdateLoad(u) \/ UpdateStep(u) PROVE Settled(r)
  BY <1>3 DEF UpdateStep, UpdateLoad, UpdateFlush, UpdateCommit, Load
<1>4. ASSUME NEW d \in Deleters, DeleteLoad(d) \/ DeleteStep(d) PROVE Settled(r)
  BY <1>4 DEF DeleteStep, DeleteLoad, DeleteFlush, DeleteCommit, Load
<1>5. ASSUME NEW a \in Closers, CloseLoad(a) \/ CloseStep(a) PROVE Settled(r)
  BY <1>5 DEF CloseStep, CloseLoad, CloseList, CloseFlush, CloseFlushOrder, CloseCommit
<1>6. ASSUME NEW l \in Leavers, LeaveVerify(l) \/ LeaveStep(l) PROVE Settled(r)
  BY <1>6 DEF LeaveStep, LeaveVerify, LeaveFlush, LeaveCommit
<1>7. ASSUME NEW q \in Publishers, PublishStep(q) PROVE Settled(r)
  BY <1>7 DEF PublishStep, PublishStore, PublishSession, Publishers
<1>8. ASSUME NEW q \in Req, Abort(q) PROVE Settled(r)
  BY <1>8 DEF Abort, CanAbort
<1>9. CASE Crash
  BY <1>9 DEF Crash, CanAbort, InFlight, Final
<1>10. CASE UNCHANGED vars
  BY <1>10 DEF vars
<1>11. QED
  BY <1>1, <1>2, <1>3, <1>4, <1>5, <1>6, <1>7, <1>8, <1>9, <1>10 DEF Next, Quiet

\* A request becomes committed by its commit step only.
CommitStep(r) ==
  \/ r \in Creators /\ CreateCommit(r)
  \/ r \in Updaters /\ UpdateCommit(r)
  \/ r \in Deleters /\ DeleteCommit(r)
  \/ r \in Closers /\ CloseCommit(r)

LEMMA CommitsOnly ==
  ASSUME TInv, [Next]_vars, NEW r \in Publishers, pc[r] \notin Committed, pc'[r] \in Committed
  PROVE  CommitStep(r)
<1> USE DEF CommitStep, Committed, Goto, TInv, TypeOK, Req, Publishers
<1>1. ASSUME NEW q \in Starters, StartRead(q) \/ StartStep(q) \/ Expire(q) PROVE FALSE
  BY <1>1, KindsApart DEF StartStep, StartRead, StartExpire, StartInsert, StartCommit, Expire
<1>2. ASSUME NEW c \in Creators, CreateVerify(c) \/ CreateStep(c) PROVE CommitStep(r)
  BY <1>2 DEF CreateStep, CreateVerify, CreateNumber, CreateInsert, CreateCommit
<1>3. ASSUME NEW u \in Updaters, UpdateLoad(u) \/ UpdateStep(u) PROVE CommitStep(r)
  BY <1>3 DEF UpdateStep, UpdateLoad, UpdateFlush, UpdateCommit, Load
<1>4. ASSUME NEW d \in Deleters, DeleteLoad(d) \/ DeleteStep(d) PROVE CommitStep(r)
  BY <1>4 DEF DeleteStep, DeleteLoad, DeleteFlush, DeleteCommit, Load
<1>5. ASSUME NEW a \in Closers, CloseLoad(a) \/ CloseStep(a) PROVE CommitStep(r)
  BY <1>5 DEF CloseStep, CloseLoad, CloseList, CloseFlush, CloseFlushOrder, CloseCommit
<1>6. ASSUME NEW l \in Leavers, LeaveVerify(l) \/ LeaveStep(l) PROVE FALSE
  BY <1>6, KindsApart DEF LeaveStep, LeaveVerify, LeaveFlush, LeaveCommit
<1>7. ASSUME NEW q \in Publishers, PublishStep(q) PROVE FALSE
  BY <1>7 DEF PublishStep, PublishStore, PublishSession
<1>8. ASSUME NEW q \in Req, Abort(q) PROVE FALSE
  BY <1>8 DEF Abort, CanAbort
<1>9. CASE Crash
  BY <1>9 DEF Crash, CanAbort, InFlight, Final
<1>10. CASE UNCHANGED vars
  BY <1>10 DEF vars
<1>11. QED
  BY <1>1, <1>2, <1>3, <1>4, <1>5, <1>6, <1>7, <1>8, <1>9, <1>10 DEF Next, Quiet

\* Only a delete's and a close's commit set deleted_at or add history rows.
LEMMA DeletionsOnly ==
  ASSUME TInv, [Next]_vars,
         ~ \E d \in Deleters : DeleteCommit(d),
         ~ \E a \in Closers : CloseCommit(a)
  PROVE  UNCHANGED <<deleted, history>>
BY DEF Next, Quiet, vars, rows, StartStep, CreateStep, UpdateStep, DeleteStep, CloseStep,
       LeaveStep, PublishStep, StartRead, StartExpire, StartInsert, StartCommit, Expire,
       CreateVerify, CreateNumber, CreateInsert, CreateCommit, UpdateLoad, UpdateFlush,
       UpdateCommit, DeleteLoad, DeleteFlush, CloseLoad, CloseList,
       CloseFlush, CloseFlushOrder, LeaveVerify, LeaveFlush, LeaveCommit,
       PublishStore, PublishSession, Abort, Crash

\* Only the two publishing steps put an event on a topic.
LEMMA BusKept ==
  ASSUME [Next]_vars, ~ \E r \in Publishers : PublishStep(r)
  PROVE  UNCHANGED bus
BY DEF Next, Quiet, vars, StartStep, CreateStep, UpdateStep, DeleteStep, CloseStep,
       LeaveStep, StartRead, StartExpire, StartInsert, StartCommit, Expire,
       CreateVerify, CreateNumber, CreateInsert, CreateCommit, UpdateLoad, UpdateFlush,
       UpdateCommit, DeleteLoad, DeleteFlush, DeleteCommit, CloseLoad, CloseList,
       CloseFlush, CloseFlushOrder, CloseCommit, LeaveVerify, LeaveFlush, LeaveCommit,
       Abort, Crash

\* After a close's commit the archived orders are the old ones and its own.
LEMMA ArchivedByClose ==
  ASSUME NEW a \in Closers, CloseCommit(a)
  PROVE  Archived' = Archived \cup ListedOrders(a)
<1> DEFINE Row(l) == [closer |-> a, order |-> l.order, status |-> l.status]
<1>1. {h.order : h \in HistoryOf(a)} = ListedOrders(a)
  <2>1. \A l \in listed[a] : Row(l).order = l.order
    OBVIOUS
  <2>2. HistoryOf(a) = {Row(l) : l \in listed[a]}
    BY DEF HistoryOf
  <2>3. \A o : o \in ListedOrders(a) <=> \E l \in listed[a] : o = l.order
    BY DEF ListedOrders
  <2> HIDE DEF Row
  <2>4. \A o : o \in {h.order : h \in HistoryOf(a)} <=> \E l \in listed[a] : o = Row(l).order
    BY <2>2
  <2>5. QED
    BY <2>1, <2>3, <2>4
<1>2. history' = history \cup HistoryOf(a)
  BY DEF CloseCommit
<1>3. QED
  BY <1>1, <1>2 DEF Archived

\* Between its listing and its commit a close keeps its list and session.
LEMMA ListingKept ==
  ASSUME TInv, [Next]_vars, NEW a \in Closers, pc'[a] \in {"listed", "flushing"},
         ~CloseList(a)
  PROVE  pc[a] \in {"listed", "flushing"} /\ listed'[a] = listed[a] /\ sess'[a] = sess[a]
<1> DEFINE Kept == /\ pc[a] \in {"listed", "flushing"}
                   /\ listed'[a] = listed[a] /\ sess'[a] = sess[a]
<1> USE DEF Goto, TInv, TypeOK, Req
<1>1. ASSUME NEW q \in Starters, StartRead(q) \/ StartStep(q) \/ Expire(q) PROVE Kept
  BY <1>1 DEF StartStep, StartRead, StartExpire, StartInsert, StartCommit, Expire
<1>2. ASSUME NEW c \in Creators, CreateVerify(c) \/ CreateStep(c) PROVE Kept
  BY <1>2 DEF CreateStep, CreateVerify, CreateNumber, CreateInsert, CreateCommit
<1>3. ASSUME NEW u \in Updaters, UpdateLoad(u) \/ UpdateStep(u) PROVE Kept
  BY <1>3 DEF UpdateStep, UpdateLoad, UpdateFlush, UpdateCommit, Load
<1>4. ASSUME NEW d \in Deleters, DeleteLoad(d) \/ DeleteStep(d) PROVE Kept
  BY <1>4 DEF DeleteStep, DeleteLoad, DeleteFlush, DeleteCommit, Load
<1>5. ASSUME NEW b \in Closers, CloseLoad(b) \/ CloseStep(b) PROVE Kept
  BY <1>5 DEF CloseStep, CloseLoad, CloseList, CloseFlush, CloseFlushOrder, CloseCommit
<1>6. ASSUME NEW l \in Leavers, LeaveVerify(l) \/ LeaveStep(l) PROVE Kept
  BY <1>6 DEF LeaveStep, LeaveVerify, LeaveFlush, LeaveCommit
<1>7. ASSUME NEW q \in Publishers, PublishStep(q) PROVE Kept
  BY <1>7 DEF PublishStep, PublishStore, PublishSession, Publishers
<1>8. ASSUME NEW q \in Req, Abort(q) PROVE Kept
  BY <1>8 DEF Abort
<1>9. CASE Crash
  BY <1>9 DEF Crash, CanAbort, InFlight, Final
<1>10. CASE UNCHANGED vars
  BY <1>10 DEF vars
<1>11. QED
  BY <1>1, <1>2, <1>3, <1>4, <1>5, <1>6, <1>7, <1>8, <1>9, <1>10 DEF Next, Quiet

\* No step loses an order, leaves an archived one current or announces what is
\* not committed.
LEMMA HInvNext == TInv /\ TInv' /\ NInv /\ SInv /\ HInv /\ [Next]_vars => HInv'
<1> SUFFICES ASSUME TInv, TInv', NInv, SInv, HInv, [Next]_vars PROVE HInv'
  OBVIOUS
<1>1. Forward
  BY StepForward
<1>2. \A r \in Req : pc[r] \in Committed => Settled(r)
  BY CommittedSettled
<1>3. AdminDeleted \subseteq AdminDeleted'
  BY <1>2 DEF AdminDeleted, Settled, Req
<1>4. Archived \subseteq Archived'
  BY <1>1 DEF Archived, Forward
<1>5. ListedOfSession'
  <2>1. SUFFICES ASSUME NEW a \in Closers, pc'[a] \in {"listed", "flushing"},
                        NEW o \in ListedOrders(a)'
                 PROVE  sess'[o] = sess'[a]
    BY DEF ListedOfSession
  <2>2. CASE CloseList(a)
    BY <2>1, <2>2 DEF CloseList, ListedOrders, Live, TInv, TypeOK
  <2>3. CASE ~CloseList(a)
    <3>1. pc[a] \in {"listed", "flushing"} /\ listed'[a] = listed[a] /\ sess'[a] = sess[a]
      BY <2>1, <2>3, ListingKept
    <3>2. o \in orders /\ sess[o] = sess[a]
      BY <2>1, <3>1 DEF ListedOrders, HInv, ListedOfSession, TInv, TypeOK
    <3>3. QED
      BY <1>1, <3>1, <3>2 DEF Forward
  <2>4. QED
    BY <2>2, <2>3
<1>6. NothingLost'
  <2>1. ASSUME NEW d \in Deleters, DeleteCommit(d) PROVE NothingLost'
    <3>1. ord[d] \in AdminDeleted' /\ deleted' = deleted \cup {ord[d]}
      BY <2>1 DEF DeleteCommit, AdminDeleted, Committed, Goto, TInv, TypeOK, Req
    <3>2. QED
      BY <1>3, <1>4, <3>1 DEF HInv, NothingLost
  <2>2. ASSUME NEW a \in Closers, CloseCommit(a) PROVE NothingLost'
    <3>1. ListedOrders(a) \subseteq Archived' /\ deleted' = deleted \cup ListedOrders(a)
      BY <2>2, ArchivedByClose DEF CloseCommit
    <3>2. QED
      BY <1>3, <1>4, <3>1 DEF HInv, NothingLost
  <2>3. CASE deleted' = deleted
    BY <1>3, <1>4, <2>3 DEF HInv, NothingLost
  <2>4. QED
    BY <2>1, <2>2, <2>3, DeletionsOnly
<1>7. ArchivedIsGone'
  <2>1. \A o \in Archived : o \in orders /\ sess[o] \in Starters
    BY DEF Archived, TInv, TypeOK, RefersToRows, SessionRows
  <2>2. \A o \in Archived : o \in deleted' /\ sStatus'[sess'[o]] = "closed"
    BY <1>1, <2>1 DEF Forward, HInv, ArchivedIsGone
  <2>3. ASSUME NEW a \in Closers, CloseCommit(a) PROVE ArchivedIsGone'
    <3>1. /\ Archived' = Archived \cup ListedOrders(a)
          /\ ListedOrders(a) \subseteq deleted'
      BY <2>3, ArchivedByClose DEF CloseCommit
    <3>2. sStatus'[sess[a]] = "closed" /\ sess' = sess
      BY <2>3 DEF CloseCommit, TInv, TypeOK, RefersToRows, SessionRows, Req
    <3>3. \A o \in ListedOrders(a) : sess[o] = sess[a]
      BY <2>3 DEF CloseCommit, HInv, ListedOfSession
    <3>4. QED
      BY <2>2, <3>1, <3>2, <3>3 DEF ArchivedIsGone
  <2>4. CASE history' = history
    BY <2>2, <2>4 DEF ArchivedIsGone, Archived
  <2>5. ASSUME NEW d \in Deleters, DeleteCommit(d) PROVE history' = history
    BY <2>5 DEF DeleteCommit
  <2>6. QED
    BY <2>3, <2>4, <2>5, DeletionsOnly
<1>8. AnnouncedAtCommit'
  <2>1. ASSUME NEW r \in Publishers, pc'[r] \in Committed PROVE Announced(r)'
    <3>1. CASE pc[r] \in Committed
      <4>1. Announced(r)
        BY <3>1 DEF HInv, AnnouncedAtCommit
      <4>2. Settled(r)
        BY <1>2, <3>1 DEF Publishers, Req
      <4>3. r \in Closers => sStatus'[sess'[r]] = "closed"
        <5>1. r \in Closers => sess[r] \in Starters
          BY <3>1, KindsApart DEF TInv, RefersToRows, SessionRows, Committed, Req
        <5>2. QED
          BY <1>1, <4>1, <4>2, <5>1 DEF Announced, Settled, Forward
      <4>4. QED
        BY <1>1, <4>1, <4>2, <4>3 DEF Announced, Settled, Forward, ListedOrders
    <3>2. CASE CommitStep(r)
      <4>1. CASE r \in Creators /\ CreateCommit(r)
        BY <4>1, KindsApart DEF CreateCommit, Announced, Req
      <4>2. CASE r \in Updaters /\ UpdateCommit(r)
        BY <4>2, KindsApart DEF UpdateCommit, Announced, Req, TInv, RefersToRows
      <4>3. CASE r \in Deleters /\ DeleteCommit(r)
        BY <4>3, KindsApart DEF DeleteCommit, Announced, Req
      <4>4. CASE r \in Closers /\ CloseCommit(r)
        BY <4>4, KindsApart
        DEF CloseCommit, Announced, Req, ListedOrders, TInv, TypeOK, RefersToRows, SessionRows
      <4>5. QED
        BY <3>2, <4>1, <4>2, <4>3, <4>4 DEF CommitStep
    <3>3. QED
      BY <2>1, <3>1, <3>2, CommitsOnly
  <2>2. ASSUME NEW t \in Topics, NEW r \in bus'[t]
        PROVE  pc'[r] \in {"told", "done"} /\ t \in {Store, sess'[r]}
    <3>1. CASE r \in bus[t]
      <4>1. r \in Req /\ pc[r] \in {"told", "done"} /\ t \in {Store, sess[r]}
        BY <3>1 DEF HInv, AnnouncedAtCommit, TInv, TypeOK, Publishers, Req
      <4>2. Settled(r)
        BY <1>2, <4>1 DEF Committed
      <4>3. QED
        BY <4>1, <4>2 DEF Settled
    <3>2. CASE r \notin bus[t]
      <4>1. \E q \in Publishers : PublishStep(q)
        BY <2>2, <3>2, BusKept DEF TInv, TypeOK
      <4>2. PICK q \in Publishers : PublishStep(q)
        BY <4>1
      <4>3. r = q
        BY <2>2, <3>2, <4>2
        DEF PublishStep, PublishStore, PublishSession, Publish, TInv, TypeOK
      <4>4. QED
        BY <2>2, <3>2, <4>2, <4>3
        DEF PublishStep, PublishStore, PublishSession, Publish, Goto, TInv, TypeOK,
            Publishers, Req
    <3>3. QED
      BY <3>1, <3>2
  <2>3. QED
    BY <2>1, <2>2 DEF AnnouncedAtCommit
<1>9. QED
  BY <1>5, <1>6, <1>7, <1>8 DEF HInv

\* What is known of history, deletions and events at any time.
THEOREM HistoryInvariant == Spec => []HInv
<1>1. QED
  BY HInvInit, HInvNext, Typing, NumbersInvariant, SessionsInvariant, PTL DEF Spec

\* No close drops an order that it does not put into history.
THEOREM NothingIsLost == Spec => []NothingLost
<1>1. HInv => NothingLost
  BY DEF HInv
<1>2. QED
  BY <1>1, HistoryInvariant, PTL

\* What is in history is deleted and its session is closed.
THEOREM ArchiveMoves == Spec => []ArchivedIsGone
<1>1. HInv => ArchivedIsGone
  BY DEF HInv
<1>2. QED
  BY <1>1, HistoryInvariant, PTL

\* BR-O06: events tell of committed facts only, on the right topics.
THEOREM EventsAfterCommit == Spec => []EventsTruthful
<1>1. TInv /\ HInv => EventsTruthful
  BY DEF HInv, AnnouncedAtCommit, EventsTruthful, TInv, TypeOK, Committed, Publishers
<1>2. QED
  BY <1>1, Typing, HistoryInvariant, PTL

-----------------------------------------------------------------------------
(* Locks.                                                                  *)

LInv == LocksInFlight

\* Nobody holds a row at first.
LEMMA LInvInit == Init => LInv
BY KindsApart DEF Init, LInv, LocksInFlight, Disjoint, Req

\* A step of r that leaves the locks of all others alone, and takes only rows
\* nobody holds, keeps every row with one holder.
LEMMA HeldByOne ==
  ASSUME LInv, NEW r \in Req,
         \A q \in Req \ {r} : held'[q] = held[q],
         \A row \in held'[r] : row \in held[r] \/ RowFree(row)
  PROVE  \A p, q \in Req : p # q => Disjoint(held'[p], held'[q])
<1> SUFFICES ASSUME NEW p \in Req, NEW q \in Req, p # q
             PROVE  Disjoint(held'[p], held'[q])
  OBVIOUS
<1>1. \A row : ~(row \in held[p] /\ row \in held[q])
  BY DEF LInv, LocksInFlight, Disjoint
<1>2. CASE p # r /\ q # r
  BY <1>1, <1>2 DEF Disjoint
<1>3. CASE p = r
  BY <1>1, <1>3 DEF Disjoint, RowFree
<1>4. CASE q = r
  BY <1>1, <1>4 DEF Disjoint, RowFree
<1> QED
  BY <1>2, <1>3, <1>4

\* What the locks of one request have to do with how far it has come.
Locks(q) ==
  /\ q \in Starters /\ held[q] # {} =>
       pc[q] \in {"insert", "flushed"} /\ held[q] = {sess[q]}
  /\ q \in Creators => held[q] = {}
  /\ q \in Updaters \cup Deleters \cup Leavers /\ held[q] # {} => pc[q] = "flushed"
  /\ q \in Closers /\ held[q] # {} =>
       pc[q] = "flushing" /\ held[q] \subseteq {sess[q]} \cup ListedOrders(q)
  /\ q \in Closers /\ pc[q] = "flushing" => sess[q] \in held[q]

\* The invariant, request by request.
LEMMA LockByLock ==
  LInv <=> /\ \A q, r \in Req : q # r => Disjoint(held[q], held[r])
           /\ \A q \in Req : Locks(q)
BY KindsApart DEF LInv, LocksInFlight, Locks, Req

\* A request whose own variables stay as they are keeps its locks in order.
LEMMA LocksKept ==
  ASSUME NEW q \in Req, Locks(q),
         pc'[q] = pc[q], sess'[q] = sess[q], held'[q] = held[q],
         q \in Closers => listed'[q] = listed[q]
  PROVE  Locks(q)'
BY DEF Locks, ListedOrders

\* A step of r alone, after which its own locks are in order.
Orderly(r) ==
  /\ \A q \in Req \ {r} : /\ pc'[q] = pc[q] /\ sess'[q] = sess[q] /\ held'[q] = held[q]
                          /\ q \in Closers => listed'[q] = listed[q]
  /\ \A row \in held'[r] : row \in held[r] \/ RowFree(row)
  /\ Locks(r)'

\* Such steps keep the invariant.
LEMMA OrderlyKeeps ==
  ASSUME LInv, NEW r \in Req, Orderly(r)
  PROVE  LInv'
<1>1. \A p, q \in Req : p # q => Disjoint(held'[p], held'[q])
  BY HeldByOne DEF Orderly
<1>2. \A q \in Req : Locks(q)'
  BY LocksKept, LockByLock DEF Orderly
<1> QED
  BY <1>1, <1>2, KindsApart DEF LInv, LocksInFlight, Locks, Req

\* No step gives a row to two requests, or leaves one with a row it should have
\* released.
LEMMA LInvNext == TInv /\ LInv /\ [Next]_vars => LInv'
<1> SUFFICES ASSUME TInv, LInv, [Next]_vars PROVE LInv'
  OBVIOUS
<1>0. \A r \in Req : Locks(r)
  BY LockByLock
<1> USE DEF Goto, Release, Take, TInv, TypeOK, Req, rows
<1>1. ASSUME NEW r \in Starters, StartRead(r) \/ StartStep(r) PROVE Orderly(r)
  <2>1. CASE StartRead(r)
    BY <1>0, <2>1, KindsApart DEF StartRead, Orderly, Locks
  <2>2. CASE StartExpire(r)
    BY <1>0, <2>2, KindsApart DEF StartExpire, Orderly, Locks
  <2>3. CASE StartInsert(r)
    BY <1>0, <2>3, KindsApart DEF StartInsert, Orderly, Locks
  <2>4. CASE StartCommit(r)
    BY <1>0, <2>4, KindsApart DEF StartCommit, Orderly, Locks
  <2> QED
    BY <1>1, <2>1, <2>2, <2>3, <2>4 DEF StartStep
<1>2. ASSUME NEW c \in Creators, CreateVerify(c) \/ CreateStep(c) PROVE Orderly(c)
  BY <1>0, <1>2, KindsApart
  DEF CreateStep, CreateVerify, CreateNumber, CreateInsert, CreateCommit, Orderly, Locks
<1>3. ASSUME NEW u \in Updaters, UpdateLoad(u) \/ UpdateStep(u) PROVE Orderly(u)
  BY <1>0, <1>3, KindsApart
  DEF UpdateStep, UpdateLoad, UpdateFlush, UpdateCommit, Load, Orderly, Locks
<1>4. ASSUME NEW d \in Deleters, DeleteLoad(d) \/ DeleteStep(d) PROVE Orderly(d)
  BY <1>0, <1>4, KindsApart
  DEF DeleteStep, DeleteLoad, DeleteFlush, DeleteCommit, Load, Orderly, Locks
<1>5. ASSUME NEW a \in Closers, CloseLoad(a) \/ CloseStep(a) PROVE Orderly(a)
  <2>1. CASE CloseLoad(a) \/ CloseList(a)
    BY <1>0, <2>1, KindsApart DEF CloseLoad, CloseList, Orderly, Locks
  <2>2. CASE CloseFlush(a)
    BY <1>0, <2>2, KindsApart DEF CloseFlush, Orderly, Locks
  <2>3. CASE CloseFlushOrder(a)
    BY <1>0, <2>3, KindsApart DEF CloseFlushOrder, Orderly, Locks, ListedOrders
  <2>4. CASE CloseCommit(a)
    BY <1>0, <2>4, KindsApart DEF CloseCommit, Orderly, Locks
  <2> QED
    BY <1>5, <2>1, <2>2, <2>3, <2>4 DEF CloseStep
<1>6. ASSUME NEW l \in Leavers, LeaveVerify(l) \/ LeaveStep(l) PROVE Orderly(l)
  BY <1>0, <1>6, KindsApart
  DEF LeaveStep, LeaveVerify, LeaveFlush, LeaveCommit, Orderly, Locks
<1>7. ASSUME NEW r \in Publishers, PublishStep(r) PROVE Orderly(r)
  BY <1>0, <1>7, KindsApart
  DEF PublishStep, PublishStore, PublishSession, Publishers, Orderly, Locks
<1>8. ASSUME NEW r \in Req, Abort(r) PROVE Orderly(r)
  BY <1>0, <1>8, KindsApart DEF Abort, Orderly, Locks
<1>9. CASE Crash
  BY <1>9 DEF Crash, LInv, LocksInFlight, Disjoint, CanAbort, InFlight, Final
<1>10. CASE (\E s \in Starters : Expire(s)) \/ UNCHANGED vars
  BY <1>10 DEF Expire, vars, LInv, LocksInFlight, ListedOrders
<1>11. QED
  BY <1>1, <1>2, <1>3, <1>4, <1>5, <1>6, <1>7, <1>8, <1>9, <1>10, OrderlyKeeps
  DEF Next, Quiet, Publishers

\* Who holds which row, at any time.
THEOREM LocksInvariant == Spec => []LInv
<1>1. QED
  BY LInvInit, LInvNext, Typing, PTL DEF Spec

\* In every state some open transaction finds all it needs free: one that has
\* flushed waits for nothing, a close that has its session's row gets the
\* orders, and a start that has closed an active session has no rival.
LEMMA SomebodyGoesOn == TInv /\ SInv /\ HInv /\ LInv => NoCircularWait
<1> SUFFICES ASSUME TInv, SInv, HInv, LInv, NEW o \in Req, CanAbort(o)
             PROVE  \E r \in Req : /\ CanAbort(r) /\ ~KeyAwaited(r)
                                   /\ \A row \in Awaited(r) : RowFree(row)
  BY DEF NoCircularWait
<1> DEFINE Free(r) == /\ CanAbort(r) /\ ~KeyAwaited(r)
                      /\ \A row \in Awaited(r) : RowFree(row)
<1>0. /\ \A r \in Req : Locks(r)
      /\ \A q, r \in Req : q # r => Disjoint(held[q], held[r])
  BY LockByLock
<1>1. ASSUME NEW r \in Req, pc[r] = "flushed" PROVE Free(r)
  BY <1>1 DEF CanAbort, InFlight, Final, Committed, KeyAwaited, Awaited
<1>2. CASE \A r \in Req : pc[r] # "flushed"
  <2>1. \A r \in Req : ~KeyAwaited(r)
    BY <1>2 DEF KeyAwaited, PendingRivals, KeyPending, Req
  <2>2. ASSUME NEW a \in Closers, pc[a] = "flushing" PROVE Free(a)
    <3>1. CanAbort(a) /\ a \in Req
      BY <2>2 DEF CanAbort, InFlight, Final, Committed, Req
    <3>2. SUFFICES ASSUME NEW row \in ListedOrders(a) \ held[a], NEW q \in Req, row \in held[q]
                   PROVE  FALSE
      BY <2>1, <2>2, <3>1, KindsApart DEF Awaited, RowFree
    <3>3. row \in Creators
      BY <3>2 DEF ListedOrders, TInv, TypeOK
    <3>4. q \in Closers /\ pc[q] = "flushing" /\ row \in ListedOrders(q) /\ sess[q] \in held[q]
      <4>1. sess[q] \in Starters \cup {NoSession} /\ sess[q] # row
        BY <3>3, KindsApart DEF TInv, TypeOK, Req
      <4> QED
        BY <1>0, <1>2, <3>2, <4>1 DEF Locks, Req
    <3>5. sess[q] = sess[a]
      BY <2>2, <3>2, <3>4 DEF HInv, ListedOfSession
    <3>6. sess[a] \in held[a] /\ q # a
      BY <1>0, <2>2, <3>1, <3>2 DEF Locks
    <3> QED
      BY <1>0, <3>1, <3>4, <3>5, <3>6 DEF Disjoint
  <2>3. CASE \A a \in Closers : pc[a] # "flushing"
    <3>1. \A q \in Req : held[q] # {} =>
            q \in Starters /\ pc[q] = "insert" /\ held[q] = {sess[q]}
      BY <1>0, <1>2, <2>3 DEF Locks, Req
    <3>2. ASSUME NEW q \in Starters, pc[q] = "insert",
                 \A row \in ActiveRivals(q) : RowFree(row)
          PROVE  Free(q)
      BY <2>1, <3>2, KindsApart DEF CanAbort, InFlight, Final, Committed, Awaited, Req
    <3>3. ASSUME NEW q \in Req, held[q] # {}, sStatus[sess[q]] = "active" PROVE Free(q)
      <4>1. q \in Starters /\ pc[q] = "insert" /\ sess[q] \in Starters
        <5>1. held[q] \subseteq Starters \cup Creators
          BY DEF TInv, TypeOK, Rows
        <5>2. sess[q] \in Starters \cup {NoSession} /\ NoSession \notin Starters \cup Creators
          BY NoValues DEF TInv, TypeOK, Req
        <5> QED
          BY <3>1, <3>3, <5>1, <5>2
      <4>2. ActiveRivals(q) = {}
        <5>1. TableOf[sess[q]] = TableOf[q]
          BY <4>1, NoValues DEF SInv, StartsInFlight, Req
        <5> QED
          BY <3>3, <4>1, <5>1 DEF ActiveRivals, ActiveOn, SInv, AtMostOneActive
      <4> QED
        BY <3>2, <4>1, <4>2
    <3>4. ASSUME NEW q \in Req, held[q] # {},
                 \A p \in Req : held[p] # {} => sStatus[sess[p]] # "active"
          PROVE  Free(q)
      <4>1. \A row \in ActiveRivals(q) : RowFree(row)
        BY <3>1, <3>4 DEF ActiveRivals, ActiveOn, RowFree
      <4> QED
        BY <3>1, <3>2, <3>4, <4>1
    <3>5. CASE \A q \in Req : held[q] = {}
      BY <2>1, <3>5 DEF RowFree
    <3> QED
      BY <3>3, <3>4, <3>5
  <2> QED
    BY <2>2, <2>3 DEF Req
<1> QED
  BY <1>1, <1>2

\* Whatever requests there are, open transactions never wait for each other in
\* a circle (the lock order of close_session and start_session).
THEOREM NoCircle == Spec => []NoCircularWait
<1>1. QED
  BY SomebodyGoesOn, Typing, SessionsInvariant, HistoryInvariant, LocksInvariant, PTL

=============================================================================
