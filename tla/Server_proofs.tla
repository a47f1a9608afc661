---------------------------- MODULE Server_proofs ----------------------------
(* Proofs for Server. *)
EXTENDS Server, FiniteSetTheorems, TLAPS

\* What of a request depends on how far it is.
Consistent(r) ==
  /\ pc[r] # "closing" => status[r] = 0
  /\ pc[r] \in {"endpoint", "flushed"} => ctx[r] = Caller[r].store
  /\ pc[r] = "flushed" => kind[r] = "status" /\ result[r] = Visible(r)
  /\ pc[r] = "serving" => kind[r] = "stream"
  /\ loop = r => pc[r] = "asking"
  /\ kind[r] = "myOrders" => role[r] = "customer"

\* What TenantScoped says of one request.
Answered(r) ==
  kind[r] \notin {"stream", "health"} =>
    /\ status[r] = 200 => result[r] = Visible(r)
    /\ status[r] = 404 => Visible(r) = {}
    /\ status[r] # 403

TInv == TypeOK /\ IsFiniteSet(conn)

RInv == \A r \in Requests : Consistent(r) /\ Answered(r)

\* The rows an endpoint finds with the caller's store in its context are those
\* the caller may see.
LEMMA FoundIsVisible ==
  ASSUME NEW r \in Requests, NEW row, ctx[r] = Caller[r].store,
         kind[r] = "myOrders" => role[r] = "customer",
         UNCHANGED <<kind, role>>, asked'[r] = row
  PROVE  Found(r, row) = Visible(r)'
<1>1. Scoped(ctx[r]) = {o \in Rows : Owner[o].store = Caller[r].store}
  BY DEF Scoped
<1>2. kind'[r] = kind[r] /\ role'[r] = role[r]
  OBVIOUS
<1>3. CASE kind[r] = "myOrders"
  BY <1>1, <1>2, <1>3 DEF Found, SessionOrders, Visible, Named
<1>4. CASE kind[r] = "order"
  BY <1>1, <1>2, <1>4 DEF Found, OrderDetail, StoreRow, Visible, Named
<1>5. CASE kind[r] \in {"status", "menu"}
  BY <1>1, <1>2, <1>5 DEF Found, StoreRow, Visible, Named
<1>6. CASE kind[r] \notin {"myOrders", "order", "status", "menu"}
  BY <1>1, <1>2, <1>6 DEF Found, StoreRows, Visible, Named
<1> QED
  BY <1>3, <1>4, <1>5, <1>6

-----------------------------------------------------------------------------
(* Types.                                                                  *)

Labels == {"new", "arrived", "guard", "passed", "endpoint", "flushed", "closing",
           "opening", "ready", "asking", "serving", "ended"}

\* The connections stay within the pool.
LEMMA Pooled ==
  ASSUME TInv, NEW r \in Requests,
         conn' = conn \/ (~Full /\ conn' = conn \cup {r}) \/ conn' = conn \ {r}
  PROVE  conn' \subseteq Requests /\ IsFiniteSet(conn') /\ Cardinality(conn') <= PoolSize + MaxOverflow
<1>1. IsFiniteSet(conn) /\ Cardinality(conn) \in Nat /\ Cardinality(conn) <= PoolSize + MaxOverflow
  BY FS_CardinalityType DEF TInv, TypeOK
<1>2. PoolSize + MaxOverflow \in Nat
  BY Capacities
<1>3. IsFiniteSet(conn') /\ Cardinality(conn') <= PoolSize + MaxOverflow
  <2>1. CASE conn' = conn
    BY <1>1, <2>1
  <2>2. CASE ~Full /\ conn' = conn \cup {r}
    <3>1. /\ IsFiniteSet(conn \cup {r})
          /\ Cardinality(conn \cup {r}) = IF r \in conn THEN Cardinality(conn) ELSE Cardinality(conn) + 1
      BY <1>1, FS_AddElement
    <3>2. Cardinality(conn) # PoolSize + MaxOverflow
      BY <2>2 DEF Full
    <3> QED
      BY <1>1, <1>2, <2>2, <3>1, <3>2
  <2>3. CASE conn' = conn \ {r}
    BY <1>1, <1>2, <2>3, FS_RemoveElement
  <2> QED
    BY <2>1, <2>2, <2>3
<1> QED
  BY <1>3 DEF TInv, TypeOK

\* The server starts with no connection taken.
LEMMA TInvInit == Init => TInv
BY FS_EmptySet, Capacities DEF Init, TInv, TypeOK

\* No step breaks a type.
LEMMA TInvNext == TInv /\ [Next]_vars => TInv'
<1> SUFFICES ASSUME TInv, [Next]_vars PROVE TInv'
  OBVIOUS
<1> USE DEF TInv
<1>1. CASE UNCHANGED vars
  BY <1>1 DEF vars, request, TypeOK
<1>2. ASSUME NEW r \in Requests, Arrive(r) \/ Step(r) \/ GiveUp(r) \/ HangUp(r) PROVE TInv'
  <2>1. conn' \subseteq Requests /\ IsFiniteSet(conn') /\ Cardinality(conn') <= PoolSize + MaxOverflow
    <3>1. conn' = conn \/ (~Full /\ conn' = conn \cup {r}) \/ conn' = conn \ {r}
      BY <1>2 DEF Arrive, Step, GiveUp, HangUp, Connect, EnterGuard, RequireAdmin, RequireCustomer, Decides,
             EnterEndpoint, Query, Outcome, Commit, Close, OpenSession, Occupy, StreamOpens, Healthy, Respond, End
    <3> QED
      BY <3>1, Pooled
  <2>2. /\ pc' \in [Requests -> Labels]
        /\ status' \in [Requests -> Codes \cup {0}]
        /\ loop' \in Requests \cup {Idle}
    BY <1>2 DEF TypeOK, Labels, Codes, Goto, Respond, Arrive, Step, GiveUp, HangUp, Connect, EnterGuard,
           RequireAdmin, RequireCustomer, Decides, EnterEndpoint, Query, Outcome, Commit, Close, OpenSession, Occupy,
           StreamOpens, Healthy, End
  <2>3. /\ kind' \in [Requests -> Endpoints \cup {"none"}]
        /\ role' \in [Requests -> {"anonymous", "admin", "customer"}]
    <3>1. CASE Arrive(r)
      <4>1. PICK k \in Kinds[r] : \E who \in Roles(k) :
              kind' = [kind EXCEPT ![r] = k] /\ role' = [role EXCEPT ![r] = who]
        BY <3>1 DEF Arrive
      <4>2. k \in Endpoints
        BY KindsKnown
      <4>3. Roles(k) \subseteq {"anonymous", "admin", "customer"}
        BY DEF Roles
      <4> QED
        BY <4>1, <4>2, <4>3 DEF TypeOK
    <3>2. CASE Close(r)
      BY <3>2 DEF TypeOK, Close, End
    <3>3. CASE UNCHANGED <<kind, role>>
      BY <3>3 DEF TypeOK
    <3> QED
      BY <1>2, <3>1, <3>2, <3>3 DEF request, Step, GiveUp, HangUp, Connect, EnterGuard, RequireAdmin,
             RequireCustomer, Decides, EnterEndpoint, Query, Outcome, Commit, OpenSession, Occupy, StreamOpens, Healthy
  <2>4. /\ asked' \in [Requests -> Rows \cup {NoRow}]
        /\ ctx' \in [Requests -> Stores \cup {NoStore}]
        /\ result' \in [Requests -> SUBSET Rows]
    <3>1. CASE Query(r)
      <4>1. \A row : Found(r, row) \in SUBSET Rows
        BY DEF Found, SessionOrders, OrderDetail, StoreRow, StoreRows, Scoped
      <4> HIDE DEF Found
      <4> QED
        BY <3>1, <4>1 DEF TypeOK, Query
    <3>2. CASE Close(r)
      BY <3>2 DEF TypeOK, Close, End
    <3>3. CASE EnterEndpoint(r)
      BY <3>3, Owners DEF TypeOK, EnterEndpoint, request
    <3>4. CASE UNCHANGED <<asked, ctx, result>>
      BY <3>4 DEF TypeOK
    <3> QED
      BY <1>2, <3>1, <3>2, <3>3, <3>4 DEF request, Arrive, Step, GiveUp, HangUp, Connect, EnterGuard,
             RequireAdmin, RequireCustomer, Decides, Commit, OpenSession, Occupy, StreamOpens, Healthy
  <2> QED
    BY <2>1, <2>2, <2>3, <2>4 DEF TypeOK, Labels
<1> QED
  BY <1>1, <1>2 DEF Next

-----------------------------------------------------------------------------
(* Tenants.                                                                *)

\* A step of r touches nothing another request has.
LEMMA OthersKeep ==
  ASSUME TInv, NEW r \in Requests, Arrive(r) \/ Step(r) \/ GiveUp(r) \/ HangUp(r),
         NEW q \in Requests, q # r, Consistent(q), Answered(q)
  PROVE  Consistent(q)' /\ Answered(q)'
<1>1. /\ kind'[q] = kind[q] /\ role'[q] = role[q] /\ asked'[q] = asked[q]
      /\ pc'[q] = pc[q] /\ ctx'[q] = ctx[q] /\ result'[q] = result[q] /\ status'[q] = status[q]
  BY DEF TInv, TypeOK, request, Goto, Respond, Arrive, Step, GiveUp, HangUp, Connect, EnterGuard,
         RequireAdmin, RequireCustomer, Decides, EnterEndpoint, Query, Outcome, Commit, Close, OpenSession, Occupy,
         StreamOpens, Healthy, End
<1>2. Visible(q)' = Visible(q)
  BY <1>1 DEF Visible
<1>3. loop' = q => loop = q
  BY Owners DEF Arrive, Step, GiveUp, HangUp, Connect, EnterGuard, RequireAdmin, RequireCustomer, Decides,
         EnterEndpoint, Query, Outcome, Commit, Close, OpenSession, Occupy, StreamOpens, Healthy
<1> QED
  BY <1>1, <1>2, <1>3 DEF Consistent, Answered

\* Initially nothing is answered.
LEMMA RInvInit == Init => RInv
BY Owners DEF Init, RInv, Consistent, Answered

\* Each answer is what its caller may see.
LEMMA RInvNext == TInv /\ RInv /\ [Next]_vars => RInv'
<1> SUFFICES ASSUME TInv, RInv, [Next]_vars PROVE RInv'
  OBVIOUS
<1> USE DEF TInv, TypeOK
<1>1. CASE UNCHANGED vars
  BY <1>1 DEF vars, request, RInv, Consistent, Answered, Visible
<1>2. ASSUME NEW r \in Requests, Arrive(r) \/ Step(r) \/ GiveUp(r) \/ HangUp(r) PROVE RInv'
  <2>1. Consistent(r) /\ Answered(r)
    BY DEF RInv
  <2>2. SUFFICES Consistent(r)' /\ Answered(r)'
    BY <1>2, OthersKeep DEF RInv
  <2>3. CASE Arrive(r)
    <3>1. /\ pc[r] = "new" /\ status'[r] = 0 /\ pc'[r] \in {"opening", "ready", "arrived"}
      BY <2>1, <2>3 DEF Arrive, Goto, Consistent
    <3>2. kind'[r] = "myOrders" => role'[r] = "customer"
      BY <2>3 DEF Arrive, Roles, Viewed
    <3>3. loop' # r
      BY <2>3, Owners DEF Arrive
    <3> QED
      BY <3>1, <3>2, <3>3 DEF Consistent, Answered
  <2>4. CASE Query(r)
    <3>1. PICK row : /\ asked' = [asked EXCEPT ![r] = row]
                     /\ result' = [result EXCEPT ![r] = Found(r, row)]
                     /\ Outcome(r, row)
      BY <2>4 DEF Query
    <3>2. pc[r] = "endpoint" /\ UNCHANGED <<kind, role, ctx, loop>>
      BY <2>4 DEF Query
    <3>3. asked'[r] = row /\ result'[r] = Found(r, row)
      BY <3>1
    <3>4. ctx[r] = Caller[r].store /\ ctx[r] # NoStore
      BY <2>1, <3>2, Owners DEF Consistent
    <3>5. Found(r, row) = Visible(r)'
      BY <2>1, <3>2, <3>3, <3>4, FoundIsVisible DEF Consistent
    <3>6. CASE Respond(r, 404) /\ Found(r, row) = {}
      BY <2>1, <3>2, <3>5, <3>6 DEF Respond, Goto, Consistent, Answered
    <3>7. CASE kind[r] = "status" /\ Goto(r, "flushed") /\ UNCHANGED status
      BY <2>1, <3>2, <3>3, <3>4, <3>5, <3>7 DEF Goto, Consistent, Answered
    <3>8. CASE Respond(r, 200)
      BY <2>1, <3>2, <3>3, <3>5, <3>8 DEF Respond, Goto, Consistent, Answered
    <3> QED
      BY <3>1, <3>4, <3>6, <3>7, <3>8 DEF Outcome
  <2>5. CASE Close(r)
    BY <2>5, Owners DEF Close, End, Goto, Consistent, Answered
  <2>6. CASE EnterEndpoint(r)
    BY <2>1, <2>6, Owners DEF EnterEndpoint, Goto, request, Consistent, Answered
  <2>7. ASSUME UNCHANGED <<request, ctx, result>>,
               loop' = r => (loop = r /\ pc'[r] = pc[r]) \/ pc'[r] = "asking",
               \/ status'[r] = status[r] /\ pc'[r] = pc[r]
               \/ status'[r] = status[r] /\ pc[r] # "closing"
                  /\ pc'[r] \in {"guard", "passed", "ready", "asking"}
               \/ kind[r] = "stream" /\ pc[r] # "closing" /\ pc'[r] = "serving" /\ UNCHANGED status
               \/ pc'[r] = "closing" /\ status'[r] \in {401, 500, 503}
               \/ pc'[r] = "closing" /\ status'[r] = 200
                  /\ (kind[r] \in {"stream", "health"} \/ pc[r] = "flushed")
        PROVE  Consistent(r)' /\ Answered(r)'
    <3>1. Visible(r)' = Visible(r) /\ kind'[r] = kind[r] /\ role'[r] = role[r] /\ result'[r] = result[r]
          /\ ctx'[r] = ctx[r]
      BY <2>7 DEF Visible, request
    <3> QED
      BY <2>1, <2>7, <3>1 DEF Consistent, Answered
  <2>8. CASE Connect(r)
    BY <2>1, <2>7, <2>8, Owners DEF Consistent, Connect
  <2>9. CASE EnterGuard(r)
    BY <2>1, <2>7, <2>9, Owners DEF Consistent, EnterGuard, Goto
  <2>10. CASE RequireAdmin(r) \/ RequireCustomer(r)
    BY <2>1, <2>7, <2>10, Owners DEF Consistent, RequireAdmin, RequireCustomer, Decides, Respond, Goto
  <2>11. CASE Commit(r)
    BY <2>1, <2>7, <2>11, Owners DEF Consistent, Commit, Respond, Goto
  <2>12. CASE OpenSession(r) \/ Occupy(r)
    BY <2>1, <2>7, <2>12, Owners DEF Consistent, OpenSession, Occupy, Goto
  <2>13. CASE StreamOpens(r) \/ Healthy(r)
    BY <2>1, <2>7, <2>13, Owners DEF Consistent, StreamOpens, Healthy, Respond, Goto
  <2>14. CASE GiveUp(r)
    BY <2>1, <2>7, <2>14, Owners DEF Consistent, GiveUp, Respond, Goto
  <2>15. CASE HangUp(r)
    BY <2>1, <2>7, <2>15 DEF HangUp, Respond, Goto, Consistent
  <2> QED
    BY <1>2, <2>3, <2>4, <2>5, <2>6, <2>8, <2>9, <2>10, <2>11, <2>12, <2>13, <2>14, <2>15 DEF Step
<1> QED
  BY <1>1, <1>2 DEF Next

\* The invariant of every behaviour.
LEMMA Invariant == Spec => [](TInv /\ RInv)
<1>1. TInv /\ RInv /\ [Next]_vars => TInv' /\ RInv'
  BY TInvNext, RInvNext
<1> QED
  BY TInvInit, RInvInit, <1>1, PTL DEF Spec

\* Every variable keeps its type, and the pool its limit (engine, get_db).
THEOREM TypeCorrect == Spec => []TypeOK
<1>1. TInv => TypeOK
  BY DEF TInv
<1> QED
  BY Invariant, <1>1, PTL

\* No request is answered another tenant's rows or another session's orders,
\* nor less than its own (the guards, set_context, TenantScopedRepository).
THEOREM TenantsApart == Spec => []TenantScoped
<1>1. RInv => TenantScoped
  BY DEF RInv, Answered, TenantScoped
<1> QED
  BY Invariant, <1>1, PTL

-----------------------------------------------------------------------------
(* Standstills.                                                            *)

\* Whoever holds a connection is on its way to return it, or streams.
Holding(r) ==
  /\ r \in conn => pc[r] \in {"guard", "passed", "endpoint", "flushed", "closing", "serving"}
  /\ pc[r] = "serving" => r \in conn

SInv == IsFiniteSet(Underway) /\ \A r \in Requests : Holding(r)

\* A step of r moves no other request and leaves its connection alone.
LEMMA OthersStay ==
  ASSUME TInv, NEW r \in Requests, Arrive(r) \/ Step(r) \/ GiveUp(r) \/ HangUp(r),
         NEW q \in Requests, q # r
  PROVE  pc'[q] = pc[q] /\ (q \in conn' <=> q \in conn)
<1>1. pc'[q] = pc[q]
  BY DEF TInv, TypeOK, Goto, Respond, Arrive, Step, GiveUp, HangUp, Connect, EnterGuard,
         RequireAdmin, RequireCustomer, Decides, EnterEndpoint, Query, Outcome, Commit, Close,
         OpenSession, Occupy, StreamOpens, Healthy, End
<1>2. q \in conn' <=> q \in conn
  BY DEF Arrive, Step, GiveUp, HangUp, Connect, EnterGuard, RequireAdmin, RequireCustomer, Decides,
         EnterEndpoint, Query, Commit, Close, OpenSession, Occupy, StreamOpens, Healthy
<1> QED
  BY <1>1, <1>2

\* The step of r itself.
LEMMA HoldsOn ==
  ASSUME TInv, NEW r \in Requests, Arrive(r) \/ Step(r) \/ GiveUp(r) \/ HangUp(r),
         Consistent(r), Holding(r)
  PROVE  Holding(r)'
<1> USE DEF TInv, TypeOK, Goto, Respond, Holding
<1>1. CASE Arrive(r)
  BY <1>1 DEF Arrive
<1>2. CASE Connect(r)
  BY <1>2, Owners DEF Connect, NeedsConnection
<1>3. CASE EnterGuard(r) \/ RequireAdmin(r) \/ RequireCustomer(r)
  BY <1>3 DEF EnterGuard, RequireAdmin, RequireCustomer, Decides
<1>4. CASE EnterEndpoint(r)
  BY <1>4 DEF EnterEndpoint
<1>5. CASE Query(r)
  <2>1. pc[r] = "endpoint" /\ conn' = conn /\ pc'[r] \in {"closing", "flushed"}
    BY <1>5 DEF Query, Outcome
  <2> QED
    BY <2>1
<1>6. CASE Commit(r) \/ Close(r)
  BY <1>6 DEF Commit, Close, End
<1>7. CASE OpenSession(r) \/ Occupy(r)
  BY <1>7 DEF OpenSession, Occupy
<1>8. CASE StreamOpens(r)
  BY <1>8 DEF StreamOpens
<1>9. CASE Healthy(r)
  BY <1>9 DEF Healthy, Consistent
<1>10. CASE GiveUp(r)
  BY <1>10 DEF GiveUp, NeedsConnection
<1>11. CASE HangUp(r)
  BY <1>11 DEF HangUp
<1> QED
  BY <1>1, <1>2, <1>3, <1>4, <1>5, <1>6, <1>7, <1>8, <1>9, <1>10, <1>11 DEF Step

\* Initially nobody holds anything.
LEMMA SInvInit == Init => SInv
<1> SUFFICES ASSUME Init PROVE SInv
  OBVIOUS
<1>1. Underway = {}
  BY DEF Init, Underway
<1> QED
  BY <1>1, FS_EmptySet DEF Init, SInv, Holding

\* One request is more or less underway after a step.
LEMMA SInvNext == TInv /\ RInv /\ SInv /\ [Next]_vars => SInv'
<1> SUFFICES ASSUME TInv, RInv, SInv, [Next]_vars PROVE SInv'
  OBVIOUS
<1>1. CASE UNCHANGED vars
  BY <1>1 DEF vars, SInv, Underway, Holding
<1>2. ASSUME NEW r \in Requests, Arrive(r) \/ Step(r) \/ GiveUp(r) \/ HangUp(r) PROVE SInv'
  <2>1. \A q \in Requests \ {r} : pc'[q] = pc[q] /\ (q \in conn' <=> q \in conn)
    BY <1>2, OthersStay
  <2>2. \A q \in Requests : Holding(q)'
    BY <1>2, <2>1, HoldsOn DEF SInv, RInv, Holding
  <2>3. Underway' \subseteq Underway \cup {r}
    BY <2>1 DEF Underway
  <2>4. IsFiniteSet(Underway \cup {r})
    BY FS_AddElement DEF SInv
  <2>5. IsFiniteSet(Underway')
    BY <2>3, <2>4, FS_Subset
  <2> QED
    BY <2>2, <2>5 DEF SInv
<1> QED
  BY <1>1, <1>2 DEF Next

\* A request that waits for a thread, with as many underway as there are
\* threads: one of them is free.
LEMMA OneThreadFree ==
  ASSUME SInv, Cardinality(Underway) <= Threads, NEW r \in Underway, ~OnThread(r)
  PROVE  ThreadFree
<1> DEFINE busy == {q \in Requests : OnThread(q)}
<1>1. busy \subseteq Underway \ {r}
  BY DEF OnThread, Underway
<1>2. /\ IsFiniteSet(Underway \ {r}) /\ Cardinality(Underway) \in Nat
      /\ Cardinality(Underway \ {r}) = Cardinality(Underway) - 1
  BY FS_RemoveElement, FS_CardinalityType DEF SInv
<1>3. IsFiniteSet(busy) /\ Cardinality(busy) <= Cardinality(Underway \ {r})
  BY <1>1, <1>2, FS_Subset
<1>4. Cardinality(busy) \in Nat
  BY <1>3, FS_CardinalityType
<1>5. Cardinality(busy) < Threads
  BY <1>2, <1>3, <1>4, Capacities
<1> QED
  BY <1>5 DEF ThreadFree

\* Nobody holds a connection for good but streams, in every behaviour.
LEMMA HoldersInvariant == Spec => []SInv
<1>1. TInv /\ RInv /\ SInv /\ [Next]_vars => SInv'
  BY SInvNext
<1> QED
  BY Invariant, SInvInit, <1>1, PTL DEF Spec

\* With a thread for everybody underway and the loop free, only streams keep
\* their connections.
LEMMA HoldersStream ==
  ASSUME TInv, SInv, Standstill, loop = Idle, Cardinality(Underway) <= Threads
  PROVE  conn = Streaming
<1>1. \A r \in Requests : ~CanStep(r)
  BY DEF Standstill
<1>2. Streaming \subseteq conn
  BY DEF SInv, Holding, Streaming
<1>3. ASSUME NEW r \in conn, pc[r] # "serving" PROVE FALSE
  <2>1. r \in Requests /\ pc[r] \in {"guard", "passed", "endpoint", "flushed", "closing"}
    BY <1>3 DEF TInv, TypeOK, SInv, Holding
  <2>2. CASE OnThread(r)
    BY <1>1, <2>1, <2>2 DEF CanStep, NeedsConnection
  <2>3. CASE pc[r] = "closing"
    BY <1>1, <2>1, <2>3 DEF CanStep
  <2>4. CASE pc[r] = "passed"
    <3>1. ThreadFree
      BY <2>1, <2>4, OneThreadFree DEF Underway, OnThread
    <3> QED
      BY <1>1, <2>1, <2>4, <3>1 DEF CanStep
  <2> QED
    BY <2>1, <2>2, <2>3, <2>4 DEF OnThread
<1>4. conn \subseteq Streaming
  BY <1>3 DEF TInv, TypeOK, Streaming
<1> QED
  BY <1>2, <1>4

\* The server stands still only with the loop's thread waiting, with streams
\* on all connections, or with more requests underway than threads, for every
\* number of requests, threads and connections (engine, get_db).
THEOREM StandstillsExplained == Spec => []StandstillHasACause
<1>1. TInv /\ SInv => StandstillHasACause
  <2> SUFFICES ASSUME TInv, SInv, Standstill, loop = Idle, ~(Cardinality(Underway) > Threads)
               PROVE  Cardinality(Streaming) = PoolSize + MaxOverflow
    BY DEF StandstillHasACause
  <2>1. Cardinality(Underway) \in Nat /\ Threads \in Nat
    BY FS_CardinalityType, Capacities DEF SInv
  <2>2. Cardinality(Underway) <= Threads
    BY <2>1
  <2>3. conn = Streaming
    BY <2>2, HoldersStream
  <2>4. PICK r \in Requests : NeedsConnection(r)
    BY DEF Standstill
  <2>5. Full
    BY <2>4 DEF Standstill, CanStep
  <2> QED
    BY <2>3, <2>5 DEF Full
<1> QED
  BY Invariant, HoldersInvariant, <1>1, PTL

\* Only who can step does: what CanStep says is needed for each step of Step.
LEMMA StepNeedsCause ==
  ASSUME RInv, SInv, NEW r \in Requests, Step(r)
  PROVE  CanStep(r)
<1>1. loop = r => pc[r] = "asking"
  BY DEF RInv, Consistent
<1>2. loop = r => r \notin conn
  BY <1>1 DEF SInv, Holding
<1>3. CASE Connect(r)
  BY <1>3 DEF Connect, CanStep
<1>4. CASE EnterGuard(r) \/ EnterEndpoint(r) \/ OpenSession(r)
  BY <1>4 DEF EnterGuard, EnterEndpoint, OpenSession, CanStep
<1>5. CASE Close(r) \/ Occupy(r)
  BY <1>5 DEF Close, Occupy, CanStep
<1>6. CASE RequireAdmin(r) \/ RequireCustomer(r)
  BY <1>1, <1>6 DEF RequireAdmin, RequireCustomer, CanStep, OnThread, NeedsConnection
<1>7. CASE Query(r) \/ Commit(r)
  BY <1>1, <1>7 DEF Query, Commit, CanStep, OnThread, NeedsConnection
<1>8. CASE StreamOpens(r) \/ Healthy(r)
  BY <1>2, <1>8 DEF StreamOpens, Healthy, CanStep, NeedsConnection
<1> QED
  BY <1>3, <1>4, <1>5, <1>6, <1>7, <1>8 DEF Step

\* In a standstill the server itself does nothing any more: a request arrives,
\* a client of a stream goes away or the pool gives up, so that its timeout is
\* never taken for shorter than what the server still had to do (pool_timeout).
THEOREM StandstillStands ==
  Spec => [][Standstill => \A r \in Requests : ~Step(r)]_vars
<1>1. RInv /\ SInv => (Standstill => \A r \in Requests : ~Step(r))
  BY StepNeedsCause DEF Standstill
<1> QED
  BY Invariant, HoldersInvariant, <1>1, PTL

=============================================================================
