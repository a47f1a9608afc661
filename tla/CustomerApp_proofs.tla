-------------------------- MODULE CustomerApp_proofs --------------------------
(* Proofs for CustomerApp. *)
EXTENDS CustomerApp, FiniteSetTheorems, TLAPS

Reading == [of : Sessions, upto : Nat]

AskedCall == [state : {"asked"}, kind : Kinds, token : MaybeSession, owner : Owners]

AnsweredCall ==
  [state : {"answered"}, kind : Kinds, owner : Owners, status : {"ok", "denied", "error"},
   value : Reading \cup {NoView}]

Call == {Idle} \cup AskedCall \cup AnsweredCall

\* The types the proofs need.
TInv ==
  /\ begun \in 0 .. MaxSessions
  /\ valid \in MaybeSession
  /\ changes \in [Sessions -> Nat]
  /\ session \in MaybeSession
  /\ page \in {"start", "menu", "orders"}
  /\ (page = "start") = (session = NoSession)
  /\ source # "off" => page = "orders"
  /\ calls \in [Calls -> Call]

\* A start that went well names a session.
Starts(call) ==
  call \in AnsweredCall /\ call.kind = "start" /\ call.status = "ok" => call.value \in Reading

\* A call of the mounted orders page is for the session the tablet keeps, or
\* carries no token.
Mine(call) ==
  (call # Idle /\ call.owner = "page" /\ call.kind = "orders") =>
    /\ page = "orders"
    /\ call.state = "asked" => call.token \in {session, NoSession}
    /\ (call.state = "answered" /\ call.status = "ok") => call.value.of = session

CInv == \A i \in Calls : Starts(calls[i]) /\ Mine(calls[i])

Inv == TInv /\ CInv /\ OwnOrdersOnly

-----------------------------------------------------------------------------
(* What the helpers do to the calls.                                       *)

\* The record of a call depends on its state.
LEMMA CallStates ==
  ASSUME NEW call \in Call
  PROVE  /\ call = Idle => call.state = "idle"
         /\ call.state = "asked" <=> call \in AskedCall
         /\ call.state = "answered" <=> call \in AnsweredCall
         /\ call # Idle => call.kind \in Kinds /\ call.owner \in Owners
  BY DEF Call, Idle, AskedCall, AnsweredCall

\* One more call is asked.
LEMMA Issued ==
  ASSUME NEW base \in [Calls -> Call], NEW kind \in Kinds, NEW token \in MaybeSession,
         Issue(base, kind, token)
  PROVE  /\ calls' \in [Calls -> Call]
         /\ \E i \in Calls :
              /\ base[i] = Idle
              /\ calls'[i] = [state |-> "asked", kind |-> kind, token |-> token, owner |-> "page"]
              /\ \A j \in Calls \ {i} : calls'[j] = base[j]
<1> DEFINE New == [state |-> "asked", kind |-> kind, token |-> token, owner |-> "page"]
<1>1. New \in Call
  BY DEF Call, AskedCall, Owners
<1>2. PICK i \in Calls : base[i] = Idle /\ calls' = [base EXCEPT ![i] = New]
  BY DEF Issue
<1> QED
  BY <1>1, <1>2

\* Unmounting a page takes its calls away from it and leaves them as they are
\* otherwise.
LEMMA UnmountedCalls ==
  ASSUME NEW base \in [Calls -> Call]
  PROVE  /\ Unmounted(base) \in [Calls -> Call]
         /\ \A i \in Calls :
              LET new == Unmounted(base)[i] IN
              /\ new = Idle <=> base[i] = Idle
              /\ new # Idle => new.owner # "page" /\ new.kind = base[i].kind
              /\ new.state = base[i].state
              /\ base[i] \in AnsweredCall => /\ new \in AnsweredCall
                                             /\ new.status = base[i].status
                                             /\ new.value = base[i].value
<1> SUFFICES ASSUME NEW i \in Calls
             PROVE  LET new == Unmounted(base)[i] IN
                    /\ new \in Call
                    /\ new = Idle <=> base[i] = Idle
                    /\ new # Idle => new.owner # "page" /\ new.kind = base[i].kind
                    /\ new.state = base[i].state
                    /\ base[i] \in AnsweredCall => /\ new \in AnsweredCall
                                                   /\ new.status = base[i].status
                                                   /\ new.value = base[i].value
  BY DEF Unmounted
<1>1. base[i] \in Call
  OBVIOUS
<1>2. CASE base[i] = Idle \/ base[i].owner # "page"
  BY <1>1, <1>2, CallStates DEF Unmounted, Idle
<1>3. CASE base[i] # Idle /\ base[i].owner = "page"
  <2>1. Unmounted(base)[i] = [base[i] EXCEPT !.owner = "app"]
    BY <1>3 DEF Unmounted
  <2>2. CASE base[i] \in AskedCall
    BY <2>1, <2>2 DEF Call, AskedCall, AnsweredCall, Idle, Owners
  <2>3. CASE base[i] \in AnsweredCall
    BY <2>1, <2>3 DEF Call, AskedCall, AnsweredCall, Idle, Owners
  <2> QED
    BY <1>1, <1>3, <2>2, <2>3 DEF Call
<1> QED
  BY <1>2, <1>3

\* After a reload no call is left that could be answered.
LEMMA ForgottenCalls ==
  ASSUME calls \in [Calls -> Call]
  PROVE  /\ Forgotten \in [Calls -> Call]
         /\ \A i \in Calls : Forgotten[i] # Idle =>
              Forgotten[i] \in AskedCall /\ Forgotten[i].owner = "nobody"
<1> SUFFICES ASSUME NEW i \in Calls
             PROVE  Forgotten[i] \in Call /\ (Forgotten[i] # Idle =>
                      Forgotten[i] \in AskedCall /\ Forgotten[i].owner = "nobody")
  BY DEF Forgotten
<1>1. calls[i] \in Call
  OBVIOUS
<1>2. CASE calls[i] # Idle /\ calls[i].state = "asked" /\ calls[i].kind \in {"start", "order"}
  <2>1. calls[i] \in AskedCall
    BY <1>1, <1>2, CallStates
  <2>2. Forgotten[i] = [calls[i] EXCEPT !.owner = "nobody"]
    BY <1>2 DEF Forgotten
  <2> QED
    BY <2>1, <2>2 DEF AskedCall, Call, Owners
<1>3. CASE ~(calls[i] # Idle /\ calls[i].state = "asked" /\ calls[i].kind \in {"start", "order"})
  BY <1>3 DEF Forgotten, Call
<1> QED
  BY <1>2, <1>3

\* A call is answered, unless nobody waits for it.
LEMMA Replied ==
  ASSUME calls \in [Calls -> Call], NEW i \in Calls, calls[i] # Idle,
         NEW status \in {"ok", "denied", "error"}, NEW value \in Reading \cup {NoView},
         Reply(i, status, value)
  PROVE  /\ calls' \in [Calls -> Call]
         /\ \A j \in Calls \ {i} : calls'[j] = calls[j]
         /\ \/ calls'[i] = Idle
            \/ /\ calls'[i] \in AnsweredCall
               /\ calls'[i].kind = calls[i].kind /\ calls'[i].owner = calls[i].owner
               /\ calls'[i].status = status /\ calls'[i].value = value
<1> DEFINE New == IF calls[i].owner = "nobody" THEN Idle ELSE
                    [state |-> "answered", kind |-> calls[i].kind, owner |-> calls[i].owner,
                     status |-> status, value |-> value]
<1>1. calls' = [calls EXCEPT ![i] = New]
  BY DEF Reply
<1>2. calls[i].kind \in Kinds /\ calls[i].owner \in Owners
  BY CallStates
<1>3. New \in Call /\ (New # Idle => New \in AnsweredCall)
  BY <1>2 DEF Call, AnsweredCall
<1> QED
  BY <1>1, <1>3

\* A call is over.
LEMMA FreedCalls ==
  ASSUME calls \in [Calls -> Call], NEW i \in Calls
  PROVE  /\ Freed(i) \in [Calls -> Call]
         /\ Freed(i)[i] = Idle
         /\ \A j \in Calls \ {i} : Freed(i)[j] = calls[j]
  BY DEF Freed, Call
-----------------------------------------------------------------------------
(* A tablet shows its own session's orders only.                           *)

\* Calls no page waits for are nobody's concern.
Away(base) ==
  /\ base \in [Calls -> Call]
  /\ \A i \in Calls : Starts(base[i]) /\ (base[i] # Idle => base[i].owner # "page")

\* A new call of the orders page keeps the invariant of calls.
LEMMA IssueKeeps ==
  ASSUME NEW base \in [Calls -> Call], NEW kind \in Kinds, NEW token \in MaybeSession,
         \A i \in Calls : Starts(base[i]) /\ Mine(base[i])',
         kind = "orders" => page' = "orders" /\ token \in {session', NoSession},
         Issue(base, kind, token)
  PROVE  calls' \in [Calls -> Call] /\ CInv'
<1> DEFINE New == [state |-> "asked", kind |-> kind, token |-> token, owner |-> "page"]
<1>1. calls' \in [Calls -> Call]
  BY Issued
<1>2. PICK i \in Calls : calls'[i] = New /\ \A j \in Calls \ {i} : calls'[j] = base[j]
  BY Issued
<1>3. Starts(New) /\ Mine(New)'
  BY DEF Starts, Mine, AnsweredCall
<1>4. ASSUME NEW j \in Calls
      PROVE  Starts(calls'[j]) /\ Mine(calls[j])'
  <2>1. CASE j = i
    BY <1>2, <1>3, <2>1 DEF Mine
  <2>2. CASE j # i
    <3>1. calls'[j] = base[j]
      BY <1>2, <2>2
    <3> QED
      BY <3>1 DEF Mine
  <2> QED
    BY <2>1, <2>2
<1> QED
  BY <1>1, <1>4 DEF CInv

\* A page that is mounted has no list yet and only its own call.
LEMMA MountKeeps ==
  ASSUME NEW p \in {"menu", "orders"}, NEW base, Away(base),
         session' \in Sessions, NEW token \in {session', NoSession},
         Mount(p, base, token)
  PROVE  /\ calls' \in [Calls -> Call] /\ CInv' /\ OwnOrdersOnly'
         /\ page' = p /\ (source' # "off" => page' = "orders")
<1>1. p \in Kinds /\ token \in MaybeSession
  BY DEF Kinds, MaybeSession
<1>2. \A i \in Calls : Starts(base[i]) /\ Mine(base[i])'
  BY DEF Away, Mine
<1>3. /\ Issue(base, p, token) /\ page' = p /\ view' = NoView
      /\ source' # "off" => page' = "orders"
  BY DEF Mount
<1>4. calls' \in [Calls -> Call] /\ CInv'
  BY <1>1, <1>2, <1>3, IssueKeeps DEF Away
<1> QED
  BY <1>3, <1>4 DEF OwnOrdersOnly

\* Without a page there is nothing to show.
LEMMA AwayKeeps ==
  ASSUME NEW base, Away(base), calls' = base, page' # "orders"
  PROVE  calls' \in [Calls -> Call] /\ CInv' /\ OwnOrdersOnly'
<1>1. \A i \in Calls : Starts(calls'[i]) /\ Mine(calls[i])'
  BY DEF Away, Mine
<1> QED
  BY <1>1 DEF Away, CInv, OwnOrdersOnly

\* Unmounting a page leaves it without calls, also when one is over.
LEMMA UnmountedAway ==
  ASSUME NEW base \in [Calls -> Call], \A i \in Calls : Starts(base[i])
  PROVE  Away(Unmounted(base))
<1>1. ASSUME NEW i \in Calls PROVE Starts(Unmounted(base)[i])
  <2> DEFINE new == Unmounted(base)[i]
  <2> SUFFICES ASSUME new \in AnsweredCall, new.kind = "start", new.status = "ok"
               PROVE  new.value \in Reading
    BY DEF Starts
  <2>1. new.state = "answered" /\ new \in Call /\ new # Idle
    BY DEF AnsweredCall, Call, Idle
  <2>2. base[i] \in Call /\ base[i].state = "answered"
    BY <2>1, UnmountedCalls
  <2>3. base[i] \in AnsweredCall
    BY <2>2, CallStates
  <2>4. new.kind = base[i].kind /\ new.status = base[i].status /\ new.value = base[i].value
    BY <2>1, <2>3, UnmountedCalls
  <2> QED
    BY <2>3, <2>4 DEF Starts
<1> QED
  BY <1>1, UnmountedCalls DEF Away

\* Nor are there any after a reload.
LEMMA ForgottenAway ==
  ASSUME calls \in [Calls -> Call]
  PROVE  Away(Forgotten)
<1>1. ASSUME NEW i \in Calls
      PROVE  Starts(Forgotten[i]) /\ (Forgotten[i] # Idle => Forgotten[i].owner # "page")
  <2>1. CASE Forgotten[i] = Idle
    BY <2>1 DEF Starts, Idle, AnsweredCall
  <2>2. CASE Forgotten[i] # Idle
    BY <2>2, ForgottenCalls DEF Starts, AskedCall, AnsweredCall
  <2> QED
    BY <2>1, <2>2
<1> QED
  BY <1>1, ForgottenCalls DEF Away

\* Calls that become Idle or are answered with an error do no harm, as long as
\* page and session stay.
LEMMA FreedKeeps ==
  ASSUME Inv, NEW i \in Calls, calls' = Freed(i), UNCHANGED <<page, session>>
  PROVE  calls' \in [Calls -> Call] /\ CInv'
<1>1. calls' \in [Calls -> Call] /\ calls'[i] = Idle /\ \A j \in Calls \ {i} : calls'[j] = calls[j]
  BY FreedCalls DEF Inv, TInv
<1>2. ASSUME NEW j \in Calls PROVE Starts(calls'[j]) /\ Mine(calls[j])'
  <2>1. CASE j = i
    BY <1>1, <2>1 DEF Starts, Mine, Idle, AnsweredCall
  <2>2. CASE j # i
    BY <1>1, <2>2 DEF Inv, CInv, Mine
  <2> QED
    BY <2>1, <2>2
<1> QED
  BY <1>1, <1>2 DEF CInv

\* What the server or a failure answers: a session for a start, and to an
\* orders call of the page the session it asked for.
LEMMA ReplyKeeps ==
  ASSUME Inv, NEW i \in Calls, calls[i] # Idle,
         NEW status \in {"ok", "denied", "error"}, NEW value \in Reading \cup {NoView},
         Reply(i, status, value),
         status = "ok" /\ calls[i].kind = "start" => value \in Reading,
         status = "ok" /\ calls[i].kind = "orders" =>
           calls[i].state = "asked" /\ calls[i].token # NoSession /\ value.of = calls[i].token,
         UNCHANGED <<page, session>>
  PROVE  calls' \in [Calls -> Call] /\ CInv'
<1>1. /\ calls' \in [Calls -> Call]
      /\ \A j \in Calls \ {i} : calls'[j] = calls[j]
      /\ \/ calls'[i] = Idle
         \/ /\ calls'[i] \in AnsweredCall
            /\ calls'[i].kind = calls[i].kind /\ calls'[i].owner = calls[i].owner
            /\ calls'[i].status = status /\ calls'[i].value = value
  BY Replied DEF Inv, TInv
<1>2. Starts(calls'[i]) /\ Mine(calls[i])'
  <2>1. CASE calls'[i] = Idle
    BY <2>1 DEF Starts, Mine, Idle, AnsweredCall
  <2>2. CASE calls'[i] # Idle
    <3>1. calls'[i].state = "answered"
      BY <1>1, <2>2 DEF AnsweredCall
    <3>2. Mine(calls[i])
      BY DEF Inv, CInv
    <3> QED
      BY <1>1, <2>2, <3>1, <3>2 DEF Starts, Mine
  <2> QED
    BY <2>1, <2>2
<1>3. ASSUME NEW j \in Calls, j # i PROVE Starts(calls'[j]) /\ Mine(calls[j])'
  BY <1>1, <1>3 DEF Inv, CInv, Mine
<1> QED
  BY <1>1, <1>2, <1>3 DEF CInv

\* An action that leaves the screen and the calls alone keeps the invariant.
LEMMA ScreenStays ==
  ASSUME Inv, UNCHANGED <<session, page, view, calls>>
  PROVE  CInv' /\ OwnOrdersOnly' /\ calls' \in [Calls -> Call]
  BY DEF Inv, TInv, CInv, Mine, OwnOrdersOnly

\* The tablet starts without a session.
LEMMA InitInv == Init => Inv
<1> SUFFICES ASSUME Init PROVE Inv
  OBVIOUS
<1>1. MaxSessions \in Nat
  BY BoundsType
<1>2. TInv
  BY <1>1 DEF Init, TInv, MaybeSession, NoSession, Call
<1>3. \A i \in Calls : calls[i] = Idle
  BY DEF Init
<1>4. CInv
  BY <1>3 DEF CInv, Starts, Mine, Idle, AnsweredCall
<1>5. OwnOrdersOnly
  BY DEF Init, OwnOrdersOnly
<1> QED
  BY <1>2, <1>4, <1>5 DEF Inv

\* What a handler answers is as ReplyKeeps wants it.
LEMMA HandleInv == ASSUME Inv, NEW i \in Calls, Handle(i) PROVE Inv'
<1>1. /\ calls[i].state = "asked" /\ UNCHANGED <<session, page, view, source>>
      /\ ServeStart(i) \/ ServeDenied(i) \/ ServeRead(i) \/ ServeOrder(i)
  BY DEF Handle, screen
<1>2. calls[i] \in AskedCall /\ calls[i] # Idle
  BY <1>1, CallStates DEF Inv, TInv, Idle
<1>3. MaxSessions \in Nat
  BY BoundsType
<1>4. \A s \in Sessions : Upto(s) \in Reading /\ Upto(s).of = s
  BY DEF Upto, Reading, Inv, TInv
<1>5. CASE ServeStart(i)
  <2>1. CASE valid # NoSession /\ Reply(i, "ok", Upto(valid)) /\ UNCHANGED <<begun, valid>>
    <3>1. valid \in Sessions
      BY <2>1 DEF Inv, TInv, MaybeSession
    <3>2. calls[i].kind # "orders"
      BY <1>5 DEF ServeStart
    <3>3. calls' \in [Calls -> Call] /\ CInv'
      BY <1>1, <1>2, <1>4, <2>1, <3>1, <3>2, ReplyKeeps
    <3> QED
      BY <1>1, <1>5, <2>1, <3>3 DEF ServeStart, Inv, TInv, OwnOrdersOnly
  <2>2. CASE /\ valid = NoSession /\ begun < MaxSessions
             /\ begun' = begun + 1 /\ valid' = begun'
             /\ Reply(i, "ok", Upto(begun + 1))
    <3>1. begun + 1 \in Sessions /\ begun' \in 0 .. MaxSessions /\ valid' \in MaybeSession
      BY <1>3, <2>2 DEF Inv, TInv, Sessions, MaybeSession
    <3>2. calls[i].kind # "orders"
      BY <1>5 DEF ServeStart
    <3>3. calls' \in [Calls -> Call] /\ CInv'
      BY <1>1, <1>2, <1>4, <2>2, <3>1, <3>2, ReplyKeeps
    <3> QED
      BY <1>1, <1>5, <3>1, <3>3 DEF ServeStart, Inv, TInv, OwnOrdersOnly
  <2> QED
    BY <1>5, <2>1, <2>2 DEF ServeStart
<1>6. CASE ServeDenied(i)
  <2>1. Reply(i, "denied", NoView) /\ UNCHANGED <<begun, valid, changes>>
    BY <1>6 DEF ServeDenied, server
  <2>2. calls' \in [Calls -> Call] /\ CInv'
    BY <1>1, <1>2, <2>1, ReplyKeeps
  <2> QED
    BY <1>1, <2>1, <2>2 DEF Inv, TInv, OwnOrdersOnly
<1>7. CASE ServeRead(i)
  <2>1. /\ Reply(i, "ok", Upto(valid)) /\ UNCHANGED <<begun, valid, changes>>
        /\ calls[i].token = valid /\ valid \in Sessions /\ valid # NoSession
        /\ calls[i].kind # "start"
    BY <1>7 DEF ServeRead, server, Inv, TInv, MaybeSession
  <2>2. calls' \in [Calls -> Call] /\ CInv'
    BY <1>1, <1>2, <1>4, <2>1, ReplyKeeps
  <2> QED
    BY <1>1, <2>1, <2>2 DEF Inv, TInv, OwnOrdersOnly
<1>8. CASE ServeOrder(i)
  <2>1. /\ Reply(i, "ok", NoView) /\ UNCHANGED <<begun, valid>>
        /\ calls[i].kind = "order"
        /\ changes' = [changes EXCEPT ![valid] = @ + 1] /\ valid \in Sessions
    BY <1>8 DEF ServeOrder, Changed, Inv, TInv, MaybeSession
  <2>2. calls' \in [Calls -> Call] /\ CInv'
    BY <1>1, <1>2, <2>1, ReplyKeeps
  <2>3. changes' \in [Sessions -> Nat]
    BY <2>1 DEF Inv, TInv
  <2> QED
    BY <1>1, <2>1, <2>2, <2>3 DEF Inv, TInv, OwnOrdersOnly
<1> QED
  BY <1>1, <1>5, <1>6, <1>7, <1>8

LEMMA ReceiveInv == ASSUME Inv, NEW i \in Calls, Receive(i) PROVE Inv'
<1>1. /\ calls[i].state = "answered" /\ UNCHANGED <<begun, valid, changes>>
      /\ \/ ReceiveDenied(i) \/ ReceiveStart(i) \/ StartFails(i)
         \/ ReceiveMenu(i) \/ ReceiveOrders(i) \/ ReceiveOrder(i)
  BY DEF Receive, server
<1>2. calls[i] \in AnsweredCall /\ calls[i] # Idle
  BY <1>1, CallStates DEF Inv, TInv, Idle
<1>3. Freed(i) \in [Calls -> Call] /\ \A j \in Calls : Starts(Freed(i)[j])
  <2>1. Freed(i) \in [Calls -> Call] /\ Freed(i)[i] = Idle /\ \A j \in Calls \ {i} : Freed(i)[j] = calls[j]
    BY FreedCalls DEF Inv, TInv
  <2>2. Starts(Idle)
    BY DEF Starts, Idle, AnsweredCall
  <2> QED
    BY <2>1, <2>2 DEF Inv, CInv
<1>4. Away(Unmounted(Freed(i)))
  BY <1>3, UnmountedAway
<1>5. CASE ReceiveDenied(i)
  <2>1. CASE session = NoSession /\ calls' = Freed(i) /\ UNCHANGED <<session, page, view, source>>
    <3>1. calls' \in [Calls -> Call] /\ CInv'
      BY <2>1, FreedKeeps
    <3> QED
      BY <1>1, <2>1, <3>1 DEF Inv, TInv, OwnOrdersOnly
  <2>2. CASE session # NoSession /\ Clear(Unmounted(Freed(i)))
    <3>1. session' = NoSession /\ page' = "start" /\ calls' = Unmounted(Freed(i)) /\ source' = "off"
      BY <2>2 DEF Clear
    <3>2. calls' \in [Calls -> Call] /\ CInv' /\ OwnOrdersOnly'
      BY <1>4, <3>1, AwayKeeps
    <3> QED
      BY <1>1, <3>1, <3>2 DEF Inv, TInv, MaybeSession
  <2> QED
    BY <1>5, <2>1, <2>2 DEF ReceiveDenied
<1>6. CASE ReceiveStart(i)
  <2>1. session' = calls[i].value.of /\ calls[i].value \in Reading
    BY <1>2, <1>6 DEF ReceiveStart, Inv, CInv, Starts
  <2>2. session' \in Sessions /\ session' \in MaybeSession /\ session' # NoSession
    BY <2>1 DEF Reading, Sessions, MaybeSession, NoSession
  <2>3. CASE page = "menu" /\ calls' = Freed(i) /\ UNCHANGED <<page, view, source>>
    <3>1. Away(Freed(i)) \/ calls' \in [Calls -> Call]
      BY <1>3, <2>3
    <3>2. ASSUME NEW j \in Calls PROVE Starts(calls'[j]) /\ Mine(calls[j])'
      <4>1. Freed(i)[j] # Idle => Freed(i)[j] = calls[j]
        BY FreedCalls DEF Inv, TInv
      <4>2. Mine(calls[j])
        BY DEF Inv, CInv
      <4> QED
        BY <1>3, <2>3, <4>1, <4>2 DEF Mine
    <3> QED
      BY <1>1, <1>3, <2>2, <2>3, <3>2 DEF Inv, TInv, CInv, OwnOrdersOnly
  <2>4. CASE page # "menu" /\ Mount("menu", Unmounted(Freed(i)), calls[i].value.of)
    <3>1. /\ calls' \in [Calls -> Call] /\ CInv' /\ OwnOrdersOnly' /\ page' = "menu"
          /\ source' # "off" => page' = "orders"
      BY <1>4, <2>1, <2>2, <2>4, MountKeeps
    <3> QED
      BY <1>1, <2>2, <3>1 DEF Inv, TInv
  <2> QED
    BY <1>6, <2>3, <2>4 DEF ReceiveStart
<1>7. CASE StartFails(i) \/ ReceiveMenu(i) \/ ReceiveOrder(i)
  <2>1. calls' = Freed(i) /\ UNCHANGED <<session, page, view, source>>
    BY <1>7 DEF StartFails, ReceiveMenu, ReceiveOrder, screen
  <2>2. calls' \in [Calls -> Call] /\ CInv'
    BY <2>1, FreedKeeps
  <2> QED
    BY <1>1, <2>1, <2>2 DEF Inv, TInv, OwnOrdersOnly
<1>8. CASE ReceiveOrders(i)
  <2>1. /\ calls' = Freed(i) /\ UNCHANGED <<session, page, source>> /\ calls[i].kind = "orders"
        /\ view' = IF calls[i].owner = "page" /\ calls[i].status = "ok"
                   THEN calls[i].value ELSE view
    BY <1>8 DEF ReceiveOrders
  <2>2. calls' \in [Calls -> Call] /\ CInv'
    BY <2>1, FreedKeeps
  <2>3. calls[i].owner = "page" /\ calls[i].status = "ok" => calls[i].value.of = session
    BY <1>1, <1>2, <2>1 DEF Inv, CInv, Mine
  <2>4. OwnOrdersOnly'
    BY <2>1, <2>3 DEF Inv, OwnOrdersOnly
  <2> QED
    BY <1>1, <2>1, <2>2, <2>4 DEF Inv, TInv
<1> QED
  BY <1>1, <1>5, <1>6, <1>7, <1>8

\* What the tablet's user, its timer and its pages do.
LEMMA UserInv ==
  ASSUME Inv,
         \/ \E p \in {"menu", "orders"} : Reload(p, FALSE) \/ GoTo(p)
         \/ Reload("menu", TRUE)
         \/ Jump \/ Start \/ Confirm
         \/ \E n \in 0 .. MaxCart : ChangeCart(n)
  PROVE  Inv'
<1>1. Away(Unmounted(calls)) /\ Away(Forgotten)
  BY UnmountedAway, ForgottenAway DEF Inv, TInv, CInv
<1>2. session # NoSession => session \in Sessions
  BY DEF Inv, TInv, MaybeSession
<1>3. ASSUME NEW p \in {"menu", "orders"}, NEW root \in BOOLEAN, Reload(p, root)
      PROVE  Inv'
  <2>1. /\ session' = session /\ session \in Sessions /\ UNCHANGED <<begun, valid, changes>>
        /\ session # NoSession
        /\ Mount(p, Forgotten, IF root THEN session ELSE NoSession)
    BY <1>2, <1>3 DEF Reload, server
  <2>2. /\ calls' \in [Calls -> Call] /\ CInv' /\ OwnOrdersOnly' /\ page' = p
        /\ source' # "off" => page' = "orders"
    BY <1>1, <2>1, MountKeeps
  <2> QED
    BY <2>1, <2>2 DEF Inv, TInv
<1>4. ASSUME NEW p \in {"menu", "orders"}, GoTo(p)
      PROVE  Inv'
  <2>1. /\ session' = session /\ session \in Sessions /\ UNCHANGED <<begun, valid, changes>>
        /\ session # NoSession
        /\ Mount(p, Unmounted(calls), session)
    BY <1>2, <1>4 DEF GoTo, server
  <2>2. /\ calls' \in [Calls -> Call] /\ CInv' /\ OwnOrdersOnly' /\ page' = p
        /\ source' # "off" => page' = "orders"
    BY <1>1, <2>1, MountKeeps
  <2> QED
    BY <2>1, <2>2 DEF Inv, TInv
<1>5. CASE Jump
  <2>1. session' = session /\ UNCHANGED <<begun, valid, changes>>
    BY <1>5 DEF Jump, server
  <2>2. CASE page = "menu" /\ Mount("orders", Unmounted(calls), session)
    <3>1. session \in Sessions /\ session # NoSession
      BY <1>2, <2>2 DEF Inv, TInv
    <3>2. /\ calls' \in [Calls -> Call] /\ CInv' /\ OwnOrdersOnly' /\ page' = "orders"
          /\ source' # "off" => page' = "orders"
      BY <1>1, <2>1, <2>2, <3>1, MountKeeps
    <3> QED
      BY <2>1, <3>1, <3>2 DEF Inv, TInv
  <2>3. CASE page = "start" /\ calls' = Unmounted(calls) /\ UNCHANGED <<page, view, source>>
    <3>1. calls' \in [Calls -> Call] /\ CInv' /\ OwnOrdersOnly'
      BY <1>1, <2>3, AwayKeeps
    <3> QED
      BY <2>1, <2>3, <3>1 DEF Inv, TInv
  <2>4. CASE UNCHANGED <<calls, page, view, source>>
    BY <2>1, <2>4, ScreenStays DEF Inv, TInv
  <2> QED
    BY <1>5, <2>2, <2>3, <2>4 DEF Jump
<1>6. CASE Start \/ Confirm
  <2>1. UNCHANGED <<session, page, view, source, begun, valid, changes>>
    BY <1>6 DEF Start, Confirm, screen, server
  <2>2. PICK kind \in {"start", "order"}, token \in MaybeSession : Issue(calls, kind, token)
    BY <1>6 DEF Start, Confirm, Inv, TInv, MaybeSession
  <2>3. PICK base : base = calls
    OBVIOUS
  <2>4. \A i \in Calls : Starts(base[i]) /\ Mine(base[i])'
    BY <2>1, <2>3 DEF Inv, CInv, Mine
  <2>5. calls' \in [Calls -> Call] /\ CInv'
    BY <2>2, <2>3, <2>4, IssueKeeps DEF Inv, TInv, Kinds
  <2> QED
    BY <2>1, <2>5 DEF Inv, TInv, OwnOrdersOnly
<1>7. ASSUME NEW n \in 0 .. MaxCart, ChangeCart(n)
      PROVE  Inv'
  <2>1. UNCHANGED <<session, page, view, source, calls, begun, valid, changes>>
    BY <1>7 DEF ChangeCart, screen, server
  <2> QED
    BY <2>1, ScreenStays DEF Inv, TInv
<1> QED
  BY <1>3, <1>4, <1>5, <1>6, <1>7

\* What happens elsewhere, on the server or the way to it.
LEMMA WorldInv ==
  ASSUME Inv,
         \/ \E i \in Calls : CallFails(i)
         \/ OtherChange \/ CloseSession \/ Expire \/ ServerStops \/ ServerStarts
         \/ \E e \in due : Publish(e)
         \/ Deliver /\ Apart
         \/ \E c \in Conns : (Serve(c) /\ Apart) \/ (Timeout(c) /\ Apart)
  PROVE  Inv'
<1>1. ASSUME NEW i \in Calls, CallFails(i)
      PROVE  Inv'
  <2>1. /\ Reply(i, "error", NoView) /\ UNCHANGED <<session, page, view, source, begun, valid, changes>>
        /\ calls[i].state # "idle"
    BY <1>1 DEF CallFails, screen, server
  <2>2. calls[i] # Idle
    BY <2>1, CallStates DEF Inv, TInv
  <2>3. calls' \in [Calls -> Call] /\ CInv'
    BY <2>1, <2>2, ReplyKeeps
  <2> QED
    BY <2>1, <2>3 DEF Inv, TInv, OwnOrdersOnly
<1>2. CASE \/ OtherChange \/ CloseSession \/ Expire \/ ServerStops \/ ServerStarts
           \/ \E e \in due : Publish(e)
           \/ Deliver /\ Apart
           \/ \E c \in Conns : (Serve(c) /\ Apart) \/ (Timeout(c) /\ Apart)
  <2>1. UNCHANGED <<session, page, view, source, calls, begun>>
    BY <1>2 DEF OtherChange, CloseSession, Expire, ServerStops, ServerStarts, Publish, Apart, screen, server
  <2>2. valid' \in MaybeSession
    BY <1>2 DEF OtherChange, CloseSession, Expire, ServerStops, ServerStarts, Publish, Apart, screen, server,
                Inv, TInv, MaybeSession
  <2>3. changes' \in [Sessions -> Nat]
    <3>1. CASE OtherChange
      <4>1. valid \in Sessions /\ changes' = [changes EXCEPT ![valid] = @ + 1]
        BY <3>1 DEF OtherChange, Changed, Inv, TInv, MaybeSession
      <4> QED
        BY <4>1 DEF Inv, TInv
    <3>2. CASE UNCHANGED changes
      BY <3>2 DEF Inv, TInv
    <3> QED
      BY <1>2, <3>1, <3>2 DEF CloseSession, Expire, ServerStops, ServerStarts, Publish, Apart, server
  <2>4. CInv' /\ OwnOrdersOnly' /\ calls' \in [Calls -> Call]
    BY <2>1, ScreenStays
  <2> QED
    BY <2>1, <2>2, <2>3, <2>4 DEF Inv, TInv
<1> QED
  BY <1>1, <1>2

\* What the EventSource brings.
LEMMA SourceInv ==
  ASSUME Inv, Connect \/ ConnectFails \/ OnFrame \/ OnClosed \/ OnError \/ ConnectionLost
  PROVE  Inv'
<1>1. CASE Connect \/ ConnectFails \/ OnError \/ ConnectionLost
  <2>1. UNCHANGED <<session, page, view, calls, begun, valid, changes>> /\ source # "off"
    BY <1>1 DEF Connect, ConnectFails, OnError, ConnectionLost, Read, Rest, server
  <2> QED
    BY <2>1, ScreenStays DEF Inv, TInv
<1>2. CASE OnClosed
  <2>1. /\ session' = NoSession /\ page' = "start" /\ calls' = Unmounted(calls) /\ source' = "off"
        /\ UNCHANGED <<begun, valid, changes>>
    BY <1>2 DEF OnClosed, Clear, server
  <2>2. Away(Unmounted(calls))
    BY UnmountedAway DEF Inv, TInv, CInv
  <2>3. calls' \in [Calls -> Call] /\ CInv' /\ OwnOrdersOnly'
    BY <2>1, <2>2, AwayKeeps
  <2> QED
    BY <2>1, <2>3 DEF Inv, TInv, MaybeSession
<1>3. CASE OnFrame
  <2>1. UNCHANGED <<session, page, view, source, begun, valid, changes>>
    BY <1>3 DEF OnFrame, Rest, server
  <2>2. source = "open" /\ Issue(calls, "orders", session)
    BY <1>3 DEF OnFrame, Read
  <2>3. PICK base : base = calls
    OBVIOUS
  <2>4. \A i \in Calls : Starts(base[i]) /\ Mine(base[i])'
    BY <2>1, <2>3 DEF Inv, CInv, Mine
  <2>5. page = "orders"
    BY <2>2 DEF Inv, TInv
  <2>6. calls' \in [Calls -> Call] /\ CInv'
    BY <2>1, <2>2, <2>3, <2>4, <2>5, IssueKeeps DEF Inv, TInv, Kinds
  <2> QED
    BY <2>1, <2>5, <2>6 DEF Inv, TInv, OwnOrdersOnly
<1> QED
  BY <1>1, <1>2, <1>3

LEMMA InvStep == Inv /\ [Next]_vars => Inv'
<1> SUFFICES ASSUME Inv, [Next]_vars PROVE Inv'
  OBVIOUS
<1>1. CASE UNCHANGED vars
  BY <1>1, ScreenStays DEF vars, screen, server, Inv, TInv
<1>2. CASE \E i \in Calls : Handle(i) \/ Receive(i)
  BY <1>2, HandleInv, ReceiveInv
<1> QED
  BY <1>1, <1>2, UserInv, WorldInv, SourceInv DEF Next

\* OrdersPage shows the orders of the session the tablet keeps, for any number
\* of sessions and calls: a call of the mounted page is for that session, since
\* another one is only ever started with no orders page mounted.
THEOREM OwnOrders == Spec => []OwnOrdersOnly
<1>1. Inv => OwnOrdersOnly
  BY DEF Inv
<1> QED
  BY InitInv, InvStep, <1>1, PTL DEF Spec

-----------------------------------------------------------------------------
(* An emptied cart is a committed order.                                   *)

\* The call of an order that is committed and answered so.
Committed(call) == call \in AnsweredCall /\ call.kind = "order" /\ call.status = "ok"

\* Answers the application has not seen yet.
Unseen == {i \in Calls : Committed(calls[i])}

PInv == cleared \in Nat /\ placed \in Nat /\ cleared + Cardinality(Unseen) <= placed

\* No committed order is among the calls of base that was not one before.
NoMore(base) == base \in [Calls -> Call] /\ \A i \in Calls : Committed(base[i]) => Committed(calls[i])

LEMMA UnseenFinite ==
  IsFiniteSet(Calls) /\ IsFiniteSet(Unseen) /\ Cardinality(Unseen) \in Nat
<1>1. IsFiniteSet(Calls)
  BY BoundsType, FS_Interval DEF Calls
<1>2. Unseen \in SUBSET Calls
  BY DEF Unseen
<1> QED
  BY <1>1, <1>2, FS_Subset, FS_CardinalityType

\* Seeing fewer answers, or none more, is safe.
LEMMA FewerUnseen ==
  ASSUME PInv, \A i \in Calls : Committed(calls'[i]) => Committed(calls[i]),
         UNCHANGED <<cleared, placed>>
  PROVE  PInv'
<1>1. Unseen' \in SUBSET Unseen
  BY DEF Unseen
<1>2. Cardinality(Unseen') <= Cardinality(Unseen) /\ Cardinality(Unseen') \in Nat
  BY <1>1, UnseenFinite, FS_Subset, FS_CardinalityType
<1> QED
  BY <1>2, UnseenFinite DEF PInv

\* A call that is asked is none that is committed.
LEMMA IssueNoMore ==
  ASSUME NEW base, NoMore(base), NEW kind \in Kinds, NEW token \in MaybeSession,
         Issue(base, kind, token)
  PROVE  \A i \in Calls : Committed(calls'[i]) => Committed(calls[i])
<1>1. PICK i \in Calls :
        /\ calls'[i] = [state |-> "asked", kind |-> kind, token |-> token, owner |-> "page"]
        /\ \A j \in Calls \ {i} : calls'[j] = base[j]
  BY Issued DEF NoMore
<1>2. ~Committed(calls'[i])
  BY <1>1 DEF Committed, AnsweredCall
<1> QED
  BY <1>1, <1>2 DEF NoMore

LEMMA UnmountedNoMore ==
  ASSUME NEW base, NoMore(base)
  PROVE  NoMore(Unmounted(base))
<1>1. Unmounted(base) \in [Calls -> Call]
  BY UnmountedCalls DEF NoMore
<1>2. ASSUME NEW i \in Calls, Committed(Unmounted(base)[i])
      PROVE  Committed(calls[i])
  <2> DEFINE new == Unmounted(base)[i]
  <2>1. new.state = "answered" /\ new # Idle /\ base[i] \in Call
    BY <1>2 DEF Committed, AnsweredCall, Idle, NoMore
  <2>2. base[i] \in AnsweredCall
    BY <2>1, UnmountedCalls, CallStates DEF NoMore
  <2>3. new.kind = base[i].kind /\ new.status = base[i].status
    BY <2>1, <2>2, UnmountedCalls DEF NoMore
  <2> QED
    BY <1>2, <2>2, <2>3 DEF Committed, NoMore
<1> QED
  BY <1>1, <1>2 DEF NoMore

\* The calls a page is left with after what the tablet does.
LEMMA HelpersNoMore ==
  ASSUME Inv
  PROVE  /\ NoMore(calls) /\ NoMore(Unmounted(calls)) /\ NoMore(Forgotten)
         /\ \A i \in Calls : NoMore(Freed(i)) /\ NoMore(Unmounted(Freed(i)))
<1>1. calls \in [Calls -> Call]
  BY DEF Inv, TInv
<1>2. NoMore(calls)
  BY <1>1 DEF NoMore
<1>3. NoMore(Unmounted(calls))
  BY <1>2, UnmountedNoMore
<1>4. NoMore(Forgotten)
  <2>1. ASSUME NEW i \in Calls PROVE ~Committed(Forgotten[i])
    <3>1. CASE Forgotten[i] = Idle
      BY <3>1 DEF Committed, AnsweredCall, Idle
    <3>2. CASE Forgotten[i] # Idle
      BY <1>1, <3>2, ForgottenCalls DEF Committed, AnsweredCall, AskedCall
    <3> QED
      BY <3>1, <3>2
  <2> QED
    BY <1>1, <2>1, ForgottenCalls DEF NoMore
<1>5. ASSUME NEW i \in Calls PROVE NoMore(Freed(i)) /\ NoMore(Unmounted(Freed(i)))
  <2>1. Freed(i) \in [Calls -> Call] /\ Freed(i)[i] = Idle /\ \A j \in Calls \ {i} : Freed(i)[j] = calls[j]
    BY <1>1, FreedCalls
  <2>2. ~Committed(Idle)
    BY DEF Committed, AnsweredCall, Idle
  <2>3. NoMore(Freed(i))
    BY <2>1, <2>2 DEF NoMore
  <2> QED
    BY <2>3, UnmountedNoMore
<1> QED
  BY <1>2, <1>3, <1>4, <1>5

\* The server commits an order before it answers so.
LEMMA HandlePlaces == ASSUME Inv, PInv, NEW i \in Calls, Handle(i) PROVE PInv'
<1>1. calls[i].state = "asked" /\ UNCHANGED cleared
  BY DEF Handle
<1>2. calls[i] # Idle /\ calls[i] \in AskedCall /\ calls \in [Calls -> Call] /\ ~Committed(calls[i])
  BY <1>1, CallStates DEF Inv, TInv, Idle, Committed, AnsweredCall
<1>3. CASE ServeOrder(i)
  <2>1. placed' = placed + 1 /\ Reply(i, "ok", NoView)
    BY <1>3 DEF ServeOrder
  <2>2. \A j \in Calls \ {i} : calls'[j] = calls[j]
    BY <1>2, <2>1, Replied
  <2>3. Unseen' \in SUBSET (Unseen \cup {i})
    BY <2>2 DEF Unseen
  <2>4. /\ IsFiniteSet(Unseen \cup {i}) /\ Cardinality(Unseen \cup {i}) <= Cardinality(Unseen) + 1
        /\ Cardinality(Unseen \cup {i}) \in Nat
    <3>1. IsFiniteSet(Unseen) /\ Cardinality(Unseen) \in Nat
      BY UnseenFinite
    <3>2. /\ IsFiniteSet(Unseen \cup {i})
          /\ Cardinality(Unseen \cup {i}) =
               IF i \in Unseen THEN Cardinality(Unseen) ELSE Cardinality(Unseen) + 1
      BY <3>1, FS_AddElement
    <3> QED
      BY <3>1, <3>2
  <2>5. Cardinality(Unseen') <= Cardinality(Unseen \cup {i}) /\ Cardinality(Unseen') \in Nat
    BY <2>3, <2>4, FS_Subset, FS_CardinalityType
  <2> QED
    BY <1>1, <2>1, <2>4, <2>5, UnseenFinite DEF PInv
<1>4. CASE ServeStart(i) \/ ServeDenied(i) \/ ServeRead(i)
  <2>1. placed' = placed
    BY <1>4 DEF ServeStart, ServeDenied, ServeRead, server
  <2>2. PICK status, value :
          /\ Reply(i, status, value) /\ status \in {"ok", "denied"}
          /\ status = "ok" => calls[i].kind # "order"
    BY <1>4 DEF ServeStart, ServeDenied, ServeRead
  <2>3. \A j \in Calls : Committed(calls'[j]) => Committed(calls[j])
    <3>1. calls' = [calls EXCEPT ![i] = IF calls[i].owner = "nobody" THEN Idle ELSE
            [state |-> "answered", kind |-> calls[i].kind, owner |-> calls[i].owner,
             status |-> status, value |-> value]]
      BY <2>2 DEF Reply
    <3>2. ~Committed(calls'[i])
      BY <1>2, <2>2, <3>1 DEF Committed, AnsweredCall, Idle
    <3> QED
      BY <1>2, <3>1, <3>2
  <2> QED
    BY <1>1, <2>1, <2>3, FewerUnseen
<1> QED
  BY <1>3, <1>4 DEF Handle

\* The application empties the cart when it sees one of those answers.
LEMMA ReceiveClears == ASSUME Inv, PInv, NEW i \in Calls, Receive(i) PROVE PInv'
<1>1. calls[i].state = "answered" /\ placed' = placed
  BY DEF Receive, server
<1>2. calls[i] \in AnsweredCall
  BY <1>1, CallStates DEF Inv, TInv
<1>3. NoMore(Freed(i)) /\ NoMore(Unmounted(Freed(i)))
  BY HelpersNoMore
<1>4. CASE ReceiveOrder(i) /\ calls[i].status = "ok"
  <2>1. cleared' = cleared + 1 /\ calls' = Freed(i) /\ calls[i].kind = "order"
    BY <1>4 DEF ReceiveOrder
  <2>2. i \in Unseen
    BY <1>2, <1>4, <2>1 DEF Unseen, Committed
  <2>3. Unseen' = Unseen \ {i}
    <3>1. calls'[i] = Idle /\ \A j \in Calls \ {i} : calls'[j] = calls[j]
      BY <2>1, FreedCalls DEF Inv, TInv
    <3>2. ~Committed(calls'[i])
      BY <3>1 DEF Committed, AnsweredCall, Idle
    <3> QED
      BY <3>1, <3>2 DEF Unseen
  <2>4. Cardinality(Unseen') = Cardinality(Unseen) - 1
    BY <2>2, <2>3, UnseenFinite, FS_RemoveElement
  <2>5. Cardinality(Unseen') \in Nat
    BY <2>3, UnseenFinite, FS_RemoveElement, FS_CardinalityType
  <2> QED
    BY <1>1, <2>1, <2>4, <2>5, UnseenFinite DEF PInv
<1>5. CASE ~(ReceiveOrder(i) /\ calls[i].status = "ok")
  <2>1. cleared' = cleared
    BY <1>5 DEF Receive, ReceiveDenied, ReceiveStart, StartFails, ReceiveMenu, ReceiveOrders,
                ReceiveOrder
  <2>2. \/ calls' = Freed(i) \/ calls' = Unmounted(Freed(i))
        \/ ReceiveStart(i) /\ Mount("menu", Unmounted(Freed(i)), calls[i].value.of)
    BY <1>5 DEF Receive, ReceiveDenied, ReceiveStart, StartFails, ReceiveMenu, ReceiveOrders,
                ReceiveOrder, Clear
  <2>3. \A j \in Calls : Committed(calls'[j]) => Committed(calls[j])
    <3>1. CASE calls' = Freed(i) \/ calls' = Unmounted(Freed(i))
      BY <1>3, <3>1 DEF NoMore
    <3>2. CASE ReceiveStart(i) /\ Mount("menu", Unmounted(Freed(i)), calls[i].value.of)
      <4>1. calls[i].value \in Reading
        BY <1>2, <3>2 DEF ReceiveStart, Inv, CInv, Starts
      <4>2. calls[i].value.of \in MaybeSession /\ "menu" \in Kinds
        BY <4>1 DEF Reading, MaybeSession, Kinds
      <4>3. Issue(Unmounted(Freed(i)), "menu", calls[i].value.of)
        BY <3>2 DEF Mount
      <4> QED
        BY <1>3, <4>2, <4>3, IssueNoMore
    <3> QED
      BY <2>2, <3>1, <3>2
  <2> QED
    BY <1>1, <2>1, <2>3, FewerUnseen
<1> QED
  BY <1>4, <1>5

\* Nothing else counts, and nothing else answers an order well.
LEMMA OthersCount ==
  ASSUME Inv, PInv, [Next]_vars, \A i \in Calls : ~Handle(i) /\ ~Receive(i)
  PROVE  PInv'
<1>1. NoMore(calls) /\ NoMore(Unmounted(calls)) /\ NoMore(Forgotten)
  BY HelpersNoMore
<1>2. /\ session \in MaybeSession /\ NoSession \in MaybeSession
      /\ {"start", "menu", "orders", "order"} \subseteq Kinds
  BY DEF Inv, TInv, MaybeSession, Kinds
<1>3. CASE \E i \in Calls : CallFails(i)
  <2>1. PICK i \in Calls : CallFails(i)
    BY <1>3
  <2>2. UNCHANGED <<cleared, placed>> /\ Reply(i, "error", NoView) /\ calls[i].state # "idle"
    BY <2>1 DEF CallFails, server
  <2>3. calls[i] # Idle /\ calls \in [Calls -> Call]
    BY <2>2, CallStates DEF Inv, TInv
  <2>4. /\ \A j \in Calls \ {i} : calls'[j] = calls[j]
        /\ calls'[i] = Idle \/ calls'[i].status = "error"
    BY <2>2, <2>3, Replied
  <2>5. ~Committed(calls'[i])
    BY <2>4 DEF Committed, AnsweredCall, Idle
  <2> QED
    BY <2>2, <2>4, <2>5, FewerUnseen
<1>4. ASSUME UNCHANGED <<cleared, placed>>,
             \/ calls' \in {calls, Unmounted(calls)}
             \/ \E base \in {calls, Unmounted(calls), Forgotten} : \E kind \in Kinds :
                  \E token \in MaybeSession : Issue(base, kind, token)
      PROVE  PInv'
  <2>1. \A j \in Calls : Committed(calls'[j]) => Committed(calls[j])
    <3>1. CASE calls' \in {calls, Unmounted(calls)}
      BY <1>1, <3>1 DEF NoMore
    <3>2. CASE \E base \in {calls, Unmounted(calls), Forgotten} : \E kind \in Kinds :
                 \E token \in MaybeSession : Issue(base, kind, token)
      <4>1. PICK base \in {calls, Unmounted(calls), Forgotten}, kind \in Kinds,
                 token \in MaybeSession : Issue(base, kind, token)
        BY <3>2
      <4>2. NoMore(base)
        BY <1>1
      <4> QED
        BY <4>1, <4>2, IssueNoMore
    <3> QED
      BY <1>4, <3>1, <3>2
  <2> QED
    BY <1>4, <2>1, FewerUnseen
<1>5. CASE UNCHANGED vars
  BY <1>4, <1>5 DEF vars, server
<1>6. CASE \E p \in {"menu", "orders"} : Reload(p, FALSE) \/ GoTo(p) \/ Reload("menu", TRUE)
  BY <1>2, <1>4, <1>6 DEF Reload, GoTo, Mount, server
<1>7. CASE Jump \/ Start \/ Confirm
  BY <1>2, <1>4, <1>7 DEF Jump, Start, Confirm, Mount, server
<1>8. CASE \/ \E n \in 0 .. MaxCart : ChangeCart(n)
           \/ OtherChange \/ CloseSession \/ Expire \/ ServerStops \/ ServerStarts
           \/ \E e \in due : Publish(e)
  BY <1>4, <1>8 DEF ChangeCart, OtherChange, CloseSession, Expire, ServerStops, ServerStarts, Publish, server
<1>9. CASE Connect \/ ConnectFails \/ OnFrame \/ OnClosed \/ OnError \/ ConnectionLost
  BY <1>2, <1>4, <1>9 DEF Connect, ConnectFails, OnFrame, OnClosed, OnError, ConnectionLost, Clear, Rest, server
<1>10. CASE \/ Deliver /\ Apart
            \/ \E c \in Conns : (Serve(c) /\ Apart) \/ (Timeout(c) /\ Apart)
  BY <1>4, <1>10 DEF Apart, server
<1> QED
  BY <1>3, <1>5, <1>6, <1>7, <1>8, <1>9, <1>10 DEF Next

\* The invariants of every behaviour.
LEMMA Invariant == Spec => [](Inv /\ PInv)
<1>1. Init => PInv
  <2> SUFFICES ASSUME Init PROVE PInv
    OBVIOUS
  <2>1. Unseen = {}
    BY DEF Init, Unseen, Committed, AnsweredCall, Idle
  <2> QED
    BY <2>1, FS_EmptySet DEF Init, PInv
<1>2. Inv /\ PInv /\ [Next]_vars => PInv'
  BY HandlePlaces, ReceiveClears, OthersCount
<1> QED
  BY InitInv, InvStep, <1>1, <1>2, PTL DEF Spec

\* confirmOrder empties the cart for committed orders only, whatever fails and
\* however late the answers are.
THEOREM CartsAreOrders == Spec => []ClearedIsPlaced
<1>1. PInv => ClearedIsPlaced
  BY UnseenFinite DEF PInv, ClearedIsPlaced
<1> QED
  BY Invariant, <1>1, PTL
-----------------------------------------------------------------------------
(* Types, and how far the orders of a session can have changed.            *)

\* An order the server is still to commit.
Asking(call) == call \in AskedCall /\ call.kind = "order"

Orders == {i \in Calls : Asking(calls[i])}

\* An answer has a list only if the call went well.
Sane(call) ==
  call \in AnsweredCall => /\ call.status # "ok" => call.value = NoView
                           /\ call.value \in Version \cup {NoView}

Events == [topic : Sessions, data : {Closed} \cup 1 .. MaxMoves]

\* Each change of a session's orders, made or still asked for, is a move.
Budget == \A s \in Sessions : changes[s] + Cardinality(Orders) <= moves

BInv ==
  /\ moves \in 0 .. MaxMoves /\ Budget
  /\ due \subseteq Events
  /\ cart \in 0 .. MaxCart
  /\ view \in Version \cup {NoView}
  /\ \A i \in Calls : Sane(calls[i])

\* Calls that are in order and ask for no order that was not asked for before.
Fit(base) ==
  base \in [Calls -> Call] /\ \A i \in Calls : Sane(base[i]) /\ (Asking(base[i]) => Asking(calls[i]))

LEMMA OrdersFinite == IsFiniteSet(Orders) /\ Cardinality(Orders) \in Nat
<1>1. IsFiniteSet(Calls) /\ Orders \in SUBSET Calls
  BY UnseenFinite DEF Orders
<1> QED
  BY <1>1, FS_Subset, FS_CardinalityType

\* With no more orders asked for, moves that go on keep the budget.
LEMMA BudgetKept ==
  ASSUME Inv, BInv, \A i \in Calls : Asking(calls'[i]) => Asking(calls[i]),
         UNCHANGED changes, moves' \in {moves, moves + 1}
  PROVE  Budget'
<1>1. Orders' \in SUBSET Orders
  BY DEF Orders
<1>2. Cardinality(Orders') <= Cardinality(Orders) /\ Cardinality(Orders') \in Nat
  BY <1>1, OrdersFinite, FS_Subset, FS_CardinalityType
<1>3. ASSUME NEW s \in Sessions PROVE changes'[s] + Cardinality(Orders') <= moves'
  <2>1. changes[s] \in Nat /\ changes'[s] = changes[s] /\ moves \in Nat
    BY DEF Inv, TInv, BInv
  <2>2. changes[s] + Cardinality(Orders) <= moves
    BY DEF BInv, Budget
  <2> QED
    BY <1>2, <2>1, <2>2, OrdersFinite
<1> QED
  BY <1>3 DEF Budget

\* Nor does an order asked for by a move exceed it.
LEMMA BudgetSpent ==
  ASSUME Inv, BInv, NEW i \in Calls,
         \A j \in Calls \ {i} : Asking(calls'[j]) => Asking(calls[j]),
         UNCHANGED changes, moves' = moves + 1
  PROVE  Budget'
<1>1. Orders' \in SUBSET (Orders \cup {i})
  BY DEF Orders
<1>2. /\ IsFiniteSet(Orders \cup {i})
      /\ Cardinality(Orders \cup {i}) = IF i \in Orders THEN Cardinality(Orders) ELSE Cardinality(Orders) + 1
  BY OrdersFinite, FS_AddElement
<1>3. Cardinality(Orders') <= Cardinality(Orders) + 1 /\ Cardinality(Orders') \in Nat
  <2>1. Cardinality(Orders') <= Cardinality(Orders \cup {i}) /\ Cardinality(Orders') \in Nat
    BY <1>1, <1>2, FS_Subset, FS_CardinalityType
  <2> QED
    BY <1>2, <2>1, OrdersFinite
<1>4. ASSUME NEW s \in Sessions PROVE changes'[s] + Cardinality(Orders') <= moves'
  <2>1. changes[s] \in Nat /\ changes'[s] = changes[s] /\ moves \in Nat
    BY DEF Inv, TInv, BInv
  <2>2. changes[s] + Cardinality(Orders) <= moves
    BY DEF BInv, Budget
  <2> QED
    BY <1>3, <2>1, <2>2, OrdersFinite
<1> QED
  BY <1>4 DEF Budget

\* What a read of the server answers.
LEMMA ReadingsFit == ASSUME Inv, BInv, NEW s \in Sessions PROVE Upto(s) \in Version
<1>1. changes[s] \in Nat /\ moves \in 0 .. MaxMoves /\ MaxMoves \in Nat
  BY BoundsType DEF Inv, TInv, BInv
<1>2. changes[s] + Cardinality(Orders) <= moves
  BY DEF BInv, Budget
<1>3. changes[s] \in 0 .. MaxMoves
  BY <1>1, <1>2, OrdersFinite
<1> QED
  BY <1>3 DEF Upto, Version

LEMMA IssueFits ==
  ASSUME NEW base, Fit(base), NEW kind \in Kinds, NEW token \in MaybeSession,
         Issue(base, kind, token)
  PROVE  \E i \in Calls :
           /\ \A j \in Calls : Sane(calls'[j])
           /\ \A j \in Calls \ {i} : Asking(calls'[j]) => Asking(calls[j])
           /\ kind # "order" => ~Asking(calls'[i])
<1>1. PICK i \in Calls :
        /\ calls'[i] = [state |-> "asked", kind |-> kind, token |-> token, owner |-> "page"]
        /\ \A j \in Calls \ {i} : calls'[j] = base[j]
  BY Issued DEF Fit
<1>2. Sane(calls'[i]) /\ (kind # "order" => ~Asking(calls'[i]))
  BY <1>1 DEF Sane, Asking, AnsweredCall
<1> QED
  BY <1>1, <1>2 DEF Fit

LEMMA UnmountedFits == ASSUME NEW base, Fit(base) PROVE Fit(Unmounted(base))
<1>1. base \in [Calls -> Call] /\ Unmounted(base) \in [Calls -> Call]
  BY UnmountedCalls DEF Fit
<1>2. ASSUME NEW i \in Calls
      PROVE  Sane(Unmounted(base)[i]) /\ (Asking(Unmounted(base)[i]) => Asking(calls[i]))
  <2> DEFINE new == Unmounted(base)[i]
  <2>1. /\ new = Idle <=> base[i] = Idle
        /\ new # Idle => new.kind = base[i].kind
        /\ new.state = base[i].state
        /\ base[i] \in AnsweredCall => new.status = base[i].status /\ new.value = base[i].value
        /\ new \in Call /\ base[i] \in Call
    BY <1>1, UnmountedCalls
  <2>2. Sane(base[i]) /\ (Asking(base[i]) => Asking(calls[i]))
    BY DEF Fit
  <2> HIDE DEF new
  <2>3. CASE new \in AnsweredCall
    <3>1. base[i] \in AnsweredCall /\ new \notin AskedCall
      BY <2>1, <2>3, CallStates DEF AnsweredCall, AskedCall
    <3> QED
      BY <2>1, <2>2, <3>1 DEF Sane, Asking, new
  <2>4. CASE new \in AskedCall
    <3>1. base[i] \in AskedCall /\ new \notin AnsweredCall /\ new.kind = base[i].kind
      BY <2>1, <2>4, CallStates DEF AnsweredCall, AskedCall, Idle
    <3> QED
      BY <2>2, <3>1 DEF Sane, Asking, new
  <2>5. CASE new = Idle
    BY <2>5 DEF Sane, Asking, AnsweredCall, AskedCall, Idle, new
  <2> QED
    BY <2>1, <2>3, <2>4, <2>5 DEF Call
<1> QED
  BY <1>1, <1>2 DEF Fit

\* The calls a page is left with after what the tablet does.
LEMMA HelpersFit ==
  ASSUME Inv, BInv
  PROVE  /\ Fit(calls) /\ Fit(Unmounted(calls)) /\ Fit(Forgotten)
         /\ \A i \in Calls : Fit(Freed(i)) /\ Fit(Unmounted(Freed(i)))
<1>1. calls \in [Calls -> Call]
  BY DEF Inv, TInv
<1>2. Fit(calls)
  BY <1>1 DEF Fit, BInv
<1>3. Fit(Unmounted(calls))
  BY <1>2, UnmountedFits
<1>4. Sane(Idle) /\ ~Asking(Idle)
  BY DEF Sane, Asking, AskedCall, AnsweredCall, Idle
<1>5. Fit(Forgotten)
  <2>1. ASSUME NEW i \in Calls
        PROVE  Sane(Forgotten[i]) /\ (Asking(Forgotten[i]) => Asking(calls[i]))
    <3>1. CASE Forgotten[i] = Idle
      BY <1>4, <3>1
    <3>2. CASE Forgotten[i] # Idle
      <4>1. Forgotten[i] \in AskedCall
        BY <1>1, <3>2, ForgottenCalls
      <4>2. calls[i].state = "asked" /\ Forgotten[i] = [calls[i] EXCEPT !.owner = "nobody"]
        BY <3>2 DEF Forgotten
      <4>3. calls[i] \in AskedCall
        BY <1>1, <4>2, CallStates
      <4>4. Forgotten[i].kind = calls[i].kind
        BY <4>2, <4>3 DEF AskedCall
      <4> QED
        BY <4>1, <4>3, <4>4 DEF Sane, Asking, AnsweredCall, AskedCall
    <3> QED
      BY <3>1, <3>2
  <2> QED
    BY <1>1, <2>1, ForgottenCalls DEF Fit
<1>6. ASSUME NEW i \in Calls PROVE Fit(Freed(i)) /\ Fit(Unmounted(Freed(i)))
  <2>1. Freed(i) \in [Calls -> Call] /\ Freed(i)[i] = Idle /\ \A j \in Calls \ {i} : Freed(i)[j] = calls[j]
    BY <1>1, FreedCalls
  <2>2. Fit(Freed(i))
    BY <1>2, <1>4, <2>1 DEF Fit
  <2> QED
    BY <2>2, UnmountedFits
<1> QED
  BY <1>2, <1>3, <1>5, <1>6

\* A reply leaves no order to be asked for.
LEMMA ReplyFits ==
  ASSUME Inv, BInv, NEW i \in Calls, calls[i] # Idle,
         NEW status \in {"ok", "denied", "error"}, NEW value \in Version \cup {NoView},
         status # "ok" => value = NoView,
         Reply(i, status, value)
  PROVE  /\ \A j \in Calls : Sane(calls'[j]) /\ (Asking(calls'[j]) => Asking(calls[j]))
         /\ ~Asking(calls'[i])
<1>1. value \in Reading \cup {NoView} /\ calls \in [Calls -> Call]
  <2>1. MaxMoves \in Nat
    BY BoundsType
  <2> QED
    BY <2>1 DEF Version, Reading, Inv, TInv
<1>2. /\ \A j \in Calls \ {i} : calls'[j] = calls[j]
      /\ \/ calls'[i] = Idle
         \/ calls'[i] \in AnsweredCall /\ calls'[i].status = status /\ calls'[i].value = value
  BY <1>1, Replied
<1>3. Sane(calls'[i]) /\ ~Asking(calls'[i])
  BY <1>2 DEF Sane, Asking, AskedCall, AnsweredCall, Idle
<1> QED
  BY <1>2, <1>3 DEF BInv

\* The server's handlers.
LEMMA HandleTypes == ASSUME Inv, BInv, NEW i \in Calls, Handle(i) PROVE BInv'
<1>1. calls[i].state = "asked" /\ UNCHANGED <<view, cart, moves>>
  BY DEF Handle, screen
<1>2. calls[i] # Idle /\ calls[i] \in AskedCall
  BY <1>1, CallStates DEF Inv, TInv, Idle
<1>3. CASE ServeStart(i) \/ ServeDenied(i) \/ ServeRead(i)
  <2>1. UNCHANGED <<changes, due>>
    BY <1>3 DEF ServeStart, ServeDenied, ServeRead, server
  <2>2. PICK status \in {"ok", "denied"}, value \in Version \cup {NoView} :
          Reply(i, status, value) /\ (status # "ok" => value = NoView)
    <3>1. valid # NoSession => Upto(valid) \in Version
      BY ReadingsFit DEF Inv, TInv, MaybeSession
    <3>2. begun < MaxSessions => Upto(begun + 1) \in Version
      <4>1. begun < MaxSessions => begun + 1 \in Sessions
        BY BoundsType DEF Inv, TInv, Sessions
      <4> QED
        BY <4>1, ReadingsFit
    <3> QED
      BY <1>3, <3>1, <3>2 DEF ServeStart, ServeDenied, ServeRead
  <2>3. \A j \in Calls : Sane(calls'[j]) /\ (Asking(calls'[j]) => Asking(calls[j]))
    BY <1>2, <2>2, ReplyFits
  <2>4. Budget'
    BY <1>1, <2>1, <2>3, BudgetKept
  <2> QED
    BY <1>1, <2>1, <2>3, <2>4 DEF BInv
<1>4. CASE ServeOrder(i)
  <2>1. /\ valid \in Sessions /\ calls[i].kind = "order"
        /\ changes' = [changes EXCEPT ![valid] = @ + 1]
        /\ due' = due \cup {[topic |-> valid, data |-> changes[valid] + 1]}
        /\ Reply(i, "ok", NoView)
    BY <1>4 DEF ServeOrder, Changed, Inv, TInv, MaybeSession
  <2>2. /\ \A j \in Calls : Sane(calls'[j]) /\ (Asking(calls'[j]) => Asking(calls[j]))
        /\ ~Asking(calls'[i])
    BY <1>2, <2>1, ReplyFits
  <2>3. i \in Orders /\ Orders' \in SUBSET (Orders \ {i})
    BY <1>2, <2>1, <2>2 DEF Orders, Asking
  <2>4. /\ IsFiniteSet(Orders \ {i}) /\ Cardinality(Orders \ {i}) = Cardinality(Orders) - 1
        /\ Cardinality(Orders \ {i}) \in Nat
    BY <2>3, OrdersFinite, FS_RemoveElement, FS_CardinalityType
  <2>5. Cardinality(Orders') <= Cardinality(Orders) - 1 /\ Cardinality(Orders') \in Nat
    BY <2>3, <2>4, FS_Subset, FS_CardinalityType
  <2>6. ASSUME NEW s \in Sessions
        PROVE  changes'[s] + Cardinality(Orders') <= moves'
    <3>1. changes[s] \in Nat /\ changes'[s] <= changes[s] + 1 /\ changes'[s] \in Nat
      BY <2>1 DEF Inv, TInv
    <3>2. changes[s] + Cardinality(Orders) <= moves /\ moves \in Nat
      BY DEF BInv, Budget
    <3> QED
      BY <1>1, <2>5, <3>1, <3>2, OrdersFinite
  <2>7. [topic |-> valid, data |-> changes[valid] + 1] \in Events
    <3>1. changes[valid] \in Nat /\ moves \in 0 .. MaxMoves /\ MaxMoves \in Nat
      BY <2>1, BoundsType DEF Inv, TInv, BInv
    <3>2. changes[valid] + Cardinality(Orders) <= moves
      BY <2>1 DEF BInv, Budget
    <3>3. changes[valid] + 1 \in 1 .. MaxMoves
      BY <2>4, <3>1, <3>2, OrdersFinite
    <3> QED
      BY <2>1, <3>3 DEF Events
  <2> QED
    BY <1>1, <2>1, <2>2, <2>6, <2>7 DEF BInv, Budget
<1> QED
  BY <1>3, <1>4 DEF Handle

\* The tablet's handlers.
LEMMA ReceiveTypes == ASSUME Inv, BInv, NEW i \in Calls, Receive(i) PROVE BInv'
<1>1. calls[i].state = "answered" /\ UNCHANGED <<changes, due, moves>>
  BY DEF Receive, server
<1>2. calls[i] \in AnsweredCall /\ Sane(calls[i])
  BY <1>1, CallStates DEF Inv, TInv, BInv
<1>3. Fit(Freed(i)) /\ Fit(Unmounted(Freed(i)))
  BY HelpersFit
<1>4. cart' \in 0 .. MaxCart
  <2>1. 0 \in 0 .. MaxCart
    BY BoundsType
  <2>2. cart' = cart \/ cart' = 0
    BY DEF Receive, ReceiveDenied, ReceiveStart, StartFails, ReceiveMenu, ReceiveOrders, ReceiveOrder
  <2> QED
    BY <2>1, <2>2 DEF BInv
<1>5. view' \in Version \cup {NoView}
  <2>1. view' \in {view, NoView, calls[i].value}
    BY DEF Receive, ReceiveDenied, ReceiveStart, StartFails, ReceiveMenu, ReceiveOrders, ReceiveOrder,
           Clear, Mount, screen
  <2> QED
    BY <1>2, <2>1 DEF BInv, Sane
<1>6. \A j \in Calls : Sane(calls'[j]) /\ (Asking(calls'[j]) => Asking(calls[j]))
  <2>1. CASE calls' = Freed(i) \/ calls' = Unmounted(Freed(i))
    BY <1>3, <2>1 DEF Fit
  <2>2. CASE ReceiveStart(i) /\ Mount("menu", Unmounted(Freed(i)), calls[i].value.of)
    <3>1. calls[i].value \in Reading
      BY <1>2, <2>2 DEF ReceiveStart, Inv, CInv, Starts
    <3>2. calls[i].value.of \in MaybeSession /\ "menu" \in Kinds
      BY <3>1 DEF Reading, MaybeSession, Kinds
    <3>3. Issue(Unmounted(Freed(i)), "menu", calls[i].value.of)
      BY <2>2 DEF Mount
    <3> QED
      BY <1>3, <3>2, <3>3, IssueFits
  <2> QED
    BY <2>1, <2>2 DEF Receive, ReceiveDenied, ReceiveStart, StartFails, ReceiveMenu, ReceiveOrders,
                      ReceiveOrder, Clear
<1>7. Budget'
  BY <1>1, <1>6, BudgetKept
<1> QED
  BY <1>1, <1>4, <1>5, <1>6, <1>7 DEF BInv

\* What a step of anybody else may do to what the server and the tablet have.
LEMMA OthersTypes ==
  ASSUME Inv, BInv, [Next]_vars, \A i \in Calls : ~Handle(i) /\ ~Receive(i)
  PROVE  BInv'
<1>1. Fit(calls) /\ Fit(Unmounted(calls)) /\ Fit(Forgotten)
  BY HelpersFit
<1>2. /\ session \in MaybeSession /\ NoSession \in MaybeSession
      /\ {"start", "menu", "orders"} \subseteq Kinds
  BY DEF Inv, TInv, MaybeSession, Kinds
<1>3. Count => moves' = moves + 1 /\ moves' \in 0 .. MaxMoves
  BY BoundsType DEF Count, BInv
<1>4. ASSUME Count \/ UNCHANGED moves, UNCHANGED changes, due' \subseteq Events,
             cart' \in 0 .. MaxCart, view' \in {view, NoView},
             \A j \in Calls : Sane(calls'[j]) /\ (Asking(calls'[j]) => Asking(calls[j]))
      PROVE  BInv'
  <2>1. Budget'
    BY <1>3, <1>4, BudgetKept
  <2> QED
    BY <1>3, <1>4, <2>1 DEF BInv
<1>5. ASSUME Count \/ UNCHANGED moves, UNCHANGED <<changes, due, cart>>, view' \in {view, NoView},
             \/ calls' \in {calls, Unmounted(calls)}
             \/ \E base \in {calls, Unmounted(calls), Forgotten} : \E kind \in Kinds \ {"order"} :
                  \E token \in MaybeSession : Issue(base, kind, token)
      PROVE  BInv'
  <2>1. \A j \in Calls : Sane(calls'[j]) /\ (Asking(calls'[j]) => Asking(calls[j]))
    <3>1. CASE calls' \in {calls, Unmounted(calls)}
      BY <1>1, <3>1 DEF Fit
    <3>2. CASE \E base \in {calls, Unmounted(calls), Forgotten} : \E kind \in Kinds \ {"order"} :
                 \E token \in MaybeSession : Issue(base, kind, token)
      <4>1. PICK base \in {calls, Unmounted(calls), Forgotten}, kind \in Kinds \ {"order"},
                 token \in MaybeSession : Issue(base, kind, token)
        BY <3>2
      <4>2. Fit(base)
        BY <1>1
      <4> QED
        BY <4>1, <4>2, IssueFits
    <3> QED
      BY <1>5, <3>1, <3>2
  <2> QED
    BY <1>4, <1>5, <2>1 DEF BInv
<1>6. CASE UNCHANGED vars
  BY <1>5, <1>6 DEF vars, server, screen
<1>7. CASE \E p \in {"menu", "orders"} : Reload(p, FALSE) \/ GoTo(p) \/ Reload("menu", TRUE)
  BY <1>2, <1>5, <1>7 DEF Reload, GoTo, Mount, server
<1>8. CASE Jump \/ Start
  BY <1>2, <1>5, <1>8 DEF Jump, Start, Mount, server, screen
<1>9. CASE Confirm
  <2>1. /\ Count /\ UNCHANGED <<changes, due, cart, view>>
        /\ Issue(calls, "order", session) /\ "order" \in Kinds
    BY <1>9 DEF Confirm, server, screen, Kinds
  <2>2. PICK i \in Calls :
          /\ \A j \in Calls : Sane(calls'[j])
          /\ \A j \in Calls \ {i} : Asking(calls'[j]) => Asking(calls[j])
    <3>1. PICK base : base = calls
      OBVIOUS
    <3>2. Fit(base) /\ Issue(base, "order", session)
      BY <1>1, <2>1, <3>1
    <3> QED
      BY <1>2, <2>1, <3>2, IssueFits
  <2>3. Budget'
    BY <1>3, <2>1, <2>2, BudgetSpent
  <2> QED
    BY <1>3, <2>1, <2>2, <2>3 DEF BInv
<1>10. CASE \E n \in 0 .. MaxCart : ChangeCart(n)
  <2>1. Count /\ UNCHANGED <<changes, due, view, calls>> /\ cart' \in 0 .. MaxCart
    BY <1>10 DEF ChangeCart, server, screen
  <2> QED
    BY <1>1, <1>4, <2>1 DEF Fit, BInv
<1>11. CASE \E i \in Calls : CallFails(i)
  <2>1. PICK i \in Calls : CallFails(i)
    BY <1>11
  <2>2. /\ Count \/ UNCHANGED moves
        /\ UNCHANGED <<changes, due, view, cart>> /\ Reply(i, "error", NoView)
        /\ calls[i].state # "idle"
    BY <2>1 DEF CallFails, server, screen
  <2>3. calls[i] # Idle
    BY <2>2, CallStates DEF Inv, TInv
  <2>4. \A j \in Calls : Sane(calls'[j]) /\ (Asking(calls'[j]) => Asking(calls[j]))
    BY <2>2, <2>3, ReplyFits
  <2> QED
    BY <1>4, <2>2, <2>4 DEF BInv
<1>12. CASE OtherChange
  <2>1. /\ Count /\ valid \in Sessions /\ UNCHANGED <<calls, view, cart>>
        /\ changes' = [changes EXCEPT ![valid] = @ + 1]
        /\ due' = due \cup {[topic |-> valid, data |-> changes[valid] + 1]}
    BY <1>12 DEF OtherChange, Changed, screen, Inv, TInv, MaybeSession
  <2>2. ASSUME NEW s \in Sessions PROVE changes'[s] + Cardinality(Orders') <= moves'
    <3>1. changes[s] \in Nat /\ changes'[s] <= changes[s] + 1 /\ changes'[s] \in Nat
      BY <2>1 DEF Inv, TInv
    <3>2. changes[s] + Cardinality(Orders) <= moves /\ moves \in Nat
      BY DEF BInv, Budget
    <3>3. Orders' = Orders
      BY <2>1 DEF Orders
    <3> QED
      BY <1>3, <2>1, <3>1, <3>2, <3>3, OrdersFinite
  <2>3. [topic |-> valid, data |-> changes[valid] + 1] \in Events
    <3>1. changes[valid] \in Nat /\ moves \in Nat /\ MaxMoves \in Nat /\ moves < MaxMoves
      BY <2>1, BoundsType DEF Inv, TInv, BInv, Count
    <3>2. changes[valid] + Cardinality(Orders) <= moves
      BY <2>1 DEF BInv, Budget
    <3>3. changes[valid] + 1 \in 1 .. MaxMoves
      BY <3>1, <3>2, OrdersFinite
    <3> QED
      BY <2>1, <3>3 DEF Events
  <2> QED
    BY <1>3, <2>1, <2>2, <2>3 DEF BInv, Budget
<1>13. CASE CloseSession \/ Expire \/ ServerStops \/ ServerStarts \/ \E e \in due : Publish(e)
  <2>1. UNCHANGED <<changes, view, cart, calls>> /\ (Count \/ UNCHANGED moves)
    BY <1>13 DEF CloseSession, Expire, ServerStops, ServerStarts, Publish, screen
  <2>2. due' \subseteq Events
    <3>1. valid # NoSession => [topic |-> valid, data |-> Closed] \in Events
      BY DEF Events, Inv, TInv, MaybeSession
    <3> QED
      BY <1>13, <3>1 DEF CloseSession, Expire, ServerStops, ServerStarts, Publish, BInv
  <2> QED
    BY <1>1, <1>4, <2>1, <2>2 DEF Fit, BInv
<1>14. CASE Connect \/ ConnectFails \/ OnFrame \/ OnClosed \/ OnError \/ ConnectionLost
  BY <1>2, <1>5, <1>14 DEF Connect, ConnectFails, OnFrame, OnClosed, OnError, ConnectionLost, Clear, Rest, server
<1>15. CASE \/ Deliver /\ Apart
            \/ \E c \in Conns : (Serve(c) /\ Apart) \/ (Timeout(c) /\ Apart)
  BY <1>5, <1>15 DEF Apart, server, screen
<1> QED
  BY <1>6, <1>7, <1>8, <1>9, <1>10, <1>11, <1>12, <1>13, <1>14, <1>15 DEF Next

UInv == up \in BOOLEAN

\* Only two steps start or stop the server.
LEMMA UpStep == UInv /\ [Next]_vars => UInv'
<1> SUFFICES ASSUME up \in BOOLEAN, [Next]_vars PROVE up' \in BOOLEAN
  BY DEF UInv
<1>1. CASE UNCHANGED vars
  BY <1>1 DEF vars, server
<1>2. CASE \E p \in {"menu", "orders"} : Reload(p, FALSE) \/ GoTo(p) \/ Reload("menu", TRUE)
  BY <1>2 DEF Reload, GoTo, server
<1>3. CASE Jump \/ Start \/ Confirm \/ \E n \in 0 .. MaxCart : ChangeCart(n)
  BY <1>3 DEF Jump, Start, Confirm, ChangeCart, server
<1>4. ASSUME NEW i \in Calls, Handle(i) PROVE up' \in BOOLEAN
  BY <1>4 DEF Handle, ServeStart, ServeDenied, ServeRead, ServeOrder, server
<1>5. CASE \E i \in Calls : CallFails(i) \/ Receive(i)
  BY <1>5 DEF CallFails, Receive, server
<1>6. CASE OtherChange \/ CloseSession \/ Expire \/ \E e \in due : Publish(e)
  BY <1>6 DEF OtherChange, CloseSession, Expire, Publish
<1>7. CASE ServerStops \/ ServerStarts
  BY <1>7 DEF ServerStops, ServerStarts
<1>8. CASE Connect \/ ConnectFails \/ OnFrame \/ OnClosed \/ OnError \/ ConnectionLost
  BY <1>8 DEF Connect, ConnectFails, OnFrame, OnClosed, OnError, ConnectionLost, Rest, server
<1>9. CASE \/ Deliver /\ Apart
           \/ \E c \in Conns : (Serve(c) /\ Apart) \/ (Timeout(c) /\ Apart)
  BY <1>9 DEF Apart, server
<1> QED
  BY <1>1, <1>2, <1>3, <1>4, <1>5, <1>6, <1>7, <1>8, <1>9 DEF Next

\* What is kept between reloads, calls and sessions keeps its type for any
\* number of each; no list is newer than the moves that changed it.
THEOREM TypeCorrect == Spec => []TypeOK
<1>1. Init => BInv
  <2> SUFFICES ASSUME Init PROVE BInv
    OBVIOUS
  <2>1. \A i \in Calls : Sane(calls[i]) /\ ~Asking(calls[i])
    BY DEF Init, Sane, Asking, AskedCall, AnsweredCall, Idle
  <2>2. Orders = {}
    BY <2>1 DEF Orders
  <2>3. Cardinality(Orders) = 0
    BY <2>2, FS_EmptySet
  <2>4. MaxMoves \in Nat /\ MaxCart \in Nat
    BY BoundsType
  <2> QED
    BY <2>1, <2>3, <2>4 DEF Init, BInv, Budget
<1>2. Inv /\ BInv /\ [Next]_vars => BInv'
  BY HandleTypes, ReceiveTypes, OthersTypes
<1>3. Init => UInv
  BY DEF Init, UInv
<1>4. Inv /\ PInv /\ BInv /\ UInv => TypeOK
  <2> SUFFICES ASSUME Inv, PInv, BInv, UInv PROVE TypeOK
    OBVIOUS
  <2>1. changes \in [Sessions -> 0 .. MaxMoves]
    <3>1. \A s \in Sessions : Upto(s) \in Version /\ Upto(s).upto = changes[s]
      BY ReadingsFit DEF Upto
    <3> QED
      BY <3>1 DEF Version, Inv, TInv
  <2>2. ASSUME NEW i \in Calls
        PROVE  calls[i] \in {Idle}
                 \cup [state : {"asked"}, kind : Kinds, token : MaybeSession, owner : Owners]
                 \cup [state : {"answered"}, kind : Kinds, owner : Owners,
                       status : {"denied", "error"}, value : {NoView}]
                 \cup [state : {"answered"}, kind : Kinds, owner : Owners, status : {"ok"},
                       value : Version \cup {NoView}]
    <3>1. calls[i] \in Call /\ Sane(calls[i])
      BY DEF Inv, TInv, BInv
    <3> QED
      BY <3>1 DEF Call, AskedCall, AnsweredCall, Sane
  <2> QED
    BY <2>1, <2>2 DEF TypeOK, Inv, TInv, PInv, BInv, UInv, Events
<1> QED
  BY Invariant, UpStep, <1>1, <1>2, <1>3, <1>4, PTL DEF Spec

=============================================================================
