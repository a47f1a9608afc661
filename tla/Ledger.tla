------------------------------- MODULE Ledger -------------------------------
(***************************************************************************)
(* What the order desk promises, with every operation taking effect in one *)
(* step: sessions open and close, an order gets the next number of its     *)
(* session at the moment it appears, and orders leave the current list one *)
(* by one (deleted) or together (archived, with the session closed).       *)
(* OrderDesk implements this: its transactions take effect when they       *)
(* commit.                                                                 *)
(***************************************************************************)
EXTENDS Naturals

CONSTANTS Sessions, Orders, TableOf, NoOne

OrderStates == {"pending", "preparing", "done"}

VARIABLES
  session,   \* status of each session
  placed,    \* the session of each order that was placed
  number,    \* its number in the session
  state,     \* its status
  gone,      \* orders that left the current list
  archived   \* orders that were moved to history

ledger == <<session, placed, number, state, gone, archived>>

Placed == {o \in Orders : placed[o] # NoOne}

NumbersOf(s) == {number[o] : o \in {p \in Placed : placed[p] = s}}

Init ==
  /\ session = [s \in Sessions |-> "none"]
  /\ placed = [o \in Orders |-> NoOne]
  /\ number = [o \in Orders |-> 0]
  /\ state = [o \in Orders |-> "pending"]
  /\ gone = {}
  /\ archived = {}

\* A new session takes the place of whatever is active at its table.
Open(s) ==
  /\ session[s] = "none"
  /\ session' = [t \in Sessions |->
                   IF t = s THEN "active"
                   ELSE IF TableOf[t] = TableOf[s] /\ session[t] = "active" THEN "closed"
                   ELSE session[t]]
  /\ UNCHANGED <<placed, number, state, gone, archived>>

Close(s) ==
  /\ session[s] # "none"
  /\ session' = [session EXCEPT ![s] = "closed"]
  /\ UNCHANGED <<placed, number, state, gone, archived>>

\* The next number of the session, deleted orders included.
Place(o, s) ==
  /\ session[s] # "none" /\ o \notin Placed
  /\ placed' = [placed EXCEPT ![o] = s]
  /\ \E n \in {1} \cup {m + 1 : m \in NumbersOf(s)} :
       /\ n \notin NumbersOf(s)
       /\ 1 .. n - 1 \subseteq NumbersOf(s)
       /\ number' = [number EXCEPT ![o] = n]
  /\ UNCHANGED <<session, state, gone, archived>>

SetState(o, v) ==
  /\ o \in Placed
  /\ state' = [state EXCEPT ![o] = v]
  /\ UNCHANGED <<session, placed, number, gone, archived>>

Remove(o) ==
  /\ o \in Placed
  /\ gone' = gone \cup {o}
  /\ UNCHANGED <<session, placed, number, state, archived>>

\* Everything that is moved is of this session, and it is closed with it.
Archive(s, moved) ==
  /\ session[s] # "none"
  /\ moved \subseteq {o \in Placed : placed[o] = s}
  /\ session' = [session EXCEPT ![s] = "closed"]
  /\ gone' = gone \cup moved
  /\ archived' = archived \cup moved
  /\ UNCHANGED <<placed, number, state>>

Next ==
  \/ \E s \in Sessions : Open(s) \/ Close(s)
  \/ \E o \in Orders, s \in Sessions : Place(o, s)
  \/ \E o \in Orders, v \in OrderStates : SetState(o, v)
  \/ \E o \in Orders : Remove(o)
  \/ \E s \in Sessions, moved \in SUBSET Orders : Archive(s, moved)

Spec == Init /\ [][Next]_ledger

=============================================================================
