---------------------------- MODULE MenuCatalog -----------------------------
(***************************************************************************)
(* The menus of one store under concurrent administrator requests: create, *)
(* update, delete and reorder.  As in OrderDesk every SELECT sees what is  *)
(* committed, a flushed UPDATE holds its row until the transaction ends,   *)
(* and a flush updates its rows in primary key order and only those whose  *)
(* columns changed.                                                        *)
(*                                                                         *)
(* A menu is its number; smaller numbers come first in name order and in   *)
(* key order.  Of its columns display_order, deleted_at and, in the grouped *)
(* list, category matter here; categories are numbers in the order of their *)
(* names.  Nothing reads a deleted menu again.                             *)
(***************************************************************************)
EXTENDS Integers, FiniteSets, SequencesExt

CONSTANTS
  MaxMenus,   \* bound on the menus there ever are
  MaxOrder,   \* bound on the display_order a request may name
  Existing,   \* menus of earlier requests
  Adders,     \* POST /api/menus
  Editors,    \* PUT /api/menus/{id}
  Removers,   \* DELETE /api/menus/{id}
  Sorters,    \* POST /api/menus/reorder
  Keep,       \* no display_order in the request
  Category    \* category of each menu

Menus == 1 .. MaxMenus
Req == Adders \cup Editors \cup Removers \cup Sorters

ASSUME MenuBounds == MaxMenus \in Nat /\ MaxOrder \in Nat /\ Existing \subseteq Menus
ASSUME KindsDisjoint ==
  /\ Adders \cap (Editors \cup Removers \cup Sorters) = {}
  /\ Editors \cap (Removers \cup Sorters) = {}
  /\ Removers \cap Sorters = {}

VARIABLES
  live,     \* committed menus that are not deleted
  deleted,  \* deleted ones
  display,  \* display_order of each menu
  pc,       \* how far each request has come
  target,   \* the menu an update or delete has loaded
  want,     \* the display_order a create or update is going to write
  base,     \* what a create or reorder read: live menus and their order
  perm,     \* the index a reorder gives each menu it read
  held      \* rows a transaction has updated and not yet committed

rows == <<live, deleted, display>>
vars == <<rows, pc, target, want, base, perm, held>>

NoRead == [live |-> {}, display |-> [m \in {} |-> 0]]

Init ==
  /\ live = Existing
  /\ deleted = {}
  /\ \E d \in [Existing -> 0 .. MaxOrder] :
       display = [m \in Menus |-> IF m \in Existing THEN d[m] ELSE 0]
  /\ pc = [r \in Req |-> "idle"]
  /\ target = [r \in Editors \cup Removers |-> 0]
  /\ want = [r \in Adders \cup Editors |-> Keep]
  /\ base = [r \in Adders \cup Sorters |-> NoRead]
  /\ perm = [s \in Sorters |-> NoRead.display]
  /\ held = [r \in Req |-> {}]

Goto(r, label) == pc' = [pc EXCEPT ![r] = label]

RowFree(m) == \A q \in Req : m \notin held[q]

Take(r, m) == RowFree(m) /\ held' = [held EXCEPT ![r] = @ \cup {m}]

\* The transaction ends, its locks and what the request had loaded go.
Finish(r) ==
  /\ Goto(r, "done")
  /\ held' = [held EXCEPT ![r] = {}]
  /\ target' = [q \in DOMAIN target |-> IF q = r THEN 0 ELSE target[q]]
  /\ want' = [q \in DOMAIN want |-> IF q = r THEN Keep ELSE want[q]]
  /\ base' = [q \in DOMAIN base |-> IF q = r THEN NoRead ELSE base[q]]
  /\ perm' = [q \in DOMAIN perm |-> IF q = r THEN NoRead.display ELSE perm[q]]

\* list_ordered, or the query behind max_display_order.
Read(r) == base' = [base EXCEPT ![r] = [live |-> live, display |-> [m \in live |-> display[m]]]]

-----------------------------------------------------------------------------
(* Create.                                                                 *)

\* Variant: the number of menus instead of the highest order.
Highest_Count(b) == Cardinality(b.live) - 1

\* max_display_order: -1 when there is no menu.
Highest(b) == Max({-1} \cup {b.display[m] : m \in b.live})

\* The highest display_order is read, or the request names one.
AddRead(a) ==
  /\ pc[a] = "idle"
  /\ \/ Read(a) /\ UNCHANGED want
     \/ \E v \in 0 .. MaxOrder : want' = [want EXCEPT ![a] = v] /\ UNCHANGED base
  /\ Goto(a, "read")
  /\ UNCHANGED <<rows, target, perm, held>>

AddCommit(a) ==
  /\ pc[a] = "read"
  /\ \E m \in Menus \ (live \cup deleted) :
       /\ live' = live \cup {m}
       /\ display' = [display EXCEPT ![m] =
            IF want[a] = Keep THEN Highest(base[a]) + 1 ELSE want[a]]
  /\ Finish(a)
  /\ UNCHANGED deleted

-----------------------------------------------------------------------------
(* Update and delete.                                                      *)

\* get_or_404, and the new display_order if the request has one.
EditRead(e) ==
  /\ pc[e] = "idle"
  /\ \E m \in live, v \in {Keep} \cup 0 .. MaxOrder :
       /\ target' = [target EXCEPT ![e] = m]
       /\ want' = [want EXCEPT ![e] = IF v = display[m] THEN Keep ELSE v]
  /\ Goto(e, "read")
  /\ UNCHANGED <<rows, base, perm, held>>

RemoveRead(d) ==
  /\ pc[d] = "idle"
  /\ \E m \in live : target' = [target EXCEPT ![d] = m]
  /\ Goto(d, "read")
  /\ UNCHANGED <<rows, want, base, perm, held>>

\* The flush of either; an update changes some column.
FlushOne(r) ==
  /\ pc[r] = "read"
  /\ Take(r, target[r])
  /\ Goto(r, "flushed")
  /\ UNCHANGED <<rows, target, want, base, perm>>

\* Variant: the row is written back as it was loaded, deleted_at included.
EditCommit_WholeRow(e) ==
  /\ pc[e] = "flushed"
  /\ display' = [display EXCEPT ![target[e]] = IF want[e] = Keep THEN @ ELSE want[e]]
  /\ live' = live \cup {target[e]}
  /\ deleted' = deleted \ {target[e]}
  /\ Finish(e)

EditCommit(e) ==
  /\ pc[e] = "flushed"
  /\ display' = [display EXCEPT ![target[e]] = IF want[e] = Keep THEN @ ELSE want[e]]
  /\ Finish(e)
  /\ UNCHANGED <<live, deleted>>

RemoveCommit(d) ==
  /\ pc[d] = "flushed"
  /\ live' = live \ {target[d]}
  /\ deleted' = deleted \cup {target[d]}
  /\ Finish(d)
  /\ UNCHANGED display

-----------------------------------------------------------------------------
(* Reorder.                                                                *)

Rankings(S) == {p \in [S -> 0 .. Cardinality(S) - 1] : \A m, n \in S : p[m] = p[n] => m = n}

\* The requested ids must be exactly the current menus; otherwise 422.
SortRead(s) ==
  /\ pc[s] = "idle"
  /\ \/ /\ Read(s)
        /\ \E p \in Rankings(live) : perm' = [perm EXCEPT ![s] = p]
        /\ Goto(s, "read")
     \/ Goto(s, "refused") /\ UNCHANGED <<base, perm>>
  /\ UNCHANGED <<rows, target, want, held>>

\* The rows whose display_order becomes another one.
Changed(s) == {m \in base[s].live : perm[s][m] # base[s].display[m]}

\* Variant: the rows are updated in the requested order.
SortFlush_AsRequested(s) ==
  /\ pc[s] = "read"
  /\ \E m \in Changed(s) \ held[s] :
       /\ \A n \in Changed(s) \ held[s] : perm[s][m] <= perm[s][n]
       /\ Take(s, m)
  /\ UNCHANGED <<rows, pc, target, want, base, perm>>

\* The flush updates them one after the other in key order.
SortFlush(s) ==
  /\ pc[s] = "read"
  /\ \E m \in Changed(s) \ held[s] :
       /\ \A n \in Changed(s) \ held[s] : m <= n
       /\ Take(s, m)
  /\ UNCHANGED <<rows, pc, target, want, base, perm>>

SortCommit(s) ==
  /\ pc[s] = "read" /\ Changed(s) = held[s]
  /\ display' = [m \in Menus |-> IF m \in Changed(s) THEN perm[s][m] ELSE display[m]]
  /\ Finish(s)
  /\ UNCHANGED <<live, deleted>>

-----------------------------------------------------------------------------
(* The list customers read.                                                *)

\* list_ordered: by display_order, then name.
Precedes(m, n) == display[m] < display[n] \/ (display[m] = display[n] /\ m < n)

Listing ==
  [i \in 1 .. Cardinality(live) |->
     CHOOSE m \in live : Cardinality({n \in live : Precedes(n, m)}) = i - 1]

\* Variant: only the last group is looked at.
AddToGroup_Last(groups, m) ==
  IF groups # <<>> /\ Last(groups).category = Category[m]
  THEN Front(groups) \o <<[Last(groups) EXCEPT !.items = Append(@, m)]>>
  ELSE Append(groups, [category |-> Category[m], items |-> <<m>>])

\* A menu joins the group of its category, or opens it at the end.
AddToGroup(groups, m) ==
  LET at == SelectInSeq(groups, LAMBDA g : g.category = Category[m])
  IN  IF at = 0 THEN Append(groups, [category |-> Category[m], items |-> <<m>>])
      ELSE [groups EXCEPT ![at].items = Append(@, m)]

Grouped ==
  LET list == Listing
      upTo[i \in 0 .. Len(list)] ==
        IF i = 0 THEN <<>> ELSE AddToGroup(upTo[i - 1], list[i])
  IN  upTo[Len(list)]

-----------------------------------------------------------------------------
Next ==
  \/ \E a \in Adders : AddRead(a) \/ AddCommit(a)
  \/ \E e \in Editors : EditRead(e) \/ FlushOne(e) \/ EditCommit(e)
  \/ \E d \in Removers : RemoveRead(d) \/ FlushOne(d) \/ RemoveCommit(d)
  \/ \E s \in Sorters : SortRead(s) \/ SortFlush(s) \/ SortCommit(s)

Spec == Init /\ [][Next]_vars

-----------------------------------------------------------------------------
\* Whatever display orders the requests leave behind, equal ones included, the
\* grouped list shows each menu once, under its category, each category once
\* and in list order, and the categories by their lowest display_order
\* (list_grouped).  Which of two categories that tie comes first it leaves
\* open; that is CategoriesByName.
GroupsInOrder ==
  LET groups == Grouped
      Items(i) == ToSet(groups[i].items)
      Lowest(i) == display[groups[i].items[1]]
  IN  /\ UNION {Items(i) : i \in DOMAIN groups} = live
      /\ \A i \in DOMAIN groups :
           /\ Items(i) = {m \in live : Category[m] = groups[i].category}
           /\ \A j, k \in DOMAIN groups[i].items :
                j < k => Precedes(groups[i].items[j], groups[i].items[k])
           /\ \A j \in DOMAIN groups : i < j =>
                /\ groups[i].category # groups[j].category
                /\ Lowest(i) <= Lowest(j)

\* BR-M19, which list_grouped names: categories with the same lowest
\* display_order come in the order of their names.
CategoriesByName ==
  LET groups == Grouped
      Lowest(i) == display[groups[i].items[1]]
  IN  \A i, j \in DOMAIN groups :
        i < j /\ Lowest(i) = Lowest(j) => groups[i].category < groups[j].category

\* Nothing has been committed since r read.
Alone(r) == base[r].live = live /\ \A m \in live : base[r].display[m] = display[m]

Ends(r) == pc[r] # "done" /\ pc'[r] = "done"

\* The list shows the menus a reorder named in the order it gave them.
AsRequested(s) ==
  \A m, n \in live' \cap base[s].live :
    perm[s][m] < perm[s][n] => display'[m] < display'[n]

\* The menu a create adds comes after all the others.
Appended ==
  \A m \in live' \ live : \A n \in live : display'[m] > display'[n]

\* Although a reorder writes only the rows that change, the list is in the
\* requested order when nothing was committed between its read and its commit
\* (reorder); likewise a create without a display_order goes to the end.
AloneIsExact ==
  [][/\ \A s \in Sorters : Ends(s) /\ Alone(s) => AsRequested(s)
     /\ \A a \in Adders : Ends(a) /\ Alone(a) /\ want[a] = Keep => Appended]_vars

\* A deleted menu stays deleted, whichever update or reorder has loaded it
\* before (soft_delete, get_or_404).
DeletedStays == [][deleted \subseteq deleted' /\ live' \cap deleted' = {}]_vars

\* The rows the flush of r still has to update.
Awaited(r) ==
  IF pc[r] # "read" \/ r \in Adders THEN {}
  ELSE IF r \in Sorters THEN Changed(r) \ held[r] ELSE {target[r]}

\* Reorders, updates and deletes that wait for each other's rows never wait in
\* a circle, which PostgreSQL would end with an error: some request under way
\* finds all the rows it still needs unlocked (reorder, the key order of the
\* flush).
NoCircularWait ==
  LET Active == {r \in Req : pc[r] \in {"read", "flushed"}}
  IN  Active # {} => \E r \in Active : \A m \in Awaited(r) : RowFree(m)

=============================================================================
