------------------------- MODULE MenuCatalog_proofs -------------------------
(* Proofs for MenuCatalog. *)
EXTENDS MenuCatalog, FiniteSetTheorems, SequenceTheorems, WellFoundedInduction, TLAPS

-----------------------------------------------------------------------------
(* Bounded sets of numbers.                                                *)

\* A nonempty set of natural numbers has a least element.
LEMMA SmallestOf ==
  ASSUME NEW S \in SUBSET Nat, S # {}
  PROVE  \E m \in S : \A n \in S : m <= n
<1>1. PICK x \in S : \A y \in S : ~ (<<y, x>> \in OpToRel(<, Nat))
  BY WFMin, NatLessThanWellFounded
<1>2. \A y \in S : ~ (y < x)
  BY <1>1 DEF OpToRel
<1>3. \A y \in S : y \in Nat /\ x \in Nat
  OBVIOUS
<1> QED
  BY <1>2, <1>3

\* One that is bounded has a greatest element.
LEMMA LargestOf ==
  ASSUME NEW b \in Nat, NEW S \in SUBSET (0 .. b), S # {}
  PROVE  \E m \in S : \A n \in S : n <= m
<1> DEFINE T == {b - n : n \in S}
<1>1. T \in SUBSET Nat
  <2> SUFFICES ASSUME NEW n \in S PROVE b - n \in Nat
    OBVIOUS
  <2>1. n \in 0 .. b
    OBVIOUS
  <2> QED
    BY <2>1
<1>2. T # {}
  OBVIOUS
<1>3. PICK k \in T : \A j \in T : k <= j
  BY <1>1, <1>2, SmallestOf
<1>4. PICK m \in S : k = b - m
  OBVIOUS
<1>5. \A n \in S : b - m <= b - n
  BY <1>3, <1>4
<1>6. \A n \in S : n \in Int /\ m \in Int /\ b \in Int
  OBVIOUS
<1> QED
  BY <1>5, <1>6

\* Finitely many values have an upper bound: otherwise there is a least k such
\* that those of 1..k have none.
LEMMA UpperBound ==
  ASSUME NEW f, NEW k \in Nat, \A i \in 1 .. k : f[i] \in Nat
  PROVE  \E b \in Nat : \A i \in 1 .. k : f[i] <= b
<1> DEFINE Unbounded(j) == \A b \in Nat : \E i \in 1 .. j : ~ (f[i] <= b)
           T == {j \in 0 .. k : Unbounded(j)}
<1>1. SUFFICES ASSUME T # {} PROVE FALSE
  <2>1. k \in 0 .. k
    OBVIOUS
  <2> QED
    BY <2>1
<1>2. PICK j \in T : \A l \in T : j <= l
  <2>1. T \in SUBSET Nat
    OBVIOUS
  <2> QED
    BY <2>1, <1>1, SmallestOf
<1>3. j \in 0 .. k /\ Unbounded(j)
  OBVIOUS
<1>4. j # 0
  <2> SUFFICES ASSUME j = 0 PROVE FALSE
    OBVIOUS
  <2>1. \E i \in 1 .. j : ~ (f[i] <= 0)
    BY <1>3
  <2> QED
    BY <2>1
<1>5. j - 1 \in 0 .. k /\ ~ (j <= j - 1)
  BY <1>3, <1>4
<1>6. ~ Unbounded(j - 1)
  BY <1>2, <1>5
<1>7. PICK b \in Nat : \A i \in 1 .. j - 1 : f[i] <= b
  BY <1>6
<1>8. f[j] \in Nat
  BY <1>3, <1>4
<1>9. \A i \in 1 .. j : f[i] <= b + f[j]
  <2> SUFFICES ASSUME NEW i \in 1 .. j PROVE f[i] <= b + f[j]
    OBVIOUS
  <2>1. CASE i = j
    BY <2>1, <1>8
  <2>2. CASE i # j
    <3>1. i \in 1 .. j - 1 /\ i \in 1 .. k
      BY <2>2, <1>3
    <3> QED
      BY <3>1, <1>7, <1>8
  <2> QED
    BY <2>1, <2>2
<1>10. b + f[j] \in Nat
  BY <1>8
<1> QED
  BY <1>3, <1>9, <1>10

-----------------------------------------------------------------------------
(* The inductive invariant.                                                *)

Displays == UNION {[L -> Nat] : L \in SUBSET Menus}
Labels == {"idle", "read", "flushed", "done", "refused"}

\* What was read and what a request is about, and that no menu is both live and
\* deleted.
TInv ==
  /\ live \subseteq Menus /\ deleted \subseteq Menus /\ live \cap deleted = {}
  /\ display \in [Menus -> Nat]
  /\ pc \in [Req -> Labels]
  /\ target \in [Editors \cup Removers -> Nat]
  /\ \A r \in Editors \cup Removers : pc[r] \in {"read", "flushed"} => target[r] \in live \cup deleted
  /\ want \in [Adders \cup Editors -> Nat \cup {Keep}]
  /\ base \in [Adders \cup Sorters -> [live : SUBSET Menus, display : Displays]]
  /\ \A r \in Adders \cup Sorters : base[r].display \in [base[r].live -> Nat]
  /\ perm \in [Sorters -> Displays]
  /\ \A s \in Sorters : pc[s] = "read" => perm[s] \in [base[s].live -> Nat]
  /\ held \in [Req -> SUBSET Menus]

\* Only a request under way holds rows; one that still awaits some holds smaller
\* ones only.
WInv ==
  /\ \A r \in Req : held[r] # {} => pc[r] \in {"read", "flushed"}
  /\ \A r \in Editors \cup Removers : pc[r] = "read" => held[r] = {}
  /\ \A s \in Sorters : \A m \in held[s] : \A n \in Awaited(s) : m < n

IInv == TInv /\ WInv

\* What stands for a request that has read nothing has the type of a read.
LEMMA NoReadType ==
  NoRead.live = {} /\ NoRead.display \in [{} -> Nat] /\ NoRead \in [live : SUBSET Menus, display : Displays]
<1>1. [m \in {} |-> 0] \in [{} -> Nat]
  OBVIOUS
<1>2. [{} -> Nat] \subseteq Displays
  <2>1. {} \in SUBSET Menus
    OBVIOUS
  <2> QED
    BY <2>1 DEF Displays
<1> QED
  BY <1>1, <1>2 DEF NoRead

\* It holds initially.
LEMMA IInvInit == Init => IInv
<1> SUFFICES ASSUME Init PROVE IInv
  OBVIOUS
<1>1. PICK d \in [Existing -> 0 .. MaxOrder] :
        display = [m \in Menus |-> IF m \in Existing THEN d[m] ELSE 0]
  BY DEF Init
<1>2. display \in [Menus -> Nat]
  BY <1>1, MenuBounds
<1>3. NoRead.live = {} /\ NoRead.display \in [{} -> Nat] /\ NoRead \in [live : SUBSET Menus, display : Displays]
  BY NoReadType
<1>4. TInv
  BY <1>2, <1>3, MenuBounds DEF Init, TInv, Labels, Req
<1>5. WInv
  BY DEF Init, WInv, Req
<1> QED
  BY <1>4, <1>5 DEF IInv

\* What list_ordered and max_display_order return.
LEMMA Reads ==
  ASSUME TInv
  PROVE  LET b == [live |-> live, display |-> [m \in live |-> display[m]]]
         IN  b \in [live : SUBSET Menus, display : Displays] /\ b.display \in [b.live -> Nat]
BY DEF TInv, Displays

\* The number a create without a display_order gets is greater than all it read.
LEMMA HighestIsUpper ==
  ASSUME NEW b, b.live \subseteq Menus, b.display \in [b.live -> Nat]
  PROVE  Highest(b) + 1 \in Nat /\ \A m \in b.live : b.display[m] < Highest(b) + 1
<1> DEFINE V == {-1} \cup {b.display[m] : m \in b.live}
           f == [i \in Menus |-> IF i \in b.live THEN b.display[i] ELSE 0]
<1>1. PICK u \in Nat : \A i \in 1 .. MaxMenus : f[i] <= u
  <2>1. \A i \in 1 .. MaxMenus : f[i] \in Nat
    BY DEF Menus
  <2> HIDE DEF f
  <2> QED
    BY <2>1, MenuBounds, UpperBound
<1>2. V \subseteq -1 .. u
  BY <1>1 DEF Menus
<1>3. PICK k \in {v + 1 : v \in V} : \A n \in {v + 1 : v \in V} : n <= k
  <2> DEFINE S == {v + 1 : v \in V}
  <2>1. S \subseteq 0 .. u + 1
    BY <1>2
  <2>2. S # {} /\ u + 1 \in Nat
    OBVIOUS
  <2> HIDE DEF S
  <2> QED
    BY <2>1, <2>2, LargestOf DEF S
<1>4. PICK v \in V : \A w \in V : v >= w
  <2>1. PICK v \in V : k = v + 1
    OBVIOUS
  <2>2. \A w \in V : w + 1 <= k /\ w \in Int
    BY <1>2, <1>3
  <2> QED
    BY <2>1, <2>2
<1>5. Max(V) \in V /\ \A w \in V : Max(V) >= w
  BY <1>4 DEF Max
<1>6. -1 \in V /\ \A m \in b.live : b.display[m] \in V
  OBVIOUS
<1>7. Highest(b) = Max(V)
  BY DEF Highest
<1>8. Max(V) \in Int /\ Max(V) >= -1
  BY <1>2, <1>5, <1>6
<1>9. \A m \in b.live : b.display[m] \in Nat /\ b.display[m] <= Max(V)
  BY <1>5, <1>6, <1>8
<1> HIDE DEF V, f
<1> QED
  BY <1>7, <1>8, <1>9

\* A request that ends keeps its types and holds nothing.
LEMMA FinishStep ==
  ASSUME TInv, NEW r \in Req, Finish(r)
  PROVE  /\ pc' = [pc EXCEPT ![r] = "done"] /\ pc' \in [Req -> Labels]
         /\ held' = [held EXCEPT ![r] = {}] /\ held' \in [Req -> SUBSET Menus]
         /\ target' \in [Editors \cup Removers -> Nat]
         /\ \A q \in Editors \cup Removers : q # r => target'[q] = target[q]
         /\ want' \in [Adders \cup Editors -> Nat \cup {Keep}]
         /\ base' \in [Adders \cup Sorters -> [live : SUBSET Menus, display : Displays]]
         /\ \A q \in Adders \cup Sorters : base'[q].display \in [base'[q].live -> Nat]
         /\ \A q \in Adders \cup Sorters : q # r => base'[q] = base[q]
         /\ perm' \in [Sorters -> Displays]
         /\ \A q \in Sorters : q # r => perm'[q] = perm[q]
<1>1. NoRead.live = {} /\ NoRead.display \in [{} -> Nat]
  /\ NoRead \in [live : SUBSET Menus, display : Displays]
  BY NoReadType
<1>2. /\ pc' = [pc EXCEPT ![r] = "done"] /\ pc' \in [Req -> Labels]
      /\ held' = [held EXCEPT ![r] = {}] /\ held' \in [Req -> SUBSET Menus]
  BY DEF TInv, Finish, Goto, Labels
<1>3. /\ target' \in [Editors \cup Removers -> Nat]
      /\ \A q \in Editors \cup Removers : q # r => target'[q] = target[q]
  BY DEF TInv, Finish
<1>4. want' \in [Adders \cup Editors -> Nat \cup {Keep}]
  BY DEF TInv, Finish
<1>5. base' = [q \in Adders \cup Sorters |-> IF q = r THEN NoRead ELSE base[q]]
  BY DEF TInv, Finish
<1>6. perm' = [q \in Sorters |-> IF q = r THEN NoRead.display ELSE perm[q]]
  BY DEF TInv, Finish
<1>7. NoRead.display \in Displays
  BY <1>1
<1> QED
  BY <1>1, <1>2, <1>3, <1>4, <1>5, <1>6, <1>7 DEF TInv

\* A commit that keeps the menus there are, each live or deleted, keeps TInv.
LEMMA CommitStep ==
  ASSUME TInv, NEW r \in Req, Finish(r),
         live' \subseteq Menus, deleted' \subseteq Menus, live' \cap deleted' = {},
         live \cup deleted \subseteq live' \cup deleted', display' \in [Menus -> Nat]
  PROVE  TInv'
<1>1. \A q \in Req : q # r => pc'[q] = pc[q]
  BY FinishStep DEF TInv
<1>2. pc'[r] = "done"
  BY FinishStep DEF TInv
<1>3. \A q \in Editors \cup Removers :
        pc'[q] \in {"read", "flushed"} => target'[q] \in live' \cup deleted'
  BY <1>1, <1>2, FinishStep DEF TInv, Req
<1>4. \A q \in Sorters : pc'[q] = "read" => perm'[q] \in [base'[q].live -> Nat]
  BY <1>1, <1>2, FinishStep DEF TInv, Req
<1>5. /\ pc' \in [Req -> Labels] /\ held' \in [Req -> SUBSET Menus]
      /\ target' \in [Editors \cup Removers -> Nat]
      /\ want' \in [Adders \cup Editors -> Nat \cup {Keep}]
      /\ base' \in [Adders \cup Sorters -> [live : SUBSET Menus, display : Displays]]
      /\ \A q \in Adders \cup Sorters : base'[q].display \in [base'[q].live -> Nat]
      /\ perm' \in [Sorters -> Displays]
  BY FinishStep
<1> QED
  BY <1>3, <1>4, <1>5 DEF TInv

\* No request is of two kinds.
LEMMA KindsApart ==
  ASSUME NEW r \in Req
  PROVE  /\ r \in Adders => r \notin Editors \cup Removers \cup Sorters
         /\ r \in Editors => r \notin Removers \cup Sorters
         /\ r \in Removers => r \notin Sorters
BY KindsDisjoint

\* No step breaks a type, loses what a request refers to or brings a menu back.
LEMMA TInvNext == TInv /\ WInv /\ [Next]_vars => TInv'
<1> SUFFICES ASSUME TInv, WInv, [Next]_vars PROVE TInv'
  OBVIOUS
<1> USE DEF Req
<1>1. ASSUME NEW a \in Adders, AddRead(a) PROVE TInv'
  <2>1. /\ base' \in [Adders \cup Sorters -> [live : SUBSET Menus, display : Displays]]
        /\ \A r \in Adders \cup Sorters : base'[r].display \in [base'[r].live -> Nat]
        /\ \A r \in Sorters : base'[r] = base[r]
    <3> DEFINE b == [live |-> live, display |-> [m \in live |-> display[m]]]
    <3>1. b \in [live : SUBSET Menus, display : Displays] /\ b.display \in [b.live -> Nat]
      BY Reads
    <3>2. base' = [base EXCEPT ![a] = b] \/ base' = base
      BY <1>1 DEF AddRead, Read
    <3>3. base \in [Adders \cup Sorters -> [live : SUBSET Menus, display : Displays]]
          /\ \A r \in Adders \cup Sorters : base[r].display \in [base[r].live -> Nat]
      BY DEF TInv
    <3> HIDE DEF b
    <3> QED
      BY <3>1, <3>2, <3>3, KindsApart
  <2>2. want' \in [Adders \cup Editors -> Nat \cup {Keep}]
    BY <1>1, MenuBounds DEF AddRead, TInv
  <2>3. pc' = [pc EXCEPT ![a] = "read"] /\ UNCHANGED <<rows, target, perm, held>>
    BY <1>1 DEF AddRead, Goto
  <2>4. /\ pc' \in [Req -> Labels]
        /\ \A r \in Editors \cup Removers \cup Sorters : pc'[r] = pc[r]
    BY <2>3, KindsApart DEF TInv, Labels
  <2> QED
    BY <2>1, <2>2, <2>3, <2>4 DEF TInv, rows
<1>2. ASSUME NEW a \in Adders, AddCommit(a) PROVE TInv'
  <2>1. Finish(a) /\ UNCHANGED deleted
    BY <1>2 DEF AddCommit
  <2>2. PICK m \in Menus \ (live \cup deleted) :
          /\ live' = live \cup {m}
          /\ display' = [display EXCEPT ![m] =
               IF want[a] = Keep THEN Highest(base[a]) + 1 ELSE want[a]]
    BY <1>2 DEF AddCommit
  <2>3. Highest(base[a]) + 1 \in Nat
    BY HighestIsUpper DEF TInv
  <2>4. display' \in [Menus -> Nat]
    BY <2>2, <2>3 DEF TInv
  <2> QED
    <3>1. live' \subseteq Menus /\ deleted' \subseteq Menus /\ live' \cap deleted' = {}
          /\ live \cup deleted \subseteq live' \cup deleted'
      BY <2>1, <2>2 DEF TInv
    <3> QED
      BY <2>1, <2>4, <3>1, CommitStep
<1>3. ASSUME NEW e \in Editors, EditRead(e) PROVE TInv'
  <2>1. PICK m \in live, v \in {Keep} \cup 0 .. MaxOrder :
          /\ target' = [target EXCEPT ![e] = m]
          /\ want' = [want EXCEPT ![e] = IF v = display[m] THEN Keep ELSE v]
    BY <1>3 DEF EditRead
  <2>2. target' \in [Editors \cup Removers -> Nat] /\ target'[e] \in live
    BY <2>1, MenuBounds DEF TInv, Menus
  <2>3. want' \in [Adders \cup Editors -> Nat \cup {Keep}]
    BY <2>1, MenuBounds DEF TInv
  <2>4. pc' = [pc EXCEPT ![e] = "read"] /\ UNCHANGED <<rows, base, perm, held>>
    BY <1>3 DEF EditRead, Goto
  <2> QED
    BY <2>1, <2>2, <2>3, <2>4, KindsApart DEF TInv, Labels, rows
<1>4. ASSUME NEW d \in Removers, RemoveRead(d) PROVE TInv'
  <2>1. PICK m \in live : target' = [target EXCEPT ![d] = m]
    BY <1>4 DEF RemoveRead
  <2>2. target' \in [Editors \cup Removers -> Nat] /\ target'[d] \in live
    BY <2>1, MenuBounds DEF TInv, Menus
  <2>3. pc' = [pc EXCEPT ![d] = "read"] /\ UNCHANGED <<rows, want, base, perm, held>>
    BY <1>4 DEF RemoveRead, Goto
  <2> QED
    BY <2>1, <2>2, <2>3, KindsApart DEF TInv, Labels, rows
<1>5. ASSUME NEW r \in Editors \cup Removers, FlushOne(r) PROVE TInv'
  <2>1. pc[r] = "read" /\ pc' = [pc EXCEPT ![r] = "flushed"]
        /\ UNCHANGED <<rows, target, want, base, perm>>
    BY <1>5 DEF FlushOne, Goto
  <2>2. target[r] \in Menus
    BY <2>1 DEF TInv
  <2>3. held' \in [Req -> SUBSET Menus]
    BY <1>5, <2>2 DEF FlushOne, Take, TInv
  <2> QED
    BY <2>1, <2>3, KindsApart DEF TInv, Labels, rows
<1>6. ASSUME NEW e \in Editors, EditCommit(e) PROVE TInv'
  <2>1. Finish(e) /\ UNCHANGED <<live, deleted>> /\ pc[e] = "flushed"
    BY <1>6 DEF EditCommit
  <2>2. display' \in [Menus -> Nat]
    BY <1>6 DEF EditCommit, TInv
  <2> QED
    BY <2>1, <2>2, CommitStep DEF TInv
<1>7. ASSUME NEW d \in Removers, RemoveCommit(d) PROVE TInv'
  <2>1. /\ Finish(d) /\ UNCHANGED display
        /\ live' = live \ {target[d]} /\ deleted' = deleted \cup {target[d]}
        /\ target[d] \in live \cup deleted
    BY <1>7 DEF RemoveCommit, TInv
  <2> QED
    BY <2>1, CommitStep DEF TInv
<1>8. ASSUME NEW s \in Sorters, SortRead(s) PROVE TInv'
  <2>1. CASE /\ Read(s)
             /\ \E p \in Rankings(live) : perm' = [perm EXCEPT ![s] = p]
             /\ Goto(s, "read")
    <3>1. /\ base' \in [Adders \cup Sorters -> [live : SUBSET Menus, display : Displays]]
          /\ \A r \in Adders \cup Sorters : base'[r].display \in [base'[r].live -> Nat]
          /\ base'[s].live = live
          /\ \A r \in Sorters : r # s => base'[r] = base[r]
      BY <2>1, Reads DEF Read, TInv
    <3>2. PICK p \in Rankings(live) : perm' = [perm EXCEPT ![s] = p]
      BY <2>1
    <3>3. p \in [live -> Nat]
      <4>1. p \in [live -> 0 .. Cardinality(live) - 1]
        BY <3>2 DEF Rankings
      <4>2. 0 .. Cardinality(live) - 1 \subseteq Nat
        OBVIOUS
      <4> QED
        BY <4>1, <4>2
    <3>4. p \in Displays
      BY <3>3 DEF Displays, TInv
    <3>5. /\ perm' \in [Sorters -> Displays] /\ perm'[s] \in [base'[s].live -> Nat]
          /\ \A r \in Sorters : r # s => perm'[r] = perm[r]
      BY <3>1, <3>2, <3>3, <3>4 DEF TInv
    <3>6. pc' = [pc EXCEPT ![s] = "read"] /\ UNCHANGED <<rows, target, want, held>>
      BY <1>8, <2>1 DEF SortRead, Goto
    <3> QED
      BY <3>1, <3>5, <3>6, KindsApart DEF TInv, Labels, rows
  <2>2. CASE Goto(s, "refused") /\ UNCHANGED <<base, perm>>
    BY <1>8, <2>2, KindsApart DEF SortRead, Goto, TInv, Labels, rows
  <2> QED
    BY <1>8, <2>1, <2>2 DEF SortRead
<1>9. ASSUME NEW s \in Sorters, SortFlush(s) PROVE TInv'
  <2>1. UNCHANGED <<rows, pc, target, want, base, perm>>
    BY <1>9 DEF SortFlush
  <2>2. held' \in [Req -> SUBSET Menus]
    BY <1>9 DEF SortFlush, Changed, Take, TInv
  <2> QED
    BY <2>1, <2>2 DEF TInv, rows
<1>10. ASSUME NEW s \in Sorters, SortCommit(s) PROVE TInv'
  <2>1. Finish(s) /\ UNCHANGED <<live, deleted>> /\ pc[s] = "read"
        /\ display' = [m \in Menus |-> IF m \in Changed(s) THEN perm[s][m] ELSE display[m]]
    BY <1>10 DEF SortCommit
  <2>2. perm[s] \in [base[s].live -> Nat] /\ Changed(s) \subseteq base[s].live
    BY <2>1 DEF TInv, Changed
  <2>3. display' \in [Menus -> Nat]
    BY <2>1, <2>2 DEF TInv
  <2> QED
    BY <2>1, <2>3, CommitStep DEF TInv
<1>11. CASE UNCHANGED vars
  BY <1>11 DEF vars, rows, TInv
<1> QED
  BY <1>1, <1>2, <1>3, <1>4, <1>5, <1>6, <1>7, <1>8, <1>9, <1>10, <1>11 DEF Next

\* What a step of r leaves to show of WInv when it touches no other request.
LEMMA OthersWait ==
  ASSUME TInv, WInv, NEW r \in Req,
         \A q \in Req : q # r => pc'[q] = pc[q] /\ held'[q] = held[q],
         \A q \in Sorters : q # r => base'[q] = base[q] /\ perm'[q] = perm[q],
         held'[r] # {} => pc'[r] \in {"read", "flushed"},
         r \in Editors \cup Removers /\ pc'[r] = "read" => held'[r] = {},
         r \in Sorters => \A m \in held'[r] : \A n \in Awaited(r)' : m < n
  PROVE  WInv'
<1>1. \A q \in Req : held'[q] # {} => pc'[q] \in {"read", "flushed"}
  BY DEF WInv
<1>2. \A q \in Editors \cup Removers : pc'[q] = "read" => held'[q] = {}
  BY DEF WInv, Req
<1>3. ASSUME NEW q \in Sorters PROVE \A m \in held'[q] : \A n \in Awaited(q)' : m < n
  <2>1. CASE q = r
    BY <2>1
  <2>2. CASE q # r
    <3>1. pc'[q] = pc[q] /\ held'[q] = held[q] /\ base'[q] = base[q] /\ perm'[q] = perm[q]
      BY <2>2 DEF Req
    <3>2. Changed(q)' = Changed(q)
      BY <3>1 DEF Changed
    <3>3. Awaited(q)' = Awaited(q)
      BY <3>1, <3>2, KindsApart DEF Awaited, Req
    <3> QED
      BY <3>1, <3>3 DEF WInv
  <2> QED
    BY <2>1, <2>2
<1> QED
  BY <1>1, <1>2, <1>3 DEF WInv

\* A commit releases all its request holds and touches no other request.
LEMMA CommitWaits ==
  ASSUME TInv, WInv, NEW r \in Req, Finish(r)
  PROVE  WInv'
<1>1. \A q \in Req : q # r => pc'[q] = pc[q] /\ held'[q] = held[q]
  BY FinishStep DEF TInv
<1>2. held'[r] = {}
  BY FinishStep DEF TInv
<1>3. \A q \in Sorters : q # r => base'[q] = base[q] /\ perm'[q] = perm[q]
  BY FinishStep
<1> QED
  BY <1>1, <1>2, <1>3, OthersWait

\* Rows are taken in key order whatever else happens.
LEMMA WInvNext == TInv /\ WInv /\ [Next]_vars => WInv'
<1> SUFFICES ASSUME TInv, WInv, [Next]_vars PROVE WInv'
  OBVIOUS
<1> USE DEF Req
<1>1. ASSUME NEW a \in Adders, AddRead(a) PROVE WInv'
  <2>1. /\ pc[a] = "idle" /\ pc' = [pc EXCEPT ![a] = "read"] /\ UNCHANGED <<perm, held>>
        /\ \A q \in Sorters : base'[q] = base[q]
    BY <1>1, KindsApart DEF AddRead, Read, Goto, TInv
  <2> QED
    BY <2>1, KindsApart, OthersWait DEF TInv, WInv
<1>2. ASSUME NEW a \in Adders, AddCommit(a) PROVE WInv'
  BY <1>2, CommitWaits DEF AddCommit
<1>3. ASSUME NEW e \in Editors, EditRead(e) PROVE WInv'
  <2>1. pc[e] = "idle" /\ pc' = [pc EXCEPT ![e] = "read"] /\ UNCHANGED <<base, perm, held>>
    BY <1>3 DEF EditRead, Goto
  <2>2. held[e] = {}
    BY <2>1 DEF WInv
  <2> QED
    BY <2>1, <2>2, KindsApart, OthersWait DEF TInv
<1>4. ASSUME NEW d \in Removers, RemoveRead(d) PROVE WInv'
  <2>1. pc[d] = "idle" /\ pc' = [pc EXCEPT ![d] = "read"] /\ UNCHANGED <<base, perm, held>>
    BY <1>4 DEF RemoveRead, Goto
  <2>2. held[d] = {}
    BY <2>1 DEF WInv
  <2> QED
    BY <2>1, <2>2, KindsApart, OthersWait DEF TInv
<1>5. ASSUME NEW r \in Editors \cup Removers, FlushOne(r) PROVE WInv'
  <2>1. /\ pc' = [pc EXCEPT ![r] = "flushed"] /\ UNCHANGED <<base, perm>>
        /\ \A q \in Req : q # r => held'[q] = held[q]
    BY <1>5 DEF FlushOne, Goto, Take, TInv
  <2> QED
    BY <2>1, KindsApart, OthersWait DEF TInv
<1>6. ASSUME NEW e \in Editors, EditCommit(e) PROVE WInv'
  BY <1>6, CommitWaits DEF EditCommit
<1>7. ASSUME NEW d \in Removers, RemoveCommit(d) PROVE WInv'
  BY <1>7, CommitWaits DEF RemoveCommit
<1>8. ASSUME NEW s \in Sorters, SortRead(s) PROVE WInv'
  <2>1. /\ pc[s] = "idle" /\ UNCHANGED held
        /\ \A q \in Req : q # s => pc'[q] = pc[q]
        /\ \A q \in Sorters : q # s => base'[q] = base[q] /\ perm'[q] = perm[q]
    BY <1>8 DEF SortRead, Read, Goto, TInv
  <2>2. held[s] = {}
    BY <2>1 DEF WInv
  <2> QED
    BY <2>1, <2>2, KindsApart, OthersWait
<1>9. ASSUME NEW s \in Sorters, SortFlush(s) PROVE WInv'
  <2>1. pc[s] = "read" /\ UNCHANGED <<pc, base, perm>>
    BY <1>9 DEF SortFlush
  <2>2. PICK m \in Changed(s) \ held[s] :
          /\ \A n \in Changed(s) \ held[s] : m <= n
          /\ held' = [held EXCEPT ![s] = @ \cup {m}]
    BY <1>9 DEF SortFlush, Take
  <2>3. Changed(s)' = Changed(s) /\ Changed(s) \subseteq Menus
    BY <2>1 DEF Changed, TInv
  <2>4. Awaited(s) = Changed(s) \ held[s]
    BY <2>1, KindsApart DEF Awaited
  <2>5. Awaited(s)' = Changed(s) \ (held[s] \cup {m})
    BY <2>1, <2>2, <2>3, KindsApart DEF Awaited, TInv
  <2>6. \A k \in held[s] \cup {m} : \A n \in Changed(s) \ (held[s] \cup {m}) : k < n
    <3>1. \A n \in Changed(s) \ (held[s] \cup {m}) : m < n
      BY <2>2, <2>3 DEF Menus
    <3> QED
      BY <3>1, <2>4 DEF WInv
  <2>7. held'[s] = held[s] \cup {m} /\ \A q \in Req : q # s => held'[q] = held[q]
    BY <2>2 DEF TInv
  <2> QED
    BY <2>1, <2>5, <2>6, <2>7, KindsApart, OthersWait
<1>10. ASSUME NEW s \in Sorters, SortCommit(s) PROVE WInv'
  BY <1>10, CommitWaits DEF SortCommit
<1>11. CASE UNCHANGED vars
  BY <1>11 DEF vars, WInv, Awaited, Changed
<1> QED
  BY <1>1, <1>2, <1>3, <1>4, <1>5, <1>6, <1>7, <1>8, <1>9, <1>10, <1>11 DEF Next

\* The invariant of every behaviour.
LEMMA Invariant == Spec => []IInv
<1>1. IInv /\ [Next]_vars => IInv'
  BY TInvNext, WInvNext DEF IInv
<1> QED
  BY IInvInit, <1>1, PTL DEF Spec

-----------------------------------------------------------------------------
(* The list.                                                               *)

Before(m) == {n \in live : Precedes(n, m)}

\* list_ordered puts any two menus in an order, by name where they agree.
LEMMA ListOrder ==
  ASSUME live \subseteq Menus, display \in [Menus -> Nat]
  PROVE  /\ \A m \in live : ~ Precedes(m, m)
         /\ \A m, n \in live : m # n => Precedes(m, n) \/ Precedes(n, m)
         /\ \A l, m, n \in live : Precedes(l, m) /\ Precedes(m, n) => Precedes(l, n)
<1>1. \A m \in live : m \in Int /\ display[m] \in Int
  BY DEF Menus
<1> QED
  BY <1>1 DEF Precedes

\* The menus before each are finitely many, and more the later it comes.
LEMMA RankGrows ==
  ASSUME live \subseteq Menus, display \in [Menus -> Nat]
  PROVE  /\ IsFiniteSet(live) /\ Cardinality(live) \in Nat
         /\ \A m \in live : Cardinality(Before(m)) \in 0 .. Cardinality(live) - 1
         /\ \A m, n \in live :
              Precedes(m, n) => Cardinality(Before(m)) < Cardinality(Before(n))
<1>1. IsFiniteSet(live) /\ Cardinality(live) \in Nat
  <2>1. 1 \in Int /\ MaxMenus \in Int
    BY MenuBounds
  <2>2. IsFiniteSet(Menus)
    BY <2>1, FS_Interval DEF Menus
  <2> QED
    BY <2>2, FS_Subset, FS_CardinalityType
<1>2. ASSUME NEW m \in live
      PROVE  /\ IsFiniteSet(Before(m)) /\ Cardinality(Before(m)) \in Nat
             /\ Cardinality(Before(m)) < Cardinality(live)
  <2>1. Before(m) \in SUBSET live /\ m \notin Before(m)
    BY ListOrder DEF Before
  <2>2. IsFiniteSet(Before(m)) /\ Cardinality(Before(m)) <= Cardinality(live)
        /\ Cardinality(Before(m)) # Cardinality(live)
    BY <1>1, <2>1, FS_Subset
  <2>3. Cardinality(Before(m)) \in Nat
    BY <2>2, FS_CardinalityType
  <2> QED
    BY <1>1, <2>2, <2>3
<1>3. ASSUME NEW m \in live, NEW n \in live, Precedes(m, n)
      PROVE  Cardinality(Before(m)) < Cardinality(Before(n))
  <2>1. Before(m) \in SUBSET Before(n) /\ m \notin Before(m) /\ m \in Before(n)
    BY <1>3, ListOrder DEF Before
  <2>2. IsFiniteSet(Before(n))
    BY <1>2
  <2>3. /\ Cardinality(Before(m)) <= Cardinality(Before(n))
        /\ Cardinality(Before(m)) # Cardinality(Before(n))
    BY <2>1, <2>2, FS_Subset
  <2> QED
    BY <1>2, <2>3
<1> QED
  BY <1>1, <1>2, <1>3

\* The list has each menu once, those that come first before the others.
LEMMA ListingSorted ==
  ASSUME live \subseteq Menus, display \in [Menus -> Nat]
  PROVE  /\ Len(Listing) \in Nat /\ DOMAIN Listing = 1 .. Len(Listing)
         /\ \A i \in 1 .. Len(Listing) : Listing[i] \in live
         /\ \A m \in live : \E i \in 1 .. Len(Listing) : Listing[i] = m
         /\ \A i, j \in 1 .. Len(Listing) : i < j => Precedes(Listing[i], Listing[j])
<1> DEFINE N == Cardinality(live)
           rank == [m \in live |-> Cardinality(Before(m))]
<1>1. /\ IsFiniteSet(live) /\ N \in Nat
      /\ \A m \in live : rank[m] \in 0 .. N - 1
      /\ \A m, n \in live : Precedes(m, n) => rank[m] < rank[n]
  BY RankGrows
<1>2. ASSUME NEW m \in live, NEW n \in live, rank[m] = rank[n] PROVE m = n
  <2>1. rank[m] \in Int
    BY <1>1
  <2>2. ~ Precedes(m, n) /\ ~ Precedes(n, m)
    BY <1>1, <1>2, <2>1
  <2> QED
    BY <2>2, ListOrder
<1>3. ASSUME NEW k \in 0 .. N - 1 PROVE \E m \in live : rank[m] = k
  <2>1. rank \in Injection(live, 0 .. N - 1)
    <3>1. rank \in [live -> 0 .. N - 1]
      BY <1>1
    <3> HIDE DEF rank
    <3> QED
      BY <1>2, <3>1 DEF Injection, IsInjective
  <2>2. 0 \in Int /\ N - 1 \in Int
    BY <1>1
  <2>3. IsFiniteSet(0 .. N - 1) /\ Cardinality(0 .. N - 1) = IF 0 > N - 1 THEN 0 ELSE N - 1 - 0 + 1
    BY <2>2, FS_Interval
  <2>4. Cardinality(0 .. N - 1) = N
    BY <1>1, <2>3
  <2>5. rank \in Surjection(live, 0 .. N - 1)
    <3> HIDE DEF rank
    <3> QED
      BY <2>1, <2>3, <2>4, FS_Injection
  <2> HIDE DEF rank
  <2> QED
    BY <2>5 DEF Surjection
<1>4. Listing = [i \in 1 .. N |-> CHOOSE m \in live : Cardinality(Before(m)) = i - 1]
  BY DEF Listing, Before
<1>5. Listing \in Seq(live) /\ Len(Listing) = N
  <2>1. \A i \in 1 .. N : (CHOOSE m \in live : Cardinality(Before(m)) = i - 1) \in live
    <3> SUFFICES ASSUME NEW i \in 1 .. N
                 PROVE  (CHOOSE m \in live : Cardinality(Before(m)) = i - 1) \in live
      OBVIOUS
    <3>1. i - 1 \in 0 .. N - 1
      BY <1>1
    <3>2. \E m \in live : Cardinality(Before(m)) = i - 1
      BY <1>3, <3>1
    <3> QED
      BY <3>2
  <2> HIDE DEF rank, N
  <2>2. Listing \in [1 .. N -> live] /\ N \in Nat
    BY <1>1, <1>4, <2>1
  <2>3. Listing \in Seq(live)
    BY <2>2, SeqDef
  <2>4. 1 .. Len(Listing) = 1 .. N /\ Len(Listing) \in Nat
    BY <2>2, <2>3, LenProperties
  <2>5. Len(Listing) = N
    BY <2>2, <2>4
  <2> QED
    BY <2>3, <2>5
<1>6. ASSUME NEW i \in 1 .. N PROVE Listing[i] \in live /\ rank[Listing[i]] = i - 1
  <2>1. i - 1 \in 0 .. N - 1
    BY <1>1
  <2>2. Listing[i] = CHOOSE m \in live : Cardinality(Before(m)) = i - 1
    BY <1>4
  <2>3. \E m \in live : Cardinality(Before(m)) = i - 1
    BY <1>3, <2>1
  <2>4. Listing[i] \in live /\ Cardinality(Before(Listing[i])) = i - 1
    BY <2>2, <2>3
  <2> QED
    BY <2>4
<1>7. ASSUME NEW m \in live PROVE \E i \in 1 .. N : Listing[i] = m
  <2>1. rank[m] + 1 \in 1 .. N /\ (rank[m] + 1) - 1 = rank[m]
    BY <1>1
  <2>2. PICK i \in 1 .. N : i - 1 = rank[m]
    <3> HIDE DEF rank, N
    <3> QED
      BY <2>1
  <2> HIDE DEF rank, N
  <2>3. Listing[i] \in live /\ rank[Listing[i]] = rank[m]
    BY <1>6, <2>2
  <2> QED
    BY <1>2, <2>3
<1>8. ASSUME NEW i \in 1 .. N, NEW j \in 1 .. N, i < j
      PROVE  Precedes(Listing[i], Listing[j])
  <2> DEFINE m == Listing[i]
             n == Listing[j]
  <2>1. m \in live /\ n \in live /\ rank[m] = i - 1 /\ rank[n] = j - 1
    BY <1>6
  <2> HIDE DEF rank, m, n
  <2>2. ~ (rank[n] < rank[m]) /\ rank[m] # rank[n]
    BY <1>8, <2>1
  <2>3. m # n /\ ~ Precedes(n, m)
    BY <1>1, <2>1, <2>2
  <2>4. Precedes(m, n)
    BY <2>1, <2>3, ListOrder
  <2> QED
    BY <2>4 DEF m, n
<1> HIDE DEF N
<1> QED
  BY <1>1, <1>5, <1>6, <1>7, <1>8

-----------------------------------------------------------------------------
(* The groups.                                                             *)

Group == [category : {Category[m] : m \in Menus}, items : Seq(Menus)]

First(g) == g.items[1]

\* groups has the menus of S, each under its category, and is in list order.
Groups(groups, S) ==
  /\ groups \in Seq(Group)
  /\ \A i \in 1 .. Len(groups) :
       /\ groups[i].items # <<>>
       /\ \A j \in 1 .. Len(groups[i].items) :
            groups[i].items[j] \in S /\ Category[groups[i].items[j]] = groups[i].category
       /\ \A j, k \in 1 .. Len(groups[i].items) :
            j < k => Precedes(groups[i].items[j], groups[i].items[k])
  /\ \A i, j \in 1 .. Len(groups) :
       i < j => /\ groups[i].category # groups[j].category
                /\ Precedes(First(groups[i]), First(groups[j]))
  /\ \A m \in S : \E i \in 1 .. Len(groups) :
       \E j \in 1 .. Len(groups[i].items) : groups[i].items[j] = m

\* Where a menu goes: to the group of its category, or to one of its own.
LEMMA WhereItGoes ==
  ASSUME NEW groups \in Seq(Group), NEW m \in Menus
  PROVE  \/ /\ \A i \in 1 .. Len(groups) : groups[i].category # Category[m]
            /\ AddToGroup(groups, m) = Append(groups, [category |-> Category[m], items |-> <<m>>])
         \/ \E i \in 1 .. Len(groups) :
              /\ groups[i].category = Category[m]
              /\ AddToGroup(groups, m) = [groups EXCEPT ![i].items = Append(@, m)]
<1> DEFINE I == {i \in 1 .. Len(groups) : groups[i].category = Category[m]}
           at == SelectInSeq(groups, LAMBDA g : g.category = Category[m])
<1>1. at = IF I # {} THEN Min(I) ELSE 0
  BY DEF SelectInSeq
<1>2. AddToGroup(groups, m) =
        IF at = 0 THEN Append(groups, [category |-> Category[m], items |-> <<m>>])
        ELSE [groups EXCEPT ![at].items = Append(@, m)]
  BY DEF AddToGroup
<1>3. I \in SUBSET Nat
  OBVIOUS
<1> HIDE DEF at
<1>4. CASE I = {}
  BY <1>1, <1>2, <1>4
<1>5. CASE I # {}
  <2>1. PICK k \in I : \A n \in I : k <= n
    BY <1>3, <1>5, SmallestOf
  <2>2. Min(I) \in I
    BY <2>1 DEF Min
  <2>3. at \in I /\ at # 0
    BY <1>1, <1>5, <2>2
  <2> QED
    BY <1>2, <2>3
<1> QED
  BY <1>4, <1>5

\* A menu that comes after all in the groups leaves them in order.
LEMMA AddToGroupStep ==
  ASSUME NEW S \in SUBSET Menus, NEW groups, Groups(groups, S),
         NEW m \in Menus, \A n \in S : Precedes(n, m)
  PROVE  Groups(AddToGroup(groups, m), S \cup {m})
<1> DEFINE new == AddToGroup(groups, m)
<1>1. /\ groups \in Seq(Group) /\ Len(groups) \in Nat
      /\ \A i \in 1 .. Len(groups) : groups[i] \in Group
  BY LenProperties, ElementOfSeq DEF Groups
<1>2. ASSUME NEW i \in 1 .. Len(groups)
      PROVE  /\ groups[i].items \in Seq(Menus) /\ Len(groups[i].items) \in Nat
             /\ 1 \in 1 .. Len(groups[i].items)
             /\ First(groups[i]) \in S
  <2>1. groups[i].items \in Seq(Menus) /\ groups[i].items # <<>>
    BY <1>1 DEF Group, Groups
  <2>2. Len(groups[i].items) \in Nat /\ 1 \in 1 .. Len(groups[i].items)
    BY <2>1, EmptySeq
  <2> QED
    BY <2>1, <2>2 DEF Groups, First
<1>3. CASE /\ \A i \in 1 .. Len(groups) : groups[i].category # Category[m]
           /\ new = Append(groups, [category |-> Category[m], items |-> <<m>>])
  <2> DEFINE g == [category |-> Category[m], items |-> <<m>>]
  <2>1. g \in Group /\ g.category = Category[m] /\ g.items = <<m>> /\ First(g) = m
        /\ Len(g.items) = 1 /\ g.items # <<>> /\ g.items[1] = m
    BY DEF Group, First
  <2> HIDE DEF g
  <2>2. new \in Seq(Group) /\ Len(new) = Len(groups) + 1 /\ new[Len(groups) + 1] = g
        /\ \A i \in 1 .. Len(groups) : new[i] = groups[i]
    BY <1>1, <1>3, <2>1 DEF g
  <2> HIDE DEF new
  <2>3. ASSUME NEW i \in 1 .. Len(new)
        PROVE  /\ new[i].items # <<>>
               /\ \A j \in 1 .. Len(new[i].items) :
                    new[i].items[j] \in S \cup {m} /\ Category[new[i].items[j]] = new[i].category
               /\ \A j, k \in 1 .. Len(new[i].items) :
                    j < k => Precedes(new[i].items[j], new[i].items[k])
    <3>1. CASE i \in 1 .. Len(groups)
      BY <2>2, <3>1 DEF Groups
    <3>2. CASE i = Len(groups) + 1
      <4>1. new[i] = g
        BY <2>2, <3>2
      <4>2. /\ \A j \in 1 .. Len(g.items) : j = 1
            /\ \A j, k \in 1 .. Len(g.items) : ~ (j < k)
        BY <2>1
      <4>3. \A j \in 1 .. Len(g.items) :
              g.items[j] \in S \cup {m} /\ Category[g.items[j]] = g.category
        BY <2>1, <4>2
      <4> QED
        BY <2>1, <4>1, <4>2, <4>3
    <3> QED
      BY <1>1, <2>2, <3>1, <3>2
  <2>4. ASSUME NEW i \in 1 .. Len(new), NEW j \in 1 .. Len(new), i < j
        PROVE  /\ new[i].category # new[j].category
               /\ Precedes(First(new[i]), First(new[j]))
    <3>1. i \in 1 .. Len(groups) /\ new[i] = groups[i]
      BY <1>1, <2>2, <2>4
    <3>2. CASE j \in 1 .. Len(groups)
      BY <2>2, <2>4, <3>1, <3>2 DEF Groups
    <3>3. CASE j = Len(groups) + 1
      <4>1. new[j] = g
        BY <2>2, <3>3
      <4> QED
        BY <1>2, <1>3, <2>1, <3>1, <4>1
    <3> QED
      BY <1>1, <2>2, <3>2, <3>3
  <2>5. ASSUME NEW n \in S \cup {m}
        PROVE  \E i \in 1 .. Len(new) : \E j \in 1 .. Len(new[i].items) : new[i].items[j] = n
    <3>1. CASE n \in S
      <4>1. PICK i \in 1 .. Len(groups) : \E j \in 1 .. Len(groups[i].items) : groups[i].items[j] = n
        BY <3>1 DEF Groups
      <4>2. i \in 1 .. Len(new) /\ new[i] = groups[i]
        BY <1>1, <2>2
      <4> QED
        BY <4>1, <4>2
    <3>2. CASE n = m
      <4>1. Len(groups) + 1 \in 1 .. Len(new) /\ 1 \in 1 .. Len(g.items)
        BY <1>1, <2>1, <2>2
      <4> QED
        BY <2>1, <2>2, <3>2, <4>1
    <3> QED
      BY <3>1, <3>2
  <2>6. Groups(new, S \cup {m})
    BY <2>2, <2>3, <2>4, <2>5 DEF Groups
  <2> QED
    BY <2>6 DEF new
<1>4. ASSUME NEW a \in 1 .. Len(groups), groups[a].category = Category[m],
             new = [groups EXCEPT ![a].items = Append(@, m)]
      PROVE  Groups(new, S \cup {m})
  <2> DEFINE old == groups[a].items
             g == [groups[a] EXCEPT !.items = Append(@, m)]
  <2>1. g \in Group /\ g.category = Category[m] /\ g.items = Append(old, m)
    <3>1. /\ groups[a] \in [category : {Category[n] : n \in Menus}, items : Seq(Menus)]
          /\ Append(old, m) \in Seq(Menus)
      BY <1>1, <1>2 DEF Group
    <3>2. g = [category |-> groups[a].category, items |-> Append(old, m)]
      <4>1. ASSUME NEW A, NEW B, NEW x \in [category : A, items : B], NEW y
            PROVE  [x EXCEPT !.items = y] = [category |-> x.category, items |-> y]
        OBVIOUS
      <4> DEFINE items == Append(old, m)
                 row == groups[a]
      <4>2. g = [row EXCEPT !.items = items]
        OBVIOUS
      <4>3. row \in [category : {Category[n] : n \in Menus}, items : Seq(Menus)]
        BY <3>1
      <4> HIDE DEF items, row, g
      <4>4. g = [category |-> row.category, items |-> items]
        BY <4>1, <4>2, <4>3
      <4> QED
        BY <4>4 DEF items, row
    <3> HIDE DEF old, g
    <3>3. g.category = groups[a].category /\ g.items = Append(old, m)
      BY <3>2
    <3>4. g \in Group
      BY <3>1, <3>2 DEF Group
    <3> QED
      BY <1>4, <3>3, <3>4
  <2>2. /\ Len(old) \in Nat /\ 1 \in 1 .. Len(old) /\ Len(g.items) = Len(old) + 1
        /\ g.items # <<>> /\ g.items[Len(old) + 1] = m
        /\ \A j \in 1 .. Len(old) : g.items[j] = old[j]
    BY <1>2, <2>1
  <2>3. new \in Seq(Group) /\ Len(new) = Len(groups)
        /\ new[a] = g /\ \A i \in 1 .. Len(groups) : i # a => new[i] = groups[i]
    <3>1. new = [groups EXCEPT ![a] = g]
      BY <1>4
    <3> HIDE DEF new, g
    <3> QED
      BY <1>1, <2>1, <3>1, ExceptSeq
  <2>4. First(g) = First(groups[a])
    BY <2>2 DEF First
  <2>5. /\ \A j \in 1 .. Len(old) : old[j] \in S /\ Category[old[j]] = Category[m]
        /\ \A j, k \in 1 .. Len(old) : j < k => Precedes(old[j], old[k])
    BY <1>4 DEF Groups
  <2> HIDE DEF new, g, old
  <2>6. ASSUME NEW i \in 1 .. Len(new)
        PROVE  /\ new[i].items # <<>>
               /\ \A j \in 1 .. Len(new[i].items) :
                    new[i].items[j] \in S \cup {m} /\ Category[new[i].items[j]] = new[i].category
               /\ \A j, k \in 1 .. Len(new[i].items) :
                    j < k => Precedes(new[i].items[j], new[i].items[k])
    <3>1. CASE i # a
      BY <2>3, <3>1 DEF Groups
    <3>2. CASE i = a
      <4>1. \A j \in 1 .. Len(g.items) : j \in 1 .. Len(old) \/ j = Len(old) + 1
        BY <2>2
      <4>2. ASSUME NEW j \in 1 .. Len(g.items)
            PROVE  g.items[j] \in S \cup {m} /\ Category[g.items[j]] = g.category
        BY <2>1, <2>2, <2>5, <4>1
      <4>3. ASSUME NEW j \in 1 .. Len(g.items), NEW k \in 1 .. Len(g.items), j < k
            PROVE  Precedes(g.items[j], g.items[k])
        <5>1. j \in 1 .. Len(old) /\ g.items[j] = old[j]
          BY <2>2, <4>3
        <5>2. CASE k \in 1 .. Len(old)
          BY <2>2, <2>5, <4>3, <5>1, <5>2
        <5>3. CASE k = Len(old) + 1
          BY <2>2, <2>5, <5>1, <5>3
        <5> QED
          BY <4>1, <5>2, <5>3
      <4> QED
        BY <2>2, <2>3, <3>2, <4>2, <4>3
    <3> QED
      BY <3>1, <3>2
  <2>7. \A i \in 1 .. Len(new) :
          new[i].category = groups[i].category /\ First(new[i]) = First(groups[i])
    BY <1>4, <2>1, <2>3, <2>4
  <2>8. \A i, j \in 1 .. Len(new) :
          i < j => /\ new[i].category # new[j].category
                   /\ Precedes(First(new[i]), First(new[j]))
    BY <2>3, <2>7 DEF Groups
  <2>9. ASSUME NEW n \in S \cup {m}
        PROVE  \E i \in 1 .. Len(new) : \E j \in 1 .. Len(new[i].items) : new[i].items[j] = n
    <3>1. CASE n \in S
      <4>1. PICK i \in 1 .. Len(groups) : \E j \in 1 .. Len(groups[i].items) : groups[i].items[j] = n
        BY <3>1 DEF Groups
      <4>2. CASE i # a
        BY <2>3, <4>1, <4>2
      <4>3. CASE i = a
        <5>1. PICK j \in 1 .. Len(old) : old[j] = n
          BY <4>1, <4>3 DEF old
        <5>2. j \in 1 .. Len(g.items) /\ g.items[j] = n
          BY <2>2, <5>1
        <5> QED
          BY <1>4, <2>3, <5>2
      <4> QED
        BY <4>2, <4>3
    <3>2. CASE n = m
      <4>1. Len(old) + 1 \in 1 .. Len(g.items)
        BY <2>2
      <4> QED
        BY <1>4, <2>2, <2>3, <3>2, <4>1
    <3> QED
      BY <3>1, <3>2
  <2> QED
    BY <2>3, <2>6, <2>8, <2>9 DEF Groups
<1> QED
  BY <1>1, <1>3, <1>4, WhereItGoes

-----------------------------------------------------------------------------
(* The recursion of Grouped.                                               *)

\* f has the groups of each beginning of list of at most n menus.
Unfolds(f, list, n) ==
  f = [i \in 0 .. n |-> IF i = 0 THEN <<>> ELSE AddToGroup(f[i - 1], list[i])]

\* There is such a function: otherwise there is a least n without one.
LEMMA Unfolding ==
  ASSUME NEW list, NEW k \in Nat
  PROVE  \E f : Unfolds(f, list, k)
<1> DEFINE T == {n \in 0 .. k : ~ \E f : Unfolds(f, list, n)}
<1>1. SUFFICES ASSUME T # {} PROVE FALSE
  <2>1. k \in 0 .. k
    OBVIOUS
  <2> QED
    BY <2>1
<1>2. PICK n \in T : \A l \in T : n <= l
  <2>1. T \in SUBSET Nat
    OBVIOUS
  <2> HIDE DEF T
  <2> QED
    BY <2>1, <1>1, SmallestOf
<1>3. n \in 0 .. k /\ ~ \E f : Unfolds(f, list, n)
  OBVIOUS
<1>4. n # 0
  <2> SUFFICES ASSUME n = 0 PROVE FALSE
    OBVIOUS
  <2> DEFINE f == [i \in 0 .. 0 |-> <<>>]
  <2>1. Unfolds(f, list, 0)
    BY DEF Unfolds
  <2> HIDE DEF f
  <2> QED
    BY <1>3, <2>1
<1>5. n - 1 \in 0 .. k /\ ~ (n <= n - 1)
  BY <1>3, <1>4
<1>6. PICK f : Unfolds(f, list, n - 1)
  BY <1>2, <1>5
<1> DEFINE g == [i \in 0 .. n |-> IF i = n THEN AddToGroup(f[n - 1], list[n]) ELSE f[i]]
<1>7. Unfolds(g, list, n)
  <2>1. ASSUME NEW i \in 0 .. n
        PROVE  g[i] = IF i = 0 THEN <<>> ELSE AddToGroup(g[i - 1], list[i])
    <3>1. CASE i = n
      <4>1. n - 1 \in 0 .. n /\ n - 1 # n
        BY <1>3, <1>4
      <4>2. g[n - 1] = f[n - 1]
        BY <4>1
      <4> QED
        BY <1>4, <3>1, <4>2
    <3>2. CASE i # n
      <4>1. i \in 0 .. n - 1 /\ (i # 0 => i - 1 \in 0 .. n /\ i - 1 # n)
        BY <1>3, <3>2
      <4>2. f[i] = IF i = 0 THEN <<>> ELSE AddToGroup(f[i - 1], list[i])
        BY <1>6, <4>1 DEF Unfolds
      <4>3. g[i] = f[i] /\ (i # 0 => g[i - 1] = f[i - 1])
        BY <3>2, <4>1
      <4> HIDE DEF g
      <4> QED
        BY <4>2, <4>3
    <3> QED
      BY <3>1, <3>2
  <2>2. g = [i \in 0 .. n |-> g[i]]
    OBVIOUS
  <2> HIDE DEF g
  <2>3. [i \in 0 .. n |-> g[i]]
          = [i \in 0 .. n |-> IF i = 0 THEN <<>> ELSE AddToGroup(g[i - 1], list[i])]
    BY <2>1
  <2> QED
    BY <2>2, <2>3 DEF Unfolds
<1> HIDE DEF g
<1> QED
  BY <1>3, <1>7

\* list_grouped adds the menus of the list one after the other.
LEMMA GroupedUnfolds ==
  ASSUME Len(Listing) \in Nat
  PROVE  \E f : Unfolds(f, Listing, Len(Listing)) /\ Grouped = f[Len(Listing)]
<1> DEFINE f == CHOOSE f : Unfolds(f, Listing, Len(Listing))
<1>1. Unfolds(f, Listing, Len(Listing))
  BY Unfolding
<1>2. Grouped = f[Len(Listing)]
  BY DEF Grouped, Unfolds
<1> HIDE DEF f
<1> QED
  BY <1>1, <1>2

\* Each beginning of the list is grouped, for otherwise there is a least one
\* that is not.
LEMMA GroupedGroups ==
  ASSUME live \subseteq Menus, display \in [Menus -> Nat]
  PROVE  Groups(Grouped, live)
<1> DEFINE N == Len(Listing)
           Seen(n) == {Listing[i] : i \in 1 .. n}
<1>1. /\ N \in Nat
      /\ \A i \in 1 .. N : Listing[i] \in live
      /\ \A m \in live : \E i \in 1 .. N : Listing[i] = m
      /\ \A i, j \in 1 .. N : i < j => Precedes(Listing[i], Listing[j])
  BY ListingSorted
<1>2. PICK f : Unfolds(f, Listing, N) /\ Grouped = f[N]
  BY <1>1, GroupedUnfolds
<1> DEFINE T == {n \in 0 .. N : ~ Groups(f[n], Seen(n))}
<1>3. SUFFICES ASSUME T # {} PROVE FALSE
  <2>1. N \in 0 .. N /\ Seen(N) = live
    BY <1>1
  <2> HIDE DEF N, Seen
  <2>2. Groups(f[N], live)
    BY <1>3, <2>1
  <2> QED
    BY <1>2, <2>2
<1>4. PICK n \in T : \A l \in T : n <= l
  <2>1. T \in SUBSET Nat
    OBVIOUS
  <2> HIDE DEF T
  <2> QED
    BY <2>1, <1>3, SmallestOf
<1>5. n \in 0 .. N /\ ~ Groups(f[n], Seen(n))
  OBVIOUS
<1>6. n # 0
  <2> SUFFICES ASSUME n = 0 PROVE FALSE
    OBVIOUS
  <2>1. f[0] = <<>>
    BY <1>1, <1>2, <1>5 DEF Unfolds
  <2>2. Seen(0) = {}
    OBVIOUS
  <2> HIDE DEF Seen
  <2>3. Groups(<<>>, {})
    BY DEF Groups
  <2> QED
    BY <1>5, <2>1, <2>2, <2>3
<1>7. n - 1 \in 0 .. N /\ ~ (n <= n - 1) /\ n \in 1 .. N
  BY <1>1, <1>5, <1>6
<1>8. Groups(f[n - 1], Seen(n - 1))
  BY <1>4, <1>7
<1>9. f[n] = AddToGroup(f[n - 1], Listing[n])
  BY <1>2, <1>5, <1>6 DEF Unfolds
<1>10. Listing[n] \in Menus /\ Seen(n - 1) \in SUBSET Menus
  BY <1>1, <1>7
<1>11. \A m \in Seen(n - 1) : Precedes(m, Listing[n])
  <2> SUFFICES ASSUME NEW i \in 1 .. n - 1 PROVE Precedes(Listing[i], Listing[n])
    OBVIOUS
  <2>1. i \in 1 .. N /\ i < n
    BY <1>1, <1>7
  <2> QED
    BY <1>1, <1>7, <2>1
<1>12. Seen(n) = Seen(n - 1) \cup {Listing[n]}
  <2>1. 1 .. n = (1 .. n - 1) \cup {n}
    BY <1>7
  <2> QED
    BY <2>1
<1> HIDE DEF Seen, N, T
<1>13. Groups(AddToGroup(f[n - 1], Listing[n]), Seen(n - 1) \cup {Listing[n]})
  BY <1>8, <1>10, <1>11, AddToGroupStep
<1> QED
  BY <1>5, <1>9, <1>12, <1>13

\* The grouped list is as GroupsInOrder has it whatever the rows are.
LEMMA GroupsAgree ==
  ASSUME live \subseteq Menus, display \in [Menus -> Nat]
  PROVE  GroupsInOrder
<1> DEFINE groups == Grouped
           Items(i) == ToSet(groups[i].items)
           Lowest(i) == display[groups[i].items[1]]
<1>1. Groups(groups, live)
  BY GroupedGroups
<1> HIDE DEF groups
<1>2. DOMAIN groups = 1 .. Len(groups) /\ \A i \in 1 .. Len(groups) : groups[i] \in Group
  BY <1>1, LenProperties, ElementOfSeq DEF Groups
<1>3. ASSUME NEW i \in 1 .. Len(groups)
      PROVE  /\ DOMAIN groups[i].items = 1 .. Len(groups[i].items)
             /\ 1 \in DOMAIN groups[i].items
             /\ First(groups[i]) \in live
             /\ Items(i) = {groups[i].items[j] : j \in 1 .. Len(groups[i].items)}
  <2>1. groups[i].items \in Seq(Menus) /\ groups[i].items # <<>>
    BY <1>1, <1>2 DEF Groups, Group
  <2>2. DOMAIN groups[i].items = 1 .. Len(groups[i].items)
        /\ 1 \in 1 .. Len(groups[i].items)
    BY <2>1, EmptySeq, LenProperties
  <2> QED
    BY <1>1, <2>2 DEF Groups, First, ToSet
<1> HIDE DEF Items
<1>4. ASSUME NEW i \in 1 .. Len(groups)
      PROVE  Items(i) = {m \in live : Category[m] = groups[i].category}
  <2>1. ASSUME NEW m \in Items(i) PROVE m \in live /\ Category[m] = groups[i].category
    <3>1. PICK j \in 1 .. Len(groups[i].items) : m = groups[i].items[j]
      BY <1>3, <2>1
    <3> QED
      BY <1>1, <3>1 DEF Groups
  <2>2. ASSUME NEW m \in live, Category[m] = groups[i].category PROVE m \in Items(i)
    <3>1. PICK k \in 1 .. Len(groups) : \E j \in 1 .. Len(groups[k].items) : groups[k].items[j] = m
      BY <1>1 DEF Groups
    <3>2. groups[k].category = groups[i].category
      BY <1>1, <2>2, <3>1 DEF Groups
    <3>3. ~ (k < i) /\ ~ (i < k)
      BY <1>1, <3>2 DEF Groups
    <3>4. k = i
      BY <3>3, <1>1, LenProperties DEF Groups
    <3> QED
      BY <1>3, <3>1, <3>4
  <2> QED
    BY <2>1, <2>2
<1>5. UNION {Items(i) : i \in 1 .. Len(groups)} = live
  <2>1. ASSUME NEW m \in live PROVE \E i \in 1 .. Len(groups) : m \in Items(i)
    <3>1. PICK i \in 1 .. Len(groups) : \E j \in 1 .. Len(groups[i].items) : groups[i].items[j] = m
      BY <1>1 DEF Groups
    <3> QED
      BY <1>3, <3>1
  <2> QED
    BY <1>4, <2>1
<1>6. ASSUME NEW i \in 1 .. Len(groups), NEW j \in 1 .. Len(groups), i < j
      PROVE  Lowest(i) <= Lowest(j)
  <2>1. Precedes(First(groups[i]), First(groups[j]))
    BY <1>1, <1>6 DEF Groups
  <2>2. display[First(groups[i])] \in Int /\ display[First(groups[j])] \in Int
    BY <1>3
  <2> QED
    BY <2>1, <2>2 DEF Precedes, First
<1>7. \A i \in 1 .. Len(groups) :
        /\ Items(i) = {m \in live : Category[m] = groups[i].category}
        /\ \A j, k \in DOMAIN groups[i].items :
             j < k => Precedes(groups[i].items[j], groups[i].items[k])
        /\ \A j \in 1 .. Len(groups) : i < j =>
             groups[i].category # groups[j].category /\ Lowest(i) <= Lowest(j)
  BY <1>1, <1>3, <1>4, <1>6 DEF Groups
<1> HIDE DEF Lowest
<1> QED
  BY <1>2, <1>5, <1>7 DEF GroupsInOrder, groups, Items, Lowest

-----------------------------------------------------------------------------
(* Theorems.                                                               *)

\* Updates, reorders and deletes never wait for each other in a circle: who
\* holds the greatest of all locked rows finds the rows it awaits unlocked
\* (reorder; the key order of the flush).
THEOREM NoCircle == Spec => []NoCircularWait
<1>1. IInv => NoCircularWait
  <2> SUFFICES ASSUME IInv,
                      {r \in Req : pc[r] \in {"read", "flushed"}} # {}
               PROVE  \E r \in Req : /\ pc[r] \in {"read", "flushed"}
                                    /\ \A m \in Awaited(r) : RowFree(m)
    BY DEF NoCircularWait
  <2> DEFINE H == UNION {held[r] : r \in Req}
  <2>1. CASE H = {}
    BY <2>1 DEF RowFree
  <2>2. CASE H # {}
    <3>1. H \in SUBSET (0 .. MaxMenus)
      BY DEF IInv, TInv, Menus
    <3>2. PICK m \in H : \A n \in H : n <= m
      <4> HIDE DEF H
      <4> QED
        BY <2>2, <3>1, MenuBounds, LargestOf
    <3>3. PICK r \in Req : m \in held[r]
      BY <3>2
    <3>4. pc[r] \in {"read", "flushed"}
      BY <3>3 DEF IInv, WInv
    <3>5. ASSUME NEW n \in Awaited(r) PROVE RowFree(n)
      <4>1. r \notin Adders /\ pc[r] = "read"
        BY <3>5 DEF Awaited
      <4>2. r \in Sorters
        BY <3>3, <4>1 DEF IInv, WInv, Req
      <4>3. m < n
        BY <3>3, <4>2 DEF IInv, WInv
      <4>4. n \in Menus
        BY <3>5, <4>1, <4>2 DEF Awaited, Changed, IInv, TInv
      <4>5. n \notin H
        BY <3>1, <3>2, <4>3, <4>4 DEF Menus
      <4> QED
        BY <4>5 DEF RowFree
    <3> QED
      BY <3>4, <3>5
  <2> QED
    BY <2>1, <2>2
<1> QED
  BY Invariant, <1>1, PTL

\* No update, delete or reorder brings a deleted menu back (soft_delete,
\* get_or_404, and that an UPDATE sets changed columns only).
THEOREM DeletedIsFinal == Spec => DeletedStays
<1>1. IInv /\ [Next]_vars => deleted \subseteq deleted' /\ live' \cap deleted' = {}
  <2> SUFFICES ASSUME IInv, [Next]_vars
               PROVE  deleted \subseteq deleted' /\ live' \cap deleted' = {}
    OBVIOUS
  <2>1. live' \cap deleted' = {}
    BY TInvNext DEF IInv, TInv
  <2>2. deleted \subseteq deleted'
    BY DEF Next, vars, rows, AddRead, AddCommit, EditRead, RemoveRead, FlushOne,
           EditCommit, RemoveCommit, SortRead, SortFlush, SortCommit
  <2> QED
    BY <2>1, <2>2
<1> QED
  BY Invariant, <1>1, PTL DEF Spec, DeletedStays

\* A reorder or create ends with its own commit.
LEMMA EndsByCommit ==
  ASSUME TInv, Next, NEW r \in Req, Ends(r)
  PROVE  (r \in Sorters => SortCommit(r)) /\ (r \in Adders => AddCommit(r))
<1> USE DEF Req
<1>1. pc \in [Req -> Labels] /\ pc[r] # "done" /\ pc'[r] = "done"
  BY DEF TInv, Ends
<1>2. \A q \in Req : Finish(q) => r = q
  BY <1>1, FinishStep
<1>3. ASSUME NEW q \in Req, NEW label \in Labels \ {"done"}, Goto(q, label) PROVE FALSE
  BY <1>1, <1>3 DEF Goto
<1>4. ASSUME NEW a \in Adders PROVE ~ AddRead(a) /\ (AddCommit(a) => r = a)
  BY <1>2, <1>3 DEF AddRead, AddCommit, Labels
<1>5. ASSUME NEW e \in Editors PROVE ~ EditRead(e) /\ ~ FlushOne(e) /\ (EditCommit(e) => r = e)
  BY <1>2, <1>3 DEF EditRead, FlushOne, EditCommit, Labels
<1>6. ASSUME NEW d \in Removers PROVE ~ RemoveRead(d) /\ ~ FlushOne(d) /\ (RemoveCommit(d) => r = d)
  BY <1>2, <1>3 DEF RemoveRead, FlushOne, RemoveCommit, Labels
<1>7. ASSUME NEW s \in Sorters PROVE ~ SortRead(s) /\ ~ SortFlush(s) /\ (SortCommit(s) => r = s)
  BY <1>1, <1>2, <1>3 DEF SortRead, SortFlush, SortCommit, Labels
<1> QED
  BY <1>4, <1>5, <1>6, <1>7, KindsApart DEF Next

\* A reorder that is alone leaves the requested order although it writes only
\* the rows that change; a create that is alone goes to the end (reorder,
\* max_display_order).
THEOREM AloneDoesAsAsked == Spec => AloneIsExact
<1> DEFINE Exact ==
      /\ \A s \in Sorters : Ends(s) /\ Alone(s) => AsRequested(s)
      /\ \A a \in Adders : Ends(a) /\ Alone(a) /\ want[a] = Keep => Appended
<1>1. ASSUME IInv, [Next]_vars PROVE Exact
  <2> USE DEF IInv
  <2>1. ASSUME NEW s \in Sorters, Ends(s), Alone(s) PROVE AsRequested(s)
    <3>1. SortCommit(s)
      <4>1. Next /\ s \in Req
        BY <1>1, <2>1 DEF Ends, vars, Req
      <4> HIDE DEF IInv
      <4>2. TInv
        BY <1>1 DEF IInv
      <4> QED
        BY <2>1, <4>1, <4>2, EndsByCommit
    <3>2. /\ UNCHANGED live /\ pc[s] = "read" /\ base[s].live = live
          /\ display' = [m \in Menus |-> IF m \in Changed(s) THEN perm[s][m] ELSE display[m]]
          /\ \A m \in live : base[s].display[m] = display[m]
      BY <2>1, <3>1 DEF SortCommit, Alone
    <3>3. \A m \in live : display'[m] = perm[s][m]
      BY <1>1, <3>2 DEF Changed, TInv
    <3> QED
      BY <3>2, <3>3 DEF AsRequested
  <2>2. ASSUME NEW a \in Adders, Ends(a), Alone(a), want[a] = Keep PROVE Appended
    <3>1. AddCommit(a)
      <4>1. Next /\ a \in Req
        BY <1>1, <2>2 DEF Ends, vars, Req
      <4> HIDE DEF IInv
      <4>2. TInv
        BY <1>1 DEF IInv
      <4> QED
        BY <2>2, <4>1, <4>2, EndsByCommit
    <3>2. PICK m \in Menus \ (live \cup deleted) :
            /\ live' = live \cup {m}
            /\ display' = [display EXCEPT ![m] = Highest(base[a]) + 1]
      BY <2>2, <3>1 DEF AddCommit
    <3>3. base[a].live = live /\ \A n \in live : base[a].display[n] = display[n]
      BY <2>2 DEF Alone
    <3>4. /\ Highest(base[a]) + 1 \in Nat
          /\ \A n \in base[a].live : base[a].display[n] < Highest(base[a]) + 1
      BY <1>1, HighestIsUpper DEF TInv
    <3>5. display'[m] = Highest(base[a]) + 1 /\ \A n \in live : display'[n] = display[n] /\ display[n] \in Nat
      BY <1>1, <3>2 DEF TInv
    <3>6. \A n \in live : display'[m] > display'[n]
      BY <3>3, <3>4, <3>5
    <3> QED
      BY <3>2, <3>6 DEF Appended
  <2> QED
    BY <2>1, <2>2
<1>2. IInv /\ [Next]_vars => [Exact]_vars
  BY <1>1
<1> QED
  BY Invariant, <1>2, PTL DEF Spec, AloneIsExact

\* Whatever display orders the requests leave behind, the list customers read
\* shows every menu once under its category, in list order, and the categories
\* by their lowest display_order (list_ordered, list_grouped).
THEOREM ListGrouped == Spec => []GroupsInOrder
<1>1. IInv => GroupsInOrder
  BY GroupsAgree DEF IInv, TInv
<1> QED
  BY Invariant, <1>1, PTL

=============================================================================
