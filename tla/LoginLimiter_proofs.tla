------------------------ MODULE LoginLimiter_proofs -------------------------
(* Proofs for LoginLimiter. *)
EXTENDS LoginLimiter, FiniteSetTheorems, SequenceTheorems, WellFoundedInduction, TLAPS

-----------------------------------------------------------------------------
(* Pruning.                                                                *)

\* A nonempty set of natural numbers has a least element.
LEMMA SmallestOf ==
  ASSUME NEW S \in SUBSET Nat, S # {}
  PROVE  \E m \in S : \A n \in S : m <= n
<1>1. PICK x \in S : \A y \in S : ~ (<<y, x>> \in OpToRel(<, Nat))
  BY WFMin, NatLessThanWellFounded
<1>2. \A y \in S : ~ (y < x)
  BY <1>1 DEF OpToRel
<1>3. \A y \in S : y \in Nat /\ x \in Nat
  OBVIOUS
<1> QED
  BY <1>2, <1>3

\* At time t pruning takes the first d entries of the deque q, which are too
\* old, and the next one, if there is one, is not.
Drops(q, t, d) ==
  /\ Len(Pruned(q, t)) = Len(q) - d
  /\ \A i \in 1 .. Len(q) - d : Pruned(q, t)[i] = q[d + i]
  /\ \A i \in 1 .. d : q[i] < t - Window
  /\ d < Len(q) => q[d + 1] >= t - Window

\* Pruning drops the entries up to the first one in the window, all of them
\* older, and no other.
LEMMA PrunedIsTail ==
  ASSUME NEW S \in SUBSET Nat, NEW q \in Seq(S), NEW t \in Nat
  PROVE  Pruned(q, t) \in Seq(S) /\ \E d \in 0 .. Len(q) : Drops(q, t, d)
<1> DEFINE I == {i \in 1 .. Len(q) : q[i] >= t - Window}
           kept == SelectInSeq(q, LAMBDA hit : hit >= t - Window)
<1>1. Len(q) \in Nat /\ \A i \in 1 .. Len(q) : q[i] \in Nat
  BY ElementOfSeq, LenProperties
<1>2. Window \in Nat
  BY LimitType
<1>3. Pruned(q, t) = IF kept = 0 THEN <<>> ELSE SubSeq(q, kept, Len(q))
  BY DEF Pruned
<1>4. CASE I = {}
  <2>1. kept = 0
    BY <1>4 DEF SelectInSeq
  <2>2. Pruned(q, t) = <<>>
    BY <1>3, <2>1
  <2>3. \A i \in 1 .. Len(q) : q[i] < t - Window
    BY <1>1, <1>2, <1>4
  <2>4. Drops(q, t, Len(q))
    BY <1>1, <2>2, <2>3 DEF Drops
  <2> QED
    BY <1>1, <2>2, <2>4
<1>5. CASE I # {}
  <2>1. PICK m \in I : \A n \in I : m <= n
    <3>1. I \in SUBSET Nat
      OBVIOUS
    <3> QED
      BY <1>5, <3>1, SmallestOf
  <2>2. kept = CHOOSE x \in I : \A y \in I : x <= y
    BY <1>5 DEF SelectInSeq, Min
  <2>3. kept \in I /\ \A n \in I : kept <= n
    BY <2>1, <2>2
  <2> HIDE DEF kept
  <2>4. kept \in 1 .. Len(q) /\ q[kept] >= t - Window
    BY <2>3
  <2>5. Pruned(q, t) = SubSeq(q, kept, Len(q))
    BY <1>3, <2>4
  <2>6. /\ Pruned(q, t) \in Seq(S)
        /\ Len(Pruned(q, t)) = Len(q) - kept + 1
        /\ \A i \in 1 .. Len(q) - kept + 1 : Pruned(q, t)[i] = q[kept + i - 1]
    BY <1>1, <2>4, <2>5, SubSeqProperties
  <2>7. \A i \in 1 .. kept - 1 : q[i] < t - Window
    <3> SUFFICES ASSUME NEW i \in 1 .. kept - 1 PROVE q[i] < t - Window
      OBVIOUS
    <3>1. i \in 1 .. Len(q) /\ ~ (kept <= i)
      BY <1>1, <2>4
    <3>2. ~ (q[i] >= t - Window)
      BY <2>3, <3>1
    <3> QED
      BY <1>1, <1>2, <3>1, <3>2
  <2>8. kept - 1 \in 0 .. Len(q)
    BY <1>1, <2>4
  <2>9. Drops(q, t, kept - 1)
    <3>1. Len(Pruned(q, t)) = Len(q) - (kept - 1)
      BY <1>1, <2>4, <2>6
    <3>2. \A i \in 1 .. Len(q) - (kept - 1) : Pruned(q, t)[i] = q[(kept - 1) + i]
      <4> SUFFICES ASSUME NEW i \in 1 .. Len(q) - (kept - 1) PROVE Pruned(q, t)[i] = q[(kept - 1) + i]
        OBVIOUS
      <4>1. i \in 1 .. Len(q) - kept + 1 /\ kept + i - 1 = (kept - 1) + i
        BY <1>1, <2>4
      <4> QED
        BY <2>6, <4>1
    <3>3. kept - 1 + 1 = kept
      BY <2>4
    <3> QED
      BY <2>4, <2>7, <3>1, <3>2, <3>3 DEF Drops
  <2> QED
    BY <2>6, <2>8, <2>9
<1> QED
  BY <1>4, <1>5

-----------------------------------------------------------------------------
(* The inductive invariant.                                                *)

\* How many of the recorded logins the deque has dropped.
Lost == Len(counted) - Len(hits)

\* The deque is the end of what was recorded, and whatever it has dropped is
\* more than a window older than some other recorded login.
HInv ==
  /\ Lost \in Nat
  /\ \A i \in 1 .. Len(hits) : hits[i] = counted[Lost + i]
  /\ \A i \in 1 .. Lost : \E j \in 1 .. Len(counted) : counted[i] < counted[j] - Window

IInv == TypeOK /\ HInv

\* The types in the form the steps use them.
LEMMA Types ==
  ASSUME IInv
  PROVE  /\ now \in Nat /\ (0 .. now) \in SUBSET Nat
         /\ Len(hits) \in Nat /\ \A i \in 1 .. Len(hits) : hits[i] \in 0 .. now
         /\ Len(counted) \in Nat /\ \A i \in 1 .. Len(counted) : counted[i] \in 0 .. now
         /\ \A l \in Logins : time[l] \in 0 .. now
         /\ Limit \in Nat /\ Limit > 0 /\ Window \in Nat
<1>1. now \in Nat
  BY DEF IInv, TypeOK
<1>2. hits \in Seq(0 .. now) /\ counted \in Seq(0 .. now) /\ time \in [Logins -> 0 .. now]
  BY DEF IInv, TypeOK
<1> QED
  BY <1>1, <1>2, LimitType, ElementOfSeq, LenProperties

\* It holds initially.
LEMMA Initially == Init => IInv
<1> SUFFICES ASSUME Init PROVE IInv
  OBVIOUS
<1>1. TypeOK
  <2>1. now = 0 /\ hits = <<>> /\ counted = <<>>
    BY DEF Init
  <2>2. Len(hits) = 0
    BY <2>1
  <2> QED
    BY <2>1, <2>2, LimitType DEF Init, TypeOK
<1>2. HInv
  <2>1. Len(hits) = 0 /\ Len(counted) = 0
    BY DEF Init
  <2> QED
    BY <2>1 DEF HInv, Lost
<1> QED
  BY <1>1, <1>2 DEF IInv

\* A refused login changes nothing that counts: no entry was old enough to go,
\* or there would be room.
LEMMA RefusedDropsNone ==
  ASSUME IInv, NEW l \in Logins, Refuse(l, Pruned(hits, time[l]))
  PROVE  /\ hits' = hits /\ Len(hits) = Limit
         /\ hits[1] >= time[l] - Window
<1> DEFINE t == time[l]
           q == Pruned(hits, t)
<1>1. hits \in Seq(0 .. now) /\ (0 .. now) \in SUBSET Nat /\ t \in Nat /\ Len(hits) <= Limit
  BY Types DEF IInv, TypeOK
<1>2. q \in Seq(0 .. now)
  BY <1>1, PrunedIsTail
<1>3. PICK d \in 0 .. Len(hits) : Drops(hits, t, d)
  BY <1>1, PrunedIsTail
<1>4. hits' = q /\ Len(q) >= Limit
  BY DEF Refuse
<1> HIDE DEF q
<1>5. d = 0 /\ Len(q) = Len(hits) /\ Len(hits) = Limit
  BY <1>1, <1>3, <1>4, Types DEF Drops, q
<1>6. q = hits
  <2>1. \A i \in 1 .. Len(hits) : q[i] = hits[i]
    BY <1>3, <1>5, Types DEF Drops, q
  <2> QED
    BY <1>1, <1>2, <1>5, <2>1, SeqEqual
<1>7. hits[1] >= t - Window
  BY <1>3, <1>5, Types DEF Drops
<1> QED
  BY <1>4, <1>5, <1>6, <1>7

\* Every step preserves the types.
LEMMA TypesKept ==
  ASSUME IInv, [Next]_vars
  PROVE  TypeOK'
<1> USE DEF IInv
<1>1. CASE Tick
  <2>1. now' \in 0 .. MaxTime /\ (0 .. now) \subseteq (0 .. now')
    BY <1>1, LimitType, Types DEF Tick, TypeOK
  <2>2. UNCHANGED <<hits, pc, time, counted>>
    BY <1>1 DEF Tick
  <2>3. hits \in Seq(0 .. now') /\ counted \in Seq(0 .. now')
    BY <2>1, SeqMonotonic DEF TypeOK
  <2>4. time \in [Logins -> 0 .. now']
    BY <2>1 DEF TypeOK
  <2> QED
    BY <2>1, <2>2, <2>3, <2>4 DEF TypeOK
<1>2. ASSUME NEW l \in Logins, ReadClock(l) PROVE TypeOK'
  BY <1>2, Types DEF ReadClock, Goto, TypeOK
<1>3. ASSUME NEW l \in Logins, Allow(l) PROVE TypeOK'
  <2> DEFINE q == Pruned(hits, time[l])
  <2>1. /\ now' = now
        /\ time' \in [Logins -> 0 .. now]
        /\ time[l] \in 0 .. now /\ time[l] \in Nat
    BY <1>3, Types DEF Allow, TypeOK
  <2>2. q \in Seq(0 .. now)
    BY <2>1, Types, PrunedIsTail DEF TypeOK
  <2>3. CASE Refuse(l, q)
    <3>1. hits' = hits
      BY <2>3, RefusedDropsNone
    <3> QED
      BY <2>1, <2>3, <3>1 DEF Refuse, Goto, TypeOK
  <2>4. CASE Admit(l, q)
    <3> HIDE DEF q
    <3>1. /\ hits' = Append(q, time[l]) /\ Len(q) < Limit
          /\ counted' = Append(counted, time[l])
      BY <2>4 DEF Admit
    <3>2. hits' \in Seq(0 .. now) /\ Len(hits') = Len(q) + 1 /\ Len(q) \in Nat
      BY <2>1, <2>2, <3>1, AppendProperties, LenProperties
    <3>3. counted' \in Seq(0 .. now)
      BY <2>1, <3>1, AppendProperties DEF TypeOK
    <3>4. Len(hits') <= Limit
      BY <3>1, <3>2, Types
    <3> QED
      BY <2>1, <2>4, <3>2, <3>3, <3>4 DEF Admit, Goto, TypeOK
  <2>5. Refuse(l, q) \/ Admit(l, q)
    BY <1>3 DEF Allow
  <2> QED
    BY <2>3, <2>4, <2>5
<1>4. ASSUME NEW l \in Logins, Verify(l) PROVE TypeOK'
  BY <1>4 DEF Verify, Goto, TypeOK
<1>5. ASSUME NEW l \in Logins, Reset(l) PROVE TypeOK'
  <2>1. hits' = <<>> /\ counted' = <<>> /\ Len(<<>>) = 0
    BY <1>5 DEF Reset
  <2> QED
    BY <1>5, <2>1, Types DEF Reset, Goto, TypeOK
<1>6. CASE UNCHANGED vars
  BY <1>6 DEF vars, TypeOK
<1> QED
  BY <1>1, <1>2, <1>3, <1>4, <1>5, <1>6 DEF Next

\* An admitted login's entry comes after those that stay; those that go are
\* more than a window older than it.
LEMMA AdmittedKeepsHInv ==
  ASSUME IInv, NEW l \in Logins, Admit(l, Pruned(hits, time[l]))
  PROVE  HInv'
<1> DEFINE t == time[l]
           q == Pruned(hits, t)
<1>1. hits \in Seq(0 .. now) /\ counted \in Seq(0 .. now) /\ t \in 0 .. now /\ t \in Nat
  BY Types DEF IInv, TypeOK
<1>2. q \in Seq(0 .. now) /\ \E d \in 0 .. Len(hits) : Drops(hits, t, d)
  BY <1>1, Types, PrunedIsTail
<1>3. PICK d \in 0 .. Len(hits) : Drops(hits, t, d)
  BY <1>2
<1>4. hits' = Append(q, t) /\ counted' = Append(counted, t)
  BY DEF Admit
<1>5. /\ Len(q) = Len(hits) - d
      /\ \A i \in 1 .. Len(hits) - d : q[i] = hits[d + i]
      /\ \A i \in 1 .. d : hits[i] < t - Window
  BY <1>3 DEF Drops
<1> HIDE DEF q
<1>6. /\ Len(hits') = Len(q) + 1
      /\ \A i \in 1 .. Len(q) : hits'[i] = q[i]
      /\ hits'[Len(q) + 1] = t
  BY <1>1, <1>2, <1>4, AppendProperties
<1>7. /\ Len(counted') = Len(counted) + 1
      /\ \A i \in 1 .. Len(counted) : counted'[i] = counted[i]
      /\ counted'[Len(counted) + 1] = t
  BY <1>1, <1>4, AppendProperties
<1>8. /\ Len(hits) \in Nat /\ Len(counted) \in Nat /\ d \in Nat /\ d <= Len(hits)
      /\ Len(counted) - Len(hits) \in Nat /\ Len(q) \in Nat
  BY <1>3, <1>5, Types DEF IInv, HInv, Lost
<1>9. Lost' = Lost + d /\ Lost \in Nat
  BY <1>5, <1>6, <1>7, <1>8 DEF Lost
<1>10. ASSUME NEW i \in 1 .. Len(hits') PROVE hits'[i] = counted'[Lost' + i]
  <2>1. CASE i <= Len(q)
    <3>1. hits'[i] = hits[d + i] /\ d + i \in 1 .. Len(hits)
      BY <1>5, <1>6, <1>8, <2>1
    <3>2. hits[d + i] = counted[Lost + (d + i)]
      BY <3>1 DEF IInv, HInv
    <3>3. Lost + (d + i) \in 1 .. Len(counted) /\ Lost' + i = Lost + (d + i)
      BY <1>8, <1>9, <3>1 DEF Lost
    <3> QED
      BY <1>7, <3>1, <3>2, <3>3
  <2>2. CASE i = Len(q) + 1
    <3>1. Lost' + i = Len(counted) + 1
      BY <1>5, <1>8, <1>9, <2>2 DEF Lost
    <3> QED
      BY <1>6, <1>7, <2>2, <3>1
  <2> QED
    BY <1>6, <1>8, <2>1, <2>2
<1>11. ASSUME NEW i \in 1 .. Lost'
       PROVE  \E j \in 1 .. Len(counted') : counted'[i] < counted'[j] - Window
  <2>1. CASE i <= Lost
    <3>1. PICK j \in 1 .. Len(counted) : counted[i] < counted[j] - Window
      BY <1>9, <2>1 DEF IInv, HInv
    <3>2. i \in 1 .. Len(counted) /\ j \in 1 .. Len(counted')
      BY <1>7, <1>8, <2>1, <3>1 DEF Lost
    <3> QED
      BY <1>7, <3>1, <3>2
  <2>2. CASE i > Lost
    <3>1. i - Lost \in 1 .. d /\ i - Lost \in 1 .. Len(hits) /\ Lost + (i - Lost) = i
      BY <1>8, <1>9, <2>2
    <3>2. hits[i - Lost] = counted[i] /\ hits[i - Lost] < t - Window
      BY <1>5, <3>1 DEF IInv, HInv
    <3>3. i \in 1 .. Len(counted) /\ Len(counted) + 1 \in 1 .. Len(counted')
      BY <1>7, <1>8, <1>9, <3>1 DEF Lost
    <3>4. counted'[i] < counted'[Len(counted) + 1] - Window
      BY <1>7, <3>2, <3>3
    <3> QED
      BY <3>3, <3>4
  <2> QED
    BY <1>9, <2>1, <2>2
<1>12. Lost' \in Nat
  BY <1>8, <1>9
<1> QED
  BY <1>10, <1>11, <1>12 DEF HInv

\* It holds throughout.
LEMMA Inductive == IInv /\ [Next]_vars => IInv'
<1> SUFFICES ASSUME IInv, [Next]_vars PROVE IInv'
  OBVIOUS
<1>1. TypeOK'
  BY TypesKept
<1>2. ASSUME NEW l \in Logins, Allow(l) PROVE HInv'
  <2>1. CASE Refuse(l, Pruned(hits, time[l]))
    <3>1. hits' = hits /\ counted' = counted
      BY <2>1, RefusedDropsNone DEF Refuse
    <3> QED
      BY <3>1 DEF IInv, HInv, Lost
  <2>2. CASE Admit(l, Pruned(hits, time[l]))
    BY <2>2, AdmittedKeepsHInv
  <2> QED
    BY <1>2, <2>1, <2>2 DEF Allow
<1>3. ASSUME NEW l \in Logins, Reset(l) PROVE HInv'
  <2>1. hits' = <<>> /\ counted' = <<>> /\ Len(<<>>) = 0
    BY <1>3 DEF Reset
  <2> QED
    BY <2>1 DEF HInv, Lost
<1>4. ASSUME UNCHANGED <<hits, counted>> PROVE HInv'
  BY <1>4 DEF IInv, HInv, Lost
<1>5. HInv'
  BY <1>2, <1>3, <1>4 DEF Next, Tick, ReadClock, Verify, vars
<1> QED
  BY <1>1, <1>5 DEF IInv

LEMMA Invariant == Spec => []IInv
<1> QED
  BY Initially, Inductive, PTL DEF Spec

-----------------------------------------------------------------------------
(* The properties.                                                         *)

\* The deque of a key never holds more than Limit times, however many logins
\* are made, overtaken or refused (RateLimiter.allow).
THEOREM TypeCorrect == Spec => []TypeOK
<1>1. IInv => TypeOK
  BY DEF IInv
<1> QED
  BY Invariant, <1>1, PTL

\* Only the limiter decides about a login that has read the clock.
LEMMA Decided ==
  ASSUME IInv, [Next]_vars, NEW l \in Logins, pc[l] = "timed", pc'[l] \in {"admitted", "ended"}
  PROVE  /\ pc'[l] = "admitted" => Admit(l, Pruned(hits, time[l]))
         /\ pc'[l] = "ended" => Refuse(l, Pruned(hits, time[l]))
<1>1. pc \in [Logins -> {"new", "timed", "admitted", "verified", "ended"}]
  BY DEF IInv, TypeOK
<1>2. Allow(l)
  BY <1>1 DEF Next, Tick, ReadClock, Allow, Refuse, Admit, Verify, Reset, Goto, vars
<1>3. Refuse(l, Pruned(hits, time[l])) => pc'[l] = "ended"
  BY <1>1 DEF Refuse, Goto
<1>4. Admit(l, Pruned(hits, time[l])) => pc'[l] = "admitted"
  BY <1>1 DEF Admit, Goto
<1> QED
  BY <1>2, <1>3, <1>4 DEF Allow

\* A login that is not overtaken between the clock and the lock gets through
\* only if fewer than Limit recorded ones are in its window: the deque holds
\* all of those, since what it has dropped is older (RateLimiter.allow).
THEOREM LimitHolds == Spec => NeverTooMany
<1>1. ASSUME IInv, [Next]_vars, NEW l \in Logins, Admitted(l), Latest(l)
      PROVE  Cardinality(Recent(l)) < Limit
  <2> DEFINE t == time[l]
             q == Pruned(hits, t)
             kept == (Len(counted) - Len(q) + 1) .. Len(counted)
  <2>1. Admit(l, q)
    BY <1>1, Decided DEF Admitted
  <2>2. Len(q) < Limit
    BY <2>1 DEF Admit
  <2>3. hits \in Seq(0 .. now) /\ (0 .. now) \in SUBSET Nat /\ t \in Nat
    BY <1>1, Types DEF IInv, TypeOK
  <2>4. PICK d \in 0 .. Len(hits) : Drops(hits, t, d)
    BY <2>3, PrunedIsTail
  <2>5. Len(q) = Len(hits) - d /\ \A i \in 1 .. d : hits[i] < t - Window
    BY <2>4 DEF Drops
  <2> HIDE DEF q
  <2>6. /\ Len(hits) \in Nat /\ Len(counted) \in Nat /\ d \in Nat /\ Len(q) \in Nat
        /\ Len(counted) - Len(q) = Lost + d /\ Lost \in Nat
    BY <1>1, <2>4, <2>5, Types DEF IInv, HInv, Lost
  <2>7. \A i \in 1 .. Len(counted) : counted[i] \in Nat /\ counted[i] <= t
    BY <1>1, Types, LenProperties DEF Latest, IInv, TypeOK
  <2>8. ASSUME NEW i \in Recent(l) PROVE i \in kept
    <3>1. i \in 1 .. Len(counted) /\ counted[i] >= t - Window
      BY <1>1, LenProperties DEF Recent, IInv, TypeOK
    <3>2. ~ (i <= Lost)
      <4> SUFFICES ASSUME i <= Lost PROVE FALSE
        OBVIOUS
      <4>1. PICK j \in 1 .. Len(counted) : counted[i] < counted[j] - Window
        BY <1>1, <2>6, <3>1 DEF IInv, HInv
      <4>2. /\ counted[i] \in Nat /\ counted[j] \in Nat /\ counted[j] <= t
            /\ Window \in Nat
        BY <1>1, <2>7, <3>1, Types
      <4> QED
        BY <2>3, <3>1, <4>1, <4>2
    <3>3. ~ (i <= Lost + d)
      <4> SUFFICES ASSUME i <= Lost + d PROVE FALSE
        OBVIOUS
      <4>1. i - Lost \in 1 .. d /\ i - Lost \in 1 .. Len(hits) /\ Lost + (i - Lost) = i
        BY <2>6, <3>1, <3>2
      <4>2. counted[i] < t - Window
        BY <1>1, <2>5, <4>1 DEF IInv, HInv
      <4>3. counted[i] \in Nat /\ Window \in Nat
        BY <1>1, <2>7, <3>1, Types
      <4> QED
        BY <2>3, <3>1, <4>2, <4>3
    <3> QED
      BY <2>6, <3>1, <3>3
  <2>9. IsFiniteSet(kept) /\ Cardinality(kept) = Len(q)
    <3>1. Len(counted) - Len(q) + 1 \in Int /\ Len(counted) \in Int
      BY <2>6
    <3>2. IsFiniteSet(kept)
          /\ Cardinality(kept) = IF Len(counted) - Len(q) + 1 > Len(counted) THEN 0
                                 ELSE Len(counted) - (Len(counted) - Len(q) + 1) + 1
      BY <3>1, FS_Interval
    <3> QED
      BY <2>6, <3>2
  <2>10. Cardinality(Recent(l)) <= Cardinality(kept) /\ IsFiniteSet(Recent(l))
    BY <2>8, <2>9, FS_Subset
  <2>11. Cardinality(Recent(l)) \in Nat
    BY <2>10, FS_CardinalityType
  <2> QED
    BY <1>1, <2>2, <2>6, <2>9, <2>10, <2>11, Types
<1>2. IInv /\ [Next]_vars =>
        [\A l \in Logins : Admitted(l) /\ Latest(l) => Cardinality(Recent(l)) < Limit]_vars
  BY <1>1
<1> QED
  BY Invariant, <1>2, PTL DEF Spec, NeverTooMany

\* A login is refused only while another recorded one is in its window, and,
\* where none was overtaken, only while Limit are (RateLimiter.allow).
THEOREM RefusalHasAReason == Spec => NeverLockedOut
<1>1. ASSUME IInv, [Next]_vars, NEW l \in Logins, Refused(l)
      PROVE  /\ Recent(l) # {}
             /\ Ordered => Cardinality(Recent(l)) >= Limit
  <2>1. hits[1] >= time[l] - Window /\ Len(hits) = Limit
    BY <1>1, Decided, RefusedDropsNone DEF Refused
  <2>2. /\ Len(hits) \in Nat /\ Len(counted) \in Nat /\ Lost \in Nat
        /\ Len(counted) = Lost + Limit /\ Limit \in Nat /\ Limit > 0
    BY <1>1, <2>1, Types DEF IInv, HInv, Lost
  <2>3. DOMAIN counted = 1 .. Len(counted)
    BY <1>1, LenProperties DEF IInv, TypeOK
  <2>4. Lost + 1 \in 1 .. Len(counted) /\ 1 \in 1 .. Len(hits)
    BY <2>1, <2>2
  <2>5. counted[Lost + 1] >= time[l] - Window
    BY <1>1, <2>1, <2>4 DEF IInv, HInv
  <2>6. Recent(l) # {}
    BY <2>3, <2>4, <2>5 DEF Recent
  <2>7. ASSUME Ordered PROVE Cardinality(Recent(l)) >= Limit
    <3> DEFINE kept == (Lost + 1) .. Len(counted)
    <3>1. ASSUME NEW i \in kept PROVE i \in Recent(l)
      <4>1. i \in 1 .. Len(counted) /\ (i = Lost + 1 \/ Lost + 1 < i)
        BY <2>2
      <4>2. counted[Lost + 1] <= counted[i]
        <5>1. CASE i = Lost + 1
          BY <1>1, <2>4, <5>1, Types
        <5>2. CASE Lost + 1 < i
          BY <2>3, <2>4, <2>7, <4>1, <5>2 DEF Ordered
        <5> QED
          BY <4>1, <5>1, <5>2
      <4>3. /\ counted[Lost + 1] \in Nat /\ counted[i] \in Nat
            /\ time[l] \in Nat /\ Window \in Nat
        BY <1>1, <2>4, <4>1, Types
      <4>4. counted[i] >= time[l] - Window
        BY <2>5, <4>2, <4>3
      <4> QED
        BY <2>3, <4>1, <4>4 DEF Recent
    <3>2. IsFiniteSet(Recent(l))
      <4>1. IsFiniteSet(1 .. Len(counted))
        BY <2>2, FS_Interval
      <4>2. Recent(l) \subseteq 1 .. Len(counted)
        BY <2>3 DEF Recent
      <4> QED
        BY <4>1, <4>2, FS_Subset
    <3>3. Cardinality(kept) = Limit
      BY <2>2, FS_Interval
    <3>4. Cardinality(kept) <= Cardinality(Recent(l))
      BY <3>1, <3>2, FS_Subset
    <3>5. Cardinality(Recent(l)) \in Nat
      BY <3>2, FS_CardinalityType
    <3> QED
      BY <2>2, <3>3, <3>4, <3>5
  <2> QED
    BY <2>6, <2>7
<1>2. IInv /\ [Next]_vars =>
        [\A l \in Logins :
           Refused(l) =>
             /\ Recent(l) # {}
             /\ Ordered /\ Latest(l) => Cardinality(Recent(l)) >= Limit]_vars
  BY <1>1
<1> QED
  BY Invariant, <1>2, PTL DEF Spec, NeverLockedOut

=============================================================================
