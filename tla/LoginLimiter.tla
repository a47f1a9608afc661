---------------------------- MODULE LoginLimiter ----------------------------
(***************************************************************************)
(* Administrator logins with one account from one address, which share a   *)
(* key of the sliding-window limiter.  Each login runs on a worker thread: *)
(* it reads the clock, takes the limiter's lock, and, if it is let through *)
(* and the password is right, resets the key.  A thread may be overtaken   *)
(* between the clock and the lock.                                         *)
(***************************************************************************)
EXTENDS Integers, FiniteSets, SequencesExt

CONSTANTS
  Logins,   \* POST /api/auth/admin/login
  Limit,    \* login_rate_limit
  Window,   \* login_rate_window_seconds
  MaxTime   \* bound on the clock

ASSUME LimitType == Limit \in Nat \ {0} /\ Window \in Nat \ {0} /\ MaxTime \in Nat

VARIABLES
  now,      \* the monotonic clock
  hits,     \* the deque of the key
  pc,       \* how far each login is
  time,     \* what it read from the clock, until it has had the lock
  counted   \* for the properties: all times recorded since the last reset

vars == <<now, hits, pc, time, counted>>

Init ==
  /\ now = 0
  /\ hits = <<>> /\ counted = <<>>
  /\ pc = [l \in Logins |-> "new"]
  /\ time = [l \in Logins |-> 0]

Goto(l, label) == pc' = [pc EXCEPT ![l] = label]

Tick ==
  /\ now < MaxTime
  /\ now' = now + 1
  /\ UNCHANGED <<hits, pc, time, counted>>

ReadClock(l) ==
  /\ pc[l] = "new"
  /\ time' = [time EXCEPT ![l] = now]
  /\ Goto(l, "timed")
  /\ UNCHANGED <<now, hits, counted>>

-----------------------------------------------------------------------------
(* The limiter, under its lock.                                            *)

\* Variant: an entry exactly one window old is dropped too.
Pruned_Boundary(q, t) ==
  LET kept == SelectInSeq(q, LAMBDA hit : hit > t - Window)
  IN  IF kept = 0 THEN <<>> ELSE SubSeq(q, kept, Len(q))

\* Entries are dropped from the left while they are older than the window.
Pruned(q, t) ==
  LET kept == SelectInSeq(q, LAMBDA hit : hit >= t - Window)
  IN  IF kept = 0 THEN <<>> ELSE SubSeq(q, kept, Len(q))

\* Variant: a refused login is recorded too.
Refuse_Records(l, q) ==
  /\ Len(q) >= Limit
  /\ hits' = Append(q, time[l])
  /\ Goto(l, "ended")
  /\ UNCHANGED counted

\* 429; nothing is recorded.
Refuse(l, q) ==
  /\ Len(q) >= Limit
  /\ hits' = q
  /\ Goto(l, "ended")
  /\ UNCHANGED counted

Admit(l, q) ==
  /\ Len(q) < Limit
  /\ hits' = Append(q, time[l])
  /\ counted' = Append(counted, time[l])
  /\ Goto(l, "admitted")

Allow(l) ==
  /\ pc[l] = "timed"
  /\ LET q == Pruned(hits, time[l]) IN Refuse(l, q) \/ Admit(l, q)
  /\ time' = [time EXCEPT ![l] = 0]
  /\ UNCHANGED now

\* The store is read and the password verified: 401, or the login succeeds.
Verify(l) ==
  /\ pc[l] = "admitted"
  /\ \E answer \in {"ended", "verified"} : Goto(l, answer)
  /\ UNCHANGED <<now, hits, time, counted>>

\* Variant: a successful login leaves the key alone.
Reset_Forgotten(l) ==
  /\ pc[l] = "verified"
  /\ counted' = <<>>
  /\ Goto(l, "ended")
  /\ UNCHANGED <<now, hits, time>>

\* The key is forgotten.
Reset(l) ==
  /\ pc[l] = "verified"
  /\ hits' = <<>> /\ counted' = <<>>
  /\ Goto(l, "ended")
  /\ UNCHANGED <<now, time>>

-----------------------------------------------------------------------------
Next == Tick \/ \E l \in Logins : ReadClock(l) \/ Allow(l) \/ Verify(l) \/ Reset(l)

Spec == Init /\ [][Next]_vars

-----------------------------------------------------------------------------
\* The deque never grows past the limit, however many logins are refused.
TypeOK ==
  /\ now \in 0 .. MaxTime
  /\ hits \in Seq(0 .. now) /\ Len(hits) <= Limit
  /\ pc \in [Logins -> {"new", "timed", "admitted", "verified", "ended"}]
  /\ time \in [Logins -> 0 .. now]
  /\ counted \in Seq(0 .. now)

Admitted(l) == pc[l] = "timed" /\ pc'[l] = "admitted"
Refused(l) == pc[l] = "timed" /\ pc'[l] = "ended"

\* The logins recorded since the last reset that are in l's window.
Recent(l) == {i \in DOMAIN counted : counted[i] >= time[l] - Window}

\* l has been overtaken by none of them.
Latest(l) == \A i \in DOMAIN counted : counted[i] <= time[l]

Ordered == \A i, j \in DOMAIN counted : i < j => counted[i] <= counted[j]

\* A login that is not overtaken between the clock and the lock gets through
\* only if fewer than Limit have got through in its window since a login last
\* succeeded; those that were refused do not count (allow, reset).
NeverTooMany ==
  [][\A l \in Logins :
       Admitted(l) /\ Latest(l) => Cardinality(Recent(l)) < Limit]_vars

\* None is refused for no reason: where no thread was overtaken, Limit others
\* are in its window; and in any case one is, so that whoever waits for a
\* window is let through, whatever order the deque is in.
NeverLockedOut ==
  [][\A l \in Logins :
       Refused(l) =>
         /\ Recent(l) # {}
         /\ Ordered /\ Latest(l) => Cardinality(Recent(l)) >= Limit]_vars

=============================================================================
