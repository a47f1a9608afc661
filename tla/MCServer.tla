------------------------------ MODULE MCServer ------------------------------
(* Instances of Server for TLC. *)
EXTENDS Server

CONSTANTS r1, r2, r3, r4

\* Two rows of store "A" in two sessions and one of another store.
MCOwner ==
  [row \in Rows |-> [store |-> IF row = 3 THEN "B" ELSE "A", session |-> row]]

\* Together all endpoints; four customers' calls at once, two streams and a
\* health check, or two streams and two other calls.
MCKinds ==
  [r \in Requests |-> CASE r = r1 -> {"order", "status"}
                        [] r = r2 -> {"myOrders", "stream"}
                        [] r = r3 -> {"menus", "menu", "health"}
                        [] r = r4 -> {"myOrders", "storeOrders", "history", "stream"}]

\* One caller of the other store.
MCCaller ==
  [r \in Requests |-> IF r = r3 THEN [store |-> "B", session |-> 3]
                      ELSE [store |-> "A", session |-> 1]]

=============================================================================
