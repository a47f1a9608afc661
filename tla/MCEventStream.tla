--------------------------- MODULE MCEventStream ----------------------------
(* Instances of EventStream for TLC. *)
EXTENDS EventStream

CONSTANTS k1, k2, store, seat

\* Two connections of one topic; another topic has no listener.
SameTopic == [c \in Conns |-> store]

=============================================================================
