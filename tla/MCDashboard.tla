---------------------------- MODULE MCDashboard -----------------------------
(* Instances of Dashboard for TLC. *)
EXTENDS Dashboard, TLC

CONSTANTS t1, t2, o1

StoreTopic == [c \in Conns |-> "store"]

\* The first order is at one table, the others are at the other.
TwoTables == [o \in Orders |-> IF o = o1 THEN t1 ELSE t2]

=============================================================================
