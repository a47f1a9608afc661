---------------------------- MODULE MCCustomerApp ---------------------------
(* Instances of CustomerApp for TLC. *)
EXTENDS CustomerApp, TLC

AllSessions == 1 .. MaxSessions

SessionTopic == [s \in AllSessions |-> s]

=============================================================================
