---------------------------- MODULE MCOrderDesk ----------------------------
(* Instances of OrderDesk for TLC. *)
EXTENDS OrderDeskLedger

CONSTANTS t1

\* Every start request is for the same table.
OneTable == [s \in Starters |-> t1]

=============================================================================
