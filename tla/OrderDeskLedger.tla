-------------------------- MODULE OrderDeskLedger ---------------------------
(* OrderDesk as an implementation of Ledger: the committed rows are the     *)
(* ledger's state, whatever transactions are in flight.                     *)
EXTENDS OrderDesk

PlacedIn == [c \in Creators |-> IF c \in orders THEN sess[c] ELSE NoSession]

NumberOf == [c \in Creators |-> IF c \in orders THEN orderNo[c] ELSE 0]

Desk == INSTANCE Ledger WITH
  Sessions <- Starters, Orders <- Creators, NoOne <- NoSession,
  session <- sStatus, placed <- PlacedIn, number <- NumberOf, state <- oStatus,
  gone <- deleted, archived <- Archived

\* The transactions of the order desk are atomic where it matters: each takes
\* effect as one ledger operation when it commits, the number an order got
\* long before its commit included.
ImplementsLedger == Desk!Spec

=============================================================================
