--------------------------- MODULE MCTransactions ---------------------------
(* An instance of Transactions for TLC. *)
EXTENDS Transactions

\* Documents reach the storage without fields, so all have one value of the unique index.
MCKey == [d \in Docs |-> "none"]
=============================================================================
