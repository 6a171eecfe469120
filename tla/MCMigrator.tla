----------------------------- MODULE MCMigrator -----------------------------
(* Instances of Migrator for TLC. *)
EXTENDS Migrator, TLC
CONSTANTS d1, d2

\* A collection with two documents and an empty one.
OwnIds == <<<<d1, d2>>, <<>>>>
=============================================================================
