----------------------------- MODULE DurableLog -----------------------------
(***************************************************************************)
(* What the write-ahead log of internal/storage/transactions.go promises   *)
(* to the transaction manager, whatever the number of callers, segments,   *)
(* flushes and restarts: calls are accepted one after the other, and the   *)
(* log on disk is a subsequence of what was accepted, in that order, to    *)
(* which a step only appends.  A crash may leave records out; it never     *)
(* reorders, duplicates, rewrites or invents one.                          *)
(***************************************************************************)
EXTENDS Naturals, Sequences, SequencesExt

CONSTANT MaxRecords    \* bound on the number of records ever accepted

VARIABLES accepted,    \* records handed to the log so far: 1..accepted
          log          \* the records on disk, oldest first

vars == <<accepted, log>>

Init == accepted = 0 /\ log = <<>>

Accept == /\ accepted < MaxRecords
          /\ accepted' = accepted + 1
          /\ UNCHANGED log

\* Increasing sequences of accepted records newer than everything on disk.
Extension(s) ==
    /\ \A i \in 1..Len(s) : s[i] <= accepted
    /\ \A i \in 1..Len(s) : \A j \in 1..Len(log) : log[j] < s[i]
    /\ \A i, j \in 1..Len(s) : i < j => s[i] < s[j]

Persist ==
    /\ IsStrictPrefix(log, log')
    /\ Extension(SubSeq(log', Len(log) + 1, Len(log')))
    /\ UNCHANGED accepted

Next == Accept \/ Persist

Spec == Init /\ [][Next]_vars
=============================================================================
