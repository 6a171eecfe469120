---------------------------- MODULE MCCollection ----------------------------
(* Instances of Collection for TLC. *)
EXTENDS Collection, TLC
CONSTANTS o1, o2, o3, i1, i2, k1

\* Two documents with one id and one with another; none has fields, so all have one key.
MCIdOf == o1 :> i1 @@ o2 :> i1 @@ o3 :> i2
MCKeyOf == [o \in Objects |-> k1]
=============================================================================
