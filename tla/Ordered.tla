------------------------------- MODULE Ordered ------------------------------
(***************************************************************************)
(* Rows in the order of their numbers.                                     *)
(***************************************************************************)
EXTENDS Integers, FiniteSets

InOrder(S) == CHOOSE q \in [1 .. Cardinality(S) -> S] : \A i, j \in 1 .. Cardinality(S) : i < j => q[i] < q[j]
=============================================================================
