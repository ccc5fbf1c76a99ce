------------------------------ MODULE Sorting ------------------------------
(***************************************************************************)
(* The listing of a finite set in a strict total order: the k-th element   *)
(* is the one that has k - 1 others before it.                             *)
(***************************************************************************)
EXTENDS Integers, FiniteSets

Sorted(S, op(_, _)) ==
  [k \in 1..Cardinality(S) |->
     CHOOSE x \in S : Cardinality({y \in S : op(y, x)}) = k - 1]

\* The numbers of a finite set, in increasing order.
Ascending(S) == Sorted(S, <)
=============================================================================
