------------------------------ MODULE Ordering -------------------------------
(***************************************************************************)
(* Sorting, where only the order of the elements is used: sort_unstable    *)
(* with dedup, or of keys that are distinct already.                       *)
(***************************************************************************)
EXTENDS Integers, FiniteSets

(* The elements of a finite set, each once, in a strict total order: each  *)
(* comes after as many as come before it.                                  *)
SortedBy(S, before(_, _)) ==
  [k \in 1 .. Cardinality(S) |-> CHOOSE x \in S : Cardinality({y \in S : before(y, x)}) = k - 1]

(* The numbers of a finite set, each once, in increasing order. *)
Ascending(S) == SortedBy(S, LAMBDA x, y : x < y)
==============================================================================
