----------------------------- MODULE EditDistance ----------------------------
(***************************************************************************)
(* The weighted edit distance of the crate's documentation, by definition: *)
(* the least cost of an alignment, where an alignment pairs some query     *)
(* positions with as many data positions in order, substituting the pairs, *)
(* deleting the other query symbols and inserting the other data symbols.  *)
(* Sums are exact.  No dynamic program, trie or bound appears here.        *)
(***************************************************************************)
EXTENDS Integers, Sequences, FiniteSets, FiniteSetsExt, Functions

(* An alignment of n query with m data positions: the paired ones of each. *)
Alignments(n, m) ==
  {a \in (SUBSET (1 .. n)) \X (SUBSET (1 .. m)) : Cardinality(a[1]) = Cardinality(a[2])}

Rank(S, x) == Cardinality({y \in S : y <= x})
Pairs(a)   == {pair \in a[1] \X a[2] : Rank(a[1], pair[1]) = Rank(a[2], pair[2])}

AlignmentCost(policy, q, w, a) ==
  LET substituted == [pair \in Pairs(a) |-> policy.substitution[<<q[pair[1]], w[pair[2]]>>]]
      deleted     == [i \in (1 .. Len(q)) \ a[1] |-> policy.deletion[q[i]]]
      inserted    == [j \in (1 .. Len(w)) \ a[2] |-> policy.insertion[w[j]]]
  IN  SumFunction(substituted) + SumFunction(deleted) + SumFunction(inserted)

AllAlignments(q, w) == Alignments(Len(q), Len(w))

(* wed(q, w), and the least cost of the alignments that pair i with j. *)
WeightedEditDistance(policy, q, w) ==
  Min({AlignmentCost(policy, q, w, a) : a \in AllAlignments(q, w)})
AnchoredDistance(policy, q, w, i, j) ==
  Min({AlignmentCost(policy, q, w, a) :
         a \in {b \in AllAlignments(q, w) : <<i, j>> \in Pairs(b)}})

(* The non-empty segments of the strings of a corpus, as zero-based        *)
(* end-exclusive ranges, and the words they stand for.                     *)
Segments(strings) ==
  UNION {{<<id, b, e>> : b \in 0 .. Len(strings[id]), e \in 1 .. Len(strings[id])} :
           id \in DOMAIN strings}
ProperSegments(strings) == {seg \in Segments(strings) : seg[2] < seg[3]}
Word(strings, seg) == SubSeq(strings[seg[1]], seg[2] + 1, seg[3])
==============================================================================
