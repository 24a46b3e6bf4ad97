------------------------------ MODULE Instances ------------------------------
(***************************************************************************)
(* The small corpora, queries and cost policies the runs share.  Symbols a *)
(* and b occur in the corpora, symbol u in queries only.                   *)
(***************************************************************************)
EXTENDS Integers, Sequences

a == 0
b == 1
u == 2

SmallSymbols == {a, b, u}

(* Repeated symbols, an empty string, segments shared by two strings, a    *)
(* corpus of one symbol and an empty one.                                  *)
SmallCorpora == {<< <<a, b, a>>, <<b>> >>,
                 << <<b, b>>, <<>>, <<a, b>> >>,
                 << <<a, a>> >>,
                 <<>>}

SmallQueries == {<<>>, <<u>>, <<a, b>>, <<b, a>>, <<u, b>>, <<a, u, a>>, <<b, a, b>>}

(* With some longer ones, for the selection loop and the binary search.    *)
LongerQueries == SmallQueries \cup {<<a, b, u, a>>, <<b, u, b, b>>, <<a, a, b>>}

Deletion(da, db, du)  == [s \in SmallSymbols |-> CASE s = a -> da [] s = b -> db [] s = u -> du]
Insertion(ia, ib)     == [s \in SmallSymbols |-> CASE s = a -> ia [] OTHER -> ib]
Substitution(ab, ba, ua, ub) ==
  [pair \in SmallSymbols \X SmallSymbols |->
     CASE pair = <<a, b>> -> ab
       [] pair = <<b, a>> -> ba
       [] pair = <<u, a>> -> ua
       [] pair = <<u, b>> -> ub
       [] OTHER -> 0]

(* Unit costs; asymmetric substitutions; substitutions dearer than a       *)
(* deletion and an insertion; a free substitution; with even and uneven    *)
(* deletions, a free deletion, and even, uneven and free insertions.       *)
SmallPolicies ==
  [deletion     : {Deletion(1, 1, 1), Deletion(1, 3, 1), Deletion(0, 2, 3)},
   insertion    : {Insertion(1, 1), Insertion(0, 2)},
   substitution : {Substitution(1, 1, 1, 1), Substitution(1, 3, 2, 1),
                   Substitution(5, 4, 3, 2), Substitution(0, 2, 1, 4)}]

(* Costs on and off the binades of a 2-bit float with values 0, 1, 2, 3, 4, *)
(* 6, 8 and 12, in which sums round and overflow.                          *)
RoundingPolicies ==
  [deletion     : {Deletion(da, db, du) : da \in {1, 3}, db \in {4, 6}, du \in {1, 12}},
   insertion    : {Insertion(1, 1)},
   substitution : {Substitution(ab, 3, ua, ub) : ab \in {1, 8}, ua \in {1, 4}, ub \in {2, 6}}]
==============================================================================
