------------------------------ MODULE F32Tables ------------------------------
(***************************************************************************)
(* The operations of F32 as tables over all values, computed once by TLC:  *)
(* the values runs give the arithmetic parameters of Arithmetic.           *)
(***************************************************************************)
EXTENDS F32

CONSTANT MaxLength       (* the longest query a threshold is divided by    *)

Values == FiniteValues \cup {Inf}

SumTable      == [x, y \in Values |-> FAdd(x, y)]
DistanceTable == [x, y \in Values |-> FAddDistance(x, y)]
RestTable     == [x, y \in FiniteValues |-> IF y <= x THEN FSub(x, y) ELSE 0]
QuotientTable == [x \in FiniteValues, n \in 1 .. MaxLength |-> FDiv(x, n)]
NextTable     == [x \in FiniteValues \ {MaxFinite} |-> FNextUp(x)]

TAdd(x, y)         == SumTable[x, y]
TAddDistance(x, y) == DistanceTable[x, y]
TSub(x, y)         == RestTable[x, y]
TDiv(x, n)         == QuotientTable[x, n]
TNextUp(x)         == NextTable[x]
==============================================================================
