------------------------- MODULE MC_EmbeddingStore --------------------------
(* Three tokens whose encodings sort in another order, two of them numbered *)
(* rows, and two threads.                                                   *)
EXTENDS EmbeddingStore

CONSTANTS a, b, c

MCTokens == {a, b, c}
MCCode   == [token \in MCTokens |-> CASE token = a -> 2 [] token = b -> 1 [] OTHER -> 3]
==============================================================================
