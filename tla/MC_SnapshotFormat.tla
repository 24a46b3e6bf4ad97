------------------------- MODULE MC_SnapshotFormat --------------------------
(* An empty engine, one of an empty sequence, and one of a token; a store   *)
(* of a token and an empty one; costs of each kind.                         *)
EXTENDS SnapshotFormat

Holding(kind, tokens, bytes, strings, symbols, dimension) ==
  [kind |-> kind, tokens |-> tokens, bytes |-> bytes, strings |-> strings,
   symbols |-> symbols, dimension |-> dimension]

MCContents ==
  {Holding("engine", 0, 0, 0, 0, 0),
   Holding("engine", 0, 0, 1, 0, 0),
   Holding("engine", 1, 1, 1, 1, 0),
   Holding("embedding store", 0, 0, 0, 0, 1),
   Holding("embedding store", 1, 1, 0, 0, 2),
   Holding("levenshtein costs", 0, 0, 0, 0, 0),
   Holding("custom costs", 0, 4, 0, 0, 0),
   Holding("cosine costs", 0, 0, 0, 0, 0)}
==============================================================================
