------------------------------ MODULE MC_Engine -----------------------------
(* Three tokens and identifiers up to 2: one string, position or symbol too *)
(* many is at hand.                                                         *)
EXTENDS Engine

CONSTANTS t1, t2, t3

MCTokens == {t1, t2, t3}
==============================================================================
