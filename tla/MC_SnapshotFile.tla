--------------------------- MODULE MC_SnapshotFile ---------------------------
(* Two saves of different sizes over an earlier snapshot or none. *)
EXTENDS SnapshotFile

CONSTANTS w1, w2

MCWriters == {w1, w2}
MCSize    == [f \in Files |-> CASE f = w1 -> 1 [] f = w2 -> 3 [] OTHER -> 2]
==============================================================================
