---------------------------- MODULE MC_Filtering -----------------------------
(***************************************************************************)
(* Selection and candidate counting in an arithmetic that rounds.          *)
(***************************************************************************)
EXTENDS Filtering, F32Tables, Instances
==============================================================================
