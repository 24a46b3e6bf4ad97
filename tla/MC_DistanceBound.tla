-------------------------- MODULE MC_DistanceBound ---------------------------
(* Every threshold, every pair of operands of a 3-bit float with 4 binades. *)
EXTENDS DistanceBound

MCSteps == FiniteValues
==============================================================================
