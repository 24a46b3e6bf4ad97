--------------------------- MODULE MC_RangeSearch ----------------------------
(***************************************************************************)
(* Range searches with integer costs that the toy floats represent exactly *)
(* and sums that stay below their largest value.                           *)
(***************************************************************************)
EXTENDS RangeSearch, F32Tables, Instances

MCThresholds == {0, 1, 2, 3, 5}
MCLimits     == {Unlimited, 2, 5}

(* The hypotheses of the theorems about distances. *)
ASSUME ExactnessAssumption ==
  /\ SumsAreExact(Distance, Infinity)
  /\ DistancesAreBelow(Infinity)
  /\ PaymentsAreFine(Distance, Infinity)
==============================================================================
