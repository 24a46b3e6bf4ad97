---------------------------- MODULE DistanceBound ----------------------------
(***************************************************************************)
(* A distance accumulated by add_distance against the strict bound of an   *)
(* inclusive threshold: the arithmetic under filtering and verification.   *)
(***************************************************************************)
EXTENDS F32

CONSTANT Steps           (* the costs one accumulation step may add        *)

ASSUME StepsAssumption == Steps \subseteq FiniteValues

VARIABLES threshold,     (* the inclusive threshold of the search          *)
          left, right,   (* the operands of the last addition              *)
          distance       (* its result, the distance accumulated so far    *)

vars == <<threshold, left, right, distance>>

------------------------------------------------------------------------------
(* StrictBound::from_inclusive, admits and residual. *)
Bound        == FNextUp(threshold)
Admits(d)    == d < Bound

(* The budget left of the inclusive threshold, against which residual's    *)
(* comment warns.                                                          *)
InclusiveResidual(paid) == FSub(threshold, paid)

Residual(paid) == FSub(Bound, paid)

Init ==
  /\ threshold \in FiniteValues \ {MaxFinite}
  /\ left = 0 /\ right = 0 /\ distance = 0

(* One DP cell or one sum of the verifier: while the distance is finite it  *)
(* may grow by any cost, beyond the bound too, as DP columns do.            *)
Accumulate(cost) ==
  /\ distance # Inf
  /\ left' = distance
  /\ right' = cost
  /\ distance' = FAddDistance(distance, cost)
  /\ UNCHANGED threshold

Next == \E cost \in Steps : Accumulate(cost)

Spec == Init /\ [][Next]_vars

------------------------------------------------------------------------------
(* add_distance (verification.rs) answers infinity exactly where the exact *)
(* sum of its operands exceeds f32::MAX, although IEEE addition rounds     *)
(* some of those sums back to f32::MAX; so no unrepresentable distance     *)
(* qualifies at a finite bound.                                            *)
OverflowIsExact == distance = Inf <=> left + right > MaxFinite

(* Pruning against the rounded budget never drops a rest whose exact sum   *)
(* with the paid cost is within the inclusive threshold (the test          *)
(* `min(column) >= budget` of bidirectional_trie.rs).  With no rest to pay *)
(* this is that the budget stays positive while the paid cost is admitted, *)
(* also where it equals the threshold: else the selection loop would stop  *)
(* with a match left.                                                      *)
BudgetKeepsExactMatches ==
  Admits(distance) =>
     \A rest \in FiniteValues :
        distance + rest <= threshold => rest < Residual(distance)
==============================================================================
