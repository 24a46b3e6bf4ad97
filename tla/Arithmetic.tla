----------------------------- MODULE Arithmetic ------------------------------
(***************************************************************************)
(* The arithmetic of distances as far as searching relies on it.  Costs    *)
(* are finite non-negative single-precision numbers, written as naturals   *)
(* in units of the least one; distances are costs or Infinity.  The        *)
(* operations are parameters: module F32 defines the ones of the code, and *)
(* the assumptions say what proofs use of them, rounding included.         *)
(***************************************************************************)
EXTENDS Integers, FiniteSets, FiniteSetsExt, Ordering

CONSTANTS
  Cost,               (* the finite values                                 *)
  MaxCost,            (* the largest of them, Cost::MAX                    *)
  Infinity,           (* what an overflowing sum becomes                   *)
  Add(_, _),          (* f32 +                                             *)
  AddDistance(_, _),  (* add_distance: + with overflow detected exactly    *)
  Sub(_, _),          (* f32 -, of a larger and a smaller cost             *)
  Quotient(_, _),     (* f32 division of a cost by a positive length       *)
  NextUp(_)           (* f32::next_up                                      *)

Distance == Cost \cup {Infinity}

(* Cost::next_up answers None at Cost::MAX. *)
HasNextUp(c) == c # MaxCost

ASSUME CostAssumption ==
  /\ Cost \subseteq Nat
  /\ 0 \in Cost
  /\ MaxCost \in Cost
  /\ \A c \in Cost : c <= MaxCost
  /\ Infinity \in Nat
  /\ \A c \in Cost : c < Infinity

(* Rounding keeps addition monotone, with 0 as its neutral element. *)
ASSUME AddAssumption ==
  /\ \A x, y \in Distance : Add(x, y) \in Distance
  /\ \A x \in Distance : Add(x, 0) = x /\ Add(0, x) = x
  /\ \A x, y, z \in Distance :
        x <= y => Add(x, z) <= Add(y, z) /\ Add(z, x) <= Add(z, y)

(* Distances add as costs do, except that an overflow is never rounded away. *)
ASSUME AddDistanceAssumption ==
  /\ \A x, y \in Distance : AddDistance(x, y) \in Distance
  /\ \A x, y \in Distance : Add(x, y) <= AddDistance(x, y)
  /\ \A x \in Distance : AddDistance(x, 0) = x /\ AddDistance(0, x) = x
  /\ \A x, y, z \in Distance :
        x <= y => /\ AddDistance(x, z) <= AddDistance(y, z)
                  /\ AddDistance(z, x) <= AddDistance(z, y)

(* Gradual underflow: the difference of distinct floats is not zero. *)
ASSUME SubAssumption ==
  \A x, y \in Cost : y < x => Sub(x, y) \in Cost /\ Sub(x, y) > 0

ASSUME NextUpAssumption ==
  \A c \in Cost : HasNextUp(c) =>
     /\ NextUp(c) \in Cost
     /\ c < NextUp(c)
     /\ \A d \in Cost : c < d => NextUp(c) <= d

(* What is left of the bound above c leaves room for what c leaves exactly *)
(* (BudgetKeepsExactMatches of module DistanceBound).                      *)
ASSUME BudgetAssumption ==
  \A c, x, y \in Cost : HasNextUp(c) /\ x + y <= c => y < Sub(NextUp(c), x)
==============================================================================
