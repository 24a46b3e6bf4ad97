--------------------------- MODULE MC_Verification ---------------------------
(***************************************************************************)
(* Verification alone, of every list of at most MaxCandidates anchors:     *)
(* repeated ones, in any order, of every pair of a query and a data        *)
(* position whether its symbols are near or not, and an invalid one.       *)
(***************************************************************************)
EXTENDS Verification, F32Tables, Instances

CONSTANT MaxCandidates

MCCorpora    == {<< <<a, b, a>> >>, << <<b>>, <<a, b>> >>}
MCQueries    == {<<u>>, <<a, b>>, <<b, a, b>>}
MCPolicies   ==
  {[deletion |-> Deletion(1, 3, 1), insertion |-> Insertion(0, 2),
    substitution |-> Substitution(1, 3, 2, 1)],
   [deletion |-> Deletion(1, 1, 1), insertion |-> Insertion(1, 1),
    substitution |-> Substitution(1, 1, 1, 1)],
   [deletion |-> Deletion(0, 2, 3), insertion |-> Insertion(2, 1),
    substitution |-> Substitution(5, 0, 3, 2)]}
MCThresholds == {0, 1, 3}

(* The hypotheses of the theorems about distances. *)
ASSUME ExactnessAssumption == SumsAreExact(Distance, Infinity) /\ DistancesAreBelow(Infinity)

Anchors ==
  {[string |-> place[1], position |-> place[2], query |-> i] : place \in Places, i \in Positions}
    \cup {[string |-> 1, position |-> Len(corpus[1]) + 1, query |-> 1]}

MCInit ==
  /\ InputsOK
  /\ stage = "validating"
  /\ \E n \in 0 .. MaxCandidates : candidates \in [1 .. n -> Anchors]
  /\ VerificationInit

MCSpec == MCInit /\ [][VerificationNext]_<<inputs, stage, candidates, verificationVars>>
==============================================================================
