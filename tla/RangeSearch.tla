----------------------------- MODULE RangeSearch -----------------------------
(***************************************************************************)
(* One call of RangeSearcher::search_with_metrics on a built engine:       *)
(* filtering, then verification of the candidates it generates.            *)
(***************************************************************************)
EXTENDS Filtering, Verification

vars == <<selectionState, verificationVars>>

Init == SelectionInit /\ VerificationInit

Next == \/ FilteringNext    /\ UNCHANGED verificationVars
        \/ VerificationNext /\ UNCHANGED selectionVars

Spec == Init /\ [][Next]_vars

------------------------------------------------------------------------------
Outcomes == {"invalid", "unavailable", "expensive", "failed", "answered"}

(* The search as its caller sees it: nothing until it returns. *)
Promise == INSTANCE SegmentSearch WITH
  MaxThreshold <- MaxCost,
  status  <- IF stage \in Outcomes THEN stage ELSE "pending",
  matches <- IF stage = "answered" THEN substrings ELSE <<>>

(* A search on a built engine implements the promise of the documentation: *)
(* it returns exactly the segments within the threshold, with their        *)
(* weighted edit distances, or declines for one of the documented reasons. *)
SearchIsExact == Promise!Spec
==============================================================================
