---------------------------- MODULE SegmentSearch ----------------------------
(***************************************************************************)
(* What a range search promises, in one step: every non-empty segment of   *)
(* the corpus within the threshold of the query, each with its weighted    *)
(* edit distance, and nothing else; unless the threshold reaches the cost  *)
(* of deleting the whole query, or a candidate limit was set, in which     *)
(* cases it may be declined (RangeSearcher::search, README).               *)
(***************************************************************************)
EXTENDS EditDistance

CONSTANTS Thresholds,    (* the thresholds a search may have               *)
          MaxThreshold,  (* the largest cost, no threshold of a search     *)
          Unlimited      (* no candidate limit                             *)

VARIABLES corpus, query, costs, threshold, limit,
          status,        (* "pending", or how the search ended             *)
          matches        (* the distance of each reported segment          *)

inputs == <<corpus, query, costs, threshold, limit>>

DeletionCost == SumFunction([i \in DOMAIN query |-> costs.deletion[query[i]]])

DistanceOf(segment) == WeightedEditDistance(costs, query, Word(corpus, segment))
ExactMatches ==
  [segment \in {s \in ProperSegments(corpus) : DistanceOf(s) <= threshold} |->
     DistanceOf(segment)]

Init ==
  /\ threshold \in Thresholds
  /\ status = "pending"
  /\ matches = <<>>

Respond(outcome, found) ==
  /\ status = "pending"
  /\ status' = outcome
  /\ matches' = found
  /\ UNCHANGED inputs

Answer  == threshold < DeletionCost /\ Respond("answered", ExactMatches)
Decline == threshold >= DeletionCost /\ Respond("unavailable", <<>>)
DeclineExpensive ==
  limit # Unlimited /\ threshold < DeletionCost /\ Respond("expensive", <<>>)
Reject  == threshold = MaxThreshold /\ Respond("invalid", <<>>)

Next == Answer \/ Decline \/ DeclineExpensive \/ Reject

Spec == Init /\ [][Next]_<<inputs, status, matches>>
==============================================================================
