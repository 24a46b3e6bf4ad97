------------------------------ MODULE Filtering ------------------------------
(***************************************************************************)
(* Filtering of one range search: position selection (Selection), the      *)
(* candidate count against the caller's limit, and candidate generation    *)
(* (range_search.rs, filtering.rs).                                        *)
(***************************************************************************)
EXTENDS Selection, DistanceColumns, EditDistance

CONSTANT MaxUsize        (* usize::MAX                                     *)

ASSUME MaxUsizeAssumption == MaxUsize \in Nat

(* generate_candidates: the postings of each neighbor of each selected     *)
(* position, in selection order, alphabet order and postings order.        *)
PlaceBefore(a, b) == a[1] < b[1] \/ (a[1] = b[1] /\ a[2] < b[2])

CandidatesAt(i, r) ==
  LET neighbors  == Ascending(Neighbors(query[i], r))
      anchors(c) == LET places == SortedBy(Postings(c), PlaceBefore)
                    IN  [k \in DOMAIN places |->
                           [string |-> places[k][1], position |-> places[k][2], query |-> i]]
  IN  FlattenSeq([k \in DOMAIN neighbors |-> anchors(neighbors[k])])

GeneratedCandidates ==
  FlattenSeq([k \in DOMAIN chosen.picked |-> CandidatesAt(chosen.picked[k], chosen.radius)])

(* count_candidates: posting-list lengths added with saturation, without   *)
(* looking at a posting.                                                   *)
WrappingAdd(x, y)   == (x + y) % (MaxUsize + 1)
SaturatingAdd(x, y) == Min({x + y, MaxUsize})
SaturatingSum(lengths) ==
  LET sum[k \in 0 .. Len(lengths)] ==
        IF k = 0 THEN 0 ELSE SaturatingAdd(sum[k - 1], lengths[k])
  IN  sum[Len(lengths)]

CountedCandidates ==
  LET neighbors(i) == Ascending(Neighbors(query[i], chosen.radius))
      countAt(i)   == SaturatingSum([k \in DOMAIN neighbors(i) |-> Frequency(neighbors(i)[k])])
  IN  SaturatingSum([k \in DOMAIN chosen.picked |-> countAt(chosen.picked[k])])

WithinLimit == limit # Unlimited => CountedCandidates <= limit

------------------------------------------------------------------------------
(* SearchTooExpensive, before any candidate exists. *)
DeclineExpensive ==
  /\ stage = "counting"
  /\ ~WithinLimit
  /\ stage' = "expensive"
  /\ UNCHANGED <<inputs, candidates, selectionVars>>

Generate ==
  /\ stage = "counting"
  /\ WithinLimit
  /\ stage' = "validating"
  /\ \E generated \in {GeneratedCandidates} : candidates' = generated
  /\ UNCHANGED <<inputs, selectionVars>>

FilteringNext == SelectionNext \/ DeclineExpensive \/ Generate

------------------------------------------------------------------------------
(* Filtering is complete: every alignment of the query with a segment of   *)
(* the corpus whose cost is within the threshold pairs a selected position *)
(* with a symbol of its neighborhood, so the segment holds a candidate at  *)
(* which that alignment is anchored.                                       *)
FilterIsComplete ==
  stage = "validating" =>
     \A segment \in ProperSegments(corpus) :
        LET word == Word(corpus, segment)
        IN  \A alignment \in AllAlignments(query, word) :
              AlignmentCost(costs, query, word, alignment) <= threshold =>
                 \E k \in DOMAIN candidates, pair \in Pairs(alignment) :
                    candidates[k] = [string   |-> segment[1],
                                     position |-> segment[2] + pair[2],
                                     query    |-> pair[1]]

(* MinCand is a two-approximation: no choice of positions whose            *)
(* contributions leave the bound has fewer than half the candidates of the *)
(* one made.                                                               *)
CandidatesOf(S, r) ==
  SumFunction([i \in S |->
     Cardinality({place \in Places : SymbolAt(place) \in Neighbors(query[i], r)})])
SelectionIsTwoApproximate ==
  chosen.found =>
     \A S \in SUBSET Positions :
        ~Admits(SumOver(ContributionsAt(chosen.radius), S)) =>
           CandidatesOf(Range(chosen.picked), chosen.radius)
              <= 2 * CandidatesOf(S, chosen.radius)

(* The limit is decided on the exact number of candidates, counted without *)
(* generating one: a declined search would have generated more than the    *)
(* limit, and one that generates stays within it.  (No count exceeds a     *)
(* limit of usize::MAX.)                                                   *)
LimitIsExact ==
  limit # Unlimited /\ limit < MaxUsize =>
     /\ stage = "validating" => Len(candidates) <= limit
     /\ stage = "expensive"  => Len(GeneratedCandidates) > limit

(* MinCandidateSelector::select says of its stopping condition that "a     *)
(* match the bound admits cannot avoid every selected position"            *)
(* (candidate.rs:92).  Sums round, and filtering adds other terms in       *)
(* another order than verification; even so, a segment whose distance, as  *)
(* the exhaustive verifier computes it, is admitted holds a symbol of the  *)
(* neighborhood of a selected position.                                    *)
NoMatchAvoidsSelection ==
  stage = "counting" =>
     \A segment \in ProperSegments(corpus) :
        LET word == Word(corpus, segment)
        IN  Admits(ComputedDistance(word)) =>
               \E i \in Range(chosen.picked) :
                  Range(word) \cap Neighbors(query[i], chosen.radius) # {}
==============================================================================
