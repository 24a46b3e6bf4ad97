---------------------------- MODULE Verification -----------------------------
(***************************************************************************)
(* The bidirectional-trie verifier: each candidate anchor pairs one query  *)
(* symbol with one data symbol, the two directions around it are extended  *)
(* over columns of the weighted edit distance, and the columns are cached  *)
(* in tries shared by all candidates of one query position and direction   *)
(* (verification.rs, verification/bidirectional_trie.rs).                  *)
(***************************************************************************)
EXTENDS DistanceColumns, EditDistance

VARIABLES
  next,           (* the candidate to process next                         *)
  forest,         (* cached columns: <<direction, query position, path>>   *)
  substrings      (* the least distance found of each admitted segment     *)

verificationVars == <<next, forest, substrings>>

Directions == {"backward", "forward"}

------------------------------------------------------------------------------
(* validated_candidate_string, as a predicate. *)
IsValid(candidate) ==
  /\ candidate.string \in DOMAIN corpus
  /\ candidate.position \in 1 .. Len(corpus[candidate.string])
  /\ candidate.query \in Positions

(* What lies on one side of an anchor at position p of a string, read away *)
(* from the anchor: the reversed prefix or the suffix.                     *)
Side(direction, string, p) ==
  IF direction = "backward" THEN Reverse(SubSeq(string, 1, p - 1))
                            ELSE SubSeq(string, p + 1, Len(string))

(* No part of a query is M or more away from a part of a string of the     *)
(* corpus, both on one side of an anchor and reaching up to it.            *)
DistancesAreBelow(M) ==
  \A policy \in Policies, q \in Queries, strings \in Corpora, direction \in Directions :
     \A i \in 1 .. Len(q), id \in DOMAIN strings :
        \A p \in 1 .. Len(strings[id]), r \in 0 .. Len(Side(direction, q, i)) :
           \A n \in 0 .. Len(Side(direction, strings[id], p)) :
              WeightedEditDistance(policy, SubSeq(Side(direction, q, i), 1, r),
                                   SubSeq(Side(direction, strings[id], p), 1, n)) < M

(***************************************************************************)
(* The columns along data from the root of the trie of a direction and a   *)
(* query position: the cached ones where there are any.                    *)
(***************************************************************************)
Key(direction, p, data, n) == <<direction, p, SubSeq(data, 1, n)>>

ColumnsAlong(direction, p, data) ==
  LET q == Side(direction, query, p)
      columns[n \in 0 .. Len(data)] ==
        IF Key(direction, p, data, n) \in DOMAIN forest
        THEN forest[Key(direction, p, data, n)]
        ELSE IF n = 0 THEN RootColumn(q)
        ELSE StepColumn(q, data[n], columns[n - 1])
  IN  columns

(* cached_prefix_distances: a walk visits nodes up to the first whose      *)
(* whole column reaches the budget, and keeps the distances before it.     *)
WholeExhausts(column, budget) == column[Cardinality(DOMAIN column) - 1] >= budget

Exhausts(column, budget) == Min(Range(column)) >= budget

WalkLength(columns, budget) ==
  LET stops == {n \in DOMAIN columns \ {0} : Exhausts(columns[n], budget)}
  IN  IF stops = {} THEN Cardinality(DOMAIN columns) - 1 ELSE Min(stops) - 1
Visited(columns, budget) == DOMAIN columns \cap (0 .. (WalkLength(columns, budget) + 1))

------------------------------------------------------------------------------
VerificationInit ==
  /\ next = 1
  /\ forest = <<>>
  /\ substrings = <<>>

(* Every candidate is validated before the caches exist. *)
RejectCandidates ==
  /\ stage = "validating"
  /\ \E k \in DOMAIN candidates : ~IsValid(candidates[k])
  /\ stage' = "failed"
  /\ UNCHANGED <<inputs, candidates, verificationVars>>

AcceptCandidates ==
  /\ stage = "validating"
  /\ \A k \in DOMAIN candidates : IsValid(candidates[k])
  /\ stage' = "verifying"
  /\ UNCHANGED <<inputs, candidates, verificationVars>>

Current    == candidates[next]
AnchorCost == Substitute(query[Current.query],
                         corpus[Current.string][Current.position])

SkipCandidate ==
  /\ stage = "verifying"
  /\ next \in DOMAIN candidates
  /\ ~Admits(AnchorCost)
  /\ next' = next + 1
  /\ UNCHANGED <<inputs, stage, candidates, forest, substrings>>

(***************************************************************************)
(* What one candidate adds: the columns both walks visit within the budget *)
(* the anchor leaves, and the distance of every combination of a backward  *)
(* and a forward rest that the bound admits.                               *)
(***************************************************************************)
Extension(candidate) ==
  LET i      == candidate.query
      p      == candidate.position
      string == corpus[candidate.string]
      budget == Residual(AnchorCost)
      columns == [d \in Directions |-> ColumnsAlong(d, i, Side(d, string, p))]
      visited == UNION {{<<d, n>> : n \in Visited(columns[d], budget)} : d \in Directions}
      rests   == [d \in Directions |->
                    [n \in 0 .. WalkLength(columns[d], budget) |->
                       columns[d][n][Len(Side(d, query, i))]]]
      distance(b, f) ==
        AddDistance(AddDistance(AnchorCost, rests["backward"][b]), rests["forward"][f])
      found == {pair \in (DOMAIN rests["backward"]) \X (DOMAIN rests["forward"]) :
                  Admits(distance(pair[1], pair[2]))}
  IN  [nodes   |-> [key \in {Key(node[1], i, Side(node[1], string, p), node[2]) :
                                node \in visited} |-> columns[key[1]][Len(key[3])]],
       results |-> [segment \in {<<candidate.string, p - 1 - pair[1], p + pair[2]>> :
                                    pair \in found} |->
                      distance(p - 1 - segment[2], segment[3] - p)]]

VerifyCandidate ==
  /\ stage = "verifying"
  /\ next \in DOMAIN candidates
  /\ Admits(AnchorCost)
  /\ \E extension \in {Extension(Current)} :
       /\ forest' = [key \in DOMAIN extension.nodes \cup DOMAIN forest |->
                       IF key \in DOMAIN forest THEN forest[key] ELSE extension.nodes[key]]
       /\ substrings' = [s \in DOMAIN extension.results \cup DOMAIN substrings |->
                           Min({f[s] : f \in {g \in {extension.results, substrings} : s \in DOMAIN g}})]
  /\ next' = next + 1
  /\ UNCHANGED <<inputs, stage, candidates>>

Finish ==
  /\ stage = "verifying"
  /\ next \notin DOMAIN candidates
  /\ stage' = "answered"
  /\ UNCHANGED <<inputs, candidates, verificationVars>>

VerificationNext ==
  \/ RejectCandidates
  \/ AcceptCandidates
  \/ SkipCandidate
  \/ VerifyCandidate
  \/ Finish

------------------------------------------------------------------------------
(* Columns are shared by every candidate of a query position and direction *)
(* (BidirectionalTrieForest), whatever string, position and budget they    *)
(* were first computed for: entry r is always the distance of the first r  *)
(* query symbols on that side, read away from the anchor, to the path.     *)
CacheIsExact ==
  \A key \in DOMAIN forest :
     \A r \in DOMAIN forest[key] :
        forest[key][r] =
          WeightedEditDistance(costs, SubSeq(Side(key[1], query, key[2]), 1, r), key[3])

(* After any number of candidates, in whatever order and however often     *)
(* they came, the results are the segments within the threshold of an      *)
(* alignment anchored at one of them, each with the least such distance    *)
(* (verify_candidates): neither pruning nor the caches show.               *)
AnchoredAt(candidate, segment) ==
  /\ IsValid(candidate)
  /\ candidate.string = segment[1]
  /\ candidate.position \in (segment[2] + 1) .. segment[3]
AnchoredDistances(segment) ==
  {AnchoredDistance(costs, query, Word(corpus, segment),
                    candidates[k].query, candidates[k].position - segment[2]) :
     k \in {k \in 1 .. (next - 1) : AnchoredAt(candidates[k], segment)}}
ResultsAreAnchored ==
  \A segment \in ProperSegments(corpus) :
     LET within == {d \in AnchoredDistances(segment) : d <= threshold}
     IN  /\ segment \in DOMAIN substrings <=> within # {}
         /\ within # {} => substrings[segment] = Min(within)
==============================================================================
