------------------------------ MODULE Selection ------------------------------
(***************************************************************************)
(* Filtering of one range search: the check that some radius can select,   *)
(* the MinCand selection of query positions at one substitution radius,    *)
(* and the binary search over wider radii when the derived one fails       *)
(* (range_search.rs, filtering/candidate.rs, eta.rs, neighborhood.rs).     *)
(*                                                                         *)
(* Every step of the selection loop and of the binary search is a step of  *)
(* the model.  Candidate counts and payments, floats in the code, are      *)
(* naturals in units of 1/PaymentScale candidate, whose quotients by the   *)
(* gains of the small instances are exact.                                 *)
(***************************************************************************)
EXTENDS SearchInputs

CONSTANT PaymentScale

ASSUME ScaleAssumption == PaymentScale \in Nat \ {0}

(* Where the factor of selection is promised: what is left of a bound is   *)
(* exact, for totals in V, and what all divisions of one selection round   *)
(* away is less than one candidate.                                        *)
PaymentsAreFine(V, M) ==
  \A t \in Thresholds : HasNextUp(t) =>
     /\ NextUp(t) <= M
     /\ \A x \in V : x <= t => Sub(NextUp(t), x) = NextUp(t) - x
     /\ \A q \in Queries : Len(q) * NextUp(t) <= PaymentScale

VARIABLES
  radius,         (* the radius the current selection runs at              *)
  paid,           (* payment collected by each position                    *)
  picked,         (* positions selected so far, in selection order         *)
  total,          (* their contributions, added in position order          *)
  radii,          (* the wider radii, once they were collected             *)
  low, high,      (* the binary search's half-open range of radii          *)
  chosen          (* the last successful selection                         *)

selectionVars == <<radius, paid, picked, total, radii, low, high, chosen>>

NotFound == [found |-> FALSE, radius |-> 0, picked |-> <<>>]

------------------------------------------------------------------------------
(* SubstitutionNeighborhood::scan: the corpus symbols within radius r of a *)
(* query symbol, and the cheapest way out of that neighborhood.            *)
Neighbors(s, r) == {c \in Alphabet : Substitute(s, c) <= r}

(* The way out by substitution alone. *)
OutsideWithoutDeletion(s, r) ==
  Min({MaxCost} \cup {Substitute(s, c) : c \in Alphabet \ Neighbors(s, r)})

OutsideCost(s, r) ==
  Min({Delete(s)} \cup
        {Substitute(s, c) : c \in Alphabet \ Neighbors(s, r)})

(* What the selector knows of position i: its contribution, and how many   *)
(* candidates its neighborhood would generate.                             *)
Contribution(i) == OutsideCost(query[i], radius)
Occurrences(i)  == {place \in Places : SymbolAt(place) \in Neighbors(query[i], radius)}
CandidateCount(i) == PaymentScale * Cardinality(Occurrences(i))

(* Running float sum of amount over the positions in S, in position order. *)
WideRunningSum(amount, S) ==   \* the sum accumulated without rounding
  LET sum[i \in 0 .. Len(query)] == IF i = 0 THEN 0
                                   ELSE IF i \in S THEN sum[i - 1] + amount[i]
                                   ELSE sum[i - 1]
  IN  sum

RunningSum(amount, S) ==
  LET sum[i \in 0 .. Len(query)] == IF i = 0 THEN 0
                                   ELSE IF i \in S THEN Add(sum[i - 1], amount[i])
                                   ELSE sum[i - 1]
  IN  sum
SumOver(amount, S) == RunningSum(amount, S)[Len(query)]

Contributions == [i \in Positions |-> Contribution(i)]
Deletions     == [i \in Positions |-> Delete(query[i])]

AnyRadiusCanSelect == ~Admits(SumOver(Deletions, Positions))

(* automatic_eta, and the radii above it that neighborhoods change at. *)
Eta == IF query = <<>> THEN 0 ELSE Quotient(threshold, Len(query))

WiderRadiiOfFirst ==           \* those of the first query symbol alone
  {Substitute(query[1], c) : c \in Alphabet} \ (0 .. Eta)

WiderRadii ==
  {Substitute(query[i], c) : i \in Positions, c \in Alphabet} \ (0 .. Eta)

SortedRadii == Ascending(WiderRadii)

------------------------------------------------------------------------------
Selected == Range(picked)
Open     == Positions \ Selected

UncappedGain(i) == Contribution(i)

Gain(i) == Min({Contribution(i), Residual(total)})
Useful  == {i \in Open : Gain(i) > 0}

Unpaid(i) == IF CandidateCount(i) > paid[i] THEN CandidateCount(i) - paid[i] ELSE 0
Value(i)  == Unpaid(i) \div Gain(i)

(* The useful position of least value, the first of several. *)
Cheapest ==
  LET Least(value) == {i \in DOMAIN value : \A j \in DOMAIN value : value[i] <= value[j]}
  IN  Min(UNION {Least(value) : value \in {[i \in Useful |-> Value(i)]}})

(* The contributions once best is selected too: added in position order,   *)
(* where each round could as well add to the total of the last one.        *)
TotalInPickOrder(best) == Add(total, Contribution(best))
TotalWith(best)        == SumOver(Contributions, Selected \cup {best})

Start(r) ==
  /\ stage' = "selecting"
  /\ radius' = r
  /\ paid' = [i \in Positions |-> 0]
  /\ picked' = <<>>
  /\ total' = 0

------------------------------------------------------------------------------
SelectionInit ==
  /\ InputsInit
  /\ stage = "checking"
  /\ radius = 0 /\ paid = [i \in Positions |-> 0] /\ picked = <<>> /\ total = 0
  /\ radii = <<>> /\ low = 0 /\ high = 0
  /\ chosen = NotFound

(* StrictBound::from_inclusive fails: nothing lies above the threshold. *)
RejectThreshold ==
  /\ stage = "checking"
  /\ ~HasNextUp(threshold)
  /\ stage' = "invalid"
  /\ UNCHANGED <<inputs, candidates, radius, paid, picked, total, radii, low, high, chosen>>

(* The bound admits deleting the whole query: the search is declined. *)
Decline ==
  /\ stage = "checking"
  /\ HasNextUp(threshold)
  /\ ~AnyRadiusCanSelect
  /\ stage' = "unavailable"
  /\ UNCHANGED <<inputs, candidates, radius, paid, picked, total, radii, low, high, chosen>>

StartAtDerivedRadius ==
  /\ stage = "checking"
  /\ HasNextUp(threshold)
  /\ AnyRadiusCanSelect
  /\ Start(Eta)
  /\ UNCHANGED <<inputs, candidates, radii, low, high, chosen>>

(* One round of MinCandidateSelector::select. *)
Pick ==
  /\ stage = "selecting"
  /\ Admits(total)
  /\ Useful # {}
  /\ \E best \in {Cheapest} :
       /\ paid' = [i \in Positions |->
                      IF i \in Useful THEN paid[i] + Gain(i) * Value(best) ELSE paid[i]]
       /\ picked' = Append(picked, best)
       /\ \E sum \in {TotalWith(best)} : total' = sum
  /\ UNCHANGED <<inputs, candidates, stage, radius, radii, low, high, chosen>>

Middle == low + (high - low) \div 2

FromMiddle  == Middle          \* an update of low that need not narrow the range
AboveMiddle == Middle + 1

(* The selection left the bound.  At the derived radius that settles it;   *)
(* at a wider one the search goes on below it.                             *)
SelectionSucceeds ==
  /\ stage = "selecting"
  /\ ~Admits(total)
  /\ chosen' = [found |-> TRUE, radius |-> radius, picked |-> picked]
  /\ IF radius = Eta
     THEN stage' = "counting" /\ UNCHANGED high
     ELSE stage' = "widening" /\ high' = Middle
  /\ UNCHANGED <<inputs, candidates, radius, paid, picked, total, radii, low>>

(* No position is left to gain from.  At the derived radius the wider ones *)
(* are collected, sorted and deduplicated; at a wider one the search goes  *)
(* on above it.                                                            *)
SelectionFails ==
  /\ stage = "selecting"
  /\ Admits(total)
  /\ Useful = {}
  /\ stage' = "widening"
  /\ IF radius = Eta
     THEN /\ \E wider \in {SortedRadii} :
               radii' = wider /\ high' = Len(wider)
          /\ low' = 0
     ELSE /\ low' = AboveMiddle
          /\ UNCHANGED <<radii, high>>
  /\ UNCHANGED <<inputs, candidates, radius, paid, picked, total, chosen>>

TryMiddle ==
  /\ stage = "widening"
  /\ low < high
  /\ Start(radii[Middle + 1])
  /\ UNCHANGED <<inputs, candidates, radii, low, high, chosen>>

SettleRadius ==
  /\ stage = "widening"
  /\ low >= high
  /\ stage' = IF chosen.found THEN "counting" ELSE "unavailable"
  /\ UNCHANGED <<inputs, candidates, radius, paid, picked, total, radii, low, high, chosen>>

SelectionNext ==
  \/ RejectThreshold
  \/ Decline
  \/ StartAtDerivedRadius
  \/ Pick
  \/ SelectionSucceeds
  \/ SelectionFails
  \/ TryMiddle
  \/ SettleRadius

selectionState == <<inputs, stage, candidates, selectionVars>>

SelectionSpec == /\ SelectionInit
                 /\ [][SelectionNext]_selectionState
                 /\ WF_selectionState(SelectionNext)

------------------------------------------------------------------------------
SelectionStages == {"checking", "selecting", "widening", "counting",
                    "unavailable", "invalid"}

(* The state of filtering stays in the ranges the code's types give it. *)
SelectionTypeOK ==
  /\ InputsOK
  /\ candidates = <<>>
  /\ stage \in SelectionStages
  /\ radius \in Cost
  /\ paid \in [Positions -> Nat]
  /\ picked \in Seq(Positions)
  /\ total \in Distance
  /\ radii \in Seq(Cost)
  /\ low \in Nat /\ high \in Nat
  /\ chosen \in [found : BOOLEAN, radius : Cost, picked : Seq(Positions)]

(* RangeSearcher::select_positions: the search is reported unavailable for *)
(* want of a radius only where the bound admits deleting the whole query,  *)
(* however the float sums round; no query that any_radius_can_select let   *)
(* through is lost in selection or in the binary search over radii.        *)
UnavailableOnlyIfDeletionsAdmitted ==
  stage = "unavailable" => Admits(SumOver(Deletions, Positions))

(* A radius reported as adjusted is the narrowest that selects: at every   *)
(* narrower cost, a substitution cost or not, all contributions together   *)
(* are still admitted (RangeSearcher::search: "raises it to the smallest   *)
(* one that can").                                                         *)
ContributionsAt(r) == [i \in Positions |-> OutsideCost(query[i], r)]
AdjustedRadiusIsNarrowest ==
  stage = "counting" /\ chosen.radius # Eta =>
     \A r \in Cost :
        r < chosen.radius => Admits(SumOver(ContributionsAt(r), Positions))

(* What was chosen leaves the bound, each position being counted once: the *)
(* premise candidate generation and verification rely on.                  *)
ChosenLeavesBound ==
  chosen.found =>
     /\ ~Admits(SumOver(ContributionsAt(chosen.radius), Range(chosen.picked)))
     /\ IsInjective(chosen.picked)

(* Each success of the binary search is at a narrower radius than the one  *)
(* before it, and a success is never given up.                             *)
OnlyNarrower ==
  [][chosen.found => chosen' = chosen \/ chosen'.radius < chosen.radius]_chosen

(* Every call of select_positions comes to an end. *)
SelectionReturns == <>(stage \in {"counting", "unavailable", "invalid"})
==============================================================================
