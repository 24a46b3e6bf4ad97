------------------------- MODULE RangeSearchProofs -------------------------
(***************************************************************************)
(* Range search, for every corpus, query, policy and threshold.            *)
(*                                                                         *)
(* Sections 1 to 4 hold in every arithmetic Arithmetic's assumptions       *)
(* allow, rounding included: position selection and the search for a wider *)
(* radius; that filtering loses no match to rounding; and what candidates  *)
(* are generated, counted and limited.                                     *)
(*                                                                         *)
(* Sections 5 to 13 are about distances, which the promise of a search is  *)
(* stated in, and assume that sums are exact (SumsAreExact): the program   *)
(* of the verifier computes least alignments, its caches hold them, the    *)
(* filter leaves a candidate on each alignment within the threshold, and   *)
(* verifying all candidates yields the exact matches.  Their last theorem  *)
(* is the refinement of SegmentSearch.                                     *)
(*                                                                         *)
(* Section 14 is about the cost of a search: the positions selected yield  *)
(* at most twice the candidates of any that leave the bound, where sums    *)
(* are exact and payments fine (PaymentsAreFine).                          *)
(***************************************************************************)
EXTENDS RangeSearch, CommonLemmas, SequenceTheorems

------------------------------------------------------------------------------
(***************************************************************************)
(* 1. The operators of position selection.                                 *)
(***************************************************************************)

(* The types of the inputs and of what is read off them. *)
LEMMA InputTypes ==
  ASSUME InputsOK
  PROVE  /\ corpus \in Seq(Seq(Symbols))
         /\ query \in Seq(Symbols)
         /\ Len(query) \in Nat
         /\ \A i \in Positions : query[i] \in Symbols
         /\ \A s \in Symbols : Delete(s) \in Cost
         /\ \A s, c \in Symbols : Substitute(s, c) \in Cost
         /\ threshold \in Cost
<1>1. /\ corpus \in Seq(Seq(Symbols))
      /\ query \in Seq(Symbols)
      /\ threshold \in Cost
  BY InputsAssumption DEF InputsOK
<1>2. costs \in Policies
  BY DEF InputsOK
<1>3. ASSUME NEW s \in Symbols PROVE Delete(s) \in Cost
  <2>1. costs.deletion \in [Symbols -> Cost]
    BY <1>2, InputsAssumption
  <2>. QED  BY <2>1 DEF Delete
<1>4. ASSUME NEW s \in Symbols, NEW c \in Symbols PROVE Substitute(s, c) \in Cost
  <2>1. costs.substitution \in [Symbols \X Symbols -> Cost]
    BY <1>2, InputsAssumption
  <2>. QED  BY <2>1 DEF Substitute
<1>5. Len(query) \in Nat /\ \A i \in Positions : query[i] \in Symbols
  BY <1>1 DEF Positions
<1>. QED  BY <1>1, <1>3, <1>4, <1>5

(* The corpus holds finitely many symbols, all of them encoded ones.       *)
LEMMA PlacesAreFinite ==
  ASSUME InputsOK
  PROVE  /\ IsFiniteSet(Places)
         /\ \A place \in Places : SymbolAt(place) \in Symbols
         /\ Alphabet \in SUBSET Symbols
<1>. DEFINE At(id) == {<<id, p>> : p \in 1 .. Len(corpus[id])}
            f == [id \in DOMAIN corpus |-> At(id)]
            Rows == {At(id) : id \in DOMAIN corpus}
<1>1. corpus \in Seq(Seq(Symbols))
  BY InputTypes
<1>2. IsFiniteSet(DOMAIN corpus)
  BY <1>1, FS_Interval
<1>3. IsFiniteSet(Rows)
  <2>1. f \in Surjection(DOMAIN corpus, Rows)
    BY DEF Surjection
  <2>. QED  BY <1>2, <2>1, FS_Surjection
<1>4. ASSUME NEW id \in DOMAIN corpus PROVE IsFiniteSet(At(id))
  <2>. DEFINE g == [p \in 1 .. Len(corpus[id]) |-> <<id, p>>]
  <2>1. g \in Surjection(1 .. Len(corpus[id]), At(id))
    BY DEF Surjection
  <2>2. Len(corpus[id]) \in Nat
    BY <1>1
  <2>3. IsFiniteSet(1 .. Len(corpus[id]))
    BY <2>2, FS_Interval
  <2>. QED  BY <2>1, <2>3, FS_Surjection
<1>5. IsFiniteSet(UNION Rows)
  <2>1. \A T \in Rows : IsFiniteSet(T)
    BY <1>4
  <2>. HIDE DEF Rows
  <2>. QED  BY <1>3, <2>1, FS_UNION
<1>6. Places = UNION Rows
  BY DEF Places
<1>7. ASSUME NEW place \in Places PROVE SymbolAt(place) \in Symbols
  <2>1. PICK id \in DOMAIN corpus : place \in At(id)
    BY <1>6
  <2>2. PICK p \in 1 .. Len(corpus[id]) : place = <<id, p>>
    BY <2>1
  <2>3. corpus[id] \in Seq(Symbols)
    BY <1>1
  <2>. QED  BY <2>2, <2>3 DEF SymbolAt
<1>. QED  BY <1>5, <1>6, <1>7 DEF Alphabet

(* The bound lies above the threshold, and as long as it admits what was   *)
(* paid, the budget left is positive.                                      *)
LEMMA BoundFacts ==
  ASSUME InputsOK, HasNextUp(threshold)
  PROVE  /\ Bound \in Cost
         /\ \A d \in Distance : Admits(d) => /\ d \in Cost
                                             /\ Residual(d) \in Cost
                                             /\ Residual(d) > 0
         /\ \A d, e \in Distance : d <= e /\ Admits(e) => Admits(d)
         /\ Distance \in SUBSET Nat
         /\ 0 \in Distance
<1>1. Bound \in Cost
  BY InputTypes, NextUpAssumption DEF Bound
<1>2. Distance \in SUBSET Nat /\ 0 \in Distance
  BY CostAssumption DEF Distance
<1>3. ASSUME NEW d \in Distance, Admits(d)
      PROVE  d \in Cost /\ Residual(d) \in Cost /\ Residual(d) > 0
  <2>1. d < Bound
    BY <1>3 DEF Admits
  <2>2. d # Infinity
    BY <1>1, <2>1, CostAssumption
  <2>3. d \in Cost
    BY <2>2 DEF Distance
  <2>. QED  BY <1>1, <2>1, <2>3, SubAssumption DEF Residual
<1>4. ASSUME NEW d \in Distance, NEW e \in Distance, d <= e, Admits(e) PROVE Admits(d)
  <2>1. d \in Nat /\ e \in Nat /\ Bound \in Nat
    BY <1>1, <1>2, CostAssumption
  <2>. QED  BY <1>4, <2>1 DEF Admits
<1>. QED  BY <1>1, <1>2, <1>3, <1>4

(* The cheapest way out of a neighborhood is a cost that the deletion      *)
(* bounds; it grows with the radius, and is the deletion where the radius  *)
(* takes in the whole alphabet.                                            *)
LEMMA OutsideFacts ==
  ASSUME InputsOK, NEW s \in Symbols, NEW r \in Nat
  PROVE  /\ OutsideCost(s, r) \in Cost
         /\ OutsideCost(s, r) <= Delete(s)
         /\ (\A c \in Alphabet : Substitute(s, c) <= r)
              => OutsideCost(s, r) = Delete(s)
         /\ \A q \in Nat : q <= r => OutsideCost(s, q) <= OutsideCost(s, r)
<1>. DEFINE Exits(q) ==
              {Delete(s)} \cup
                {Substitute(s, c) : c \in Alphabet \ Neighbors(s, q)}
<1>1. Delete(s) \in Cost /\ \A c \in Alphabet : Substitute(s, c) \in Cost
  BY InputTypes, PlacesAreFinite
<1>2. Cost \in SUBSET Nat
  BY CostAssumption
<1>3. ASSUME NEW q \in Nat
      PROVE  /\ Exits(q) \in SUBSET Cost
             /\ OutsideCost(s, q) \in Exits(q)
             /\ \A y \in Exits(q) : OutsideCost(s, q) <= y
  <2>1. Exits(q) \in SUBSET Cost /\ Exits(q) # {}
    BY <1>1
  <2>2. OutsideCost(s, q) = Min(Exits(q))
    BY DEF OutsideCost
  <2>. HIDE DEF Exits
  <2>. QED  BY <1>2, <2>1, <2>2, MinIsLeast
<1>4. OutsideCost(s, r) \in Cost /\ OutsideCost(s, r) <= Delete(s)
  BY <1>3
<1>5. ASSUME \A c \in Alphabet : Substitute(s, c) <= r
      PROVE  OutsideCost(s, r) = Delete(s)
  <2>1. Alphabet \ Neighbors(s, r) = {}
    BY <1>5 DEF Neighbors
  <2>2. Exits(r) = {Delete(s)}
    BY <2>1
  <2>. QED  BY <1>3, <2>2
<1>6. ASSUME NEW q \in Nat, q <= r PROVE OutsideCost(s, q) <= OutsideCost(s, r)
  <2>1. ASSUME NEW c \in Alphabet, Substitute(s, c) <= q PROVE Substitute(s, c) <= r
    <3>1. Substitute(s, c) \in Nat
      BY <1>1, <1>2
    <3>. QED  BY <1>6, <2>1, <3>1
  <2>2. Exits(r) \in SUBSET Exits(q)
    BY <2>1 DEF Neighbors
  <2>. QED  BY <1>3, <2>2
<1>. QED  BY <1>4, <1>5, <1>6

------------------------------------------------------------------------------
(* What RunningSum's recursive function computes: one addition for each    *)
(* position in S, in position order.                                       *)
Grows(amount, S, sum, i) ==
  sum[i] = IF i \in S THEN Add(sum[i - 1], amount[i]) ELSE sum[i - 1]

(* The running sums are defined by that recursion, and are distances.      *)
LEMMA RunningSumDefined ==
  ASSUME InputsOK, NEW amount \in [Positions -> Cost], NEW S \in SUBSET Positions
  PROVE  /\ RunningSum(amount, S) \in [0 .. Len(query) -> Distance]
         /\ RunningSum(amount, S)[0] = 0
         /\ \A i \in Positions : Grows(amount, S, RunningSum(amount, S), i)
<1>. DEFINE n == Len(query)
            Prefix(k) == {g \in [0 .. k -> Distance] :
                            g[0] = 0 /\ \A i \in 1 .. k : Grows(amount, S, g, i)}
            Reached == {k \in 0 .. n : Prefix(k) # {}}
            Recursive(g) == g = [i \in 0 .. n |-> IF i = 0 THEN 0
                                                  ELSE IF i \in S THEN Add(g[i - 1], amount[i])
                                                  ELSE g[i - 1]]
<1>1. n \in Nat
  BY InputTypes
<1>2. 0 \in Distance /\ Cost \in SUBSET Distance
  BY CostAssumption DEF Distance
<1>3. 0 \in Reached
  <2>1. [i \in 0 .. 0 |-> 0] \in Prefix(0)
    BY <1>2
  <2>. QED  BY <1>1, <2>1
<1>4. ASSUME NEW k \in Reached, k < n PROVE k + 1 \in Reached
  <2>1. PICK g \in [0 .. k -> Distance] :
                g[0] = 0 /\ \A i \in 1 .. k : Grows(amount, S, g, i)
    OBVIOUS
  <2>. DEFINE last == IF k + 1 \in S THEN Add(g[k], amount[k + 1]) ELSE g[k]
              h == [i \in 0 .. (k + 1) |-> IF i = k + 1 THEN last ELSE g[i]]
  <2>2. k \in Nat /\ k + 1 \in Positions
    BY <1>1, <1>4 DEF Positions
  <2>3. last \in Distance
    <3>1. g[k] \in Distance /\ amount[k + 1] \in Distance
      BY <1>2, <2>2
    <3>. QED  BY <3>1, AddAssumption
  <2>4. h \in [0 .. (k + 1) -> Distance] /\ h[0] = 0
    <3>. HIDE DEF last
    <3>. QED  BY <2>1, <2>2, <2>3
  <2>5. ASSUME NEW i \in 1 .. (k + 1) PROVE Grows(amount, S, h, i)
    <3>1. CASE i = k + 1
      <4>1. h[i] = last /\ h[i - 1] = g[k]
        BY <2>2, <3>1
      <4>. QED  BY <3>1, <4>1 DEF Grows
    <3>2. CASE i # k + 1
      <4>1. i \in 1 .. k /\ h[i] = g[i] /\ h[i - 1] = g[i - 1]
        BY <2>2, <3>2
      <4>. QED  BY <2>1, <4>1 DEF Grows
    <3>. QED  BY <3>1, <3>2
  <2>6. h \in Prefix(k + 1)
    <3>. HIDE DEF h
    <3>. QED  BY <2>4, <2>5
  <2>. QED  BY <1>1, <2>2, <2>6 DEF Positions
<1>5. n \in Reached
  <2>1. Reached = 0 .. n
    <3>1. Reached \in SUBSET (0 .. n)
      OBVIOUS
    <3>. HIDE DEF Reached
    <3>. QED  BY <1>1, <1>3, <1>4, <3>1, BoundedInduction
  <2>. QED  BY <1>1, <2>1
<1>6. \E g : Recursive(g)
  <2>1. PICK g \in [0 .. n -> Distance] :
                g[0] = 0 /\ \A i \in 1 .. n : Grows(amount, S, g, i)
    BY <1>5
  <2>2. \A i \in 0 .. n : g[i] = IF i = 0 THEN 0
                                  ELSE IF i \in S THEN Add(g[i - 1], amount[i])
                                  ELSE g[i - 1]
    BY <2>1 DEF Grows
  <2>3. Recursive(g)
    BY <2>2
  <2>. QED  BY <2>3
<1>7. Recursive(RunningSum(amount, S))
  <2>1. RunningSum(amount, S) = CHOOSE g : Recursive(g)
    BY DEF RunningSum
  <2>. HIDE DEF Recursive
  <2>. QED  BY <1>6, <2>1
<1>. DEFINE sum == RunningSum(amount, S)
<1>8. sum[0] = 0 /\ \A i \in Positions : Grows(amount, S, sum, i)
  <2>1. \A i \in 0 .. n : sum[i] = IF i = 0 THEN 0
                                    ELSE IF i \in S THEN Add(sum[i - 1], amount[i])
                                    ELSE sum[i - 1]
    <3>. HIDE DEF sum
    <3>. QED  BY <1>7 DEF sum
  <2>. QED  BY <1>1, <2>1 DEF Grows, Positions
<1>9. sum \in [0 .. n -> Distance]
  <2>. DEFINE Typed == {k \in 0 .. n : sum[k] \in Distance}
  <2>1. 0 \in Typed
    BY <1>1, <1>2, <1>8
  <2>2. ASSUME NEW k \in Typed, k < n PROVE k + 1 \in Typed
    <3>1. k + 1 \in Positions /\ k + 1 \in 0 .. n /\ (k + 1) - 1 = k
      BY <1>1, <2>2 DEF Positions
    <3>2. sum[k] \in Distance /\ amount[k + 1] \in Distance
      BY <1>2, <3>1
    <3>3. Grows(amount, S, sum, k + 1)
      BY <1>8, <3>1
    <3>4. sum[k + 1] \in Distance
      BY <3>1, <3>2, <3>3, AddAssumption DEF Grows
    <3>. QED  BY <3>1, <3>4
  <2>3. Typed = 0 .. n
    <3>1. Typed \in SUBSET (0 .. n)
      OBVIOUS
    <3>. HIDE DEF Typed
    <3>. QED  BY <1>1, <2>1, <2>2, <3>1, BoundedInduction
  <2>4. sum = [k \in 0 .. n |-> sum[k]]
    <3>. HIDE DEF sum
    <3>. QED  BY <1>7 DEF sum
  <2>. HIDE DEF sum
  <2>. QED  BY <2>3, <2>4
<1>. QED  BY <1>8, <1>9

(* A sum of costs is a distance: an overflowing one is the greatest.       *)
LEMMA SumType ==
  ASSUME InputsOK, NEW amount \in [Positions -> Cost], NEW S \in SUBSET Positions
  PROVE  SumOver(amount, S) \in Distance
<1>1. Len(query) \in 0 .. Len(query)
  BY InputTypes
<1>2. RunningSum(amount, S) \in [0 .. Len(query) -> Distance]
  BY RunningSumDefined
<1>. QED  BY <1>1, <1>2 DEF SumOver

(* Larger terms and more of them make no smaller sum, also after rounding. *)
LEMMA SumIsMonotone ==
  ASSUME InputsOK,
         NEW a \in [Positions -> Cost], NEW b \in [Positions -> Cost],
         NEW T \in SUBSET Positions, NEW S \in SUBSET T,
         \A i \in S : a[i] <= b[i]
  PROVE  SumOver(a, S) <= SumOver(b, T)
<1>. DEFINE n == Len(query)
            f == RunningSum(a, S)
            g == RunningSum(b, T)
            Ordered == {k \in 0 .. n : f[k] <= g[k]}
<1>1. n \in Nat
  BY InputTypes
<1>2. S \in SUBSET Positions
  OBVIOUS
<1>3. /\ f \in [0 .. n -> Distance] /\ g \in [0 .. n -> Distance]
      /\ f[0] = 0 /\ g[0] = 0
      /\ \A i \in Positions : Grows(a, S, f, i) /\ Grows(b, T, g, i)
  BY <1>2, RunningSumDefined
<1>4. Distance \in SUBSET Nat /\ Cost \in SUBSET Distance /\ 0 \in Distance
  BY CostAssumption DEF Distance
<1>. HIDE DEF f, g
<1>5. 0 \in Ordered
  BY <1>1, <1>3
<1>6. ASSUME NEW k \in Ordered, k < n PROVE k + 1 \in Ordered
  <2>1. k + 1 \in Positions /\ k + 1 \in 0 .. n /\ (k + 1) - 1 = k /\ k \in 0 .. n
    BY <1>1, <1>6 DEF Positions
  <2>2. f[k] \in Distance /\ g[k] \in Distance /\ f[k] <= g[k]
    BY <1>3, <2>1
  <2>3. a[k + 1] \in Distance /\ b[k + 1] \in Distance
    BY <1>4, <2>1
  <2>4. Grows(a, S, f, k + 1) /\ Grows(b, T, g, k + 1)
    BY <1>3, <2>1
  <2>5. CASE k + 1 \in S
    <3>1. a[k + 1] <= b[k + 1] /\ k + 1 \in T
      BY <2>5
    <3>2. Add(f[k], a[k + 1]) <= Add(g[k], a[k + 1])
      BY <2>2, <2>3, AddAssumption
    <3>3. Add(g[k], a[k + 1]) <= Add(g[k], b[k + 1])
      BY <2>2, <2>3, <3>1, AddAssumption
    <3>4. /\ Add(f[k], a[k + 1]) \in Nat
          /\ Add(g[k], a[k + 1]) \in Nat
          /\ Add(g[k], b[k + 1]) \in Nat
      BY <1>4, <2>2, <2>3, AddAssumption
    <3>5. f[k + 1] = Add(f[k], a[k + 1]) /\ g[k + 1] = Add(g[k], b[k + 1])
      BY <2>1, <2>4, <2>5, <3>1 DEF Grows
    <3>. QED  BY <2>1, <3>2, <3>3, <3>4, <3>5
  <2>6. CASE k + 1 \notin S /\ k + 1 \in T
    <3>1. Add(g[k], 0) <= Add(g[k], b[k + 1]) /\ Add(g[k], 0) = g[k]
      <4>1. b[k + 1] \in Nat
        BY <1>4, <2>3
      <4>2. 0 <= b[k + 1] /\ 0 \in Distance
        BY <1>4, <4>1
      <4>. QED  BY <2>2, <2>3, <4>2, AddAssumption
    <3>2. f[k] \in Nat /\ g[k] \in Nat /\ Add(g[k], b[k + 1]) \in Nat
      BY <1>4, <2>2, <2>3, AddAssumption
    <3>3. f[k + 1] = f[k] /\ g[k + 1] = Add(g[k], b[k + 1])
      BY <2>1, <2>4, <2>6 DEF Grows
    <3>. QED  BY <2>1, <2>2, <3>1, <3>2, <3>3
  <2>7. CASE k + 1 \notin T
    <3>1. f[k + 1] = f[k] /\ g[k + 1] = g[k]
      BY <2>1, <2>4, <2>7 DEF Grows
    <3>. QED  BY <2>1, <2>2, <3>1
  <2>. QED  BY <2>5, <2>6, <2>7
<1>7. Ordered = 0 .. n
  <2>1. Ordered \in SUBSET (0 .. n)
    OBVIOUS
  <2>. HIDE DEF Ordered
  <2>. QED  BY <1>1, <1>5, <1>6, <2>1, BoundedInduction
<1>8. f[n] <= g[n]
  BY <1>1, <1>7
<1>. QED  BY <1>8 DEF f, g, SumOver

(* Positions that cost nothing do not change a sum. *)
LEMMA SumIgnoresZeros ==
  ASSUME InputsOK, NEW a \in [Positions -> Cost],
         NEW T \in SUBSET Positions, NEW S \in SUBSET T,
         \A i \in T \ S : a[i] = 0
  PROVE  SumOver(a, T) = SumOver(a, S)
<1>. DEFINE n == Len(query)
            f == RunningSum(a, S)
            g == RunningSum(a, T)
            Equal == {k \in 0 .. n : f[k] = g[k]}
<1>1. n \in Nat
  BY InputTypes
<1>2. S \in SUBSET Positions
  OBVIOUS
<1>3. /\ f \in [0 .. n -> Distance] /\ g \in [0 .. n -> Distance]
      /\ f[0] = 0 /\ g[0] = 0
      /\ \A i \in Positions : Grows(a, S, f, i) /\ Grows(a, T, g, i)
  BY <1>2, RunningSumDefined
<1>. HIDE DEF f, g
<1>4. 0 \in Equal
  BY <1>1, <1>3
<1>5. ASSUME NEW k \in Equal, k < n PROVE k + 1 \in Equal
  <2>1. k + 1 \in Positions /\ k + 1 \in 0 .. n /\ (k + 1) - 1 = k /\ k \in 0 .. n
    BY <1>1, <1>5 DEF Positions
  <2>2. g[k] \in Distance /\ f[k] = g[k]
    BY <1>3, <2>1
  <2>3. Grows(a, S, f, k + 1) /\ Grows(a, T, g, k + 1)
    BY <1>3, <2>1
  <2>4. CASE k + 1 \in T \ S
    <3>1. Add(g[k], a[k + 1]) = g[k]
      BY <2>2, <2>4, AddAssumption
    <3>. QED  BY <2>1, <2>2, <2>3, <2>4, <3>1 DEF Grows
  <2>5. CASE k + 1 \notin T \ S
    BY <2>1, <2>2, <2>3, <2>5 DEF Grows
  <2>. QED  BY <2>4, <2>5
<1>6. Equal = 0 .. n
  <2>1. Equal \in SUBSET (0 .. n)
    OBVIOUS
  <2>. HIDE DEF Equal
  <2>. QED  BY <1>1, <1>4, <1>5, <2>1, BoundedInduction
<1>7. f[n] = g[n]
  BY <1>1, <1>6
<1>. QED  BY <1>7 DEF f, g, SumOver

(* The sum of no costs is zero, the total a selection starts with.         *)
LEMMA SumOfNothing ==
  ASSUME InputsOK, NEW a \in [Positions -> Cost]
  PROVE  SumOver(a, {}) = 0
<1>. DEFINE n == Len(query)
            f == RunningSum(a, {})
            Zero == {k \in 0 .. n : f[k] = 0}
<1>1. n \in Nat
  BY InputTypes
<1>2. f[0] = 0 /\ \A i \in Positions : Grows(a, {}, f, i)
  BY RunningSumDefined
<1>. HIDE DEF f
<1>3. 0 \in Zero
  BY <1>1, <1>2
<1>4. ASSUME NEW k \in Zero, k < n PROVE k + 1 \in Zero
  <2>1. k + 1 \in Positions /\ k + 1 \in 0 .. n /\ (k + 1) - 1 = k
    BY <1>1, <1>4 DEF Positions
  <2>. QED  BY <1>2, <2>1 DEF Grows
<1>5. Zero = 0 .. n
  <2>1. Zero \in SUBSET (0 .. n)
    OBVIOUS
  <2>. HIDE DEF Zero
  <2>. QED  BY <1>1, <1>3, <1>4, <2>1, BoundedInduction
<1>6. f[n] = 0
  BY <1>1, <1>5
<1>. QED  BY <1>6 DEF f, SumOver

------------------------------------------------------------------------------
(* The contributions at a radius: they grow with it, up to the deletions.  *)
LEMMA ContributionFacts ==
  ASSUME InputsOK, NEW r \in Nat
  PROVE  /\ ContributionsAt(r) \in [Positions -> Cost]
         /\ Deletions \in [Positions -> Cost]
         /\ \A q \in Nat : q <= r =>
               \A i \in Positions : ContributionsAt(q)[i] <= ContributionsAt(r)[i]
         /\ (\A i \in Positions, c \in Alphabet : Substitute(query[i], c) <= r)
              => ContributionsAt(r) = Deletions
<1>1. \A i \in Positions : query[i] \in Symbols /\ Delete(query[i]) \in Cost
  BY InputTypes
<1>2. Deletions \in [Positions -> Cost]
  BY <1>1 DEF Deletions
<1>3. ContributionsAt(r) \in [Positions -> Cost]
  BY <1>1, OutsideFacts DEF ContributionsAt
<1>4. ASSUME NEW q \in Nat, q <= r, NEW i \in Positions
      PROVE  ContributionsAt(q)[i] <= ContributionsAt(r)[i]
  <2>1. OutsideCost(query[i], q) <= OutsideCost(query[i], r)
    BY <1>1, <1>4, OutsideFacts
  <2>. QED  BY <2>1 DEF ContributionsAt
<1>5. ASSUME \A i \in Positions, c \in Alphabet : Substitute(query[i], c) <= r
      PROVE  ContributionsAt(r) = Deletions
  <2>1. \A i \in Positions : OutsideCost(query[i], r) = Delete(query[i])
    BY <1>1, <1>5, OutsideFacts
  <2>. QED  BY <2>1 DEF ContributionsAt, Deletions
<1>. QED  BY <1>2, <1>3, <1>4, <1>5

(* No selection succeeds at radius r: all contributions are still admitted. *)
Fails(r) == Admits(SumOver(ContributionsAt(r), Positions))

(* Where selection cannot succeed at a radius, it cannot at a narrower one:*)
(* the monotonicity the binary search over radii rests on.                 *)
LEMMA FailsBelow ==
  ASSUME InputsOK, HasNextUp(threshold), NEW r \in Nat, Fails(r), NEW q \in Nat, q <= r
  PROVE  Fails(q)
<1>1. /\ ContributionsAt(q) \in [Positions -> Cost]
      /\ ContributionsAt(r) \in [Positions -> Cost]
      /\ \A i \in Positions : ContributionsAt(q)[i] <= ContributionsAt(r)[i]
  BY ContributionFacts
<1>2. SumOver(ContributionsAt(q), Positions) <= SumOver(ContributionsAt(r), Positions)
  BY <1>1, SumIsMonotone
<1>3. /\ SumOver(ContributionsAt(q), Positions) \in Distance
      /\ SumOver(ContributionsAt(r), Positions) \in Distance
  BY <1>1, SumType
<1>. QED  BY <1>2, <1>3, BoundFacts DEF Fails

(* The wider radii are listed strictly ascending, all above the derived    *)
(* one, and every substitution cost of the query is the derived radius or  *)
(* below, or listed.                                                       *)
LEMMA RadiiFacts ==
  ASSUME InputsOK
  PROVE  /\ Eta \in Cost
         /\ SortedRadii \in Seq(WiderRadii)
         /\ WiderRadii \in SUBSET Cost
         /\ Len(SortedRadii) \in Nat
         /\ \A i \in 1 .. Len(SortedRadii) : SortedRadii[i] \in Cost /\ SortedRadii[i] > Eta
         /\ \A i, j \in 1 .. Len(SortedRadii) : i < j => SortedRadii[i] < SortedRadii[j]
         /\ \A i \in Positions, c \in Alphabet :
               \/ Substitute(query[i], c) <= Eta
               \/ \E k \in 1 .. Len(SortedRadii) : SortedRadii[k] = Substitute(query[i], c)
<1>1. Cost \in SUBSET Nat /\ MaxCost \in Nat /\ \A c \in Cost : c <= MaxCost
  BY CostAssumption
<1>2. Eta \in Cost
  <2>1. threshold \in Thresholds /\ query \in Queries
    BY DEF InputsOK
  <2>2. CASE query = <<>>
    BY <2>2, CostAssumption DEF Eta
  <2>3. CASE query # <<>>
    BY <2>1, <2>3, InputsAssumption DEF Eta
  <2>. QED  BY <2>2, <2>3
<1>3. \A i \in Positions, c \in Alphabet : Substitute(query[i], c) \in Cost
  BY InputTypes, PlacesAreFinite
<1>4. WiderRadii \in SUBSET Cost
  BY <1>3 DEF WiderRadii
<1>5. WiderRadii \in SUBSET Nat /\ IsFiniteSet(WiderRadii)
  BY <1>1, <1>4, FS_BoundedSetOfNaturals
<1>6. /\ SortedRadii \in Seq(WiderRadii)
      /\ Len(SortedRadii) \in Nat
      /\ \A i, j \in 1 .. Len(SortedRadii) : i < j => SortedRadii[i] < SortedRadii[j]
      /\ \A x \in WiderRadii : \E i \in 1 .. Len(SortedRadii) : SortedRadii[i] = x
  <2>1. SortedRadii \in Seq(WiderRadii)
    BY <1>5, AscendingIsSorted DEF SortedRadii
  <2>2. Len(SortedRadii) \in Nat
    BY <2>1
  <2>. QED  BY <1>5, <2>1, <2>2, AscendingIsSorted DEF SortedRadii
<1>7. ASSUME NEW i \in 1 .. Len(SortedRadii)
      PROVE  SortedRadii[i] \in Cost /\ SortedRadii[i] > Eta
  <2>1. SortedRadii[i] \in WiderRadii
    BY <1>6
  <2>2. SortedRadii[i] \in Cost /\ SortedRadii[i] \notin 0 .. Eta
    BY <1>4, <2>1 DEF WiderRadii
  <2>3. SortedRadii[i] \in Nat /\ Eta \in Nat
    BY <1>1, <1>2, <2>2
  <2>. QED  BY <2>2, <2>3
<1>8. ASSUME NEW i \in Positions, NEW c \in Alphabet, ~(Substitute(query[i], c) <= Eta)
      PROVE  \E k \in 1 .. Len(SortedRadii) : SortedRadii[k] = Substitute(query[i], c)
  <2>1. Substitute(query[i], c) \notin 0 .. Eta
    BY <1>1, <1>2, <1>3, <1>8
  <2>2. Substitute(query[i], c) \in WiderRadii
    BY <2>1 DEF WiderRadii
  <2>. QED  BY <1>6, <2>2
<1>. QED  BY <1>2, <1>4, <1>6, <1>7, <1>8

(* The radius selection was last tried at when the k narrowest wider radii *)
(* are ruled out.                                                          *)
Tried(k) == IF k = 0 THEN Eta ELSE SortedRadii[k]

(* Between two consecutive radii nothing changes, so when selection failed *)
(* at the k-th it fails at every radius below the next, and at every       *)
(* radius when there is no next.                                           *)
LEMMA FailsUpToNext ==
  ASSUME InputsOK, HasNextUp(threshold),
         NEW k \in 0 .. Len(SortedRadii), Fails(Tried(k)),
         NEW r \in Nat, k < Len(SortedRadii) => r < SortedRadii[k + 1]
  PROVE  Fails(r)
<1>1. /\ Len(SortedRadii) \in Nat
      /\ Cost \in SUBSET Nat
      /\ Tried(k) \in Nat
  <2>1. Len(SortedRadii) \in Nat /\ Cost \in SUBSET Nat
    BY RadiiFacts, CostAssumption
  <2>2. CASE k = 0
    <3>1. Eta \in Cost
      BY RadiiFacts
    <3>. QED  BY <2>1, <2>2, <3>1 DEF Tried
  <2>3. CASE k # 0
    <3>1. k \in 1 .. Len(SortedRadii)
      BY <2>1, <2>3
    <3>2. SortedRadii[k] \in Cost
      BY <3>1, RadiiFacts
    <3>. QED  BY <2>1, <2>3, <3>2 DEF Tried
  <2>. QED  BY <2>1, <2>2, <2>3
<1>4. Eta \in Nat /\ Eta <= Tried(k)
  <2>1. Eta \in Nat
    BY <1>1, RadiiFacts
  <2>2. CASE k = 0
    BY <2>1, <2>2 DEF Tried
  <2>3. CASE k # 0
    <3>1. k \in 1 .. Len(SortedRadii)
      BY <1>1, <2>3
    <3>2. SortedRadii[k] > Eta
      BY <3>1, RadiiFacts
    <3>. QED  BY <1>1, <2>1, <2>3, <3>2 DEF Tried
  <2>. QED  BY <2>1, <2>2, <2>3
<1>2. CASE r <= Tried(k)
  BY <1>1, <1>2, FailsBelow
<1>3. CASE ~(r <= Tried(k))
  <2>1. ASSUME NEW i \in Positions, NEW c \in Alphabet, Substitute(query[i], c) <= r
        PROVE  Substitute(query[i], c) <= Tried(k)
    <3>1. Substitute(query[i], c) \in Nat
      BY <1>1, InputTypes, PlacesAreFinite
    <3>2. CASE Substitute(query[i], c) <= Eta
      BY <1>1, <1>4, <3>1, <3>2
    <3>3. CASE \E j \in 1 .. Len(SortedRadii) : SortedRadii[j] = Substitute(query[i], c)
      <4>1. PICK j \in 1 .. Len(SortedRadii) : SortedRadii[j] = Substitute(query[i], c)
        BY <3>3
      <4>2. j <= k
        <5>1. SUFFICES ASSUME j > k PROVE FALSE
          BY <1>1
        <5>2. k < Len(SortedRadii) /\ k + 1 \in 1 .. Len(SortedRadii)
          BY <1>1, <5>1
        <5>3. SortedRadii[k + 1] <= SortedRadii[j]
          <6>1. k + 1 = j \/ k + 1 < j
            BY <5>1
          <6>2. SortedRadii[k + 1] \in Nat /\ SortedRadii[j] \in Nat
            BY <1>1, <5>2, RadiiFacts
          <6>. QED  BY <5>2, <6>1, <6>2, RadiiFacts
        <5>4. SortedRadii[k + 1] \in Nat
          BY <1>1, <5>2, RadiiFacts
        <5>. QED  BY <2>1, <3>1, <4>1, <5>2, <5>3, <5>4
      <4>3. SortedRadii[j] <= SortedRadii[k] /\ k # 0 /\ SortedRadii[k] \in Nat
        <5>1. k \in 1 .. Len(SortedRadii) /\ (j = k \/ j < k)
          BY <1>1, <4>2
        <5>2. SortedRadii[k] \in Nat /\ SortedRadii[j] \in Nat
          BY <1>1, <5>1, RadiiFacts
        <5>. QED  BY <5>1, <5>2, RadiiFacts
      <4>. QED  BY <4>1, <4>3 DEF Tried
    <3>. QED  BY <3>2, <3>3, RadiiFacts
  <2>2. ASSUME NEW i \in Positions
        PROVE  Neighbors(query[i], r) = Neighbors(query[i], Tried(k))
    <3>1. ASSUME NEW c \in Alphabet
          PROVE  Substitute(query[i], c) <= r <=> Substitute(query[i], c) <= Tried(k)
      <4>1. Substitute(query[i], c) \in Nat
        BY <1>1, InputTypes, PlacesAreFinite
      <4>. QED  BY <1>1, <1>3, <2>1, <4>1
    <3>. QED  BY <3>1 DEF Neighbors
  <2>3. ContributionsAt(r) = ContributionsAt(Tried(k))
    BY <2>2 DEF ContributionsAt, OutsideCost
  <2>. QED  BY <2>3 DEF Fails
<1>. QED  BY <1>2, <1>3

(* Where selection fails at the widest radius, and so at every one, the    *)
(* bound admits the deletion of the whole query.                           *)
LEMMA FailsEverywhere ==
  ASSUME InputsOK, HasNextUp(threshold), Fails(Tried(Len(SortedRadii)))
  PROVE  ~AnyRadiusCanSelect
<1>1. Fails(MaxCost)
  BY FailsUpToNext, RadiiFacts, CostAssumption
<1>2. \A i \in Positions, c \in Alphabet : Substitute(query[i], c) <= MaxCost
  BY InputTypes, PlacesAreFinite, CostAssumption
<1>3. ContributionsAt(MaxCost) = Deletions
  BY <1>2, ContributionFacts, CostAssumption
<1>. QED  BY <1>1, <1>3 DEF Fails, AnyRadiusCanSelect

------------------------------------------------------------------------------
(* One round of selection. *)
LEMMA RoundFacts ==
  ASSUME InputsOK, HasNextUp(threshold), radius \in Cost, total \in Distance, Admits(total)
  PROVE  \A i \in Positions : /\ Contribution(i) \in Cost
                              /\ Gain(i) \in Nat
                              /\ Gain(i) <= Contribution(i)
                              /\ Gain(i) = 0 => Contribution(i) = 0
<1>1. radius \in Nat /\ Cost \in SUBSET Nat
  BY CostAssumption
<1>2. Residual(total) \in Cost /\ Residual(total) > 0
  BY BoundFacts
<1>. SUFFICES ASSUME NEW i \in Positions
              PROVE  /\ Contribution(i) \in Cost
                     /\ Gain(i) \in Nat
                     /\ Gain(i) <= Contribution(i)
                     /\ Gain(i) = 0 => Contribution(i) = 0
  OBVIOUS
<1>3. Contribution(i) \in Cost
  BY <1>1, InputTypes, OutsideFacts DEF Contribution
<1>4. /\ Gain(i) \in {Contribution(i), Residual(total)}
      /\ Gain(i) <= Contribution(i)
  <2>. DEFINE Terms == {Contribution(i), Residual(total)}
  <2>1. Terms \in SUBSET Nat /\ Terms # {}
    BY <1>1, <1>2, <1>3
  <2>2. Gain(i) = Min(Terms) /\ Contribution(i) \in Terms
    BY DEF Gain
  <2>3. Gain(i) \in Terms /\ \A y \in Terms : Gain(i) <= y
    <3>. HIDE DEF Terms
    <3>. QED  BY <2>1, <2>2, MinIsLeast
  <2>. QED  BY <2>2, <2>3
<1>5. Contribution(i) \in Nat /\ Residual(total) \in Nat
  BY <1>1, <1>2, <1>3
<1>. QED  BY <1>2, <1>3, <1>4, <1>5

(* Where no position is left to gain from, the positions not selected      *)
(* contribute nothing, so no selection succeeds at this radius.            *)
LEMMA NothingUsefulMeansFails ==
  ASSUME InputsOK, HasNextUp(threshold), radius \in Cost, total \in Distance,
         picked \in Seq(Positions),
         total = SumOver(ContributionsAt(radius), Selected), Admits(total), Useful = {}
  PROVE  Fails(radius)
<1>1. Selected \in SUBSET Positions
  BY DEF Selected, Range
<1>2. ASSUME NEW i \in Positions \ Selected PROVE ContributionsAt(radius)[i] = 0
  <2>1. ~(Gain(i) > 0)
    BY <1>2 DEF Useful, Open
  <2>2. Contribution(i) = 0
    BY <2>1, RoundFacts
  <2>. QED  BY <2>2 DEF Contribution, ContributionsAt
<1>3. ContributionsAt(radius) \in [Positions -> Cost]
  BY ContributionFacts, CostAssumption
<1>4. SumOver(ContributionsAt(radius), Positions) = total
  BY <1>1, <1>2, <1>3, SumIgnoresZeros
<1>. QED  BY <1>4 DEF Fails

(* Candidate counts are natural numbers.                                   *)
LEMMA CountsAreNatural ==
  ASSUME InputsOK
  PROVE  \A i \in Positions : CandidateCount(i) \in Nat
<1>. SUFFICES ASSUME NEW i \in Positions PROVE CandidateCount(i) \in Nat
  OBVIOUS
<1>1. Occurrences(i) \in SUBSET Places
  BY DEF Occurrences
<1>2. IsFiniteSet(Occurrences(i))
  BY <1>1, PlacesAreFinite, FS_Subset
<1>3. Cardinality(Occurrences(i)) \in Nat
  BY <1>2, FS_CardinalityType
<1>. QED  BY <1>3, ScaleAssumption DEF CandidateCount

(* The position that is picked is useful, and what is paid stays a number. *)
LEMMA PickFacts ==
  ASSUME InputsOK, HasNextUp(threshold), radius \in Cost, total \in Distance,
         Admits(total), Useful # {}, paid \in [Positions -> Nat]
  PROVE  /\ Cheapest \in Useful
         /\ \A i \in Useful : Value(Cheapest) <= Value(i)
         /\ Useful \in SUBSET Positions
         /\ \A i \in Useful : Value(i) \in Nat /\ Gain(i) \in Nat
<1>1. Useful \in SUBSET Positions
  BY DEF Useful, Open
<1>2. ASSUME NEW i \in Useful PROVE Value(i) \in Nat /\ Gain(i) \in Nat
  <2>1. Gain(i) \in Nat /\ Gain(i) > 0
    BY <1>1, RoundFacts DEF Useful
  <2>2. Unpaid(i) \in Nat
    BY <1>1, CountsAreNatural DEF Unpaid
  <2>. QED  BY <2>1, <2>2 DEF Value
<1>. DEFINE value == [i \in Useful |-> Value(i)]
            Values == {value[i] : i \in Useful}
            Best == {i \in Useful : \A j \in Useful : value[i] <= value[j]}
<1>3. Best # {}
  <2>1. Values \in SUBSET Nat /\ Values # {}
    BY <1>2
  <2>2. PICK v \in Values : \A w \in Values : v <= w
    <3>. HIDE DEF Values
    <3>. QED  BY <2>1, LeastNatural
  <2>. QED  BY <2>2
<1>4. Cheapest \in Best
  <2>1. Best \in SUBSET Nat
    <3>1. \A i \in Positions : i \in Nat
      BY InputTypes DEF Positions
    <3>. QED  BY <1>1, <3>1
  <2>2. Cheapest = Min(Best)
    BY DEF Cheapest
  <2>. HIDE DEF Best
  <2>. QED  BY <1>3, <2>1, <2>2, MinIsLeast
<1>5. \A i \in Useful : Value(Cheapest) <= Value(i)
  BY <1>4
<1>. QED  BY <1>1, <1>2, <1>4, <1>5

------------------------------------------------------------------------------
(***************************************************************************)
(* 2. Position selection.                                                  *)
(***************************************************************************)

(* The inductive invariant.  Widens says that the derived radius has failed *)
(* and the binary search is under way.                                     *)
Widens == stage = "widening" \/ (stage = "selecting" /\ radius # Eta)

(* A bound exists, and leaves the deletions of the whole query outside.    *)
Admissible ==
  /\ stage \notin {"checking", "invalid"} => HasNextUp(threshold)
  /\ stage \in {"selecting", "widening", "counting"} => AnyRadiusCanSelect

(* The total is the sum of the selected contributions in position order.   *)
TotalIsOrdered ==
  /\ stage = "selecting" => total = SumOver(ContributionsAt(radius), Range(picked))
  /\ IsInjective(picked)

(* Selection fails at the radii below the range of the binary search, and  *)
(* the last success is the radius just above it.                           *)
RangeIsSettledOutside ==
  Widens => /\ radii = SortedRadii
            /\ low <= high
            /\ high <= Len(radii)
            /\ Fails(Tried(low))
            /\ ~chosen.found => high = Len(radii)
            /\ chosen.found => high < Len(radii) /\ chosen.radius = radii[high + 1]

SelectsAtMiddle ==
  /\ stage = "selecting" /\ radius # Eta => low < high /\ radius = radii[Middle + 1]
  /\ stage = "checking" \/ (stage = "selecting" /\ radius = Eta) => ~chosen.found
  /\ stage = "counting" => chosen.found

SelectionInv ==
  /\ SelectionTypeOK
  /\ Admissible
  /\ TotalIsOrdered
  /\ RangeIsSettledOutside
  /\ SelectsAtMiddle
  /\ ChosenLeavesBound
  /\ AdjustedRadiusIsNarrowest
  /\ UnavailableOnlyIfDeletionsAdmitted

(* The inputs never change, and so nothing that is read off them does.     *)
LEMMA InputsFixed ==
  ASSUME UNCHANGED inputs
  PROVE  /\ InputsOK' = InputsOK
         /\ Positions' = Positions
         /\ Places' = Places
         /\ Alphabet' = Alphabet
         /\ Eta' = Eta
         /\ HasNextUp(threshold)' = HasNextUp(threshold)
BY DEF inputs, InputsOK, Positions, Places, Alphabet, SymbolAt, Eta, HasNextUp

(* Neither do the sums over positions.                                     *)
LEMMA SumsFixed ==
  ASSUME UNCHANGED inputs, NEW amount, NEW S
  PROVE  SumOver(amount, S)' = SumOver(amount, S)
BY DEF inputs, SumOver, RunningSum

(* Nor the way out of a neighborhood.                                      *)
LEMMA OutsideFixed ==
  ASSUME UNCHANGED inputs, NEW s, NEW r
  PROVE  OutsideCost(s, r)' = OutsideCost(s, r)
<1>1. costs' = costs /\ Alphabet' = Alphabet
  BY InputsFixed DEF inputs
<1>. DEFINE W == {Delete(s)} \cup {Substitute(s, c) : c \in Alphabet \ Neighbors(s, r)}
<1>2. W' = W
  BY <1>1 DEF Neighbors, Delete, Substitute
<1>3. OutsideCost(s, r) = Min(W) /\ OutsideCost(s, r)' = Min(W)'
  BY DEF OutsideCost
<1>. HIDE DEF W
<1>. QED  BY <1>2, <1>3

(* Nor the contributions at a radius.                                      *)
LEMMA ContributionsFixed ==
  ASSUME UNCHANGED inputs, NEW r
  PROVE  ContributionsAt(r)' = ContributionsAt(r)
BY InputsFixed, OutsideFixed DEF inputs, ContributionsAt

(* Nor what the bound admits.                                              *)
LEMMA AdmitsFixed ==
  ASSUME UNCHANGED inputs, NEW d
  PROVE  Admits(d)' = Admits(d)
BY DEF inputs, Admits, Bound

(* Nor the radii selection fails at.                                       *)
LEMMA FailsFixed ==
  ASSUME UNCHANGED inputs, NEW r
  PROVE  Fails(r)' = Fails(r)
BY InputsFixed, SumsFixed, ContributionsFixed, AdmitsFixed DEF Fails

(* Nor the radii the binary search goes over.                              *)
LEMMA RadiiFixed ==
  ASSUME UNCHANGED inputs
  PROVE  /\ SortedRadii' = SortedRadii
         /\ \A k : Tried(k)' = Tried(k)
<1>1. WiderRadii' = WiderRadii
  BY InputsFixed DEF inputs, WiderRadii, Substitute
<1>2. SortedRadii' = SortedRadii
  BY <1>1 DEF SortedRadii, Ascending, SortedBy
<1>. QED  BY <1>2, InputsFixed DEF Tried

(* Nor whether the bound admits deleting the whole query.                  *)
LEMMA DeletionsFixed ==
  ASSUME UNCHANGED inputs
  PROVE  /\ AnyRadiusCanSelect' = AnyRadiusCanSelect
         /\ Admits(SumOver(Deletions, Positions))' = Admits(SumOver(Deletions, Positions))
<1>1. Deletions' = Deletions
  BY InputsFixed DEF inputs, Deletions, Delete
<1>2. Admits(SumOver(Deletions, Positions))' = Admits(SumOver(Deletions, Positions))
  BY <1>1, InputsFixed, SumsFixed, AdmitsFixed
<1>. QED  BY <1>2 DEF AnyRadiusCanSelect

------------------------------------------------------------------------------
(* The invariant holds before filtering starts.                            *)
LEMMA InitialState ==
  ASSUME SelectionInit
  PROVE  SelectionInv
<1>1. InputsOK
  BY DEF SelectionInit, InputsInit, InputsOK
<1>2. SelectionTypeOK
  <2>1. 0 \in Cost /\ 0 \in Distance
    BY CostAssumption DEF Distance
  <2>2. <<>> \in Seq(Positions) /\ <<>> \in Seq(Cost)
    OBVIOUS
  <2>. QED  BY <1>1, <2>1, <2>2
            DEF SelectionInit, InputsInit, SelectionTypeOK, SelectionStages, NotFound
<1>3. /\ stage = "checking"
      /\ picked = <<>>
      /\ chosen = NotFound
  BY DEF SelectionInit
<1>4. IsInjective(picked)
  BY <1>3 DEF IsInjective
<1>. QED  BY <1>2, <1>3, <1>4 DEF SelectionInv, Admissible, TotalIsOrdered,
          RangeIsSettledOutside, Widens, SelectsAtMiddle, ChosenLeavesBound,
          AdjustedRadiusIsNarrowest, UnavailableOnlyIfDeletionsAdmitted, NotFound

(* The steps that end a search change the stage only. *)
LEMMA EndingSteps ==
  ASSUME SelectionInv, RejectThreshold \/ Decline
  PROVE  SelectionInv'
<1>1. /\ UNCHANGED <<inputs, candidates, radius, paid, picked, total, radii, low, high, chosen>>
      /\ stage = "checking"
      /\ stage' \in {"invalid", "unavailable"}
      /\ stage' = "unavailable" => HasNextUp(threshold) /\ ~AnyRadiusCanSelect
  BY DEF RejectThreshold, Decline
<1>2. UNCHANGED inputs
  BY <1>1
<1>3. SelectionTypeOK'
  BY <1>1, <1>2, InputsFixed DEF SelectionInv, SelectionTypeOK, SelectionStages
<1>4. Admissible'
  BY <1>1, <1>2, InputsFixed DEF Admissible
<1>5. TotalIsOrdered'
  BY <1>1 DEF SelectionInv, TotalIsOrdered
<1>6. RangeIsSettledOutside' /\ SelectsAtMiddle' /\ ChosenLeavesBound'
  <2>1. ~chosen.found
    BY <1>1 DEF SelectionInv, SelectsAtMiddle
  <2>. QED  BY <1>1, <2>1 DEF RangeIsSettledOutside, Widens, SelectsAtMiddle, ChosenLeavesBound
<1>7. AdjustedRadiusIsNarrowest' /\ UnavailableOnlyIfDeletionsAdmitted'
  BY <1>1, <1>2, DeletionsFixed
     DEF AdjustedRadiusIsNarrowest, UnavailableOnlyIfDeletionsAdmitted, AnyRadiusCanSelect
<1>. QED  BY <1>3, <1>4, <1>5, <1>6, <1>7 DEF SelectionInv

(* A selection starts with nothing selected and nothing paid. *)
LEMMA StartFacts ==
  ASSUME SelectionTypeOK, UNCHANGED <<inputs, candidates, radii, low, high, chosen>>,
         NEW r \in Cost, Start(r)
  PROVE  SelectionTypeOK' /\ TotalIsOrdered'
<1>1. UNCHANGED inputs
  OBVIOUS
<1>2. InputsOK
  BY DEF SelectionTypeOK
<1>3. /\ stage' = "selecting" /\ radius' = r /\ picked' = <<>> /\ total' = 0
      /\ paid' = [i \in Positions |-> 0]
  BY DEF Start
<1>4. SelectionTypeOK'
  <2>1. 0 \in Distance /\ <<>> \in Seq(Positions)
    BY CostAssumption DEF Distance
  <2>2. paid' \in [Positions -> Nat]
    BY <1>3
  <2>. QED  BY <1>1, <1>3, <2>1, <2>2, InputsFixed DEF SelectionTypeOK, SelectionStages
<1>5. TotalIsOrdered'
  <2>1. ContributionsAt(r) \in [Positions -> Cost]
    BY <1>2, ContributionFacts, CostAssumption
  <2>2. SumOver(ContributionsAt(r), {}) = 0
    BY <1>2, <2>1, SumOfNothing
  <2>3. Range(picked') = {} /\ IsInjective(picked')
    BY <1>3 DEF Range, IsInjective
  <2>4. SumOver(ContributionsAt(radius), Range(picked))'
          = SumOver(ContributionsAt(radius'), Range(picked'))
    BY <1>1, SumsFixed, ContributionsFixed DEF Range
  <2>. QED  BY <1>3, <2>2, <2>3, <2>4 DEF TotalIsOrdered, IsInjective
<1>. QED  BY <1>4, <1>5

(* The first selection runs at the derived radius, a cost.                 *)
LEMMA StartAtDerivedRadiusStep ==
  ASSUME SelectionInv, StartAtDerivedRadius
  PROVE  SelectionInv'
<1>1. /\ UNCHANGED <<inputs, candidates, radii, low, high, chosen>>
      /\ UNCHANGED inputs
      /\ stage = "checking" /\ stage' = "selecting" /\ radius' = Eta
      /\ HasNextUp(threshold) /\ AnyRadiusCanSelect
      /\ Start(Eta)
  BY DEF StartAtDerivedRadius, Start
<1>2. InputsOK /\ SelectionTypeOK /\ ~chosen.found
  BY <1>1 DEF SelectionInv, SelectionTypeOK, SelectsAtMiddle
<1>3. SelectionTypeOK' /\ TotalIsOrdered'
  <2>1. Eta \in Cost
    BY <1>2, RadiiFacts
  <2>. QED  BY <1>1, <1>2, <2>1, StartFacts
<1>4. Eta' = Eta
  BY <1>1, InputsFixed
<1>5. Admissible'
  BY <1>1, InputsFixed, DeletionsFixed DEF Admissible
<1>6. RangeIsSettledOutside' /\ SelectsAtMiddle' /\ ChosenLeavesBound'
  BY <1>1, <1>2, <1>4 DEF RangeIsSettledOutside, Widens, SelectsAtMiddle, ChosenLeavesBound
<1>7. AdjustedRadiusIsNarrowest' /\ UnavailableOnlyIfDeletionsAdmitted'
  BY <1>1 DEF AdjustedRadiusIsNarrowest, UnavailableOnlyIfDeletionsAdmitted
<1>. QED  BY <1>3, <1>5, <1>6, <1>7 DEF SelectionInv

(* Appending a position not listed yet keeps a sequence without repeats.   *)
LEMMA RangeOfAppend ==
  ASSUME NEW S, NEW seq \in Seq(S), NEW e
  PROVE  Range(Append(seq, e)) = Range(seq) \cup {e}
<1>. DEFINE longer == Append(seq, e)
<1>1. /\ Len(seq) \in Nat
      /\ DOMAIN seq = 1 .. Len(seq)
      /\ DOMAIN longer = 1 .. (Len(seq) + 1)
      /\ \A i \in 1 .. Len(seq) : longer[i] = seq[i]
      /\ longer[Len(seq) + 1] = e
  OBVIOUS
<1>. HIDE DEF longer
<1>2. ASSUME NEW x \in Range(longer) PROVE x \in Range(seq) \cup {e}
  <2>1. PICK i \in 1 .. (Len(seq) + 1) : x = longer[i]
    BY <1>1 DEF Range
  <2>2. CASE i = Len(seq) + 1
    BY <1>1, <2>1, <2>2
  <2>3. CASE i \in 1 .. Len(seq)
    BY <1>1, <2>1, <2>3 DEF Range
  <2>. QED  BY <1>1, <2>2, <2>3
<1>3. ASSUME NEW x \in Range(seq) \cup {e} PROVE x \in Range(longer)
  <2>1. CASE x = e
    <3>1. Len(seq) + 1 \in DOMAIN longer
      BY <1>1
    <3>. QED  BY <1>1, <2>1, <3>1 DEF Range
  <2>2. CASE x \in Range(seq)
    <3>1. PICK i \in DOMAIN seq : x = seq[i]
      BY <2>2 DEF Range
    <3>2. i \in DOMAIN longer /\ longer[i] = x
      BY <1>1, <3>1
    <3>. QED  BY <3>2 DEF Range
  <2>. QED  BY <2>1, <2>2
<1>4. Range(longer) = Range(seq) \cup {e}
  BY <1>2, <1>3
<1>. QED  BY <1>4 DEF longer

(* A round selects a position that was open, and the new total is the sum  *)
(* over the positions selected so far.                                     *)
LEMMA PickStep ==
  ASSUME SelectionInv, Pick
  PROVE  SelectionInv'
<1>1. /\ UNCHANGED <<inputs, candidates, stage, radius, radii, low, high, chosen>>
      /\ UNCHANGED inputs
      /\ stage = "selecting"
      /\ Admits(total)
      /\ Useful # {}
  BY DEF Pick
<1>2. /\ paid' = [i \in Positions |->
                    IF i \in Useful THEN paid[i] + Gain(i) * Value(Cheapest) ELSE paid[i]]
      /\ picked' = Append(picked, Cheapest)
      /\ total' = TotalWith(Cheapest)
  BY DEF Pick
<1>3. /\ SelectionTypeOK /\ InputsOK /\ HasNextUp(threshold)
      /\ radius \in Cost /\ total \in Distance
      /\ paid \in [Positions -> Nat] /\ picked \in Seq(Positions)
      /\ IsInjective(picked)
  BY <1>1 DEF SelectionInv, SelectionTypeOK, Admissible, TotalIsOrdered
<1>4. /\ Cheapest \in Useful /\ Cheapest \in Positions
      /\ Useful \in SUBSET Positions
      /\ \A i \in Useful : Value(i) \in Nat /\ Gain(i) \in Nat
  BY <1>1, <1>3, PickFacts
<1>5. Range(picked') = Selected \cup {Cheapest} /\ Range(picked') \in SUBSET Positions
  <2>1. Range(picked') = Selected \cup {Cheapest}
    BY <1>2, <1>3, RangeOfAppend DEF Selected
  <2>2. Selected \in SUBSET Positions
    BY <1>3 DEF Selected, Range
  <2>. QED  BY <1>4, <2>1, <2>2
<1>6. ContributionsAt(radius) \in [Positions -> Cost] /\ Contributions = ContributionsAt(radius)
  BY <1>3, ContributionFacts, CostAssumption DEF Contributions, Contribution, ContributionsAt
<1>7. total' = SumOver(ContributionsAt(radius), Range(picked'))
  BY <1>2, <1>5, <1>6 DEF TotalWith
<1>8. SelectionTypeOK'
  <2>1. paid' \in [Positions -> Nat]
    <3>1. Value(Cheapest) \in Nat
      BY <1>4
    <3>2. ASSUME NEW i \in Positions
          PROVE  (IF i \in Useful THEN paid[i] + Gain(i) * Value(Cheapest) ELSE paid[i]) \in Nat
      <4>1. paid[i] \in Nat
        BY <1>3
      <4>2. CASE i \in Useful
        <5>1. Gain(i) * Value(Cheapest) \in Nat
          BY <1>4, <3>1, <4>2
        <5>. QED  BY <4>1, <4>2, <5>1
      <4>. QED  BY <4>1, <4>2
    <3>. QED  BY <1>2, <3>2
  <2>2. picked' \in Seq(Positions)
    BY <1>2, <1>3, <1>4
  <2>3. total' \in Distance
    BY <1>3, <1>5, <1>6, <1>7, SumType
  <2>. QED  BY <1>1, <1>3, <2>1, <2>2, <2>3, InputsFixed DEF SelectionTypeOK
<1>9. TotalIsOrdered'
  <2>1. IsInjective(picked')
    <3>1. Cheapest \notin Range(picked)
      BY <1>4 DEF Useful, Open, Selected
    <3>2. ASSUME NEW i \in DOMAIN picked', NEW j \in DOMAIN picked', picked'[i] = picked'[j]
          PROVE  i = j
      <4>1. \A m \in 1 .. Len(picked) : picked'[m] = picked[m] /\ picked'[m] # Cheapest
        BY <1>2, <1>3, <3>1 DEF Range
      <4>2. /\ Len(picked) \in Nat
            /\ DOMAIN picked' = 1 .. (Len(picked) + 1)
            /\ picked'[Len(picked) + 1] = Cheapest
        BY <1>2, <1>3
      <4>3. CASE i \in 1 .. Len(picked) /\ j \in 1 .. Len(picked)
        <5>1. picked[i] = picked[j] /\ i \in DOMAIN picked /\ j \in DOMAIN picked
          BY <1>3, <3>2, <4>1, <4>3
        <5>. QED  BY <1>3, <5>1 DEF IsInjective
      <4>4. CASE i = Len(picked) + 1 \/ j = Len(picked) + 1
        BY <3>2, <4>1, <4>2, <4>4
      <4>. QED  BY <4>2, <4>3, <4>4
    <3>. QED  BY <3>2 DEF IsInjective
  <2>2. SumOver(ContributionsAt(radius), Range(picked))'
          = SumOver(ContributionsAt(radius), Range(picked'))
    BY <1>1, SumsFixed, ContributionsFixed DEF Range
  <2>. QED  BY <1>7, <2>1, <2>2 DEF TotalIsOrdered, IsInjective
<1>10. Admissible'
  BY <1>1, InputsFixed, DeletionsFixed DEF SelectionInv, Admissible
<1>11. RangeIsSettledOutside' /\ SelectsAtMiddle'
  BY <1>1, InputsFixed, RadiiFixed, FailsFixed
     DEF SelectionInv, RangeIsSettledOutside, SelectsAtMiddle, Widens, Middle
<1>12. ChosenLeavesBound'
  <2>1. SumOver(ContributionsAt(chosen.radius), Range(chosen.picked))'
          = SumOver(ContributionsAt(chosen.radius), Range(chosen.picked))
    BY <1>1, SumsFixed, ContributionsFixed DEF Range
  <2>2. Admits(SumOver(ContributionsAt(chosen.radius), Range(chosen.picked)))'
          = Admits(SumOver(ContributionsAt(chosen.radius), Range(chosen.picked)))
    BY <1>1, <2>1, AdmitsFixed
  <2>. QED  BY <1>1, <2>2 DEF SelectionInv, ChosenLeavesBound, IsInjective
<1>13. AdjustedRadiusIsNarrowest' /\ UnavailableOnlyIfDeletionsAdmitted'
  BY <1>1 DEF AdjustedRadiusIsNarrowest, UnavailableOnlyIfDeletionsAdmitted
<1>. QED  BY <1>8, <1>9, <1>10, <1>11, <1>12, <1>13 DEF SelectionInv

(* Facts of a selection that just ended, shared by both outcomes. *)
LEMMA SelectingFacts ==
  ASSUME SelectionInv, stage = "selecting"
  PROVE  /\ SelectionTypeOK /\ InputsOK /\ HasNextUp(threshold) /\ AnyRadiusCanSelect
         /\ Eta \in Cost /\ Eta \in Nat
         /\ radius \in Cost /\ radius \in Nat
         /\ total \in Distance /\ picked \in Seq(Positions) /\ IsInjective(picked)
         /\ total = SumOver(ContributionsAt(radius), Range(picked))
         /\ low \in Nat /\ high \in Nat /\ Len(radii) \in Nat
         /\ radius = Eta => ~chosen.found
         /\ radius # Eta => /\ low < high
                            /\ high <= Len(radii)
                            /\ radii = SortedRadii
                            /\ Middle \in low .. (high - 1)
                            /\ Middle + 1 \in 1 .. Len(SortedRadii)
                            /\ radius = SortedRadii[Middle + 1]
<1>1. /\ SelectionTypeOK /\ InputsOK /\ HasNextUp(threshold) /\ AnyRadiusCanSelect
      /\ radius \in Cost /\ total \in Distance /\ picked \in Seq(Positions)
      /\ IsInjective(picked)
      /\ total = SumOver(ContributionsAt(radius), Range(picked))
      /\ low \in Nat /\ high \in Nat /\ radii \in Seq(Cost)
      /\ radius = Eta => ~chosen.found
  BY DEF SelectionInv, SelectionTypeOK, Admissible, TotalIsOrdered, SelectsAtMiddle
<1>2. Eta \in Cost /\ Cost \in SUBSET Nat
  BY <1>1, RadiiFacts, CostAssumption
<1>3. Len(radii) \in Nat
  BY <1>1
<1>4. ASSUME radius # Eta
      PROVE  /\ low < high
             /\ high <= Len(radii)
             /\ radii = SortedRadii
             /\ Middle \in low .. (high - 1)
             /\ Middle + 1 \in 1 .. Len(SortedRadii)
             /\ radius = SortedRadii[Middle + 1]
  <2>1. low < high /\ radius = radii[Middle + 1] /\ high <= Len(radii) /\ radii = SortedRadii
    BY <1>4 DEF SelectionInv, SelectsAtMiddle, RangeIsSettledOutside, Widens
  <2>2. Middle \in low .. (high - 1)
    BY <1>1, <2>1 DEF Middle
  <2>. QED  BY <1>1, <1>3, <2>1, <2>2
<1>. QED  BY <1>1, <1>2, <1>3, <1>4

(* A success at the middle of the range becomes the radius just above it.  *)
LEMMA SelectionSucceedsStep ==
  ASSUME SelectionInv, SelectionSucceeds
  PROVE  SelectionInv'
<1>1. /\ UNCHANGED <<inputs, candidates, radius, paid, picked, total, radii, low>>
      /\ UNCHANGED inputs
      /\ stage = "selecting"
      /\ ~Admits(total)
      /\ chosen' = [found |-> TRUE, radius |-> radius, picked |-> picked]
      /\ radius = Eta => stage' = "counting" /\ high' = high
      /\ radius # Eta => stage' = "widening" /\ high' = Middle
  BY DEF SelectionSucceeds
<1>2. /\ SelectionTypeOK /\ AnyRadiusCanSelect /\ HasNextUp(threshold)
      /\ radius \in Cost /\ picked \in Seq(Positions) /\ IsInjective(picked)
      /\ total = SumOver(ContributionsAt(radius), Range(picked))
      /\ low \in Nat /\ high \in Nat
      /\ radius # Eta => /\ low < high
                         /\ high <= Len(radii)
                         /\ radii = SortedRadii
                         /\ Middle \in low .. (high - 1)
                         /\ Middle + 1 \in 1 .. Len(SortedRadii)
                         /\ radius = SortedRadii[Middle + 1]
  BY <1>1, SelectingFacts
<1>3. chosen'.found /\ chosen'.radius = radius /\ chosen'.picked = picked
  BY <1>1
<1>4. SelectionTypeOK'
  <2>1. high' \in Nat
    BY <1>1, <1>2
  <2>2. chosen' \in [found : BOOLEAN, radius : Cost, picked : Seq(Positions)]
    BY <1>1, <1>2
  <2>3. stage' \in SelectionStages
    BY <1>1 DEF SelectionStages
  <2>. QED  BY <1>1, <1>2, <2>1, <2>2, <2>3, InputsFixed DEF SelectionTypeOK
<1>5. Admissible'
  <2>1. HasNextUp(threshold)' /\ AnyRadiusCanSelect'
    BY <1>1, <1>2, InputsFixed, DeletionsFixed
  <2>. QED  BY <2>1 DEF Admissible
<1>6. TotalIsOrdered'
  <2>1. stage' # "selecting"
    BY <1>1
  <2>. QED  BY <1>1, <1>2, <2>1 DEF TotalIsOrdered, IsInjective
<1>7. RangeIsSettledOutside'
  <2>1. CASE radius = Eta
    BY <1>1, <2>1 DEF RangeIsSettledOutside, Widens
  <2>2. CASE radius # Eta
    <3>1. radii' = SortedRadii'
      BY <1>1, <1>2, <2>2, RadiiFixed
    <3>2. low' <= high' /\ high' < Len(radii') /\ high' <= Len(radii')
      <4>1. Len(radii) \in Nat
        BY <1>2, <2>2, RadiiFacts DEF SelectionTypeOK
      <4>. QED  BY <1>1, <1>2, <2>2, <4>1
    <3>3. Fails(Tried(low))'
      <4>1. Fails(Tried(low))
        BY <1>1, <2>2 DEF SelectionInv, RangeIsSettledOutside, Widens
      <4>. QED  BY <1>1, <4>1, FailsFixed, RadiiFixed
    <3>4. chosen'.radius = radii'[high' + 1]
      BY <1>1, <1>2, <1>3, <2>2
    <3>. QED  BY <1>3, <3>1, <3>2, <3>3, <3>4 DEF RangeIsSettledOutside
  <2>. QED  BY <2>1, <2>2
<1>8. SelectsAtMiddle'
  BY <1>1, <1>3 DEF SelectsAtMiddle
<1>9. ChosenLeavesBound'
  <2>1. SumOver(ContributionsAt(chosen.radius), Range(chosen.picked))'
          = SumOver(ContributionsAt(chosen'.radius), Range(chosen'.picked))
    BY <1>1, SumsFixed, ContributionsFixed DEF Range
  <2>2. SumOver(ContributionsAt(chosen.radius), Range(chosen.picked))' = total
    BY <1>2, <1>3, <2>1
  <2>3. ~Admits(SumOver(ContributionsAt(chosen.radius), Range(chosen.picked)))'
    BY <1>1, <2>2, AdmitsFixed
  <2>. QED  BY <1>2, <1>3, <2>3 DEF ChosenLeavesBound, IsInjective
<1>10. AdjustedRadiusIsNarrowest'
  BY <1>1, <1>3, InputsFixed DEF AdjustedRadiusIsNarrowest
<1>11. UnavailableOnlyIfDeletionsAdmitted'
  BY <1>1 DEF UnavailableOnlyIfDeletionsAdmitted
<1>. QED  BY <1>4, <1>5, <1>6, <1>7, <1>8, <1>9, <1>10, <1>11 DEF SelectionInv

(* The last success survives every step that does not record another.      *)
LEMMA ChosenKept ==
  ASSUME ChosenLeavesBound, UNCHANGED <<inputs, chosen>>
  PROVE  ChosenLeavesBound'
<1>1. UNCHANGED inputs /\ UNCHANGED chosen
  OBVIOUS
<1>2. SumOver(ContributionsAt(chosen.radius), Range(chosen.picked))'
        = SumOver(ContributionsAt(chosen.radius), Range(chosen.picked))
  BY <1>1, SumsFixed, ContributionsFixed DEF Range
<1>3. Admits(SumOver(ContributionsAt(chosen.radius), Range(chosen.picked)))'
        = Admits(SumOver(ContributionsAt(chosen.radius), Range(chosen.picked)))
  BY <1>1, <1>2, AdmitsFixed
<1>. QED  BY <1>1, <1>3 DEF ChosenLeavesBound, IsInjective

(* A failure rules out the middle radius, and those below it.              *)
LEMMA SelectionFailsStep ==
  ASSUME SelectionInv, SelectionFails
  PROVE  SelectionInv'
<1>1. /\ UNCHANGED <<inputs, candidates, radius, paid, picked, total, chosen>>
      /\ UNCHANGED inputs
      /\ stage = "selecting" /\ stage' = "widening"
      /\ Admits(total) /\ Useful = {}
      /\ radius = Eta => radii' = SortedRadii /\ high' = Len(SortedRadii) /\ low' = 0
      /\ radius # Eta => radii' = radii /\ high' = high /\ low' = Middle + 1
  BY DEF SelectionFails, AboveMiddle
<1>2. /\ SelectionTypeOK /\ InputsOK /\ AnyRadiusCanSelect /\ HasNextUp(threshold)
      /\ radius \in Cost /\ total \in Distance
      /\ picked \in Seq(Positions) /\ IsInjective(picked)
      /\ total = SumOver(ContributionsAt(radius), Range(picked))
      /\ low \in Nat /\ high \in Nat
      /\ radius = Eta => ~chosen.found
      /\ radius # Eta => /\ low < high
                         /\ high <= Len(radii)
                         /\ radii = SortedRadii
                         /\ Middle \in low .. (high - 1)
                         /\ Middle + 1 \in 1 .. Len(SortedRadii)
                         /\ radius = SortedRadii[Middle + 1]
  BY <1>1, SelectingFacts
<1>3. Fails(radius)
  BY <1>1, <1>2, NothingUsefulMeansFails DEF Selected
<1>4. /\ SortedRadii \in Seq(Cost)
      /\ Len(SortedRadii) \in Nat
  <2>1. SortedRadii \in Seq(WiderRadii) /\ WiderRadii \in SUBSET Cost
    BY <1>2, RadiiFacts
  <2>. QED  BY <2>1
<1>5. SelectionTypeOK'
  <2>1. radii' \in Seq(Cost) /\ low' \in Nat /\ high' \in Nat
    BY <1>1, <1>2, <1>4
  <2>. QED  BY <1>1, <1>2, <2>1, InputsFixed DEF SelectionTypeOK, SelectionStages
<1>6. Admissible'
  BY <1>1, <1>2, InputsFixed, DeletionsFixed DEF Admissible
<1>7. TotalIsOrdered'
  BY <1>1, <1>2 DEF TotalIsOrdered, IsInjective
<1>8. RangeIsSettledOutside'
  <2>1. radii' = SortedRadii'
    BY <1>1, <1>2, RadiiFixed
  <2>2. Fails(Tried(low'))
    <3>1. CASE radius = Eta
      BY <1>1, <1>3, <3>1 DEF Tried
    <3>2. CASE radius # Eta
      <4>1. low' # 0 /\ SortedRadii[low'] = radius
        BY <1>1, <1>2, <3>2
      <4>. QED  BY <1>3, <4>1 DEF Tried
    <3>. QED  BY <3>1, <3>2
  <2>3. Fails(Tried(low))'
    BY <1>1, <2>2, FailsFixed, RadiiFixed
  <2>4. low' <= high' /\ high' <= Len(radii')
    BY <1>1, <1>2, <1>4
  <2>5. /\ ~chosen'.found => high' = Len(radii')
        /\ chosen'.found => high' < Len(radii') /\ chosen'.radius = radii'[high' + 1]
    <3>1. CASE radius = Eta
      BY <1>1, <1>2, <3>1
    <3>2. CASE radius # Eta
      BY <1>1, <3>2 DEF SelectionInv, RangeIsSettledOutside, Widens
    <3>. QED  BY <3>1, <3>2
  <2>. QED  BY <2>1, <2>3, <2>4, <2>5 DEF RangeIsSettledOutside
<1>9. SelectsAtMiddle'
  BY <1>1 DEF SelectsAtMiddle
<1>10. ChosenLeavesBound'
  BY <1>1, ChosenKept DEF SelectionInv
<1>11. AdjustedRadiusIsNarrowest' /\ UnavailableOnlyIfDeletionsAdmitted'
  BY <1>1 DEF AdjustedRadiusIsNarrowest, UnavailableOnlyIfDeletionsAdmitted
<1>. QED  BY <1>5, <1>6, <1>7, <1>8, <1>9, <1>10, <1>11 DEF SelectionInv

(* The state of the binary search while it runs. *)
LEMMA WideningFacts ==
  ASSUME SelectionInv, stage = "widening"
  PROVE  /\ SelectionTypeOK /\ InputsOK /\ HasNextUp(threshold) /\ AnyRadiusCanSelect
         /\ radii = SortedRadii
         /\ Len(SortedRadii) \in Nat
         /\ low \in Nat /\ high \in Nat /\ low <= high /\ high <= Len(SortedRadii)
         /\ Fails(Tried(low))
         /\ ~chosen.found => high = Len(SortedRadii)
         /\ chosen.found => high < Len(SortedRadii) /\ chosen.radius = SortedRadii[high + 1]
<1>1. SelectionTypeOK /\ InputsOK /\ low \in Nat /\ high \in Nat
  BY DEF SelectionInv, SelectionTypeOK
<1>2. HasNextUp(threshold) /\ AnyRadiusCanSelect
  BY DEF SelectionInv, Admissible
<1>3. Len(SortedRadii) \in Nat
  BY <1>1, RadiiFacts
<1>. QED  BY <1>1, <1>2, <1>3 DEF SelectionInv, RangeIsSettledOutside, Widens

(* Trying the middle radius leaves the range as it is.                     *)
LEMMA TryMiddleStep ==
  ASSUME SelectionInv, TryMiddle
  PROVE  SelectionInv'
<1>1. /\ UNCHANGED <<inputs, candidates, radii, low, high, chosen>>
      /\ UNCHANGED inputs
      /\ stage = "widening" /\ stage' = "selecting"
      /\ low < high
      /\ Start(radii[Middle + 1]) /\ radius' = radii[Middle + 1]
  BY DEF TryMiddle, Start
<1>2. /\ SelectionTypeOK /\ InputsOK /\ AnyRadiusCanSelect /\ HasNextUp(threshold)
      /\ radii = SortedRadii /\ Len(SortedRadii) \in Nat
      /\ low \in Nat /\ high \in Nat /\ high <= Len(SortedRadii)
      /\ Fails(Tried(low))
  BY <1>1, WideningFacts
<1>3. Middle + 1 \in 1 .. Len(SortedRadii)
  <2>1. Middle \in low .. (high - 1)
    BY <1>1, <1>2 DEF Middle
  <2>. QED  BY <1>2, <2>1
<1>4. radii[Middle + 1] \in Cost /\ radii[Middle + 1] > Eta /\ Eta \in Cost
  BY <1>2, <1>3, RadiiFacts
<1>5. radius' # Eta'
  <2>1. radii[Middle + 1] \in Nat /\ Eta \in Nat
    BY <1>4, CostAssumption
  <2>. QED  BY <1>1, <1>4, <2>1, InputsFixed
<1>6. SelectionTypeOK' /\ TotalIsOrdered'
  BY <1>1, <1>2, <1>4, StartFacts
<1>7. Admissible'
  BY <1>1, <1>2, InputsFixed, DeletionsFixed DEF Admissible
<1>8. RangeIsSettledOutside'
  <2>1. Fails(Tried(low))'
    BY <1>1, <1>2, FailsFixed, RadiiFixed
  <2>. QED  BY <1>1, <2>1, RadiiFixed DEF SelectionInv, RangeIsSettledOutside, Widens
<1>9. SelectsAtMiddle'
  BY <1>1, <1>5 DEF SelectsAtMiddle, Middle
<1>10. ChosenLeavesBound'
  BY <1>1, ChosenKept DEF SelectionInv
<1>11. AdjustedRadiusIsNarrowest' /\ UnavailableOnlyIfDeletionsAdmitted'
  BY <1>1 DEF AdjustedRadiusIsNarrowest, UnavailableOnlyIfDeletionsAdmitted
<1>. QED  BY <1>6, <1>7, <1>8, <1>9, <1>10, <1>11 DEF SelectionInv

(* An empty range settles the search: the widest radius selects wherever   *)
(* deleting the whole query is not admitted, so a radius was found, and it *)
(* is the narrowest.                                                       *)
LEMMA SettleRadiusStep ==
  ASSUME SelectionInv, SettleRadius
  PROVE  SelectionInv'
<1>1. /\ UNCHANGED <<inputs, candidates, radius, paid, picked, total, radii, low, high, chosen>>
      /\ UNCHANGED inputs
      /\ stage = "widening" /\ low >= high
      /\ stage' = IF chosen.found THEN "counting" ELSE "unavailable"
  BY DEF SettleRadius
<1>2. /\ SelectionTypeOK /\ InputsOK /\ AnyRadiusCanSelect /\ HasNextUp(threshold)
      /\ Len(SortedRadii) \in Nat
      /\ low \in Nat /\ low = high /\ high <= Len(SortedRadii)
      /\ Fails(Tried(low))
      /\ ~chosen.found => high = Len(SortedRadii)
      /\ chosen.found => high < Len(SortedRadii) /\ chosen.radius = SortedRadii[high + 1]
  <2>1. low \in Nat /\ high \in Nat /\ low <= high
    BY <1>1, WideningFacts
  <2>2. low = high
    BY <1>1, <2>1
  <2>. QED  BY <1>1, <2>2, WideningFacts
<1>3. chosen.found
  BY <1>2, FailsEverywhere
<1>4. stage' = "counting"
  BY <1>1, <1>3
<1>5. SelectionTypeOK'
  BY <1>1, <1>2, <1>4, InputsFixed DEF SelectionTypeOK, SelectionStages
<1>6. Admissible'
  BY <1>1, <1>2, <1>4, InputsFixed, DeletionsFixed DEF Admissible
<1>7. TotalIsOrdered'
  BY <1>1, <1>4 DEF SelectionInv, TotalIsOrdered, IsInjective
<1>8. RangeIsSettledOutside' /\ SelectsAtMiddle'
  BY <1>1, <1>3, <1>4 DEF RangeIsSettledOutside, Widens, SelectsAtMiddle
<1>9. ChosenLeavesBound'
  BY <1>1, ChosenKept DEF SelectionInv
<1>10. AdjustedRadiusIsNarrowest'
  <2>1. ASSUME NEW r \in Cost, r < chosen.radius PROVE Fails(r)
    <3>1. r \in Nat /\ low \in 0 .. Len(SortedRadii) /\ r < SortedRadii[low + 1]
      BY <1>2, <1>3, <2>1, CostAssumption
    <3>. QED  BY <1>2, <3>1, FailsUpToNext
  <2>2. ASSUME NEW r \in Cost, r < chosen'.radius
        PROVE  Admits(SumOver(ContributionsAt(r), Positions))'
    <3>1. Fails(r)'
      BY <1>1, <2>1, <2>2, FailsFixed
    <3>. QED  BY <3>1 DEF Fails
  <2>. QED  BY <2>2 DEF AdjustedRadiusIsNarrowest
<1>11. UnavailableOnlyIfDeletionsAdmitted'
  BY <1>4 DEF UnavailableOnlyIfDeletionsAdmitted
<1>. QED  BY <1>5, <1>6, <1>7, <1>8, <1>9, <1>10, <1>11 DEF SelectionInv

(* A step that changes nothing keeps the invariant. *)
LEMMA StutteringStep ==
  ASSUME SelectionInv, UNCHANGED selectionState
  PROVE  SelectionInv'
<1>1. /\ UNCHANGED <<inputs, stage, candidates, radius, paid, picked, total, radii, low, high, chosen>>
      /\ UNCHANGED inputs
  BY DEF selectionState, selectionVars
<1>2. SelectionTypeOK' /\ Admissible' /\ TotalIsOrdered'
  <2>1. SelectionTypeOK'
    BY <1>1, InputsFixed DEF SelectionInv, SelectionTypeOK
  <2>2. Admissible'
    BY <1>1, InputsFixed, DeletionsFixed DEF SelectionInv, Admissible
  <2>3. SumOver(ContributionsAt(radius), Range(picked))'
          = SumOver(ContributionsAt(radius), Range(picked))
    BY <1>1, SumsFixed, ContributionsFixed DEF Range
  <2>. QED  BY <1>1, <2>1, <2>2, <2>3 DEF SelectionInv, TotalIsOrdered, IsInjective
<1>3. RangeIsSettledOutside' /\ SelectsAtMiddle'
  <2>1. Fails(Tried(low))' = Fails(Tried(low))
    BY <1>1, FailsFixed, RadiiFixed
  <2>. QED  BY <1>1, <2>1, InputsFixed, RadiiFixed
            DEF SelectionInv, RangeIsSettledOutside, Widens, SelectsAtMiddle, Middle
<1>4. ChosenLeavesBound'
  BY <1>1, ChosenKept DEF SelectionInv
<1>5. AdjustedRadiusIsNarrowest'
  <2>1. ASSUME NEW r \in Cost
        PROVE  Admits(SumOver(ContributionsAt(r), Positions))'
                 = Admits(SumOver(ContributionsAt(r), Positions))
    BY <1>1, FailsFixed DEF Fails
  <2>. QED  BY <1>1, <2>1, InputsFixed DEF SelectionInv, AdjustedRadiusIsNarrowest
<1>6. UnavailableOnlyIfDeletionsAdmitted'
  BY <1>1, DeletionsFixed DEF SelectionInv, UnavailableOnlyIfDeletionsAdmitted
<1>. QED  BY <1>2, <1>3, <1>4, <1>5, <1>6 DEF SelectionInv

(* The invariant is inductive. *)
LEMMA InductiveStep ==
  ASSUME SelectionInv, [SelectionNext]_selectionState
  PROVE  SelectionInv'
<1>1. CASE UNCHANGED selectionState
  BY <1>1, StutteringStep
<1>2. CASE RejectThreshold \/ Decline
  BY <1>2, EndingSteps
<1>3. CASE StartAtDerivedRadius
  BY <1>3, StartAtDerivedRadiusStep
<1>4. CASE Pick
  BY <1>4, PickStep
<1>5. CASE SelectionSucceeds
  BY <1>5, SelectionSucceedsStep
<1>6. CASE SelectionFails
  BY <1>6, SelectionFailsStep
<1>7. CASE TryMiddle
  BY <1>7, TryMiddleStep
<1>8. CASE SettleRadius
  BY <1>8, SettleRadiusStep
<1>. QED  BY <1>1, <1>2, <1>3, <1>4, <1>5, <1>6, <1>7, <1>8 DEF SelectionNext

(* A success is replaced only by the success of the narrower radius in the *)
(* middle of the range below it.                                           *)
LEMMA NarrowingStep ==
  ASSUME SelectionInv, [SelectionNext]_selectionState, chosen.found
  PROVE  chosen' = chosen \/ chosen'.radius < chosen.radius
<1>1. CASE SelectionSucceeds
  <2>1. /\ stage = "selecting"
        /\ chosen'.radius = radius
    BY <1>1 DEF SelectionSucceeds
  <2>2. radius # Eta
    BY <2>1 DEF SelectionInv, SelectsAtMiddle
  <2>3. /\ InputsOK
        /\ low \in Nat /\ high \in Nat /\ low < high
        /\ Middle \in low .. (high - 1)
        /\ Middle + 1 \in 1 .. Len(SortedRadii)
        /\ radius = SortedRadii[Middle + 1]
    BY <2>1, <2>2, SelectingFacts DEF SelectionTypeOK
  <2>4. high < Len(SortedRadii) /\ chosen.radius = SortedRadii[high + 1]
    BY <2>1, <2>2 DEF SelectionInv, RangeIsSettledOutside, Widens
  <2>5. Len(SortedRadii) \in Nat
    BY <2>3, RadiiFacts
  <2>6. Middle + 1 < high + 1 /\ high + 1 \in 1 .. Len(SortedRadii)
    BY <2>3, <2>4, <2>5
  <2>7. SortedRadii[Middle + 1] < SortedRadii[high + 1]
    <3>. DEFINE m == Middle + 1
                h == high + 1
    <3>1. m \in 1 .. Len(SortedRadii) /\ h \in 1 .. Len(SortedRadii) /\ m < h
      BY <2>3, <2>6
    <3>. HIDE DEF m, h
    <3>2. SortedRadii[m] < SortedRadii[h]
      BY <2>3, <3>1, RadiiFacts
    <3>. QED  BY <3>2 DEF m, h
  <2>. QED  BY <2>1, <2>3, <2>4, <2>7
<1>2. CASE ~SelectionSucceeds
  BY <1>2 DEF SelectionNext, selectionState, selectionVars, RejectThreshold, Decline,
              StartAtDerivedRadius, Pick, SelectionFails, TryMiddle, SettleRadius
<1>. QED  BY <1>1, <1>2

------------------------------------------------------------------------------
(* The inductive invariant holds in every state filtering reaches, for     *)
(* every instance of the inputs and every rounding of the additions.       *)
THEOREM SelectionIsInvariant == SelectionSpec => []SelectionInv
<1>1. SelectionInit => SelectionInv
  BY InitialState
<1>2. SelectionInv /\ [SelectionNext]_selectionState => SelectionInv'
  BY InductiveStep
<1>. QED  BY <1>1, <1>2, PTL DEF SelectionSpec

(* The state of the selection and of the binary search over radii stays in *)
(* the ranges of its types; what is paid never turns negative.             *)
THEOREM SelectionIsTyped == SelectionSpec => []SelectionTypeOK
<1>1. SelectionInv => SelectionTypeOK
  BY DEF SelectionInv
<1>. QED  BY <1>1, SelectionIsInvariant, PTL

(* A search is declined for want of a radius only where deleting the whole *)
(* query is admitted: no order of float additions and no gap between radii *)
(* makes select_positions give up on a query that can be filtered.         *)
THEOREM SelectionIsAvailable == SelectionSpec => []UnavailableOnlyIfDeletionsAdmitted
<1>1. SelectionInv => UnavailableOnlyIfDeletionsAdmitted
  BY DEF SelectionInv
<1>. QED  BY <1>1, SelectionIsInvariant, PTL

(* The binary search of select_positions ends at the narrowest radius that *)
(* selects, among all radii and not only among those it tried.             *)
THEOREM SelectionIsNarrowest == SelectionSpec => []AdjustedRadiusIsNarrowest
<1>1. SelectionInv => AdjustedRadiusIsNarrowest
  BY DEF SelectionInv
<1>. QED  BY <1>1, SelectionIsInvariant, PTL

(* The positions MinCandidateSelector::select returns leave the bound by   *)
(* their contributions, each of them once.                                 *)
THEOREM SelectionLeavesBound == SelectionSpec => []ChosenLeavesBound
<1>1. SelectionInv => ChosenLeavesBound
  BY DEF SelectionInv
<1>. QED  BY <1>1, SelectionIsInvariant, PTL

(* The binary search replaces a success by narrower ones only.             *)
THEOREM SelectionNarrows == SelectionSpec => OnlyNarrower
<1>1. SelectionInv /\ [SelectionNext]_selectionState
        => [chosen.found => chosen' = chosen \/ chosen'.radius < chosen.radius]_chosen
  BY NarrowingStep
<1>2. SelectionSpec => [][SelectionNext]_selectionState
  BY PTL DEF SelectionSpec
<1>. QED  BY <1>1, <1>2, SelectionIsInvariant, PTL DEF OnlyNarrower

------------------------------------------------------------------------------
(***************************************************************************)
(* 3. No match avoids the selection.                                       *)
(***************************************************************************)

LEMMA DistanceFacts ==
  /\ Distance \in SUBSET Nat
  /\ Cost \in SUBSET Distance
  /\ 0 \in Distance
  /\ \A x, y \in Distance : /\ AddDistance(x, y) \in Distance
                            /\ Add(x, y) \in Distance
                            /\ x <= AddDistance(x, y)
<1>1. Distance \in SUBSET Nat /\ Cost \in SUBSET Distance /\ 0 \in Distance
  BY CostAssumption DEF Distance
<1>2. ASSUME NEW x \in Distance, NEW y \in Distance PROVE x <= AddDistance(x, y)
  <2>1. 0 <= y
    BY <1>1
  <2>2. AddDistance(x, 0) <= AddDistance(x, y)
    BY <1>1, <2>1, AddDistanceAssumption
  <2>. QED  BY <2>2, AddDistanceAssumption
<1>. QED  BY <1>1, <1>2, AddAssumption, AddDistanceAssumption

(* The least of three distances. *)
LEMMA LeastOfThree ==
  ASSUME NEW x \in Distance, NEW y \in Distance, NEW z \in Distance
  PROVE  /\ Min({x, y, z}) \in Distance
         /\ Min({x, y, z}) \in {x, y, z}
<1>. DEFINE T == {x, y, z}
<1>1. T \in SUBSET Nat /\ T # {} /\ T \in SUBSET Distance
  BY DistanceFacts
<1>2. Min(T) \in T
  <2>. HIDE DEF T
  <2>. QED  BY <1>1, MinIsLeast
<1>. QED  BY <1>1, <1>2

LEMMA InsertIsCost ==
  ASSUME InputsOK, NEW s \in Symbols
  PROVE  Insert(s) \in Cost
<1>1. costs \in Policies
  BY DEF InputsOK
<1>2. costs.insertion \in [Symbols -> Cost]
  BY <1>1, InputsAssumption
<1>. QED  BY <1>2 DEF Insert

(* What the program adds is distances. *)
LEMMA OperationsAreDistances ==
  ASSUME InputsOK, NEW q \in Seq(Symbols)
  PROVE  /\ Len(q) \in Nat
         /\ \A r \in 1 .. Len(q) : q[r] \in Symbols /\ Delete(q[r]) \in Distance
         /\ \A s \in Symbols : Insert(s) \in Distance
         /\ \A r \in 1 .. Len(q), s \in Symbols : Substitute(q[r], s) \in Distance
<1>1. Len(q) \in Nat /\ \A r \in 1 .. Len(q) : q[r] \in Symbols
  OBVIOUS
<1>2. \A c \in Cost : c \in Distance
  BY DistanceFacts
<1>. QED  BY <1>1, <1>2, InputTypes, InsertIsCost

------------------------------------------------------------------------------
(* The columns of the dynamic program exist, entry by entry, and their     *)
(* entries are distances.                                                  *)
Columns(q) == [0 .. Len(q) -> Distance]

LEMMA RootColumnDefined ==
  ASSUME InputsOK, NEW q \in Seq(Symbols)
  PROVE  /\ RootColumn(q) \in Columns(q)
         /\ RootColumn(q)[0] = 0
         /\ \A r \in 1 .. Len(q) :
               RootColumn(q)[r] = AddDistance(RootColumn(q)[r - 1], Delete(q[r]))
<1>. DEFINE n == Len(q)
            advance == [r \in 1 .. n |-> [x \in Distance |-> AddDistance(x, Delete(q[r]))]]
            Recursive(g) == g = [r \in 0 .. n |->
                                   IF r = 0 THEN 0 ELSE AddDistance(g[r - 1], Delete(q[r]))]
            column == RootColumn(q)
<1>1. n \in Nat /\ \A r \in 1 .. n : Delete(q[r]) \in Distance
  BY OperationsAreDistances
<1>2. advance \in Advances(n, Distance)
  BY <1>1, DistanceFacts DEF Advances
<1>3. PICK g \in [0 .. n -> Distance] : g[0] = 0 /\ \A r \in 1 .. n : g[r] = advance[r][g[r - 1]]
  <2>1. 0 \in Distance
    BY DistanceFacts
  <2>. HIDE DEF advance, n
  <2>2. Growing(n, Distance, 0, advance) # {}
    BY <1>1, <1>2, <2>1, RecursionExists
  <2>. QED  BY <2>2 DEF Growing
<1>4. Recursive(g)
  <2>1. \A r \in 1 .. n : g[r] = AddDistance(g[r - 1], Delete(q[r]))
    <3>1. \A r \in 1 .. n : g[r - 1] \in Distance
      BY <1>1
    <3>. QED  BY <1>3, <3>1
  <2>2. \A r \in 0 .. n : g[r] = IF r = 0 THEN 0 ELSE AddDistance(g[r - 1], Delete(q[r]))
    BY <1>1, <1>3, <2>1
  <2>. QED  BY <2>2
<1>5. Recursive(column)
  <2>1. column = CHOOSE h : Recursive(h)
    BY DEF RootColumn
  <2>. HIDE DEF Recursive, column
  <2>. QED  BY <1>4, <2>1
<1>6. /\ column = [r \in 0 .. n |-> column[r]]
      /\ column[0] = 0
      /\ \A r \in 1 .. n : column[r] = AddDistance(column[r - 1], Delete(q[r]))
  <2>. HIDE DEF column
  <2>1. \A r \in 0 .. n :
           column[r] = IF r = 0 THEN 0 ELSE AddDistance(column[r - 1], Delete(q[r]))
    BY <1>5
  <2>2. column = [r \in 0 .. n |-> column[r]]
    BY <1>5
  <2>. QED  BY <1>1, <2>1, <2>2
<1>7. column \in [0 .. n -> Distance]
  <2>. HIDE DEF column
  <2>1. 0 \in Distance
    BY DistanceFacts
  <2>2. \A r \in 1 .. n : column[r - 1] \in Distance => column[r] \in Distance
    BY <1>1, <1>6, DistanceFacts
  <2>. HIDE DEF n
  <2>3. n \in Nat /\ column = [r \in 0 .. n |-> column[r]] /\ column[0] \in Distance
    BY <1>1, <1>6, <2>1
  <2>. QED  BY <2>2, <2>3, RecursionTyped, ZenonT(30)
<1>. QED  BY <1>6, <1>7 DEF Columns

(* The three ways to an entry of a column from the one before it.          *)
StepEntry(q, c, symbol, previous, r) ==
  {AddDistance(previous[r - 1], Substitute(q[r], symbol)),
   AddDistance(previous[r], Insert(symbol)),
   AddDistance(c[r - 1], Delete(q[r]))}

LEMMA StepColumnDefined ==
  ASSUME InputsOK, NEW q \in Seq(Symbols), NEW symbol \in Symbols, NEW previous \in Columns(q)
  PROVE  LET column == StepColumn(q, symbol, previous)
         IN  /\ column \in Columns(q)
             /\ column[0] = AddDistance(previous[0], Insert(symbol))
             /\ \A r \in 1 .. Len(q) :
                   /\ column[r] = Min(StepEntry(q, column, symbol, previous, r))
                   /\ column[r] \in StepEntry(q, column, symbol, previous, r)
<1>. DEFINE n == Len(q)
            first == AddDistance(previous[0], Insert(symbol))
            Entry(r, x) == Min({AddDistance(previous[r - 1], Substitute(q[r], symbol)),
                                AddDistance(previous[r], Insert(symbol)),
                                AddDistance(x, Delete(q[r]))})
            advance == [r \in 1 .. n |-> [x \in Distance |-> Entry(r, x)]]
            Recursive(g) == g = [r \in 0 .. n |->
                IF r = 0 THEN AddDistance(previous[r], Insert(symbol)) ELSE Entry(r, g[r - 1])]
            column == StepColumn(q, symbol, previous)
<1>1. n \in Nat /\ \A r \in 0 .. n : previous[r] \in Distance
  BY DEF Columns
<1>2. ASSUME NEW r \in 1 .. n
      PROVE  /\ r - 1 \in 0 .. n
             /\ AddDistance(previous[r - 1], Substitute(q[r], symbol)) \in Distance
             /\ AddDistance(previous[r], Insert(symbol)) \in Distance
             /\ \A x \in Distance : AddDistance(x, Delete(q[r])) \in Distance
  <2>1. r - 1 \in 0 .. n /\ r \in 0 .. n /\ q[r] \in Symbols
    BY <1>1, OperationsAreDistances
  <2>2. /\ Substitute(q[r], symbol) \in Distance
        /\ Delete(q[r]) \in Distance
        /\ Insert(symbol) \in Distance
    BY <2>1, OperationsAreDistances
  <2>. QED  BY <1>1, <2>1, <2>2, DistanceFacts
<1>3. first \in Distance
  <2>1. previous[0] \in Distance /\ Insert(symbol) \in Distance
    <3>1. 0 \in 0 .. n
      BY <1>1
    <3>. QED  BY <1>1, <3>1, InsertIsCost, DistanceFacts
  <2>. QED  BY <2>1, DistanceFacts
<1>4. \A r \in 1 .. n, x \in Distance :
         /\ Entry(r, x) \in Distance
         /\ Entry(r, x) \in {AddDistance(previous[r - 1], Substitute(q[r], symbol)),
                             AddDistance(previous[r], Insert(symbol)),
                             AddDistance(x, Delete(q[r]))}
  BY <1>2, LeastOfThree
<1>5. advance \in Advances(n, Distance)
  <2>. HIDE DEF Entry
  <2>. QED  BY <1>4 DEF Advances
<1>6. PICK g \in [0 .. n -> Distance] :
         g[0] = first /\ \A r \in 1 .. n : g[r] = advance[r][g[r - 1]]
  <2>. HIDE DEF advance, first, n
  <2>1. Growing(n, Distance, first, advance) # {}
    BY <1>1, <1>3, <1>5, RecursionExists
  <2>. QED  BY <2>1 DEF Growing
<1>7. Recursive(g)
  <2>. HIDE DEF Entry
  <2>1. \A r \in 1 .. n : g[r] = Entry(r, g[r - 1])
    <3>1. \A r \in 1 .. n : g[r - 1] \in Distance
      BY <1>1
    <3>. QED  BY <1>6, <3>1
  <2>2. \A r \in 0 .. n : g[r] = IF r = 0 THEN AddDistance(previous[r], Insert(symbol))
                                 ELSE Entry(r, g[r - 1])
    BY <1>1, <1>6, <2>1
  <2>. QED  BY <2>2
<1>8. Recursive(column)
  <2>1. column = CHOOSE h : Recursive(h)
    BY DEF StepColumn
  <2>. HIDE DEF Recursive, column
  <2>. QED  BY <1>7, <2>1
<1>9. /\ column = [r \in 0 .. n |-> column[r]]
      /\ column[0] = first
      /\ \A r \in 1 .. n : column[r] = Entry(r, column[r - 1])
  <2>. HIDE DEF column, Entry
  <2>. QED  BY <1>1, <1>8
<1>10. column \in [0 .. n -> Distance]
  <2>1. \A r \in 1 .. n : column[r - 1] \in Distance => column[r] \in Distance
    <3>. HIDE DEF Entry, column
    <3>. QED  BY <1>4, <1>9
  <2>2. n \in Nat /\ column[0] \in Distance /\ column = [r \in 0 .. n |-> column[r]]
    <3>. HIDE DEF column, Entry
    <3>. QED  BY <1>1, <1>3, <1>9
  <2>. HIDE DEF column, Entry, n
  <2>. QED  BY <2>1, <2>2, RecursionTyped
<1>11. \A r \in 1 .. n :
          /\ column[r] = Min(StepEntry(q, column, symbol, previous, r))
          /\ column[r] \in StepEntry(q, column, symbol, previous, r)
  <2>. TAKE r \in 1 .. n
  <2>1. column[r - 1] \in Distance
    <3>. HIDE DEF column
    <3>. QED  BY <1>2, <1>10
  <2>2. column[r] = Entry(r, column[r - 1])
    BY <1>9
  <2>. HIDE DEF column, Entry
  <2>3. Entry(r, column[r - 1]) \in {AddDistance(previous[r - 1], Substitute(q[r], symbol)),
                                     AddDistance(previous[r], Insert(symbol)),
                                     AddDistance(column[r - 1], Delete(q[r]))}
    BY <1>4, <2>1
  <2>4. column[r] = Min(StepEntry(q, column, symbol, previous, r))
    BY <2>2 DEF Entry, StepEntry
  <2>. QED  BY <2>2, <2>3, <2>4 DEF StepEntry
<1>. QED  BY <1>9, <1>10, <1>11 DEF Columns

(* The columns along a whole word. *)
Program(q, word) ==
  LET columns[n \in 0 .. Len(word)] ==
        IF n = 0 THEN RootColumn(q) ELSE StepColumn(q, word[n], columns[n - 1])
  IN  columns

LEMMA ColumnsDefined ==
  ASSUME InputsOK, NEW q \in Seq(Symbols), NEW word \in Seq(Symbols)
  PROVE  /\ Program(q, word) \in [0 .. Len(word) -> Columns(q)]
         /\ Program(q, word)[0] = RootColumn(q)
         /\ \A k \in 1 .. Len(word) :
               Program(q, word)[k] = StepColumn(q, word[k], Program(q, word)[k - 1])
<1>. DEFINE m == Len(word)
            root == RootColumn(q)
            advance == [k \in 1 .. m |-> [c \in Columns(q) |-> StepColumn(q, word[k], c)]]
            Recursive(g) == g = [k \in 0 .. m |->
                IF k = 0 THEN RootColumn(q) ELSE StepColumn(q, word[k], g[k - 1])]
            columns == CHOOSE g : Recursive(g)
<1>1. m \in Nat /\ \A k \in 1 .. m : word[k] \in Symbols
  OBVIOUS
<1>2. root \in Columns(q)
  BY RootColumnDefined
<1>3. \A k \in 1 .. m, c \in Columns(q) : StepColumn(q, word[k], c) \in Columns(q)
  BY <1>1, StepColumnDefined
<1>4. advance \in Advances(m, Columns(q))
  BY <1>3 DEF Advances
<1>5. PICK g \in [0 .. m -> Columns(q)] : g[0] = root /\ \A k \in 1 .. m : g[k] = advance[k][g[k - 1]]
  <2>. HIDE DEF advance, root, m
  <2>1. Growing(m, Columns(q), root, advance) # {}
    BY <1>1, <1>2, <1>4, RecursionExists
  <2>. QED  BY <2>1 DEF Growing
<1>6. Recursive(g)
  <2>1. \A k \in 1 .. m : g[k - 1] \in Columns(q)
    BY <1>1
  <2>2. \A k \in 1 .. m : g[k] = StepColumn(q, word[k], g[k - 1])
    BY <1>5, <2>1
  <2>3. \A k \in 0 .. m :
           g[k] = IF k = 0 THEN RootColumn(q) ELSE StepColumn(q, word[k], g[k - 1])
    BY <1>1, <1>5, <2>2
  <2>. QED  BY <2>3
<1>7. Recursive(columns)
  <2>. HIDE DEF Recursive
  <2>. QED  BY <1>6
<1>8. /\ columns = [k \in 0 .. m |-> columns[k]]
      /\ columns[0] = root
      /\ \A k \in 1 .. m : columns[k] = StepColumn(q, word[k], columns[k - 1])
  <2>. HIDE DEF columns
  <2>1. \A k \in 0 .. m : columns[k] = IF k = 0 THEN RootColumn(q)
                                       ELSE StepColumn(q, word[k], columns[k - 1])
    BY <1>7
  <2>2. columns = [k \in 0 .. m |-> columns[k]]
    BY <1>7
  <2>3. columns[0] = root
    BY <1>1, <2>1
  <2>4. \A k \in 1 .. m : columns[k] = StepColumn(q, word[k], columns[k - 1])
    <3>. TAKE k \in 1 .. m
    <3>1. k \in 0 .. m /\ k # 0
      BY <1>1
    <3>. QED  BY <2>1, <3>1
  <2>. QED  BY <2>2, <2>3, <2>4
<1>9. columns \in [0 .. m -> Columns(q)]
  <2>. HIDE DEF columns
  <2>1. \A k \in 1 .. m : columns[k - 1] \in Columns(q) => columns[k] \in Columns(q)
    BY <1>3, <1>8
  <2>. HIDE DEF m, root
  <2>. QED  BY <1>1, <1>2, <1>8, <2>1, RecursionTyped
<1>10. columns = Program(q, word)
  BY DEF Program
<1>. HIDE DEF columns
<1>. QED  BY <1>8, <1>9, <1>10

------------------------------------------------------------------------------
(* A word that avoids the neighborhoods of the positions in S.             *)
Avoids(word, S, r) ==
  \A k \in 1 .. Len(word), i \in S : word[k] \notin Neighbors(query[i], r)

(* Outside a neighborhood, deletion and substitution cost at least the     *)
(* way out of it.                                                          *)
LEMMA OutsideIsCheapest ==
  ASSUME InputsOK, NEW r \in Nat, NEW i \in Positions,
         NEW c \in Alphabet, c \notin Neighbors(query[i], r)
  PROVE  OutsideCost(query[i], r) <= Substitute(query[i], c)
<1>. DEFINE Exits == {Delete(query[i])} \cup
                       {Substitute(query[i], d) : d \in Alphabet \ Neighbors(query[i], r)}
<1>1. Exits \in SUBSET Nat /\ Exits # {}
  <2>1. \A d \in Alphabet : Substitute(query[i], d) \in Cost
    BY InputTypes, PlacesAreFinite
  <2>2. Delete(query[i]) \in Cost
    BY InputTypes
  <2>. QED  BY <2>1, <2>2, CostAssumption
<1>2. Substitute(query[i], c) \in Exits
  OBVIOUS
<1>3. OutsideCost(query[i], r) = Min(Exits)
  BY DEF OutsideCost
<1>4. \A y \in Exits : Min(Exits) <= y
  <2>. HIDE DEF Exits
  <2>. QED  BY <1>1, MinIsLeast
<1>. HIDE DEF Exits
<1>. QED  BY <1>2, <1>3, <1>4

(* What the selected positions among the first k contribute together.      *)
Selects(column, S, r) ==
  \A k \in 0 .. Len(query) : RunningSum(ContributionsAt(r), S)[k] <= column[k]

(* One more position: whatever the program charges for it, at least its    *)
(* contribution if it is selected, nothing less than before if it is not.  *)
LEMMA OneMorePosition ==
  ASSUME InputsOK, NEW r \in Nat, NEW S \in SUBSET Positions, NEW k \in Positions,
         NEW before \in Distance, NEW charge \in Distance,
         RunningSum(ContributionsAt(r), S)[k - 1] <= before,
         k \in S => ContributionsAt(r)[k] <= charge
  PROVE  RunningSum(ContributionsAt(r), S)[k] <= AddDistance(before, charge)
<1>. DEFINE a == ContributionsAt(r)
            sum == RunningSum(a, S)
<1>1. k - 1 \in 0 .. Len(query) /\ k \in 0 .. Len(query)
  BY InputTypes DEF Positions
<1>2. /\ sum[k - 1] \in Distance /\ sum[k] \in Distance
      /\ a[k] \in Distance
      /\ sum[k] = IF k \in S THEN Add(sum[k - 1], a[k]) ELSE sum[k - 1]
  <2>1. a \in [Positions -> Cost]
    BY ContributionFacts
  <2>2. sum \in [0 .. Len(query) -> Distance] /\ Grows(a, S, sum, k)
    BY <2>1, RunningSumDefined
  <2>3. a[k] \in Distance
    BY <2>1, DistanceFacts
  <2>. QED  BY <1>1, <2>2, <2>3 DEF Grows
<1>. HIDE DEF sum, a
<1>3. sum[k - 1] <= before
  BY DEF sum, a
<1>4. /\ before <= AddDistance(before, charge)
      /\ before \in Nat /\ sum[k - 1] \in Nat /\ AddDistance(before, charge) \in Nat
  BY <1>2, DistanceFacts
<1>5. CASE k \notin S
  <2>1. sum[k] = sum[k - 1]
    BY <1>2, <1>5
  <2>2. sum[k - 1] <= AddDistance(before, charge)
    BY <1>3, <1>4
  <2>. QED  BY <2>1, <2>2 DEF sum, a
<1>6. CASE k \in S
  <2>1. a[k] <= charge
    BY <1>6 DEF a
  <2>2. Add(sum[k - 1], a[k]) <= AddDistance(sum[k - 1], a[k])
    BY <1>2, AddDistanceAssumption
  <2>3. AddDistance(sum[k - 1], a[k]) <= AddDistance(before, a[k])
    BY <1>2, <1>3, AddDistanceAssumption
  <2>4. AddDistance(before, a[k]) <= AddDistance(before, charge)
    BY <1>2, <2>1, AddDistanceAssumption
  <2>5. /\ Add(sum[k - 1], a[k]) \in Nat
        /\ AddDistance(sum[k - 1], a[k]) \in Nat
        /\ AddDistance(before, a[k]) \in Nat
    BY <1>2, DistanceFacts
  <2>6. Add(sum[k - 1], a[k]) <= AddDistance(before, charge)
    BY <1>4, <2>2, <2>3, <2>4, <2>5
  <2>7. sum[k] = Add(sum[k - 1], a[k])
    BY <1>2, <1>6
  <2>. QED  BY <2>6, <2>7 DEF sum, a
<1>. QED  BY <1>5, <1>6

(* What the positions of S selected so far contribute together never       *)
(* exceeds the entries of a column.                                        *)
LEMMA RootSelects ==
  ASSUME InputsOK, NEW r \in Nat, NEW S \in SUBSET Positions
  PROVE  Selects(RootColumn(query), S, r)
<1>. DEFINE n == Len(query)
            column == RootColumn(query)
            sum == RunningSum(ContributionsAt(r), S)
            Below0 == {k \in 0 .. n : sum[k] <= column[k]}
<1>1. n \in Nat
  BY InputTypes
<1>2. /\ column \in [0 .. n -> Distance] /\ column[0] = 0
      /\ \A k \in Positions : column[k] = AddDistance(column[k - 1], Delete(query[k]))
  BY InputTypes, RootColumnDefined DEF Columns, Positions
<1>3. sum[0] = 0
  BY ContributionFacts, RunningSumDefined
<1>4. 0 \in Below0
  BY <1>1, <1>2, <1>3
<1>5. ASSUME NEW k \in Below0, k < n PROVE k + 1 \in Below0
  <2>1. k + 1 \in Positions /\ k + 1 \in 0 .. n /\ (k + 1) - 1 = k /\ k \in 0 .. n
    BY <1>1, <1>5 DEF Positions
  <2>2. column[k] \in Distance /\ Delete(query[k + 1]) \in Distance
    BY <1>2, <2>1, InputTypes, DistanceFacts
  <2>3. ContributionsAt(r)[k + 1] <= Delete(query[k + 1])
    BY <2>1, InputTypes, OutsideFacts DEF ContributionsAt
  <2>4. sum[k] <= column[k]
    OBVIOUS
  <2>. HIDE DEF sum, column
  <2>5. RunningSum(ContributionsAt(r), S)[(k + 1) - 1] <= column[k]
    BY <2>1, <2>4 DEF sum
  <2>6. sum[k + 1] <= AddDistance(column[k], Delete(query[k + 1]))
    BY <2>1, <2>2, <2>3, <2>5, OneMorePosition DEF sum
  <2>. QED  BY <1>2, <2>1, <2>6
<1>6. Below0 = 0 .. n
  <2>1. Below0 \in SUBSET (0 .. n)
    OBVIOUS
  <2>. HIDE DEF Below0
  <2>. QED  BY <1>1, <1>4, <1>5, <2>1, BoundedInduction
<1>. QED  BY <1>6 DEF Selects

LEMMA StepSelects ==
  ASSUME InputsOK, NEW r \in Nat, NEW S \in SUBSET Positions,
         NEW previous \in Columns(query), Selects(previous, S, r),
         NEW c \in Alphabet, \A i \in S : c \notin Neighbors(query[i], r)
  PROVE  Selects(StepColumn(query, c, previous), S, r)
<1>. DEFINE n == Len(query)
            column == StepColumn(query, c, previous)
            sum == RunningSum(ContributionsAt(r), S)
            Fits == {k \in 0 .. n : sum[k] <= column[k]}
<1>1. n \in Nat /\ c \in Symbols
  BY InputTypes, PlacesAreFinite
<1>2. /\ column \in [0 .. n -> Distance]
      /\ column[0] = AddDistance(previous[0], Insert(c))
      /\ \A k \in Positions : column[k] \in StepEntry(query, column, c, previous, k)
  BY <1>1, InputTypes, StepColumnDefined DEF Columns, Positions
<1>3. /\ sum \in [0 .. n -> Distance]
      /\ previous \in [0 .. n -> Distance]
      /\ \A k \in 0 .. n : sum[k] <= previous[k]
  BY ContributionFacts, RunningSumDefined DEF Selects, Columns
<1>. HIDE DEF sum, column
<1>4. Insert(c) \in Distance
  BY <1>1, InsertIsCost, DistanceFacts
<1>5. ASSUME NEW k \in 0 .. n PROVE sum[k] <= AddDistance(previous[k], Insert(c))
  <2>1. sum[k] \in Nat /\ previous[k] \in Nat /\ AddDistance(previous[k], Insert(c)) \in Nat
    BY <1>3, <1>4, DistanceFacts
  <2>2. previous[k] <= AddDistance(previous[k], Insert(c))
    BY <1>3, <1>4, DistanceFacts
  <2>. QED  BY <1>3, <2>1, <2>2
<1>6. 0 \in Fits
  <2>1. 0 \in 0 .. n
    BY <1>1
  <2>. QED  BY <1>2, <1>5, <2>1
<1>7. ASSUME NEW k \in Fits, k < n PROVE k + 1 \in Fits
  <2>1. k + 1 \in Positions /\ k + 1 \in 0 .. n /\ (k + 1) - 1 = k /\ k \in 0 .. n
    BY <1>1, <1>7 DEF Positions
  <2>2. /\ column[k] \in Distance /\ previous[k] \in Distance
        /\ Delete(query[k + 1]) \in Distance
        /\ Substitute(query[k + 1], c) \in Distance
    BY <1>1, <1>2, <1>3, <2>1, InputTypes, DistanceFacts
  <2>3. ContributionsAt(r)[k + 1] <= Delete(query[k + 1])
    BY <2>1, InputTypes, OutsideFacts DEF ContributionsAt
  <2>4. k + 1 \in S => ContributionsAt(r)[k + 1] <= Substitute(query[k + 1], c)
    BY <2>1, OutsideIsCheapest DEF ContributionsAt
  <2>5. /\ RunningSum(ContributionsAt(r), S)[(k + 1) - 1] <= column[k]
        /\ RunningSum(ContributionsAt(r), S)[(k + 1) - 1] <= previous[k]
    BY <1>3, <2>1 DEF sum
  <2>6. sum[k + 1] <= AddDistance(column[k], Delete(query[k + 1]))
    BY <2>1, <2>2, <2>3, <2>5, OneMorePosition DEF sum
  <2>7. sum[k + 1] <= AddDistance(previous[k], Substitute(query[k + 1], c))
    BY <2>1, <2>2, <2>4, <2>5, OneMorePosition DEF sum
  <2>8. sum[k + 1] <= AddDistance(previous[k + 1], Insert(c))
    BY <1>5, <2>1
  <2>9. column[k + 1] \in {AddDistance(previous[k], Substitute(query[k + 1], c)),
                           AddDistance(previous[k + 1], Insert(c)),
                           AddDistance(column[k], Delete(query[k + 1]))}
    BY <1>2, <2>1 DEF StepEntry
  <2>. QED  BY <2>1, <2>6, <2>7, <2>8, <2>9
<1>8. Fits = 0 .. n
  <2>1. Fits \in SUBSET (0 .. n)
    OBVIOUS
  <2>. HIDE DEF Fits
  <2>. QED  BY <1>1, <1>6, <1>7, <2>1, BoundedInduction
<1>. QED  BY <1>8 DEF Selects, sum, column

(* The distance of a word that avoids the neighborhoods of S is at least   *)
(* the sum of the contributions of S, each computed in its own order.      *)
LEMMA AvoidingCostsTheSum ==
  ASSUME InputsOK, NEW r \in Nat, NEW S \in SUBSET Positions,
         NEW word \in Seq(Alphabet), Avoids(word, S, r)
  PROVE  /\ ComputedDistance(word) \in Distance
         /\ SumOver(ContributionsAt(r), S) <= ComputedDistance(word)
<1>1. word \in Seq(Symbols) /\ Len(word) \in Nat /\ \A k \in 1 .. Len(word) : word[k] \in Alphabet
  BY PlacesAreFinite
<1>2. PICK columns \in [0 .. Len(word) -> Columns(query)] :
         /\ columns[0] = RootColumn(query)
         /\ \A k \in 1 .. Len(word) :
               columns[k] = StepColumn(query, word[k], columns[k - 1])
         /\ ComputedDistance(word) = columns[Len(word)][Len(query)]
  <2>1. /\ Program(query, word) \in [0 .. Len(word) -> Columns(query)]
        /\ Program(query, word)[0] = RootColumn(query)
        /\ \A k \in 1 .. Len(word) :
              Program(query, word)[k] = StepColumn(query, word[k], Program(query, word)[k - 1])
    BY <1>1, InputTypes, ColumnsDefined
  <2>2. ComputedDistance(word) = Program(query, word)[Len(word)][Len(query)]
    BY DEF ComputedDistance, Program
  <2>. QED  BY <2>1, <2>2
<1>. DEFINE Holding == {k \in 0 .. Len(word) : Selects(columns[k], S, r)}
<1>3. 0 \in Holding
  BY <1>1, <1>2, RootSelects
<1>4. ASSUME NEW k \in Holding, k < Len(word) PROVE k + 1 \in Holding
  <2>1. k + 1 \in 1 .. Len(word) /\ (k + 1) - 1 = k /\ k + 1 \in 0 .. Len(word) /\ k \in 0 .. Len(word)
    BY <1>1, <1>4
  <2>2. columns[k] \in Columns(query) /\ Selects(columns[k], S, r)
    BY <1>2, <2>1
  <2>3. word[k + 1] \in Alphabet /\ \A i \in S : word[k + 1] \notin Neighbors(query[i], r)
    BY <1>1, <2>1 DEF Avoids
  <2>4. columns[k + 1] = StepColumn(query, word[k + 1], columns[k])
    BY <1>2, <2>1
  <2>5. Selects(columns[k + 1], S, r)
    BY <2>2, <2>3, <2>4, StepSelects
  <2>. QED  BY <2>1, <2>5
<1>5. Holding = 0 .. Len(word)
  <2>1. Holding \in SUBSET (0 .. Len(word))
    OBVIOUS
  <2>. HIDE DEF Holding
  <2>. QED  BY <1>1, <1>3, <1>4, <2>1, BoundedInduction
<1>6. Len(word) \in 0 .. Len(word) /\ Len(query) \in 0 .. Len(query)
  BY <1>1, InputTypes
<1>7. Selects(columns[Len(word)], S, r) /\ columns[Len(word)] \in Columns(query)
  BY <1>2, <1>5, <1>6
<1>. QED  BY <1>2, <1>6, <1>7 DEF Selects, Columns, SumOver

(* Segments are words over the alphabet of the corpus.                     *)
LEMMA WordsOfCorpus ==
  ASSUME InputsOK, NEW segment \in ProperSegments(corpus)
  PROVE  Word(corpus, segment) \in Seq(Alphabet)
<1>0. PICK id \in DOMAIN corpus :
         segment \in {<<id, b, e>> : b \in 0 .. Len(corpus[id]), e \in 1 .. Len(corpus[id])}
  BY DEF ProperSegments, Segments
<1>1. PICK b \in 0 .. Len(corpus[id]), e \in 1 .. Len(corpus[id]) :
         segment = <<id, b, e>> /\ b < e
  BY <1>0 DEF ProperSegments
<1>2. corpus[id] \in Seq(Symbols) /\ Len(corpus[id]) \in Nat
  BY InputTypes
<1>3. ASSUME NEW p \in 1 .. Len(corpus[id]) PROVE corpus[id][p] \in Alphabet
  <2>1. <<id, p>> \in Places
    BY DEF Places
  <2>. QED  BY <2>1 DEF Alphabet, SymbolAt
<1>4. corpus[id] \in Seq(Alphabet)
  BY <1>2, <1>3
<1>5. Word(corpus, segment) = SubSeq(corpus[id], b + 1, e)
  BY <1>1 DEF Word
<1>6. b + 1 \in 1 .. Len(corpus[id]) + 1 /\ e \in (b + 1) - 1 .. Len(corpus[id])
  BY <1>1, <1>2
<1>. QED  BY <1>4, <1>5, <1>6, SubSeqProperties

(* "A match the bound admits cannot avoid every selected position"         *)
(* (candidate.rs), for the sums the code computes: what verification       *)
(* admits, filtering has kept, whatever the rounding.                      *)
THEOREM NoMatchIsLost == SelectionSpec => []NoMatchAvoidsSelection
<1>1. ASSUME SelectionInv PROVE NoMatchAvoidsSelection
  <2>. DEFINE S == Range(chosen.picked)
              r == chosen.radius
  <2>. SUFFICES ASSUME stage = "counting", NEW segment \in ProperSegments(corpus),
                       Admits(ComputedDistance(Word(corpus, segment))),
                       \A i \in S : Range(Word(corpus, segment)) \cap Neighbors(query[i], r) = {}
                PROVE  FALSE
    BY DEF NoMatchAvoidsSelection
  <2>. DEFINE word == Word(corpus, segment)
  <2>1. /\ InputsOK /\ chosen.found /\ HasNextUp(threshold)
        /\ chosen \in [found : BOOLEAN, radius : Cost, picked : Seq(Positions)]
        /\ ~Admits(SumOver(ContributionsAt(r), S))
    BY <1>1 DEF SelectionInv, SelectionTypeOK, SelectsAtMiddle, Admissible, ChosenLeavesBound
  <2>2. r \in Nat /\ S \in SUBSET Positions
    <3>1. r \in Cost /\ chosen.picked \in Seq(Positions)
      BY <2>1
    <3>2. \A k \in DOMAIN chosen.picked : chosen.picked[k] \in Positions
      BY <3>1
    <3>. QED  BY <3>1, <3>2, CostAssumption DEF Range
  <2>3. word \in Seq(Alphabet)
    BY <2>1, WordsOfCorpus
  <2>4. Avoids(word, S, r)
    <3>1. \A k \in 1 .. Len(word) : word[k] \in Range(word)
      BY <2>3 DEF Range
    <3>. QED  BY <3>1 DEF Avoids
  <2>5. /\ ComputedDistance(word) \in Distance
        /\ SumOver(ContributionsAt(r), S) <= ComputedDistance(word)
    <3>. HIDE DEF S, r, word
    <3>. QED  BY <2>1, <2>2, <2>3, <2>4, AvoidingCostsTheSum
  <2>6. SumOver(ContributionsAt(r), S) \in Distance
    <3>. HIDE DEF S, r
    <3>. QED  BY <2>1, <2>2, ContributionFacts, SumType
  <2>. QED  BY <2>1, <2>5, <2>6, BoundFacts
<1>. QED  BY SelectionIsInvariant, <1>1, PTL

------------------------------------------------------------------------------
(***************************************************************************)
(* 4. Candidates and the limit.                                            *)
(***************************************************************************)
Capped(n) == IF n < MaxUsize THEN n ELSE MaxUsize

(* Saturating addition, whatever the numbers.                              *)
LEMMA SaturatingFacts ==
  /\ \A x, y \in Nat : SaturatingAdd(x, y) = Capped(x + y) /\ SaturatingAdd(x, y) \in Nat
  /\ \A n \in Nat : Capped(n) \in Nat /\ Capped(n) <= MaxUsize /\ Capped(Capped(n)) = Capped(n)
  /\ \A x, y, z \in Nat : Capped(y) = Capped(z) => Capped(Capped(x) + y) = Capped(x + z)
<1>1. ASSUME NEW x \in Nat, NEW y \in Nat
      PROVE  SaturatingAdd(x, y) = Capped(x + y) /\ SaturatingAdd(x, y) \in Nat
  <2>. DEFINE T == {x + y, MaxUsize}
  <2>1. T \in SUBSET Nat /\ T # {}
    BY MaxUsizeAssumption
  <2>2. Min(T) \in T /\ \A n \in T : Min(T) <= n
    <3>. HIDE DEF T
    <3>. QED  BY <2>1, MinIsLeast
  <2>3. SaturatingAdd(x, y) = Min(T)
    BY DEF SaturatingAdd
  <2>. QED  BY <2>2, <2>3, MaxUsizeAssumption DEF Capped
<1>. QED  BY <1>1, MaxUsizeAssumption DEF Capped

(* Adding up with saturation counts the elements of joined sequences, as   *)
(* far as a number can count, from lengths that may have been cut off too. *)
LEMMA SaturatingSumCounts ==
  ASSUME NEW T, NEW parts \in Seq(Seq(T)), NEW lengths \in Seq(Nat), Len(lengths) = Len(parts),
         \A k \in 1 .. Len(parts) : Capped(lengths[k]) = Capped(Len(parts[k]))
  PROVE  SaturatingSum(lengths) = Capped(Len(FlattenSeq(parts)))
<1>. DEFINE n == Len(parts)
            advance == [k \in 1 .. n |-> [x \in Nat |-> SaturatingAdd(x, lengths[k])]]
            Recursive(g) == g = [k \in 0 .. Len(lengths) |->
                                   IF k = 0 THEN 0 ELSE SaturatingAdd(g[k - 1], lengths[k])]
            sum == CHOOSE g : Recursive(g)
<1>1. n \in Nat /\ Len(lengths) = n /\ \A k \in 1 .. n : lengths[k] \in Nat /\ parts[k] \in Seq(T)
  OBVIOUS
<1>2. advance \in Advances(n, Nat)
  <2>1. \A x, y \in Nat : SaturatingAdd(x, y) \in Nat
    BY SaturatingFacts
  <2>. QED  BY <1>1, <2>1 DEF Advances
<1>3. PICK g \in [0 .. n -> Nat] : g[0] = 0 /\ \A k \in 1 .. n : g[k] = advance[k][g[k - 1]]
  <2>. HIDE DEF advance, n
  <2>1. Growing(n, Nat, 0, advance) # {}
    BY <1>1, <1>2, RecursionExists
  <2>. QED  BY <2>1 DEF Growing
<1>4. Recursive(g)
  <2>0. \A k \in 1 .. n : k - 1 \in 0 .. n
    BY <1>1
  <2>1. \A k \in 1 .. n : g[k - 1] \in Nat
    <3>. HIDE DEF n
    <3>. QED  BY <2>0
  <2>2. \A k \in 1 .. n : g[k] = SaturatingAdd(g[k - 1], lengths[k])
    BY <1>3, <2>1
  <2>3. \A k \in 0 .. n : g[k] = IF k = 0 THEN 0 ELSE SaturatingAdd(g[k - 1], lengths[k])
    BY <1>1, <1>3, <2>2
  <2>. QED  BY <1>1, <2>3
<1>5. Recursive(sum)
  <2>. HIDE DEF Recursive
  <2>. QED  BY <1>4
<1>6. sum[0] = 0 /\ \A k \in 1 .. n : sum[k] = SaturatingAdd(sum[k - 1], lengths[k])
  <2>. HIDE DEF sum
  <2>1. \A k \in 0 .. n : sum[k] = IF k = 0 THEN 0 ELSE SaturatingAdd(sum[k - 1], lengths[k])
    BY <1>1, <1>5
  <2>2. 0 \in 0 .. n /\ \A k \in 1 .. n : k \in 0 .. n /\ k # 0
    BY <1>1
  <2>. HIDE DEF n
  <2>. QED  BY <2>1, <2>2
<1>7. SaturatingSum(lengths) = sum[n]
  BY <1>1 DEF SaturatingSum
<1>. HIDE DEF sum
<1>8. PICK f \in [0 .. n -> Seq(T)] :
         /\ f[0] = <<>>
         /\ \A k \in 1 .. n : f[k] = f[k - 1] \o parts[k]
         /\ FlattenSeq(parts) = f[n]
  BY FlattenDefined
<1>. DEFINE K == {k \in 0 .. n : sum[k] = Capped(Len(f[k]))}
<1>9. 0 \in K
  BY <1>1, <1>6, <1>8, MaxUsizeAssumption DEF Capped
<1>10. ASSUME NEW k \in K, k < n PROVE k + 1 \in K
  <2>1. k + 1 \in 1 .. n /\ k + 1 \in 0 .. n /\ (k + 1) - 1 = k /\ k \in 0 .. n
    BY <1>1, <1>10
  <2>2. f[k] \in Seq(T) /\ parts[k + 1] \in Seq(T) /\ lengths[k + 1] \in Nat
    BY <1>1, <2>1
  <2>3. f[k + 1] = f[k] \o parts[k + 1]
    BY <1>8, <2>1
  <2>. DEFINE x == Len(f[k])
              z == Len(parts[k + 1])
              y == lengths[k + 1]
  <2>4. Len(f[k + 1]) = x + z /\ x \in Nat /\ z \in Nat /\ y \in Nat
    BY <2>2, <2>3, ConcatProperties
  <2>5. sum[k + 1] = SaturatingAdd(Capped(x), y)
    BY <1>6, <2>1
  <2>6. Capped(y) = Capped(z)
    BY <2>1
  <2>. HIDE DEF x, y, z
  <2>7. sum[k + 1] = Capped(x + z)
    <3>1. Capped(x) \in Nat
      BY <2>4, SaturatingFacts
    <3>2. SaturatingAdd(Capped(x), y) = Capped(Capped(x) + y)
      BY <2>4, <3>1, SaturatingFacts
    <3>3. Capped(Capped(x) + y) = Capped(x + z)
      BY <2>4, <2>6, SaturatingFacts
    <3>. QED  BY <2>5, <3>2, <3>3
  <2>. QED  BY <2>1, <2>4, <2>7
<1>11. K = 0 .. n
  <2>1. K \in SUBSET (0 .. n)
    OBVIOUS
  <2>. HIDE DEF K, n
  <2>. QED  BY <1>1, <1>9, <1>10, <2>1, BoundedInduction
<1>12. n \in K
  BY <1>1, <1>11, SMTT(30)
<1>. QED  BY <1>7, <1>8, <1>12

------------------------------------------------------------------------------
(* The anchors at the places in a posting list.                            *)
Anchor(place, i) == [string |-> place[1], position |-> place[2], query |-> i]
AnchorsAt(c, i) ==
  LET places == SortedBy(Postings(c), PlaceBefore)
  IN  [k \in DOMAIN places |-> [string |-> places[k][1], position |-> places[k][2], query |-> i]]
Anchored == {Anchor(place, i) : place \in Places, i \in Positions}

(* A posting list in order. *)
LEMMA PlacesAreNumbered ==
  ASSUME InputsOK, NEW place \in Places
  PROVE  /\ place[1] \in DOMAIN corpus /\ place[1] \in Nat
         /\ place[2] \in 1 .. Len(corpus[place[1]]) /\ place[2] \in Nat
         /\ place = <<place[1], place[2]>>
<1>1. PICK id \in DOMAIN corpus : place \in {<<id, p>> : p \in 1 .. Len(corpus[id])}
  BY DEF Places
<1>2. PICK p \in 1 .. Len(corpus[id]) : place = <<id, p>>
  BY <1>1
<1>3. id \in Nat /\ Len(corpus[id]) \in Nat
  BY InputTypes
<1>. QED  BY <1>2, <1>3

LEMMA PostingsAreSorted ==
  ASSUME InputsOK, NEW c
  PROVE  LET places == SortedBy(Postings(c), PlaceBefore)
         IN  /\ places \in Seq(Postings(c))
             /\ Len(places) = Frequency(c)
             /\ \A place \in Postings(c) : \E k \in 1 .. Len(places) : places[k] = place
<1>. DEFINE S == Postings(c)
            s == SortedBy(S, PlaceBefore)
            R == {pair \in S \X S : PlaceBefore(pair[1], pair[2])}
            n == Cardinality(S)
<1>1. S \in SUBSET Places /\ IsFiniteSet(S) /\ n \in Nat
  BY PlacesAreFinite, FS_Subset, FS_CardinalityType DEF Postings
<1>2. \A x, y \in S : <<x, y>> \in R <=> PlaceBefore(x, y)
  OBVIOUS
<1>3. \A x \in S : x[1] \in Nat /\ x[2] \in Nat /\ x = <<x[1], x[2]>>
  BY <1>1, PlacesAreNumbered
<1>. HIDE DEF R, S
<1>4. StrictOrder(S, R)
  BY <1>2, <1>3 DEF StrictOrder, PlaceBefore
<1>5. \A x \in S : Under(S, R, x) = {y \in S : PlaceBefore(y, x)}
  BY <1>2 DEF Under
<1>6. s = [k \in 1 .. n |-> s[k]]
  BY SMTT(30) DEF SortedBy
<1>7. ASSUME NEW k \in 1 .. n, \E x \in S : Cardinality(Under(S, R, x)) = k - 1
      PROVE  s[k] \in S /\ Cardinality(Under(S, R, s[k])) = k - 1
  <2>1. s[k] = CHOOSE x \in S : Cardinality({y \in S : PlaceBefore(y, x)}) = k - 1
    BY DEF SortedBy
  <2>. HIDE DEF s
  <2>2. \E x \in S : Cardinality({y \in S : PlaceBefore(y, x)}) = k - 1
    BY <1>5, <1>7
  <2>3. s[k] \in S /\ Cardinality({y \in S : PlaceBefore(y, s[k])}) = k - 1
    BY <2>1, <2>2
  <2>. QED  BY <1>5, <2>3
<1>8. Sorts(S, R, s, n)
  <2>. HIDE DEF s
  <2>. QED  BY <1>1, <1>4, <1>6, <1>7, ChosenByRank
<1>. HIDE DEF s
<1>9. s \in Seq(S) /\ Len(s) = n /\ \A place \in S : \E k \in 1 .. Len(s) : s[k] = place
  BY <1>8 DEF Sorts
<1>. QED  BY <1>9 DEF s, S, Frequency

(* So each occurrence of a neighbor becomes an anchor, once.               *)
LEMMA AnchorsOfPostings ==
  ASSUME InputsOK, NEW c, NEW i \in Positions
  PROVE  /\ AnchorsAt(c, i) \in Seq(Anchored)
         /\ Len(AnchorsAt(c, i)) = Frequency(c)
         /\ Frequency(c) \in Nat
         /\ \A place \in Postings(c) :
               \E k \in 1 .. Len(AnchorsAt(c, i)) : AnchorsAt(c, i)[k] = Anchor(place, i)
<1>. DEFINE places == SortedBy(Postings(c), PlaceBefore)
            s == AnchorsAt(c, i)
<1>1. /\ places \in Seq(Postings(c))
      /\ Len(places) = Frequency(c)
      /\ \A place \in Postings(c) : \E k \in 1 .. Len(places) : places[k] = place
  BY PostingsAreSorted
<1>2. s = [k \in DOMAIN places |-> Anchor(places[k], i)]
  BY DEF AnchorsAt, Anchor
<1>. HIDE DEF places, s
<1>3. \A k \in 1 .. Len(places) : places[k] \in Postings(c) /\ places[k] \in Places
  BY <1>1 DEF Postings
<1>4. /\ Len(places) \in Nat /\ DOMAIN places = 1 .. Len(places)
      /\ \A k \in 1 .. Len(places) : s[k] = Anchor(places[k], i) /\ s[k] \in Anchored
  BY <1>1, <1>2, <1>3 DEF Anchored
<1>5. s \in [1 .. Len(places) -> Anchored]
  BY <1>2, <1>4
<1>6. s \in Seq(Anchored) /\ Len(s) = Len(places)
  BY <1>4, <1>5
<1>. QED  BY <1>1, <1>4, <1>6 DEF s

(* Joining loses nothing. *)
LEMMA FlattenCovers ==
  ASSUME NEW T, NEW parts \in Seq(Seq(T)), NEW k \in 1 .. Len(parts), NEW j \in 1 .. Len(parts[k])
  PROVE  \E n \in 1 .. Len(FlattenSeq(parts)) : FlattenSeq(parts)[n] = parts[k][j]
<1>. DEFINE F(a, b) == FlattenSeq(SubSeq(parts, a, b))
            all == FlattenSeq(parts)
            part == parts[k]
<1>1. k - 1 \in 0 .. Len(parts) /\ k \in (k - 1) .. Len(parts) /\ (k - 1) + 1 = k /\ part \in Seq(T)
  OBVIOUS
<1>2. /\ F((k - 1) + 1, k) \in Seq(T)
      /\ Len(F(1, k - 1)) \in Nat
      /\ Len(F(1, k)) = Len(F(1, k - 1)) + Len(F((k - 1) + 1, k))
      /\ Len(F(1, k)) <= Len(all)
      /\ SubSeq(all, Len(F(1, k - 1)) + 1, Len(F(1, k))) = F((k - 1) + 1, k)
  BY <1>1, FlattenSlice
<1>3. F(k, k) = part
  <2>1. SubSeq(parts, k, k) = <<part>>
    <3>1. k \in 1 .. (Len(parts) + 1) /\ k \in (k - 1) .. Len(parts) /\ \A i \in k .. k : parts[i] \in Seq(T)
      OBVIOUS
    <3>2. /\ SubSeq(parts, k, k) \in Seq(Seq(T)) /\ Len(SubSeq(parts, k, k)) = 1
          /\ SubSeq(parts, k, k)[1] = parts[k]
      BY <3>1, SubSeqProperties
    <3>3. <<part>> \in Seq(Seq(T)) /\ Len(<<part>>) = 1 /\ <<part>>[1] = part
      BY <1>1
    <3>4. \A i \in 1 .. 1 : SubSeq(parts, k, k)[i] = <<part>>[i]
      BY <3>2, <3>3
    <3>. QED  BY <3>2, <3>3, <3>4, SeqEqual
  <2>. QED  BY <1>1, <2>1, FlattenOne
<1>. DEFINE x == Len(F(1, k - 1))
<1>4. all \in Seq(T)
  BY FlattenType
<1>. HIDE DEF F, x, part, all
<1>5. /\ x \in Nat /\ Len(part) \in Nat /\ x + Len(part) <= Len(all) /\ Len(all) \in Nat
      /\ SubSeq(all, x + 1, x + Len(part)) = part
  <2>1. F((k - 1) + 1, k) = part
    BY <1>1, <1>3
  <2>2. x \in Nat /\ Len(part) \in Nat /\ Len(all) \in Nat
    <3>1. x \in Nat
      BY <1>2 DEF x
    <3>2. part \in Seq(T) /\ all \in Seq(T)
      BY <1>1, <1>4
    <3>. QED  BY <3>1, <3>2
  <2>3. Len(F(1, k)) = x + Len(part)
    BY <1>2, <2>1 DEF x
  <2>4. Len(F(1, k)) <= Len(all) /\ SubSeq(all, x + 1, Len(F(1, k))) = part
    BY <1>2, <2>1 DEF x
  <2>. QED  BY <2>2, <2>3, <2>4
<1>6. j \in 1 .. Len(part) /\ x + j \in 1 .. Len(all)
  BY <1>5 DEF part
<1>7. all[x + j] = part[j]
  <2>1. SubSeq(all, x + 1, x + Len(part))[j] = all[x + j]
    <3>1. SubSeq(all, x + 1, x + Len(part))[j] = all[(x + 1) + j - 1] /\ (x + 1) + j - 1 = x + j
      BY <1>4, <1>5, <1>6
    <3>. QED  BY <3>1
  <2>. QED  BY <1>5, <2>1
<1>. QED  BY <1>6, <1>7 DEF part, all

(* The neighbors of a query symbol, in alphabet order, and their anchors.  *)
NeighborsInOrder(i, r) == Ascending(Neighbors(query[i], r))
AnchorLists(i, r) == [k \in DOMAIN NeighborsInOrder(i, r) |-> AnchorsAt(NeighborsInOrder(i, r)[k], i)]

(* Every neighbor is in the list. *)
NeighborsAreListed(i, r) ==
  \A c \in Neighbors(query[i], r) :
     \E k \in 1 .. Len(NeighborsInOrder(i, r)) : NeighborsInOrder(i, r)[k] = c

LEMMA NeighborsAreSorted ==
  ASSUME InputsOK, NEW i \in Positions, NEW r
  PROVE  NeighborsInOrder(i, r) \in Seq(Alphabet) /\ NeighborsAreListed(i, r)
<1>. DEFINE S == Neighbors(query[i], r)
            s == Ascending(S)
<1>1. S \in SUBSET Alphabet /\ S \in SUBSET Symbols /\ S \in SUBSET Nat
  BY PlacesAreFinite, InputsAssumption DEF Neighbors
<1>2. IsFiniteSet(S)
  BY <1>1, InputsAssumption, FS_Subset
<1>. HIDE DEF S
<1>3. s \in Seq(S) /\ \A c \in S : \E k \in 1 .. Len(s) : s[k] = c
  BY <1>1, <1>2, AscendingIsSorted
<1>. HIDE DEF s
<1>4. s \in Seq(Alphabet)
  <2>1. Len(s) \in Nat /\ s \in [1 .. Len(s) -> S]
    BY <1>3
  <2>2. s \in [1 .. Len(s) -> Alphabet]
    BY <1>1, <2>1
  <2>. QED  BY <2>1, <2>2
<1>5. NeighborsAreListed(i, r)
  BY <1>3 DEF s, S, NeighborsInOrder, NeighborsAreListed
<1>. QED  BY <1>4, <1>5 DEF s, S, NeighborsInOrder

(* The candidates at a position: each occurrence of each of its neighbors. *)
LEMMA CandidatesAtPosition ==
  ASSUME InputsOK, NEW i \in Positions, NEW r
  PROVE  LET counts == [k \in DOMAIN NeighborsInOrder(i, r) |-> Frequency(NeighborsInOrder(i, r)[k])]
         IN  /\ CandidatesAt(i, r) \in Seq(Anchored)
             /\ SaturatingSum(counts) = Capped(Len(CandidatesAt(i, r)))
             /\ \A place \in Places : SymbolAt(place) \in Neighbors(query[i], r) =>
                   \E k \in 1 .. Len(CandidatesAt(i, r)) : CandidatesAt(i, r)[k] = Anchor(place, i)
<1>. DEFINE s == NeighborsInOrder(i, r)
            lists == AnchorLists(i, r)
            counts == [k \in DOMAIN NeighborsInOrder(i, r) |-> Frequency(NeighborsInOrder(i, r)[k])]
            all == CandidatesAt(i, r)
<1>1. s \in Seq(Alphabet)
  BY NeighborsAreSorted
<1>2. all = FlattenSeq(lists)
  BY DEF CandidatesAt, AnchorLists, AnchorsAt, NeighborsInOrder
<1>3. lists = [k \in DOMAIN s |-> AnchorsAt(s[k], i)] /\ counts = [k \in DOMAIN s |-> Frequency(s[k])]
  BY DEF AnchorLists
<1>. HIDE DEF s, lists, counts, all
<1>. DEFINE n == Len(s)
<1>4. n \in Nat /\ DOMAIN s = 1 .. n
  BY <1>1
<1>5. ASSUME NEW k \in 1 .. n
      PROVE  /\ lists[k] \in Seq(Anchored)
             /\ counts[k] \in Nat
             /\ Len(lists[k]) = counts[k]
             /\ lists[k] = AnchorsAt(s[k], i)
  <2>1. lists[k] = AnchorsAt(s[k], i) /\ counts[k] = Frequency(s[k])
    BY <1>3, <1>4
  <2>. QED  BY <2>1, AnchorsOfPostings
<1>6. lists \in Seq(Seq(Anchored)) /\ Len(lists) = n
  <2>1. lists \in [1 .. n -> Seq(Anchored)]
    BY <1>3, <1>4, <1>5
  <2>. QED  BY <1>4, <2>1
<1>7. counts \in Seq(Nat) /\ Len(counts) = n
  <2>1. counts \in [1 .. n -> Nat]
    BY <1>3, <1>4, <1>5
  <2>. QED  BY <1>4, <2>1
<1>. HIDE DEF n
<1>8. SaturatingSum(counts) = Capped(Len(all))
  BY <1>2, <1>5, <1>6, <1>7, SaturatingSumCounts
<1>9. all \in Seq(Anchored)
  BY <1>2, <1>6, FlattenType
<1>10. ASSUME NEW place \in Places, SymbolAt(place) \in Neighbors(query[i], r)
       PROVE  \E k \in 1 .. Len(all) : all[k] = Anchor(place, i)
  <2>1. PICK k \in 1 .. n : s[k] = SymbolAt(place)
    <3>1. NeighborsAreListed(i, r)
      BY NeighborsAreSorted
    <3>2. \E k \in 1 .. Len(NeighborsInOrder(i, r)) : NeighborsInOrder(i, r)[k] = SymbolAt(place)
      BY <1>10, <3>1 DEF NeighborsAreListed
    <3>. QED  BY <3>2 DEF s, n
  <2>2. place \in Postings(s[k])
    BY <2>1 DEF Postings
  <2>3. PICK j \in 1 .. Len(AnchorsAt(s[k], i)) : AnchorsAt(s[k], i)[j] = Anchor(place, i)
    BY <2>2, AnchorsOfPostings
  <2>4. lists[k] = AnchorsAt(s[k], i) /\ k \in 1 .. Len(lists)
    BY <1>5, <1>6, <2>1
  <2>5. j \in 1 .. Len(lists[k]) /\ lists[k][j] = Anchor(place, i)
    BY <2>3, <2>4
  <2>6. PICK m \in 1 .. Len(FlattenSeq(lists)) : FlattenSeq(lists)[m] = lists[k][j]
    BY <1>6, <2>4, <2>5, FlattenCovers
  <2>. QED  BY <1>2, <2>5, <2>6
<1>. QED  BY <1>8, <1>9, <1>10 DEF all, counts

(* All candidates: counted exactly as far as a number can count.           *)
LEMMA CandidatesGenerated ==
  ASSUME InputsOK, chosen.picked \in Seq(Positions)
  PROVE  /\ GeneratedCandidates \in Seq(Anchored)
         /\ CountedCandidates = Capped(Len(GeneratedCandidates))
         /\ \A i \in Range(chosen.picked), place \in Places :
               SymbolAt(place) \in Neighbors(query[i], chosen.radius) =>
                  \E k \in 1 .. Len(GeneratedCandidates) :
                     GeneratedCandidates[k] = Anchor(place, i)
<1>. DEFINE p == chosen.picked
            r == chosen.radius
            counts(i) == [k \in DOMAIN NeighborsInOrder(i, r) |-> Frequency(NeighborsInOrder(i, r)[k])]
            parts == [k \in DOMAIN p |-> CandidatesAt(p[k], r)]
            lengths == [k \in DOMAIN p |-> SaturatingSum(counts(p[k]))]
            n == Len(p)
<1>1. n \in Nat /\ DOMAIN p = 1 .. n /\ \A k \in 1 .. n : p[k] \in Positions
  OBVIOUS
<1>2. GeneratedCandidates = FlattenSeq(parts) /\ CountedCandidates = SaturatingSum(lengths)
  BY DEF GeneratedCandidates, CountedCandidates, NeighborsInOrder
<1>3. ASSUME NEW k \in 1 .. n
      PROVE  /\ parts[k] = CandidatesAt(p[k], r)
             /\ parts[k] \in Seq(Anchored)
             /\ lengths[k] = Capped(Len(parts[k]))
             /\ lengths[k] \in Nat /\ Capped(lengths[k]) = Capped(Len(parts[k]))
  <2>1. parts[k] = CandidatesAt(p[k], r) /\ lengths[k] = SaturatingSum(counts(p[k]))
    BY <1>1
  <2>. HIDE DEF parts, lengths
  <2>2. parts[k] \in Seq(Anchored) /\ lengths[k] = Capped(Len(parts[k]))
    BY <1>1, <2>1, CandidatesAtPosition
  <2>3. Len(parts[k]) \in Nat
    BY <2>2
  <2>. QED  BY <2>1, <2>2, <2>3, SaturatingFacts
<1>. HIDE DEF counts
<1>4. parts \in Seq(Seq(Anchored)) /\ Len(parts) = n
  <2>1. parts \in [1 .. n -> Seq(Anchored)]
    BY <1>1, <1>3
  <2>. QED  BY <1>1, <2>1
<1>5. lengths \in Seq(Nat) /\ Len(lengths) = n
  <2>1. lengths \in [1 .. n -> Nat]
    BY <1>1, <1>3
  <2>. QED  BY <1>1, <2>1
<1>. HIDE DEF parts, lengths
<1>6. CountedCandidates = Capped(Len(GeneratedCandidates))
  <2>. HIDE DEF n
  <2>. QED  BY <1>2, <1>3, <1>4, <1>5, SaturatingSumCounts
<1>7. GeneratedCandidates \in Seq(Anchored)
  BY <1>2, <1>4, FlattenType
<1>8. ASSUME NEW i \in Range(p), NEW place \in Places, SymbolAt(place) \in Neighbors(query[i], r)
      PROVE  \E k \in 1 .. Len(GeneratedCandidates) : GeneratedCandidates[k] = Anchor(place, i)
  <2>1. PICK k \in 1 .. n : p[k] = i
    BY <1>1 DEF Range
  <2>2. PICK j \in 1 .. Len(CandidatesAt(i, r)) : CandidatesAt(i, r)[j] = Anchor(place, i)
    BY <1>1, <1>8, <2>1, CandidatesAtPosition
  <2>3. j \in 1 .. Len(parts[k]) /\ parts[k][j] = Anchor(place, i) /\ k \in 1 .. Len(parts)
    BY <1>3, <1>4, <2>1, <2>2
  <2>4. PICK m \in 1 .. Len(FlattenSeq(parts)) : FlattenSeq(parts)[m] = parts[k][j]
    BY <1>4, <2>3, FlattenCovers
  <2>. QED  BY <1>2, <2>3, <2>4
<1>. QED  BY <1>6, <1>7, <1>8

------------------------------------------------------------------------------
(* Candidates are valid. *)
LEMMA AnchoredAreValid ==
  ASSUME InputsOK, NEW candidate \in Anchored
  PROVE  IsValid(candidate)
<1>1. PICK place \in Places, i \in Positions : candidate = Anchor(place, i)
  BY DEF Anchored
<1>. QED  BY <1>1, PlacesAreNumbered DEF IsValid, Anchor

(* The neighborhoods, postings and candidates of a search never change.    *)
LEMMA CandidatesFixed ==
  ASSUME UNCHANGED inputs
  PROVE  /\ \A s, r : Neighbors(s, r)' = Neighbors(s, r)
         /\ \A c : Postings(c)' = Postings(c) /\ Frequency(c)' = Frequency(c)
         /\ Anchored' = Anchored
         /\ \A i, r : CandidatesAt(i, r)' = CandidatesAt(i, r)
         /\ chosen' = chosen => /\ GeneratedCandidates' = GeneratedCandidates
                                /\ CountedCandidates' = CountedCandidates
                                /\ WithinLimit' = WithinLimit
<1>1. \A s, r : Neighbors(s, r)' = Neighbors(s, r)
  BY InputsFixed DEF inputs, Neighbors, Substitute
<1>2. \A c : Postings(c)' = Postings(c)
  BY InputsFixed DEF inputs, Postings, SymbolAt
<1>3. \A c : Frequency(c)' = Frequency(c)
  BY <1>2 DEF Frequency
<1>4. \A i, r : CandidatesAt(i, r)' = CandidatesAt(i, r)
  <2>. SUFFICES ASSUME NEW i, NEW r PROVE CandidatesAt(i, r)' = CandidatesAt(i, r)
    OBVIOUS
  <2>1. query' = query
    BY DEF inputs
  <2>2. \A c : AnchorsAt(c, i)' = AnchorsAt(c, i)
    BY <1>2 DEF AnchorsAt
  <2>3. NeighborsInOrder(i, r)' = NeighborsInOrder(i, r)
    BY <1>1, <2>1 DEF NeighborsInOrder
  <2>4. AnchorLists(i, r)' = AnchorLists(i, r)
    BY <2>2, <2>3 DEF AnchorLists
  <2>5. CandidatesAt(i, r) = FlattenSeq(AnchorLists(i, r))
    BY DEF CandidatesAt, AnchorLists, AnchorsAt, NeighborsInOrder
  <2>6. CandidatesAt(i, r)' = FlattenSeq(AnchorLists(i, r)')
    BY DEF CandidatesAt, AnchorLists, AnchorsAt, NeighborsInOrder
  <2>. QED  BY <2>4, <2>5, <2>6
<1>5. ASSUME chosen' = chosen
      PROVE  /\ GeneratedCandidates' = GeneratedCandidates
             /\ CountedCandidates' = CountedCandidates
             /\ WithinLimit' = WithinLimit
  <2>1. GeneratedCandidates' = GeneratedCandidates
    BY <1>4, <1>5 DEF GeneratedCandidates
  <2>2. CountedCandidates' = CountedCandidates
    BY <1>1, <1>3, <1>5 DEF inputs, CountedCandidates
  <2>3. WithinLimit' = WithinLimit
    BY <2>2 DEF inputs, WithinLimit
  <2>. QED  BY <2>1, <2>2, <2>3
<1>6. Anchored' = Anchored
  BY InputsFixed DEF Anchored, Anchor
<1>. QED  BY <1>1, <1>2, <1>3, <1>4, <1>5, <1>6

------------------------------------------------------------------------------
(* The state of a whole search.  What filtering has settled stays settled. *)
LateStages == {"expensive", "validating", "verifying", "answered"}

Filtered ==
  /\ InputsOK
  /\ HasNextUp(threshold)
  /\ AnyRadiusCanSelect
  /\ chosen \in [found : BOOLEAN, radius : Cost, picked : Seq(Positions)]
  /\ chosen.found
  /\ ChosenLeavesBound

SearchInv ==
  /\ stage \in SelectionStages \cup LateStages
  /\ stage \in SelectionStages => SelectionInv /\ VerificationInit
  /\ stage \in LateStages => Filtered
  /\ stage = "expensive" => ~WithinLimit
  /\ stage \in {"validating", "verifying", "answered"} =>
        WithinLimit /\ candidates = GeneratedCandidates
  /\ stage = "validating" => VerificationInit

LEMMA FilteredStays ==
  ASSUME Filtered, UNCHANGED <<inputs, chosen>>
  PROVE  Filtered'
<1>1. UNCHANGED inputs /\ UNCHANGED chosen
  OBVIOUS
<1>. QED  BY <1>1, InputsFixed, DeletionsFixed, ChosenKept DEF Filtered

LEMMA CountingIsFiltered ==
  ASSUME SelectionInv, stage = "counting"
  PROVE  Filtered
BY DEF SelectionInv, SelectionTypeOK, Admissible, SelectsAtMiddle, Filtered

(* The steps of position selection. *)
LEMMA SelectionSteps ==
  ASSUME SearchInv, SelectionNext, UNCHANGED verificationVars
  PROVE  SearchInv'
<1>1. stage \in {"checking", "selecting", "widening"}
  BY DEF SelectionNext, RejectThreshold, Decline, StartAtDerivedRadius, Pick,
         SelectionSucceeds, SelectionFails, TryMiddle, SettleRadius
<1>2. SelectionInv /\ VerificationInit
  BY <1>1 DEF SearchInv, SelectionStages
<1>3. SelectionInv'
  BY <1>2, InductiveStep
<1>4. stage' \in SelectionStages /\ stage' \notin LateStages
  BY <1>3 DEF SelectionInv, SelectionTypeOK, SelectionStages, LateStages
<1>5. VerificationInit'
  BY <1>2 DEF VerificationInit, verificationVars
<1>. QED  BY <1>3, <1>4, <1>5 DEF SearchInv, LateStages

(* The limit is decided. *)
LEMMA LimitSteps ==
  ASSUME SearchInv, DeclineExpensive \/ Generate, UNCHANGED verificationVars
  PROVE  SearchInv'
<1>1. /\ stage = "counting" /\ UNCHANGED inputs /\ UNCHANGED chosen
      /\ stage' \in {"expensive", "validating"}
      /\ stage' = "expensive" => ~WithinLimit
      /\ stage' = "validating" => WithinLimit /\ candidates' = GeneratedCandidates
  BY DEF DeclineExpensive, Generate, selectionVars
<1>2. Filtered /\ VerificationInit
  BY <1>1, CountingIsFiltered DEF SearchInv, SelectionStages
<1>3. Filtered' /\ VerificationInit'
  BY <1>1, <1>2, FilteredStays DEF VerificationInit, verificationVars
<1>4. WithinLimit' = WithinLimit /\ GeneratedCandidates' = GeneratedCandidates
  BY <1>1, CandidatesFixed
<1>. QED  BY <1>1, <1>3, <1>4 DEF SearchInv, SelectionStages, LateStages

(* Generated candidates are valid: RejectCandidates never happens.         *)
LEMMA VerificationSteps ==
  ASSUME SearchInv, VerificationNext, UNCHANGED selectionVars
  PROVE  SearchInv'
<1>1. /\ stage \in {"validating", "verifying"}
      /\ UNCHANGED inputs /\ UNCHANGED candidates /\ UNCHANGED chosen
      /\ stage' = "failed" => stage = "validating" /\ \E k \in DOMAIN candidates : ~IsValid(candidates[k])
      /\ stage' \in {"failed", "verifying", "answered"}
  BY DEF VerificationNext, RejectCandidates, AcceptCandidates, SkipCandidate, VerifyCandidate,
         Finish, selectionVars
<1>2. Filtered /\ WithinLimit /\ candidates = GeneratedCandidates
  BY <1>1 DEF SearchInv, LateStages
<1>3. stage' # "failed"
  <2>1. InputsOK /\ candidates \in Seq(Anchored)
    BY <1>2, CandidatesGenerated DEF Filtered
  <2>2. \A k \in DOMAIN candidates : candidates[k] \in Anchored
    BY <2>1
  <2>. QED  BY <1>1, <2>1, <2>2, AnchoredAreValid
<1>4. Filtered'
  BY <1>1, <1>2, FilteredStays
<1>5. WithinLimit' /\ candidates' = GeneratedCandidates'
  BY <1>1, <1>2, CandidatesFixed
<1>. QED  BY <1>1, <1>3, <1>4, <1>5 DEF SearchInv, SelectionStages, LateStages

LEMMA SearchStutters ==
  ASSUME SearchInv, UNCHANGED vars
  PROVE  SearchInv'
<1>1. /\ UNCHANGED selectionState /\ UNCHANGED verificationVars /\ UNCHANGED inputs
      /\ UNCHANGED stage /\ UNCHANGED candidates /\ UNCHANGED chosen
  BY DEF vars, selectionState, selectionVars
<1>2. SelectionInv => SelectionInv'
  BY <1>1, StutteringStep
<1>3. Filtered => Filtered'
  BY <1>1, FilteredStays
<1>4. VerificationInit => VerificationInit'
  BY <1>1 DEF VerificationInit, verificationVars
<1>5. GeneratedCandidates' = GeneratedCandidates /\ WithinLimit' = WithinLimit
  BY <1>1, CandidatesFixed
<1>. QED  BY <1>1, <1>2, <1>3, <1>4, <1>5 DEF SearchInv

LEMMA SearchStep ==
  ASSUME SearchInv, [Next]_vars
  PROVE  SearchInv'
BY SelectionSteps, LimitSteps, VerificationSteps, SearchStutters DEF Next, FilteringNext

(* Whatever is searched, filtering settles on positions whose              *)
(* contributions leave the bound, and verification is handed candidates it *)
(* accepts: a search on a built engine never fails.                        *)
THEOREM SearchIsInvariant == Spec => []SearchInv
<1>1. Init => SearchInv
  <2>. SUFFICES ASSUME Init PROVE SearchInv
    OBVIOUS
  <2>1. SelectionInv /\ VerificationInit /\ stage = "checking"
    BY InitialState DEF Init, SelectionInit
  <2>. QED  BY <2>1 DEF SearchInv, SelectionStages, LateStages
<1>2. SearchInv /\ [Next]_vars => SearchInv'
  BY SearchStep
<1>. QED  BY <1>1, <1>2, PTL DEF Spec

(* count_candidates decides the limit on the number of candidates that     *)
(* generation then yields, although it saturates and looks at no posting.  *)
THEOREM SearchLimitIsExact == Spec => []LimitIsExact
<1>1. ASSUME SearchInv PROVE LimitIsExact
  <2>. SUFFICES ASSUME limit # Unlimited, limit < MaxUsize, stage \in {"validating", "expensive"}
                PROVE  /\ stage = "validating" => Len(candidates) <= limit
                       /\ stage = "expensive"  => Len(GeneratedCandidates) > limit
    BY DEF LimitIsExact
  <2>1. Filtered
    BY <1>1 DEF SearchInv, LateStages
  <2>2. /\ CountedCandidates = Capped(Len(GeneratedCandidates))
        /\ Len(GeneratedCandidates) \in Nat
    BY <2>1, CandidatesGenerated DEF Filtered
  <2>3. limit \in Nat
    BY <2>1, InputsAssumption DEF Filtered, InputsOK
  <2>4. WithinLimit <=> Len(GeneratedCandidates) <= limit
    BY <2>2, <2>3, MaxUsizeAssumption DEF WithinLimit, Capped
  <2>5. stage = "validating" => WithinLimit /\ candidates = GeneratedCandidates
    BY <1>1 DEF SearchInv
  <2>6. stage = "expensive" => ~WithinLimit
    BY <1>1 DEF SearchInv
  <2>. QED  BY <2>2, <2>3, <2>4, <2>5, <2>6
<1>. QED  BY SearchIsInvariant, <1>1, PTL

------------------------------------------------------------------------------
(***************************************************************************)
(* 5. Alignments: the chains of their pairs, and the program over them.    *)
(***************************************************************************)
(* What any fold adds. *)
LEMMA FoldsToTotal ==
  ASSUME NEW S, IsFiniteSet(S), NEW f, \A x \in S : f[x] \in Nat, NEW F, Folds(F, f, S)
  PROVE  F[S] = Total(f, S)
<1>. DEFINE h == [x \in S |-> f[x]]
<1>1. h \in [S -> Nat] /\ \A x \in S : h[x] = f[x] /\ f[x] = h[x] /\ h[x] \in Nat
  OBVIOUS
<1>. HIDE DEF h
<1>2. Folds(F, h, S)
  <2>1. \A s \in SUBSET S : s # {} => First(s) \in S
    BY DEF First
  <2>2. [s \in SUBSET S |-> IF s = {} THEN 0 ELSE f[First(s)] + F[s \ {First(s)}]]
          = [s \in SUBSET S |-> IF s = {} THEN 0 ELSE h[First(s)] + F[s \ {First(s)}]]
    BY <1>1, <2>1
  <2>. QED  BY <2>2 DEF Folds
<1>3. IsTotal(F, h, S)
  BY <1>1, <1>2, FoldIsTotal
<1>4. S \in SUBSET S
  OBVIOUS
<1>. QED  BY <1>1, <1>3, <1>4, TotalByAny

LEMMA FoldsSomehow ==
  ASSUME NEW S, IsFiniteSet(S), NEW f, \A x \in S : f[x] \in Nat
  PROVE  \E F : Folds(F, f, S)
<1>. DEFINE h == [x \in S |-> f[x]]
<1>1. h \in [S -> Nat] /\ \A x \in S : h[x] = f[x]
  OBVIOUS
<1>2. PICK F : Folds(F, h, S)
  <2>. HIDE DEF h
  <2>. QED  BY <1>1, FoldExists
<1>. HIDE DEF h
<1>3. Folds(F, f, S)
  <2>1. \A s \in SUBSET S : s # {} => First(s) \in S
    BY DEF First
  <2>2. [s \in SUBSET S |-> IF s = {} THEN 0 ELSE f[First(s)] + F[s \ {First(s)}]]
          = [s \in SUBSET S |-> IF s = {} THEN 0 ELSE h[First(s)] + F[s \ {First(s)}]]
    BY <1>1, <2>1
  <2>. QED  BY <1>2, <2>2 DEF Folds
<1>. QED  BY <1>3

LEMMA SumIsTotal ==
  ASSUME NEW S, IsFiniteSet(S), NEW f, \A x \in S : f[x] \in Nat
  PROVE  SumFunctionOnSet(f, S) = Total(f, S)
<1>. DEFINE Rec(F) == F = [s \in SUBSET S |-> IF s = {} THEN 0
                           ELSE f[CHOOSE x \in s : TRUE] + F[s \ {CHOOSE x \in s : TRUE}]]
<1>1. ASSUME NEW F PROVE Rec(F) <=> Folds(F, f, S)
  BY DEF Folds, First
<1>2. Folds(CHOOSE F : Rec(F), f, S)
  <2>. HIDE DEF Rec
  <2>. QED  BY <1>1, FoldsSomehow
<1>3. (CHOOSE F : Rec(F))[S] = Total(f, S)
  <2>. HIDE DEF Rec
  <2>. QED  BY <1>2, FoldsToTotal
<1>. QED  BY <1>3 DEF SumFunctionOnSet, FoldFunctionOnSet, MapThenFoldSet

(* The sum of a function that agrees with g on its domain.                 *)
LEMMA SumOfPart ==
  ASSUME NEW f, NEW g, NEW S, IsFiniteSet(S), DOMAIN f = S, \A x \in S : f[x] \in Nat /\ g[x] = f[x]
  PROVE  SumFunction(f) = Total(g, S)
<1>1. SumFunctionOnSet(f, S) = Total(f, S)
  BY SumIsTotal
<1>2. Total(f, S) = Total(g, S)
  BY TotalSame
<1>. QED  BY <1>1, <1>2 DEF SumFunction

------------------------------------------------------------------------------
LEMMA InitialSegment ==
  ASSUME NEW n \in Nat
  PROVE  (1 .. n) \in SUBSET Nat /\ IsFiniteSet(1 .. n)
<1>1. (1 .. n) \in SUBSET Nat
  OBVIOUS
<1>2. 1 \in Int /\ n \in Int
  OBVIOUS
<1>3. IsFiniteSet(1 .. n)
  BY <1>2, FS_Interval
<1>. QED  BY <1>1, <1>3

(* The prices of an alignment of q with w. *)
Prices(c, q, w) ==
  [pair  |-> [p \in (1 .. Len(q)) \X (1 .. Len(w)) |-> c.substitution[<<q[p[1]], w[p[2]]>>]],
   left  |-> [i \in 1 .. Len(q) |-> c.deletion[q[i]]],
   right |-> [j \in 1 .. Len(w) |-> c.insertion[w[j]]]]

Policy(c, Q) ==
  /\ c.deletion \in [Q -> Nat] /\ c.insertion \in [Q -> Nat]
  /\ c.substitution \in [Q \X Q -> Nat]

LEMMA PricesOfPolicy ==
  ASSUME NEW Q, NEW c, Policy(c, Q), NEW q \in Seq(Q), NEW w \in Seq(Q)
  PROVE  Priced(Prices(c, q, w), 1 .. Len(q), 1 .. Len(w))
<1>1. Len(q) \in Nat /\ Len(w) \in Nat
  OBVIOUS
<1>2. /\ (1 .. Len(q)) \in SUBSET Nat /\ IsFiniteSet(1 .. Len(q))
      /\ (1 .. Len(w)) \in SUBSET Nat /\ IsFiniteSet(1 .. Len(w))
  BY <1>1, InitialSegment
<1>3. \A p \in (1 .. Len(q)) \X (1 .. Len(w)) : c.substitution[<<q[p[1]], w[p[2]]>>] \in Nat
  <2>. TAKE p \in (1 .. Len(q)) \X (1 .. Len(w))
  <2>1. p[1] \in 1 .. Len(q) /\ p[2] \in 1 .. Len(w)
    OBVIOUS
  <2>2. q[p[1]] \in Q /\ w[p[2]] \in Q
    BY <2>1
  <2>3. <<q[p[1]], w[p[2]]>> \in Q \X Q
    BY <2>2
  <2>. QED  BY <2>3 DEF Policy
<1>4. /\ \A i \in 1 .. Len(q) : c.deletion[q[i]] \in Nat
      /\ \A j \in 1 .. Len(w) : c.insertion[w[j]] \in Nat
  BY DEF Policy
<1>. QED  BY <1>2, <1>3, <1>4 DEF Priced, Prices

(* Ranks as the definition of a distance counts them.                      *)
LEMMA RankFacts ==
  ASSUME NEW S \in SUBSET Nat, IsFiniteSet(S), NEW x \in S
  PROVE  /\ Rank(S, x) = Cardinality(Under(S, Increasing(S), x)) + 1
         /\ Rank(S, x) \in 1 .. Cardinality(S)
<1>. DEFINE U == Under(S, Increasing(S), x)
            T == {y \in S : y <= x}
<1>1. \A y \in S : y \in U <=> y < x
  BY NumbersAreOrdered DEF Under
<1>2. T = U \cup {x} /\ x \notin U /\ U \in SUBSET S /\ T \in SUBSET S
  <2>1. \A y \in S : y \in Nat
    OBVIOUS
  <2>2. U \in SUBSET S
    BY DEF Under
  <2>. HIDE DEF U
  <2>3. \A y \in S : y <= x <=> (y < x \/ y = x)
    BY <2>1
  <2>4. T \in SUBSET S /\ \A y \in S : y \in T <=> y <= x
    OBVIOUS
  <2>. HIDE DEF T
  <2>5. ~(x < x)
    BY <2>1
  <2>6. x \notin U
    BY <1>1, <2>5
  <2>. QED  BY <1>1, <2>2, <2>3, <2>4, <2>6
<1>. HIDE DEF U, T
<1>3. /\ IsFiniteSet(U) /\ Cardinality(U) \in Nat /\ IsFiniteSet(T) /\ Cardinality(T) <= Cardinality(S)
      /\ Cardinality(S) \in Nat
  BY <1>2, FS_Subset, FS_CardinalityType
<1>4. Cardinality(T) = Cardinality(U) + 1
  BY <1>2, <1>3, FS_AddElement
<1>5. Rank(S, x) = Cardinality(T)
  BY DEF Rank, T
<1>. QED  BY <1>3, <1>4, <1>5 DEF U

LEMMA RanksAreOrdered ==
  ASSUME NEW S \in SUBSET Nat, IsFiniteSet(S)
  PROVE  /\ \A x, y \in S : x < y <=> Rank(S, x) < Rank(S, y)
         /\ \A x, y \in S : Rank(S, x) = Rank(S, y) => x = y
         /\ \A k \in 1 .. Cardinality(S) : \E x \in S : Rank(S, x) = k
<1>1. StrictOrder(S, Increasing(S)) /\ \A x, y \in S : <<x, y>> \in Increasing(S) <=> x < y
  BY NumbersAreOrdered
<1>2. \A x \in S : x \in Nat
  OBVIOUS
<1>3. ASSUME NEW x \in S, NEW y \in S, x < y PROVE Rank(S, x) < Rank(S, y)
  <2>1. Cardinality(Under(S, Increasing(S), x)) < Cardinality(Under(S, Increasing(S), y))
    BY <1>1, <1>3, RankGrows
  <2>2. Cardinality(Under(S, Increasing(S), x)) \in Nat /\ Cardinality(Under(S, Increasing(S), y)) \in Nat
    BY FS_Subset, FS_CardinalityType DEF Under
  <2>3. Rank(S, x) = Cardinality(Under(S, Increasing(S), x)) + 1
    BY RankFacts
  <2>4. Rank(S, y) = Cardinality(Under(S, Increasing(S), y)) + 1
    BY RankFacts
  <2>. QED  BY <2>1, <2>2, <2>3, <2>4
<1>4. \A x \in S : Rank(S, x) \in Nat
  BY RankFacts, FS_CardinalityType
<1>5. \A x, y \in S : (x < y <=> Rank(S, x) < Rank(S, y)) /\ (Rank(S, x) = Rank(S, y) => x = y)
  <2>. TAKE x, y \in S
  <2>1. x < y \/ y < x \/ x = y
    BY <1>2
  <2>2. CASE x < y
    BY <1>2, <1>3, <1>4, <2>2
  <2>3. CASE y < x
    BY <1>2, <1>3, <1>4, <2>3
  <2>4. CASE x = y
    BY <1>2, <1>4, <2>4
  <2>. QED  BY <2>1, <2>2, <2>3, <2>4
<1>6. ASSUME NEW k \in 1 .. Cardinality(S) PROVE \E x \in S : Rank(S, x) = k
  <2>1. k - 1 \in 0 .. (Cardinality(S) - 1)
    BY FS_CardinalityType
  <2>2. PICK x \in S : Cardinality(Under(S, Increasing(S), x)) = k - 1
    BY <1>1, <2>1, RankExists
  <2>3. Rank(S, x) = k
    BY <2>2, RankFacts
  <2>. QED  BY <2>3
<1>. QED  BY <1>5, <1>6

(* The pairs of an alignment are a chain of the paired positions.          *)
LEMMA AlignmentIsChain ==
  ASSUME NEW n \in Nat, NEW m \in Nat, NEW a \in Alignments(n, m)
  PROVE  /\ Pairs(a) \in ChainsOn(1 .. n, 1 .. m)
         /\ Lefts(Pairs(a)) = a[1]
         /\ Rights(Pairs(a)) = a[2]
<1>1. /\ a[1] \in SUBSET (1 .. n) /\ a[2] \in SUBSET (1 .. m)
      /\ Cardinality(a[1]) = Cardinality(a[2])
  BY DEF Alignments
<1>2. /\ a[1] \in SUBSET Nat /\ a[2] \in SUBSET Nat
      /\ IsFiniteSet(a[1]) /\ IsFiniteSet(a[2])
  BY <1>1, InitialSegment, FS_Subset
<1>. DEFINE I == a[1]
            J == a[2]
            P == Pairs(a)
<1>3. P \in SUBSET (I \X J) /\ \A x \in I, y \in J : <<x, y>> \in P <=> Rank(I, x) = Rank(J, y)
  BY DEF Pairs
<1>3a. \A p \in P : p = <<p[1], p[2]>> /\ p[1] \in I /\ p[2] \in J /\ Rank(I, p[1]) = Rank(J, p[2])
  <2>. HIDE DEF P, I, J
  <2>1. \A p \in P : p = <<p[1], p[2]>> /\ p[1] \in I /\ p[2] \in J
    BY <1>3
  <2>. QED  BY <1>3, <2>1
<1>. HIDE DEF P, I, J
<1>4. Chain(P)
  <2>. SUFFICES ASSUME NEW x \in P, NEW y \in P PROVE x[1] < y[1] <=> x[2] < y[2]
    BY DEF Chain
  <2>1. x[1] < y[1] <=> Rank(I, x[1]) < Rank(I, y[1])
    BY <1>2, <1>3a, RanksAreOrdered DEF I
  <2>2. x[2] < y[2] <=> Rank(J, x[2]) < Rank(J, y[2])
    BY <1>2, <1>3a, RanksAreOrdered DEF J
  <2>. QED  BY <1>3a, <2>1, <2>2
<1>5. ASSUME NEW x \in I PROVE \E y \in J : <<x, y>> \in P
  <2>1. Rank(I, x) \in 1 .. Cardinality(J)
    BY <1>1, <1>2, RankFacts DEF I, J
  <2>2. PICK y \in J : Rank(J, y) = Rank(I, x)
    BY <1>2, <2>1, RanksAreOrdered DEF J
  <2>. QED  BY <1>3, <2>2
<1>6. ASSUME NEW y \in J PROVE \E x \in I : <<x, y>> \in P
  <2>1. Rank(J, y) \in 1 .. Cardinality(I)
    BY <1>1, <1>2, RankFacts DEF I, J
  <2>2. PICK x \in I : Rank(I, x) = Rank(J, y)
    BY <1>2, <2>1, RanksAreOrdered DEF I
  <2>. QED  BY <1>3, <2>2
<1>7. Lefts(P) = I
  <2>1. ASSUME NEW x \in I PROVE x \in Lefts(P)
    <3>1. PICK y \in J : <<x, y>> \in P
      BY <1>5
    <3>2. <<x, y>>[1] = x
      OBVIOUS
    <3>. QED  BY <3>1, <3>2 DEF Lefts
  <2>. QED  BY <1>3a, <2>1 DEF Lefts
<1>8. Rights(P) = J
  <2>1. ASSUME NEW y \in J PROVE y \in Rights(P)
    <3>1. PICK x \in I : <<x, y>> \in P
      BY <1>6
    <3>2. <<x, y>>[2] = y
      OBVIOUS
    <3>. QED  BY <3>1, <3>2 DEF Rights
  <2>. QED  BY <1>3a, <2>1 DEF Rights
<1>9. P \in SUBSET ((1 .. n) \X (1 .. m))
  BY <1>1, <1>3 DEF I, J
<1>. QED  BY <1>4, <1>7, <1>8, <1>9 DEF ChainsOn, P, I, J

(* A chain pairs as many elements on the left as on the right.             *)
LEMMA ChainPairs ==
  ASSUME NEW I \in SUBSET Nat, NEW J \in SUBSET Nat, IsFiniteSet(I), IsFiniteSet(J),
         NEW P \in ChainsOn(I, J)
  PROVE  /\ Cardinality(Lefts(P)) = Cardinality(P)
         /\ Cardinality(Rights(P)) = Cardinality(P)
         /\ IsFiniteSet(P)
<1>1. P \in SUBSET (I \X J) /\ Chain(P) /\ \A p \in P : p = <<p[1], p[2]>> /\ p[1] \in Nat /\ p[2] \in Nat
  <2>1. P \in SUBSET (I \X J) /\ Chain(P)
    BY DEF ChainsOn
  <2>2. ASSUME NEW p \in P PROVE p = <<p[1], p[2]>> /\ p[1] \in Nat /\ p[2] \in Nat
    <3>1. p \in I \X J
      BY <2>1
    <3>2. p = <<p[1], p[2]>> /\ p[1] \in I /\ p[2] \in J
      BY <3>1
    <3>. QED  BY <3>2
  <2>. QED  BY <2>1, <2>2
<1>2. IsFiniteSet(P)
  BY <1>1, FS_Product, FS_Subset
<1>3. \A x, y \in P : (x[1] = y[1] => x = y) /\ (x[2] = y[2] => x = y)
  <2>. TAKE x, y \in P
  <2>1. (x[1] < y[1] <=> x[2] < y[2]) /\ (y[1] < x[1] <=> y[2] < x[2])
    BY <1>1 DEF Chain
  <2>. QED  BY <1>1, <2>1
<1>. DEFINE left == [p \in P |-> p[1]]
            right == [p \in P |-> p[2]]
<1>4. left \in Bijection(P, Lefts(P))
  <2>1. left \in [P -> Lefts(P)] /\ \A p \in P : left[p] = p[1]
    BY DEF Lefts
  <2>2. \A t \in Lefts(P) : \E p \in P : left[p] = t
    BY DEF Lefts
  <2>3. \A x, y \in P : left[x] = left[y] => x = y
    BY <1>3
  <2>. HIDE DEF left
  <2>. QED  BY <2>1, <2>2, <2>3 DEF Bijection, Injection, Surjection, IsInjective
<1>5. right \in Bijection(P, Rights(P))
  <2>1. right \in [P -> Rights(P)] /\ \A p \in P : right[p] = p[2]
    BY DEF Rights
  <2>2. \A t \in Rights(P) : \E p \in P : right[p] = t
    BY DEF Rights
  <2>3. \A x, y \in P : right[x] = right[y] => x = y
    BY <1>3
  <2>. HIDE DEF right
  <2>. QED  BY <2>1, <2>2, <2>3 DEF Bijection, Injection, Surjection, IsInjective
<1>6. ExistsBijection(P, Lefts(P)) /\ ExistsBijection(P, Rights(P))
  BY <1>4, <1>5 DEF ExistsBijection
<1>. HIDE DEF left, right
<1>7. Cardinality(Lefts(P)) = Cardinality(P)
  BY <1>2, <1>6, FS_Bijection
<1>8. Cardinality(Rights(P)) = Cardinality(P)
  BY <1>2, <1>6, FS_Bijection
<1>. QED  BY <1>2, <1>7, <1>8

LEMMA PartOfChain ==
  ASSUME NEW I, NEW J, NEW P \in ChainsOn(I, J), NEW Q \in SUBSET P
  PROVE  Q \in ChainsOn(I, J)
BY DEF ChainsOn, Chain

(* Every chain is the pairs of an alignment.                               *)
LEMMA ChainIsAlignment ==
  ASSUME NEW n \in Nat, NEW m \in Nat, NEW P \in ChainsOn(1 .. n, 1 .. m)
  PROVE  /\ <<Lefts(P), Rights(P)>> \in Alignments(n, m)
         /\ Pairs(<<Lefts(P), Rights(P)>>) = P
<1>. DEFINE I == Lefts(P)
            J == Rights(P)
            A == 1 .. n
            B == 1 .. m
<1>1. /\ A \in SUBSET Nat /\ IsFiniteSet(A)
      /\ B \in SUBSET Nat /\ IsFiniteSet(B)
  BY InitialSegment
<1>. HIDE DEF A, B
<1>2. P \in ChainsOn(A, B) /\ P \in SUBSET (A \X B) /\ Chain(P)
  BY DEF ChainsOn, A, B
<1>3. Cardinality(I) = Cardinality(J)
  BY <1>1, <1>2, ChainPairs
<1>4. /\ I \in SUBSET A /\ J \in SUBSET B /\ I \in SUBSET Nat /\ J \in SUBSET Nat
      /\ \A p \in P : p = <<p[1], p[2]>> /\ p[1] \in I /\ p[2] \in J
      /\ \A i \in I : \E p \in P : p[1] = i
      /\ \A p \in P : p[1] \in Nat /\ p[2] \in Nat
  <2>1. \A p \in P : p = <<p[1], p[2]>> /\ p[1] \in A /\ p[2] \in B
    BY <1>2
  <2>2. I \in SUBSET A /\ J \in SUBSET B
    BY <2>1 DEF Lefts, Rights
  <2>3. \A p \in P : p[1] \in I /\ p[2] \in J
    BY DEF Lefts, Rights
  <2>4. \A i \in I : \E p \in P : p[1] = i
    BY DEF Lefts
  <2>. HIDE DEF I, J
  <2>. QED  BY <1>1, <2>1, <2>2, <2>3, <2>4
<1>5. IsFiniteSet(I) /\ IsFiniteSet(J)
  BY <1>1, <1>4, FS_Subset
<1>6. ASSUME NEW p \in P PROVE Rank(I, p[1]) = Rank(J, p[2])
  <2>. DEFINE Q == {x \in P : x[1] <= p[1]}
  <2>1. \A x \in P : x[1] <= p[1] <=> x[2] <= p[2]
    <3>. TAKE x \in P
    <3>1. p[1] < x[1] <=> p[2] < x[2]
      BY <1>2 DEF Chain
    <3>. QED  BY <1>4, <3>1
  <2>2. Q \in SUBSET P
    OBVIOUS
  <2>3. Lefts(Q) = {y \in I : y <= p[1]}
    BY DEF Lefts
  <2>4. Rights(Q) = {y \in J : y <= p[2]}
    BY <2>1 DEF Rights
  <2>5. Cardinality(Lefts(Q)) = Cardinality(Rights(Q))
    <3>. HIDE DEF Q
    <3>1. Q \in ChainsOn(A, B)
      BY <1>2, <2>2, PartOfChain
    <3>. QED  BY <1>1, <3>1, ChainPairs
  <2>. QED  BY <2>3, <2>4, <2>5 DEF Rank
<1>. HIDE DEF I, J
<1>7. ASSUME NEW i \in I, NEW j \in J, Rank(I, i) = Rank(J, j) PROVE <<i, j>> \in P
  <2>1. PICK p \in P : p[1] = i
    BY <1>4
  <2>2. Rank(J, p[2]) = Rank(J, j)
    BY <1>6, <1>7, <2>1
  <2>3. p[2] = j
    BY <1>4, <1>5, <2>2, RanksAreOrdered
  <2>. QED  BY <1>4, <2>1, <2>3
<1>8. Pairs(<<I, J>>) = P
  <2>1. Pairs(<<I, J>>) = {pair \in I \X J : Rank(I, pair[1]) = Rank(J, pair[2])}
    BY DEF Pairs
  <2>2. \A pair \in I \X J : pair = <<pair[1], pair[2]>> /\ pair[1] \in I /\ pair[2] \in J
    OBVIOUS
  <2>3. ASSUME NEW pair \in I \X J, Rank(I, pair[1]) = Rank(J, pair[2]) PROVE pair \in P
    BY <1>7, <2>2, <2>3
  <2>4. \A p \in P : p \in I \X J /\ Rank(I, p[1]) = Rank(J, p[2])
    BY <1>4, <1>6
  <2>. QED  BY <2>1, <2>3, <2>4
<1>9. <<I, J>> \in Alignments(n, m)
  <2>1. I \in SUBSET (1 .. n) /\ J \in SUBSET (1 .. m)
    BY <1>4 DEF A, B
  <2>. QED  BY <1>3, <2>1 DEF Alignments
<1>. QED  BY <1>8, <1>9 DEF I, J

(* An alignment costs what its chain costs. *)
LEMMA AlignmentCosts ==
  ASSUME NEW Q, NEW c, Policy(c, Q), NEW q \in Seq(Q), NEW w \in Seq(Q),
         NEW a \in AllAlignments(q, w)
  PROVE  AlignmentCost(c, q, w, a) = ChainCost(Prices(c, q, w), 1 .. Len(q), 1 .. Len(w), Pairs(a))
<1>. DEFINE n == Len(q)
            m == Len(w)
            z == Prices(c, q, w)
            P == Pairs(a)
            f == [pair \in P |-> c.substitution[<<q[pair[1]], w[pair[2]]>>]]
            g == [i \in (1 .. n) \ a[1] |-> c.deletion[q[i]]]
            h == [j \in (1 .. m) \ a[2] |-> c.insertion[w[j]]]
<1>1. n \in Nat /\ m \in Nat /\ a \in Alignments(n, m)
  BY DEF AllAlignments
<1>2. Priced(z, 1 .. n, 1 .. m)
  BY PricesOfPolicy
<1>3. P \in SUBSET ((1 .. n) \X (1 .. m)) /\ Lefts(P) = a[1] /\ Rights(P) = a[2]
  <2>. HIDE DEF n, m, P
  <2>1. Pairs(a) \in ChainsOn(1 .. n, 1 .. m) /\ Lefts(Pairs(a)) = a[1] /\ Rights(Pairs(a)) = a[2]
    BY <1>1, AlignmentIsChain
  <2>. QED  BY <2>1 DEF ChainsOn, P
<1>4. IsFiniteSet(P) /\ IsFiniteSet((1 .. n) \ a[1]) /\ IsFiniteSet((1 .. m) \ a[2])
  <2>. HIDE DEF n, m, P, z
  <2>. QED  BY <1>2, <1>3, ChainTypes
<1>5. /\ \A p \in P : f[p] = z.pair[p] /\ f[p] \in Nat
      /\ \A i \in (1 .. n) \ a[1] : g[i] = z.left[i] /\ g[i] \in Nat
      /\ \A j \in (1 .. m) \ a[2] : h[j] = z.right[j] /\ h[j] \in Nat
  <2>1. \A p \in (1 .. n) \X (1 .. m) : z.pair[p] = c.substitution[<<q[p[1]], w[p[2]]>>] /\ z.pair[p] \in Nat
    BY <1>2 DEF Priced, Prices
  <2>2. \A i \in 1 .. n : z.left[i] = c.deletion[q[i]] /\ z.left[i] \in Nat
    BY <1>2 DEF Priced, Prices
  <2>3. \A j \in 1 .. m : z.right[j] = c.insertion[w[j]] /\ z.right[j] \in Nat
    BY <1>2 DEF Priced, Prices
  <2>4. \A p \in P : f[p] = c.substitution[<<q[p[1]], w[p[2]]>>]
    OBVIOUS
  <2>. HIDE DEF z, P
  <2>. QED  BY <1>3, <2>1, <2>2, <2>3, <2>4
<1>6. DOMAIN f = P /\ DOMAIN g = (1 .. n) \ a[1] /\ DOMAIN h = (1 .. m) \ a[2]
  OBVIOUS
<1>7. AlignmentCost(c, q, w, a) = SumFunction(f) + SumFunction(g) + SumFunction(h)
  BY DEF AlignmentCost
<1>. HIDE DEF f, g, h, P, z
<1>8. SumFunction(f) = Total(z.pair, P)
  BY <1>4, <1>5, <1>6, SumOfPart
<1>9. SumFunction(g) = Total(z.left, (1 .. n) \ a[1])
  <2>. DEFINE S == (1 .. n) \ a[1]
  <2>1. IsFiniteSet(S) /\ DOMAIN g = S /\ \A i \in S : g[i] \in Nat /\ z.left[i] = g[i]
    BY <1>4, <1>5, <1>6
  <2>. HIDE DEF S
  <2>2. SumFunction(g) = Total(z.left, S)
    BY <2>1, SumOfPart
  <2>. QED  BY <2>2 DEF S
<1>10. SumFunction(h) = Total(z.right, (1 .. m) \ a[2])
  <2>. DEFINE S == (1 .. m) \ a[2]
  <2>1. IsFiniteSet(S) /\ DOMAIN h = S /\ \A i \in S : h[i] \in Nat /\ z.right[i] = h[i]
    BY <1>4, <1>5, <1>6
  <2>. HIDE DEF S
  <2>2. SumFunction(h) = Total(z.right, S)
    BY <2>1, SumOfPart
  <2>. QED  BY <2>2 DEF S
<1>11. ChainCost(z, 1 .. n, 1 .. m, P)
         = Total(z.pair, P) + Total(z.left, (1 .. n) \ a[1]) + Total(z.right, (1 .. m) \ a[2])
  BY <1>3 DEF ChainCost
<1>. QED  BY <1>7, <1>8, <1>9, <1>10, <1>11 DEF z, P

(* The distance is the least cost of a chain, and so is an anchored one.   *)
LEMMA DistanceIsLeast ==
  ASSUME NEW Q, NEW c, Policy(c, Q), NEW q \in Seq(Q), NEW w \in Seq(Q)
  PROVE  /\ WeightedEditDistance(c, q, w) = Least(Prices(c, q, w), 1 .. Len(q), 1 .. Len(w))
         /\ \A i, j : AnchoredDistance(c, q, w, i, j)
              = Min({ChainCost(Prices(c, q, w), 1 .. Len(q), 1 .. Len(w), P) :
                       P \in {R \in ChainsOn(1 .. Len(q), 1 .. Len(w)) : <<i, j>> \in R}})
<1>. DEFINE n == Len(q)
            m == Len(w)
            z == Prices(c, q, w)
            A == 1 .. n
            B == 1 .. m
<1>1. n \in Nat /\ m \in Nat
  OBVIOUS
<1>2. \A a \in AllAlignments(q, w) :
         /\ Pairs(a) \in ChainsOn(A, B)
         /\ AlignmentCost(c, q, w, a) = ChainCost(z, A, B, Pairs(a))
  <2>. TAKE a \in AllAlignments(q, w)
  <2>1. Pairs(a) \in ChainsOn(A, B)
    BY <1>1, AlignmentIsChain DEF AllAlignments
  <2>2. AlignmentCost(c, q, w, a) = ChainCost(z, A, B, Pairs(a))
    BY AlignmentCosts
  <2>. QED  BY <2>1, <2>2
<1>3. \A P \in ChainsOn(A, B) : \E a \in AllAlignments(q, w) : Pairs(a) = P
  <2>. TAKE P \in ChainsOn(A, B)
  <2>1. /\ <<Lefts(P), Rights(P)>> \in Alignments(n, m)
        /\ Pairs(<<Lefts(P), Rights(P)>>) = P
    <3>. HIDE DEF n, m
    <3>. QED  BY <1>1, ChainIsAlignment
  <2>. QED  BY <2>1 DEF AllAlignments
<1>. HIDE DEF A, B, z, n, m
<1>4. {AlignmentCost(c, q, w, a) : a \in AllAlignments(q, w)}
        = {ChainCost(z, A, B, P) : P \in ChainsOn(A, B)}
  BY <1>2, <1>3
<1>5. ASSUME NEW i, NEW j
      PROVE  {AlignmentCost(c, q, w, a) : a \in {b \in AllAlignments(q, w) : <<i, j>> \in Pairs(b)}}
               = {ChainCost(z, A, B, P) : P \in {R \in ChainsOn(A, B) : <<i, j>> \in R}}
  BY <1>2, <1>3
<1>6. WeightedEditDistance(c, q, w) = Least(z, A, B)
  BY <1>4 DEF WeightedEditDistance, Least
<1>7. \A i, j : AnchoredDistance(c, q, w, i, j)
                  = Min({ChainCost(z, A, B, P) : P \in {R \in ChainsOn(A, B) : <<i, j>> \in R}})
  BY <1>5 DEF AnchoredDistance
<1>. QED  BY <1>6, <1>7 DEF z, A, B, n, m

(* Renaming the elements of both sides without changing prices or order,   *)
(* or reversing the order of both.                                         *)
Keeps(h, I)    == \A x, y \in I : x < y <=> h[x] < h[y]
Reverses(h, I) == \A x, y \in I : x < y <=> h[y] < h[x]

Renames(c, d, I, J, h, g) ==
  /\ (Keeps(h, I) /\ Keeps(g, J)) \/ (Reverses(h, I) /\ Reverses(g, J))
  /\ \A x, y \in I : h[x] = h[y] => x = y
  /\ \A x, y \in J : g[x] = g[y] => x = y
  /\ \A i \in I : d.left[h[i]] = c.left[i]
  /\ \A j \in J : d.right[g[j]] = c.right[j]
  /\ \A i \in I, j \in J : d.pair[<<h[i], g[j]>>] = c.pair[<<i, j>>]

Image(h, S) == {h[x] : x \in S}
Renamed(P, h, g) == {<<h[p[1]], g[p[2]]>> : p \in P}

LEMMA RenamedCost ==
  ASSUME NEW c, NEW I, NEW J, Priced(c, I, J), NEW d, NEW h, NEW g, Renames(c, d, I, J, h, g),
         NEW P \in SUBSET (I \X J)
  PROVE  ChainCost(d, Image(h, I), Image(g, J), Renamed(P, h, g)) = ChainCost(c, I, J, P)
<1>. DEFINE k == [p \in P |-> <<h[p[1]], g[p[2]]>>]
<1>1. \A p \in P : p = <<p[1], p[2]>> /\ p[1] \in I /\ p[2] \in J
  OBVIOUS
<1>2. /\ Lefts(P) \in SUBSET I /\ Rights(P) \in SUBSET J
      /\ IsFiniteSet(P) /\ IsFiniteSet(I \ Lefts(P)) /\ IsFiniteSet(J \ Rights(P))
  BY ChainTypes
<1>3. Total(c.pair, P) = Total(d.pair, Renamed(P, h, g))
  <2>1. \A p \in P : c.pair[p] \in Nat /\ d.pair[k[p]] = c.pair[p]
    <3>. TAKE p \in P
    <3>1. c.pair[p] \in Nat
      BY DEF Priced
    <3>2. d.pair[<<h[p[1]], g[p[2]]>>] = c.pair[<<p[1], p[2]>>]
      BY <1>1 DEF Renames
    <3>3. <<p[1], p[2]>> = p /\ k[p] = <<h[p[1]], g[p[2]]>>
      BY <1>1
    <3>. HIDE DEF k
    <3>. QED  BY <3>1, <3>2, <3>3
  <2>2. \A x, y \in P : k[x] = k[y] => x = y
    <3>. SUFFICES ASSUME NEW x \in P, NEW y \in P, k[x] = k[y] PROVE x = y
      OBVIOUS
    <3>1. h[x[1]] = h[y[1]] /\ g[x[2]] = g[y[2]]
      OBVIOUS
    <3>2. x[1] = y[1] /\ x[2] = y[2]
      BY <1>1, <3>1 DEF Renames
    <3>. QED  BY <1>1, <3>2
  <2>3. Renamed(P, h, g) = {k[p] : p \in P}
    BY DEF Renamed
  <2>. HIDE DEF k
  <2>4. Total(c.pair, P) = Total(d.pair, {k[p] : p \in P})
    <3>. DEFINE e == c.pair
                f == d.pair
    <3>1. \A p \in P : e[p] \in Nat /\ f[k[p]] = e[p]
      BY <2>1
    <3>. HIDE DEF e, f
    <3>2. PICK S : S = P
      OBVIOUS
    <3>3. /\ IsFiniteSet(S) /\ \A x \in S : e[x] \in Nat /\ f[k[x]] = e[x]
          /\ \A x, y \in S : k[x] = k[y] => x = y
      BY <1>2, <2>2, <3>1, <3>2
    <3>4. Total(e, S) = Total(f, {k[x] : x \in S})
      BY <3>3, TotalRenamed
    <3>. QED  BY <3>2, <3>4 DEF e, f
  <2>. QED  BY <2>3, <2>4
<1>4. Lefts(Renamed(P, h, g)) = Image(h, Lefts(P)) /\ Rights(Renamed(P, h, g)) = Image(g, Rights(P))
  <2>. DEFINE R == Renamed(P, h, g)
  <2>1. /\ \A r \in R : \E p \in P : r = <<h[p[1]], g[p[2]]>>
        /\ \A p \in P : <<h[p[1]], g[p[2]]>> \in R
    BY DEF Renamed
  <2>. HIDE DEF R
  <2>2. /\ \A r \in R : \E p \in P : r[1] = h[p[1]] /\ r[2] = g[p[2]]
        /\ \A p \in P : \E r \in R : r[1] = h[p[1]] /\ r[2] = g[p[2]]
    <3>1. \A x, y : <<x, y>>[1] = x /\ <<x, y>>[2] = y
      OBVIOUS
    <3>2. ASSUME NEW r \in R PROVE \E p \in P : r[1] = h[p[1]] /\ r[2] = g[p[2]]
      <4>1. PICK p \in P : r = <<h[p[1]], g[p[2]]>>
        BY <2>1
      <4>2. r[1] = h[p[1]] /\ r[2] = g[p[2]]
        BY <4>1
      <4>. QED  BY <4>2
    <3>3. ASSUME NEW p \in P PROVE \E r \in R : r[1] = h[p[1]] /\ r[2] = g[p[2]]
      <4>1. <<h[p[1]], g[p[2]]>> \in R
        BY <2>1
      <4>. QED  BY <3>1, <4>1
    <3>. QED  BY <3>2, <3>3
  <2>3. Lefts(R) = Image(h, Lefts(P))
    BY <2>2 DEF Lefts, Image
  <2>4. Rights(R) = Image(g, Rights(P))
    BY <2>2 DEF Rights, Image
  <2>. QED  BY <2>3, <2>4 DEF R
<1>5. Image(h, I) \ Image(h, Lefts(P)) = Image(h, I \ Lefts(P))
  BY <1>2 DEF Renames, Image
<1>6. Image(g, J) \ Image(g, Rights(P)) = Image(g, J \ Rights(P))
  BY <1>2 DEF Renames, Image
<1>7. Total(c.left, I \ Lefts(P)) = Total(d.left, Image(h, I \ Lefts(P)))
  <2>. DEFINE S == I \ Lefts(P)
  <2>1. /\ IsFiniteSet(S) /\ \A x \in S : c.left[x] \in Nat /\ d.left[h[x]] = c.left[x]
        /\ \A x, y \in S : h[x] = h[y] => x = y
    BY <1>2 DEF Priced, Renames
  <2>. HIDE DEF S
  <2>2. Total(c.left, S) = Total(d.left, {h[x] : x \in S})
    BY <2>1, TotalRenamed
  <2>. QED  BY <2>2 DEF S, Image
<1>8. Total(c.right, J \ Rights(P)) = Total(d.right, Image(g, J \ Rights(P)))
  <2>. DEFINE S == J \ Rights(P)
  <2>1. /\ IsFiniteSet(S) /\ \A x \in S : c.right[x] \in Nat /\ d.right[g[x]] = c.right[x]
        /\ \A x, y \in S : g[x] = g[y] => x = y
    BY <1>2 DEF Priced, Renames
  <2>. HIDE DEF S
  <2>2. Total(c.right, S) = Total(d.right, {g[x] : x \in S})
    BY <2>1, TotalRenamed
  <2>. QED  BY <2>2 DEF S, Image
<1>. QED  BY <1>3, <1>4, <1>5, <1>6, <1>7, <1>8 DEF ChainCost

LEMMA RenamedChains ==
  ASSUME NEW c, NEW I \in SUBSET Nat, NEW J \in SUBSET Nat, NEW d, NEW h, NEW g,
         Renames(c, d, I, J, h, g)
  PROVE  /\ \A P \in ChainsOn(I, J) : Renamed(P, h, g) \in ChainsOn(Image(h, I), Image(g, J))
         /\ \A R \in ChainsOn(Image(h, I), Image(g, J)) : \E P \in ChainsOn(I, J) : Renamed(P, h, g) = R
<1>1. ASSUME NEW x \in I, NEW y \in I, NEW s \in J, NEW t \in J
      PROVE  (\/ (x < y <=> h[x] < h[y]) /\ (y < x <=> h[y] < h[x]) /\ (s < t <=> g[s] < g[t]) /\ (t < s <=> g[t] < g[s])
              \/ (x < y <=> h[y] < h[x]) /\ (y < x <=> h[x] < h[y]) /\ (s < t <=> g[t] < g[s]) /\ (t < s <=> g[s] < g[t]))
  BY DEF Renames, Keeps, Reverses
<1>. DEFINE Agree(a, b, s, t) ==
              (\/ (a < b <=> h[a] < h[b]) /\ (b < a <=> h[b] < h[a]) /\ (s < t <=> g[s] < g[t]) /\ (t < s <=> g[t] < g[s])
               \/ (a < b <=> h[b] < h[a]) /\ (b < a <=> h[a] < h[b]) /\ (s < t <=> g[t] < g[s]) /\ (t < s <=> g[s] < g[t]))
<1>0. \A x, y \in I : \A s, t \in J : Agree(x, y, s, t)
  BY <1>1
<1>. HIDE DEF Agree
<1>2. ASSUME NEW P \in SUBSET (I \X J) PROVE Chain(P) <=> Chain(Renamed(P, h, g))
  <2>1. \A p \in P : p[1] \in I /\ p[2] \in J
    OBVIOUS
  <2>2. ASSUME Chain(P) PROVE Chain(Renamed(P, h, g))
    <3>. SUFFICES ASSUME NEW x \in P, NEW y \in P
                  PROVE  h[x[1]] < h[y[1]] <=> g[x[2]] < g[y[2]]
      BY DEF Chain, Renamed
    <3>1. (x[1] < y[1] <=> x[2] < y[2]) /\ (y[1] < x[1] <=> y[2] < x[2])
      BY <2>2 DEF Chain
    <3>. DEFINE a == x[1]
                b == y[1]
                s == x[2]
                t == y[2]
    <3>2. a \in I /\ b \in I /\ s \in J /\ t \in J
      BY <2>1
    <3>. HIDE DEF a, b, s, t
    <3>3. Agree(a, b, s, t)
      BY <1>0, <3>2
    <3>. QED  BY <3>1, <3>3 DEF a, b, s, t, Agree
  <2>3. ASSUME Chain(Renamed(P, h, g)) PROVE Chain(P)
    <3>. SUFFICES ASSUME NEW x \in P, NEW y \in P PROVE x[1] < y[1] <=> x[2] < y[2]
      BY DEF Chain
    <3>0. <<h[x[1]], g[x[2]]>> \in Renamed(P, h, g) /\ <<h[y[1]], g[y[2]]>> \in Renamed(P, h, g)
      BY DEF Renamed
    <3>1. \A p, q \in Renamed(P, h, g) : p[1] < q[1] <=> p[2] < q[2]
      BY <2>3 DEF Chain
    <3>2. (h[x[1]] < h[y[1]] <=> g[x[2]] < g[y[2]]) /\ (h[y[1]] < h[x[1]] <=> g[y[2]] < g[x[2]])
      BY <3>0, <3>1
    <3>. DEFINE a == x[1]
                b == y[1]
                s == x[2]
                t == y[2]
    <3>3. a \in I /\ b \in I /\ s \in J /\ t \in J
      BY <2>1
    <3>. HIDE DEF a, b, s, t
    <3>4. Agree(a, b, s, t)
      BY <1>0, <3>3
    <3>. QED  BY <3>2, <3>4 DEF a, b, s, t, Agree
  <2>. QED  BY <2>2, <2>3
<1>3. ASSUME NEW P \in ChainsOn(I, J) PROVE Renamed(P, h, g) \in ChainsOn(Image(h, I), Image(g, J))
  <2>1. P \in SUBSET (I \X J) /\ Chain(P)
    BY DEF ChainsOn
  <2>2. Renamed(P, h, g) \in SUBSET (Image(h, I) \X Image(g, J))
    <3>1. \A p \in P : h[p[1]] \in Image(h, I) /\ g[p[2]] \in Image(g, J)
      BY <2>1 DEF Image
    <3>. QED  BY <3>1 DEF Renamed
  <2>3. Chain(Renamed(P, h, g))
    BY <1>2, <2>1
  <2>. QED  BY <2>2, <2>3 DEF ChainsOn
<1>4. ASSUME NEW R \in ChainsOn(Image(h, I), Image(g, J))
      PROVE  \E P \in ChainsOn(I, J) : Renamed(P, h, g) = R
  <2>. DEFINE P == {p \in I \X J : <<h[p[1]], g[p[2]]>> \in R}
  <2>1. R \in SUBSET (Image(h, I) \X Image(g, J)) /\ Chain(R)
    BY DEF ChainsOn
  <2>2. P \in SUBSET (I \X J) /\ \A i \in I, j \in J : <<h[i], g[j]>> \in R => <<i, j>> \in P
    OBVIOUS
  <2>3. Renamed(P, h, g) \in SUBSET R
    BY DEF Renamed
  <2>4. ASSUME NEW x \in R PROVE x \in Renamed(P, h, g)
    <3>1. x \in Image(h, I) \X Image(g, J)
      BY <2>1
    <3>2. x = <<x[1], x[2]>> /\ x[1] \in Image(h, I) /\ x[2] \in Image(g, J)
      BY <3>1
    <3>3. PICK i \in I, j \in J : x[1] = h[i] /\ x[2] = g[j]
      BY <3>2 DEF Image
    <3>4. x = <<h[i], g[j]>> /\ <<i, j>> \in P
      BY <2>2, <3>2, <3>3
    <3>5. <<i, j>>[1] = i /\ <<i, j>>[2] = j
      OBVIOUS
    <3>. HIDE DEF P
    <3>. QED  BY <3>4, <3>5 DEF Renamed
  <2>. HIDE DEF P
  <2>5. Renamed(P, h, g) = R
    BY <2>3, <2>4
  <2>6. P \in ChainsOn(I, J)
    BY <1>2, <2>1, <2>2, <2>5 DEF ChainsOn
  <2>. QED  BY <2>5, <2>6
<1>. QED  BY <1>3, <1>4

LEMMA LeastRenamed ==
  ASSUME NEW c, NEW I, NEW J, Priced(c, I, J), NEW d, NEW h, NEW g, Renames(c, d, I, J, h, g)
  PROVE  Least(d, Image(h, I), Image(g, J)) = Least(c, I, J)
<1>. DEFINE A == Image(h, I)
            B == Image(g, J)
<1>1. I \in SUBSET Nat /\ J \in SUBSET Nat
  BY DEF Priced
<1>2. /\ \A P \in ChainsOn(I, J) : Renamed(P, h, g) \in ChainsOn(A, B)
      /\ \A R \in ChainsOn(A, B) : \E P \in ChainsOn(I, J) : Renamed(P, h, g) = R
  BY <1>1, RenamedChains
<1>3. \A P \in ChainsOn(I, J) : ChainCost(d, A, B, Renamed(P, h, g)) = ChainCost(c, I, J, P)
  BY RenamedCost DEF ChainsOn
<1>. HIDE DEF A, B
<1>4. {ChainCost(d, A, B, R) : R \in ChainsOn(A, B)} = {ChainCost(c, I, J, P) : P \in ChainsOn(I, J)}
  BY <1>2, <1>3
<1>. QED  BY <1>4 DEF Least, A, B

(* Prices that agree on the elements. *)
LEMMA LeastSame ==
  ASSUME NEW c, NEW I, NEW J, Priced(c, I, J), NEW d,
         \A i \in I : d.left[i] = c.left[i],
         \A j \in J : d.right[j] = c.right[j],
         \A i \in I, j \in J : d.pair[<<i, j>>] = c.pair[<<i, j>>]
  PROVE  Least(d, I, J) = Least(c, I, J)
<1>. DEFINE h == [i \in I |-> i]
            g == [j \in J |-> j]
<1>1. Image(h, I) = I /\ Image(g, J) = J
  BY DEF Image
<1>2. Renames(c, d, I, J, h, g)
  BY DEF Renames, Keeps
<1>. HIDE DEF h, g
<1>3. Least(d, Image(h, I), Image(g, J)) = Least(c, I, J)
  BY <1>2, LeastRenamed
<1>. QED  BY <1>1, <1>3

(* The least cost of aligning the first r symbols of q with the first n    *)
(* of w.                                                                   *)
Entry(c, q, w, r, n) == Least(Prices(c, q, w), 1 .. r, 1 .. n)

LEMMA InitialSegments ==
  ASSUME NEW n \in Nat, NEW k \in 0 .. n
  PROVE  /\ (1 .. k) \in SUBSET (1 .. n)
         /\ k < n => /\ 1 .. (k + 1) = (1 .. k) \cup {k + 1}
                     /\ (k + 1) \notin (1 .. k)
                     /\ \A i \in 1 .. k : i < k + 1
                     /\ k + 1 \in 1 .. n
OBVIOUS

LEMMA PricedPart ==
  ASSUME NEW c, NEW I, NEW J, Priced(c, I, J), NEW A \in SUBSET I, NEW B \in SUBSET J
  PROVE  Priced(c, A, B)
<1>1. IsFiniteSet(A) /\ IsFiniteSet(B)
  BY FS_Subset DEF Priced
<1>2. \A p \in A \X B : p \in I \X J
  OBVIOUS
<1>. QED  BY <1>1, <1>2 DEF Priced

LEMMA EntriesPriced ==
  ASSUME NEW Q, NEW c, Policy(c, Q), NEW q \in Seq(Q), NEW w \in Seq(Q),
         NEW r \in 0 .. Len(q), NEW n \in 0 .. Len(w)
  PROVE  /\ Priced(Prices(c, q, w), 1 .. r, 1 .. n)
         /\ Entry(c, q, w, r, n) \in Nat
<1>1. Len(q) \in Nat /\ Len(w) \in Nat
  OBVIOUS
<1>2. (1 .. r) \in SUBSET (1 .. Len(q)) /\ (1 .. n) \in SUBSET (1 .. Len(w))
  BY <1>1, InitialSegments
<1>3. Priced(Prices(c, q, w), 1 .. r, 1 .. n)
  <2>. DEFINE z == Prices(c, q, w)
              A == 1 .. r
              B == 1 .. n
              I == 1 .. Len(q)
              J == 1 .. Len(w)
  <2>1. Priced(z, I, J)
    BY PricesOfPolicy
  <2>2. A \in SUBSET I /\ B \in SUBSET J
    BY <1>2
  <2>. HIDE DEF z, A, B, I, J
  <2>3. Priced(z, A, B)
    BY <2>1, <2>2, PricedPart
  <2>. QED  BY <2>3 DEF z, A, B
<1>. QED  BY <1>3, LeastFacts DEF Entry

(* The entries obey the recursion of the dynamic program. *)
LEMMA EntriesRecur ==
  ASSUME NEW Q, NEW c, Policy(c, Q), NEW q \in Seq(Q), NEW w \in Seq(Q)
  PROVE  /\ Entry(c, q, w, 0, 0) = 0
         /\ \A r \in 1 .. Len(q) :
               Entry(c, q, w, r, 0) = Entry(c, q, w, r - 1, 0) + c.deletion[q[r]]
         /\ \A n \in 1 .. Len(w) :
               Entry(c, q, w, 0, n) = Entry(c, q, w, 0, n - 1) + c.insertion[w[n]]
         /\ \A r \in 1 .. Len(q), n \in 1 .. Len(w) :
               Entry(c, q, w, r, n)
                 = Min({Entry(c, q, w, r - 1, n - 1) + c.substitution[<<q[r], w[n]>>],
                        Entry(c, q, w, r, n - 1) + c.insertion[w[n]],
                        Entry(c, q, w, r - 1, n) + c.deletion[q[r]]})
<1>. DEFINE z == Prices(c, q, w)
<1>1. Len(q) \in Nat /\ Len(w) \in Nat
  OBVIOUS
<1>2. /\ \A i \in 1 .. Len(q) : z.left[i] = c.deletion[q[i]]
      /\ \A j \in 1 .. Len(w) : z.right[j] = c.insertion[w[j]]
      /\ \A i \in 1 .. Len(q), j \in 1 .. Len(w) : z.pair[<<i, j>>] = c.substitution[<<q[i], w[j]>>]
  BY DEF Prices
<1>. HIDE DEF z
<1>3. \A r \in 0 .. Len(q), n \in 0 .. Len(w) : Priced(z, 1 .. r, 1 .. n)
  BY EntriesPriced DEF z
<1>4. 1 .. 0 = {}
  OBVIOUS
<1>5. Entry(c, q, w, 0, 0) = 0
  BY <1>4, LeastOfNothing DEF Entry
<1>6. ASSUME NEW r \in 1 .. Len(q)
      PROVE  Entry(c, q, w, r, 0) = Entry(c, q, w, r - 1, 0) + c.deletion[q[r]]
  <2>. DEFINE I == 1 .. (r - 1)
  <2>1. r - 1 \in 0 .. Len(q) /\ r - 1 < Len(q) /\ (r - 1) + 1 = r /\ r \in 0 .. Len(q) /\ 0 \in 0 .. Len(w)
    BY <1>1
  <2>2. 1 .. r = I \cup {r} /\ r \notin I
    <3>1. 1 .. ((r - 1) + 1) = (1 .. (r - 1)) \cup {(r - 1) + 1} /\ ((r - 1) + 1) \notin 1 .. (r - 1)
      BY <1>1, <2>1, InitialSegments
    <3>. QED  BY <2>1, <3>1
  <2>3. Priced(z, 1 .. r, {})
    BY <1>3, <1>4, <2>1
  <2>. HIDE DEF I
  <2>4. Least(z, I \cup {r}, {}) = Least(z, I, {}) + z.left[r]
    BY <2>2, <2>3, LeastOfLeft
  <2>. QED  BY <1>2, <1>4, <2>2, <2>4 DEF Entry, z, I
<1>7. ASSUME NEW n \in 1 .. Len(w)
      PROVE  Entry(c, q, w, 0, n) = Entry(c, q, w, 0, n - 1) + c.insertion[w[n]]
  <2>. DEFINE J == 1 .. (n - 1)
  <2>1. n - 1 \in 0 .. Len(w) /\ n - 1 < Len(w) /\ (n - 1) + 1 = n /\ n \in 0 .. Len(w) /\ 0 \in 0 .. Len(q)
    BY <1>1
  <2>2. 1 .. n = J \cup {n} /\ n \notin J
    <3>1. 1 .. ((n - 1) + 1) = (1 .. (n - 1)) \cup {(n - 1) + 1} /\ ((n - 1) + 1) \notin 1 .. (n - 1)
      BY <1>1, <2>1, InitialSegments
    <3>. QED  BY <2>1, <3>1
  <2>3. Priced(z, {}, 1 .. n)
    BY <1>3, <1>4, <2>1
  <2>. HIDE DEF J
  <2>4. Least(z, {}, J \cup {n}) = Least(z, {}, J) + z.right[n]
    BY <2>2, <2>3, LeastOfRight
  <2>. QED  BY <1>2, <1>4, <2>2, <2>4 DEF Entry, z, J
<1>8. ASSUME NEW r \in 1 .. Len(q), NEW n \in 1 .. Len(w)
      PROVE  Entry(c, q, w, r, n)
               = Min({Entry(c, q, w, r - 1, n - 1) + c.substitution[<<q[r], w[n]>>],
                      Entry(c, q, w, r, n - 1) + c.insertion[w[n]],
                      Entry(c, q, w, r - 1, n) + c.deletion[q[r]]})
  <2>. DEFINE I == 1 .. (r - 1)
              J == 1 .. (n - 1)
  <2>1. /\ r - 1 \in 0 .. Len(q) /\ r - 1 < Len(q) /\ (r - 1) + 1 = r /\ r \in 0 .. Len(q)
        /\ n - 1 \in 0 .. Len(w) /\ n - 1 < Len(w) /\ (n - 1) + 1 = n /\ n \in 0 .. Len(w)
    BY <1>1
  <2>2. 1 .. r = I \cup {r} /\ \A i \in I : i < r
    <3>1. /\ 1 .. ((r - 1) + 1) = (1 .. (r - 1)) \cup {(r - 1) + 1}
          /\ \A i \in 1 .. (r - 1) : i < (r - 1) + 1
      BY <1>1, <2>1, InitialSegments
    <3>. QED  BY <2>1, <3>1
  <2>3. 1 .. n = J \cup {n} /\ \A j \in J : j < n
    <3>1. /\ 1 .. ((n - 1) + 1) = (1 .. (n - 1)) \cup {(n - 1) + 1}
          /\ \A j \in 1 .. (n - 1) : j < (n - 1) + 1
      BY <1>1, <2>1, InitialSegments
    <3>. QED  BY <2>1, <3>1
  <2>4. Priced(z, 1 .. r, 1 .. n)
    BY <1>3, <2>1
  <2>. HIDE DEF I, J
  <2>5. Priced(z, I \cup {r}, J \cup {n})
    BY <2>2, <2>3, <2>4
  <2>6. Least(z, I \cup {r}, J \cup {n})
          = Min({Least(z, I, J) + z.pair[<<r, n>>],
                 Least(z, I \cup {r}, J) + z.right[n],
                 Least(z, I, J \cup {n}) + z.left[r]})
    <3>1. StepLeast(z, I, J, r, n)
      BY <2>2, <2>3, <2>5, LeastOfStep
    <3>. QED  BY <3>1 DEF StepLeast
  <2>7. /\ Entry(c, q, w, r, n) = Least(z, I \cup {r}, J \cup {n})
        /\ Entry(c, q, w, r - 1, n - 1) = Least(z, I, J)
        /\ Entry(c, q, w, r, n - 1) = Least(z, I \cup {r}, J)
        /\ Entry(c, q, w, r - 1, n) = Least(z, I, J \cup {n})
    BY <2>2, <2>3 DEF Entry, z, I, J
  <2>8. /\ z.pair[<<r, n>>] = c.substitution[<<q[r], w[n]>>]
        /\ z.right[n] = c.insertion[w[n]] /\ z.left[r] = c.deletion[q[r]]
    BY <1>2
  <2>. QED  BY <2>6, <2>7, <2>8
<1>. QED  BY <1>5, <1>6, <1>7, <1>8

(* An entry is the distance of two prefixes. *)
LEMMA EntryIsDistance ==
  ASSUME NEW Q, NEW c, Policy(c, Q), NEW q \in Seq(Q), NEW w \in Seq(Q),
         NEW r \in 0 .. Len(q), NEW n \in 0 .. Len(w)
  PROVE  Entry(c, q, w, r, n) = WeightedEditDistance(c, SubSeq(q, 1, r), SubSeq(w, 1, n))
<1>. DEFINE x == SubSeq(q, 1, r)
            y == SubSeq(w, 1, n)
<1>1. /\ x \in Seq(Q) /\ Len(x) = r /\ \A i \in 1 .. r : x[i] = q[i]
      /\ y \in Seq(Q) /\ Len(y) = n /\ \A j \in 1 .. n : y[j] = w[j]
  <2>1. Len(q) \in Nat /\ Len(w) \in Nat /\ r \in Nat /\ n \in Nat
    OBVIOUS
  <2>2. r \in 0 .. Len(q) /\ n \in 0 .. Len(w) /\ 1 \in 1 .. (Len(q) + 1) /\ 1 \in 1 .. (Len(w) + 1)
    BY <2>1
  <2>3. x \in Seq(Q) /\ Len(x) = r /\ \A i \in 1 .. r : x[i] = q[i]
    BY <2>1, <2>2
  <2>4. y \in Seq(Q) /\ Len(y) = n /\ \A j \in 1 .. n : y[j] = w[j]
    BY <2>1, <2>2
  <2>. QED  BY <2>3, <2>4
<1>. HIDE DEF x, y
<1>2. WeightedEditDistance(c, x, y) = Least(Prices(c, x, y), 1 .. r, 1 .. n)
  BY <1>1, DistanceIsLeast
<1>3. Priced(Prices(c, x, y), 1 .. r, 1 .. n)
  BY <1>1, PricesOfPolicy
<1>4. /\ \A i \in 1 .. r : Prices(c, q, w).left[i] = Prices(c, x, y).left[i]
      /\ \A j \in 1 .. n : Prices(c, q, w).right[j] = Prices(c, x, y).right[j]
      /\ \A i \in 1 .. r, j \in 1 .. n : Prices(c, q, w).pair[<<i, j>>] = Prices(c, x, y).pair[<<i, j>>]
  <2>1. (1 .. r) \in SUBSET (1 .. Len(q)) /\ (1 .. n) \in SUBSET (1 .. Len(w))
    BY InitialSegments
  <2>. QED  BY <1>1, <2>1 DEF Prices
<1>5. Least(Prices(c, q, w), 1 .. r, 1 .. n) = Least(Prices(c, x, y), 1 .. r, 1 .. n)
  <2>. DEFINE z == Prices(c, x, y)
              d == Prices(c, q, w)
              A == 1 .. r
              B == 1 .. n
  <2>1. /\ Priced(z, A, B) /\ \A i \in A : d.left[i] = z.left[i]
        /\ \A j \in B : d.right[j] = z.right[j]
        /\ \A i \in A, j \in B : d.pair[<<i, j>>] = z.pair[<<i, j>>]
    BY <1>3, <1>4
  <2>. HIDE DEF z, d, A, B
  <2>2. Least(d, A, B) = Least(z, A, B)
    BY <2>1, LeastSame
  <2>. QED  BY <2>2 DEF z, d, A, B
<1>. QED  BY <1>2, <1>5 DEF Entry, x, y

------------------------------------------------------------------------------
(***************************************************************************)
(* 6. Exact sums: the program computes the weighted edit distance.         *)
(***************************************************************************)
(* The same number, or both beyond what is exact.                          *)
Agree(x, i, M) == x = i \/ (x >= M /\ i >= M)

LEMMA AgreeingSums ==
  ASSUME NEW V, NEW M, SumsAreExact(V, M), NEW x \in V, NEW y \in V, NEW i \in Nat, NEW j \in Nat,
         Agree(x, i, M), Agree(y, j, M)
  PROVE  /\ AddDistance(x, y) \in V /\ Agree(AddDistance(x, y), i + j, M)
         /\ Add(x, y) \in V /\ Agree(Add(x, y), i + j, M)
<1>1. /\ M \in Nat /\ x \in Nat /\ y \in Nat
      /\ Add(x, y) \in V /\ AddDistance(x, y) \in V
      /\ x + y < M  => Add(x, y) = x + y /\ AddDistance(x, y) = x + y
      /\ x + y >= M => Add(x, y) >= M /\ AddDistance(x, y) >= M
  BY DistanceFacts DEF SumsAreExact
<1>2. CASE x = i /\ y = j
  BY <1>1, <1>2 DEF Agree
<1>3. CASE (x >= M /\ i >= M) \/ (y >= M /\ j >= M)
  <2>1. x + y >= M /\ i + j >= M
    BY <1>1, <1>3
  <2>. QED  BY <1>1, <2>1 DEF Agree
<1>. QED  BY <1>2, <1>3 DEF Agree

LEMMA AgreeingMin ==
  ASSUME NEW M \in Nat, NEW x \in Nat, NEW y \in Nat, NEW z \in Nat,
         NEW i \in Nat, NEW j \in Nat, NEW k \in Nat,
         Agree(x, i, M), Agree(y, j, M), Agree(z, k, M)
  PROVE  Agree(Min({x, y, z}), Min({i, j, k}), M)
<1>. DEFINE S == {x, y, z}
            T == {i, j, k}
<1>1. S \in SUBSET Nat /\ S # {} /\ T \in SUBSET Nat /\ T # {}
  OBVIOUS
<1>2. Min(S) \in {x, y, z} /\ Min(S) <= x /\ Min(S) <= y /\ Min(S) <= z
  <2>1. Min(S) \in S /\ \A s \in S : Min(S) <= s
    <3>. HIDE DEF S
    <3>. QED  BY <1>1, MinIsLeast
  <2>. QED  BY <2>1
<1>3. Min(T) \in {i, j, k} /\ Min(T) <= i /\ Min(T) <= j /\ Min(T) <= k
  <2>1. Min(T) \in T /\ \A s \in T : Min(T) <= s
    <3>. HIDE DEF T
    <3>. QED  BY <1>1, MinIsLeast
  <2>. QED  BY <2>1
<1>. HIDE DEF S, T
<1>4. Agree(Min(S), Min(T), M)
  BY <1>2, <1>3 DEF Agree
<1>. QED  BY <1>4 DEF S, T

LEMMA CostsAreExact ==
  ASSUME InputsOK, NEW V, NEW M, SumsAreExact(V, M)
  PROVE  /\ Policy(costs, Symbols)
         /\ V \in SUBSET Distance /\ V \in SUBSET Nat /\ 0 \in V /\ M \in Nat
         /\ \A s \in Symbols : /\ Delete(s) \in V /\ Delete(s) = costs.deletion[s] /\ Delete(s) \in Nat
                               /\ Insert(s) \in V /\ Insert(s) = costs.insertion[s] /\ Insert(s) \in Nat
         /\ \A s, t \in Symbols :
               /\ Substitute(s, t) \in V /\ Substitute(s, t) \in Nat
               /\ Substitute(s, t) = costs.substitution[<<s, t>>]
<1>1. costs \in Policies
  BY DEF InputsOK
<1>2. /\ costs.deletion \in [Symbols -> Cost] /\ costs.insertion \in [Symbols -> Cost]
      /\ costs.substitution \in [Symbols \X Symbols -> Cost]
  BY <1>1, InputsAssumption
<1>3. Policy(costs, Symbols)
  BY <1>2, CostAssumption DEF Policy
<1>4. V \in SUBSET Distance /\ V \in SUBSET Nat /\ 0 \in V /\ M \in Nat
  BY DistanceFacts DEF SumsAreExact
<1>5. \A s, t \in Symbols :
        costs.deletion[s] \in V /\ costs.insertion[s] \in V /\ costs.substitution[<<s, t>>] \in V
  BY <1>1 DEF SumsAreExact
<1>. QED  BY <1>3, <1>4, <1>5 DEF Delete, Insert, Substitute

(* Every entry of the program agrees with the least cost of an alignment   *)
(* of the prefixes it stands for.                                          *)
Exactly(q, w, V, M, n, column) ==
  \A r \in 0 .. Len(q) : column[r] \in V /\ Agree(column[r], Entry(costs, q, w, r, n), M)

LEMMA RootIsExact ==
  ASSUME InputsOK, NEW V, NEW M, SumsAreExact(V, M), NEW q \in Seq(Symbols), NEW w \in Seq(Symbols)
  PROVE  Exactly(q, w, V, M, 0, RootColumn(q))
<1>. DEFINE column == RootColumn(q)
            Good == {r \in 0 .. Len(q) : column[r] \in V /\ Agree(column[r], Entry(costs, q, w, r, 0), M)}
<1>1. Len(q) \in Nat /\ Policy(costs, Symbols) /\ Len(w) \in Nat /\ 0 \in 0 .. Len(w)
  BY CostsAreExact
<1>2. /\ column[0] = 0
      /\ \A r \in 1 .. Len(q) : column[r] = AddDistance(column[r - 1], Delete(q[r]))
  BY RootColumnDefined
<1>3. /\ Entry(costs, q, w, 0, 0) = 0
      /\ \A r \in 1 .. Len(q) : Entry(costs, q, w, r, 0) = Entry(costs, q, w, r - 1, 0) + costs.deletion[q[r]]
  BY <1>1, EntriesRecur
<1>4. \A r \in 0 .. Len(q) : Entry(costs, q, w, r, 0) \in Nat
  BY <1>1, EntriesPriced
<1>. HIDE DEF column
<1>5. 0 \in Good
  BY <1>1, <1>2, <1>3, CostsAreExact DEF Agree
<1>6. ASSUME NEW r \in Good, r < Len(q) PROVE r + 1 \in Good
  <2>1. r + 1 \in 1 .. Len(q) /\ (r + 1) - 1 = r /\ r \in 0 .. Len(q) /\ r + 1 \in 0 .. Len(q)
    BY <1>1, <1>6
  <2>2. q[r + 1] \in Symbols
    BY <2>1
  <2>3. /\ Delete(q[r + 1]) \in V /\ Delete(q[r + 1]) = costs.deletion[q[r + 1]]
        /\ Delete(q[r + 1]) \in Nat
    BY <2>2, CostsAreExact
  <2>4. Agree(Delete(q[r + 1]), costs.deletion[q[r + 1]], M)
    BY <2>3 DEF Agree
  <2>5. /\ AddDistance(column[r], Delete(q[r + 1])) \in V
        /\ Agree(AddDistance(column[r], Delete(q[r + 1])), Entry(costs, q, w, r, 0) + costs.deletion[q[r + 1]], M)
    BY <1>4, <2>1, <2>3, <2>4, AgreeingSums
  <2>6. column[r + 1] = AddDistance(column[r], Delete(q[r + 1]))
    BY <1>2, <2>1
  <2>7. Entry(costs, q, w, r + 1, 0) = Entry(costs, q, w, r, 0) + costs.deletion[q[r + 1]]
    BY <1>3, <2>1
  <2>. QED  BY <2>1, <2>5, <2>6, <2>7
<1>7. Good = 0 .. Len(q)
  <2>1. Good \in SUBSET (0 .. Len(q))
    OBVIOUS
  <2>. HIDE DEF Good
  <2>. QED  BY <1>1, <1>5, <1>6, <2>1, BoundedInduction
<1>. QED  BY <1>7 DEF Exactly, column

LEMMA StepIsExact ==
  ASSUME InputsOK, NEW V, NEW M, SumsAreExact(V, M), NEW q \in Seq(Symbols), NEW w \in Seq(Symbols),
         NEW n \in 1 .. Len(w), NEW previous \in Columns(q), Exactly(q, w, V, M, n - 1, previous)
  PROVE  Exactly(q, w, V, M, n, StepColumn(q, w[n], previous))
<1>. DEFINE column == StepColumn(q, w[n], previous)
            e(r, k) == Entry(costs, q, w, r, k)
            Good == {r \in 0 .. Len(q) : column[r] \in V /\ Agree(column[r], e(r, n), M)}
<1>1. /\ Len(q) \in Nat /\ Policy(costs, Symbols) /\ Len(w) \in Nat
      /\ n \in 0 .. Len(w) /\ n - 1 \in 0 .. Len(w) /\ w[n] \in Symbols
  <2>1. Len(q) \in Nat /\ Len(w) \in Nat /\ w[n] \in Symbols
    OBVIOUS
  <2>. QED  BY <2>1, CostsAreExact
<1>2. /\ column[0] = AddDistance(previous[0], Insert(w[n]))
      /\ \A r \in 1 .. Len(q) : column[r] = Min(StepEntry(q, column, w[n], previous, r))
  BY <1>1, StepColumnDefined
<1>3. /\ e(0, n) = e(0, n - 1) + costs.insertion[w[n]]
      /\ \A r \in 1 .. Len(q) :
            e(r, n) = Min({e(r - 1, n - 1) + costs.substitution[<<q[r], w[n]>>],
                           e(r, n - 1) + costs.insertion[w[n]],
                           e(r - 1, n) + costs.deletion[q[r]]})
  BY <1>1, EntriesRecur
<1>4. \A r \in 0 .. Len(q) : e(r, n) \in Nat /\ e(r, n - 1) \in Nat
  BY <1>1, EntriesPriced
<1>5. /\ Insert(w[n]) \in V /\ Insert(w[n]) = costs.insertion[w[n]] /\ Insert(w[n]) \in Nat
      /\ Agree(Insert(w[n]), costs.insertion[w[n]], M)
  BY <1>1, CostsAreExact DEF Agree
<1>6. \A r \in 0 .. Len(q) : previous[r] \in V /\ Agree(previous[r], e(r, n - 1), M)
  BY DEF Exactly
<1>. HIDE DEF column, e
<1>7. \A r \in 0 .. Len(q) :
         /\ AddDistance(previous[r], Insert(w[n])) \in V
         /\ Agree(AddDistance(previous[r], Insert(w[n])), e(r, n - 1) + costs.insertion[w[n]], M)
  BY <1>4, <1>5, <1>6, AgreeingSums
<1>8. 0 \in Good
  <2>1. 0 \in 0 .. Len(q)
    BY <1>1
  <2>. QED  BY <1>2, <1>3, <1>7, <2>1
<1>9. ASSUME NEW r \in Good, r < Len(q) PROVE r + 1 \in Good
  <2>1. r + 1 \in 1 .. Len(q) /\ (r + 1) - 1 = r /\ r \in 0 .. Len(q) /\ r + 1 \in 0 .. Len(q)
    BY <1>1, <1>9
  <2>2. q[r + 1] \in Symbols
    BY <2>1
  <2>3. /\ Delete(q[r + 1]) \in V /\ Delete(q[r + 1]) = costs.deletion[q[r + 1]]
        /\ Delete(q[r + 1]) \in Nat /\ Agree(Delete(q[r + 1]), costs.deletion[q[r + 1]], M)
        /\ Substitute(q[r + 1], w[n]) \in V /\ Substitute(q[r + 1], w[n]) \in Nat
        /\ Substitute(q[r + 1], w[n]) = costs.substitution[<<q[r + 1], w[n]>>]
        /\ Agree(Substitute(q[r + 1], w[n]), costs.substitution[<<q[r + 1], w[n]>>], M)
    BY <1>1, <2>2, CostsAreExact DEF Agree
  <2>. DEFINE x == AddDistance(previous[r], Substitute(q[r + 1], w[n]))
              y == AddDistance(previous[r + 1], Insert(w[n]))
              z == AddDistance(column[r], Delete(q[r + 1]))
              i == e(r, n - 1) + costs.substitution[<<q[r + 1], w[n]>>]
              j == e(r + 1, n - 1) + costs.insertion[w[n]]
              k == e(r, n) + costs.deletion[q[r + 1]]
  <2>4. x \in V /\ Agree(x, i, M)
    <3>1. /\ previous[r] \in V /\ Agree(previous[r], e(r, n - 1), M) /\ e(r, n - 1) \in Nat
          /\ costs.substitution[<<q[r + 1], w[n]>>] \in Nat
      BY <1>4, <1>6, <2>1, <2>3
    <3>. QED  BY <2>3, <3>1, AgreeingSums
  <2>5. y \in V /\ Agree(y, j, M)
    BY <1>7, <2>1
  <2>6. z \in V /\ Agree(z, k, M)
    <3>1. /\ column[r] \in V /\ Agree(column[r], e(r, n), M) /\ e(r, n) \in Nat
          /\ costs.deletion[q[r + 1]] \in Nat
      BY <1>4, <2>1, <2>3
    <3>. QED  BY <2>3, <3>1, AgreeingSums
  <2>7. i \in Nat /\ j \in Nat /\ k \in Nat
    <3>1. e(r, n - 1) \in Nat /\ e(r + 1, n - 1) \in Nat /\ e(r, n) \in Nat
      BY <1>4, <2>1
    <3>2. /\ costs.substitution[<<q[r + 1], w[n]>>] \in Nat /\ costs.insertion[w[n]] \in Nat
          /\ costs.deletion[q[r + 1]] \in Nat
      BY <1>5, <2>3
    <3>3. \A x1, x2 \in Nat : x1 + x2 \in Nat
      OBVIOUS
    <3>4. i \in Nat
      BY <3>1, <3>2, <3>3, Zenon
    <3>5. j \in Nat
      BY <3>1, <3>2, <3>3, Zenon
    <3>6. k \in Nat
      BY <3>1, <3>2, <3>3, Zenon
    <3>. QED  BY <3>4, <3>5, <3>6
  <2>8. column[r + 1] = Min({x, y, z})
    <3>1. column[r + 1] = Min(StepEntry(q, column, w[n], previous, r + 1))
      BY <1>2, <2>1
    <3>. QED  BY <2>1, <3>1 DEF StepEntry
  <2>9. e(r + 1, n) = Min({i, j, k})
    BY <1>3, <2>1
  <2>. HIDE DEF x, y, z, i, j, k
  <2>10. x \in Nat /\ y \in Nat /\ z \in Nat /\ M \in Nat /\ x \in Distance /\ y \in Distance /\ z \in Distance
    BY <2>4, <2>5, <2>6, CostsAreExact
  <2>11. Agree(Min({x, y, z}), Min({i, j, k}), M)
    BY <2>4, <2>5, <2>6, <2>7, <2>10, AgreeingMin
  <2>12. Min({x, y, z}) \in V
    BY <2>4, <2>5, <2>6, <2>10, LeastOfThree
  <2>. QED  BY <2>1, <2>8, <2>9, <2>11, <2>12
<1>10. Good = 0 .. Len(q)
  <2>1. Good \in SUBSET (0 .. Len(q))
    OBVIOUS
  <2>. HIDE DEF Good
  <2>. QED  BY <1>1, <1>8, <1>9, <2>1, BoundedInduction
<1>. QED  BY <1>10 DEF Exactly, column, e

LEMMA ProgramIsExact ==
  ASSUME InputsOK, NEW V, NEW M, SumsAreExact(V, M), NEW q \in Seq(Symbols), NEW w \in Seq(Symbols)
  PROVE  \A n \in 0 .. Len(w) : Exactly(q, w, V, M, n, Program(q, w)[n])
<1>. DEFINE Good == {n \in 0 .. Len(w) : Exactly(q, w, V, M, n, Program(q, w)[n])}
<1>1. /\ Len(w) \in Nat
      /\ Program(q, w) \in [0 .. Len(w) -> Columns(q)]
      /\ Program(q, w)[0] = RootColumn(q)
      /\ \A k \in 1 .. Len(w) : Program(q, w)[k] = StepColumn(q, w[k], Program(q, w)[k - 1])
  BY ColumnsDefined
<1>2. 0 \in Good
  BY <1>1, RootIsExact
<1>3. ASSUME NEW n \in Good, n < Len(w) PROVE n + 1 \in Good
  <2>1. n + 1 \in 1 .. Len(w) /\ (n + 1) - 1 = n /\ n \in 0 .. Len(w) /\ n + 1 \in 0 .. Len(w)
    BY <1>1, <1>3
  <2>2. Program(q, w)[n] \in Columns(q) /\ Exactly(q, w, V, M, (n + 1) - 1, Program(q, w)[n])
    BY <1>1, <2>1
  <2>3. Program(q, w)[n + 1] = StepColumn(q, w[n + 1], Program(q, w)[n])
    BY <1>1, <2>1
  <2>4. Exactly(q, w, V, M, n + 1, Program(q, w)[n + 1])
    BY <2>1, <2>2, <2>3, StepIsExact
  <2>. QED  BY <2>1, <2>4
<1>4. Good = 0 .. Len(w)
  <2>1. Good \in SUBSET (0 .. Len(w))
    OBVIOUS
  <2>. HIDE DEF Good
  <2>. QED  BY <1>1, <1>2, <1>3, <2>1, BoundedInduction
<1>. QED  BY <1>4

------------------------------------------------------------------------------
(***************************************************************************)
(* 7. The caches.                                                          *)
(***************************************************************************)
LEMMA PrefixFacts ==
  ASSUME NEW S, NEW s \in Seq(S), NEW n \in 0 .. Len(s)
  PROVE  /\ SubSeq(s, 1, n) \in Seq(S)
         /\ Len(SubSeq(s, 1, n)) = n
         /\ \A i \in 1 .. n : SubSeq(s, 1, n)[i] = s[i]
         /\ \A k \in 0 .. n : SubSeq(SubSeq(s, 1, n), 1, k) = SubSeq(s, 1, k)
<1>1. Len(s) \in Nat /\ n \in Nat
  OBVIOUS
<1>. DEFINE t == SubSeq(s, 1, n)
<1>2. t \in Seq(S) /\ Len(t) = n /\ \A i \in 1 .. n : t[i] = s[i]
  BY <1>1
<1>. HIDE DEF t
<1>3. ASSUME NEW k \in 0 .. n PROVE SubSeq(t, 1, k) = SubSeq(s, 1, k)
  <2>1. k \in 0 .. Len(s) /\ k \in 0 .. Len(t) /\ k \in Nat
    BY <1>1, <1>2
  <2>2. SubSeq(t, 1, k) \in Seq(S) /\ Len(SubSeq(t, 1, k)) = k /\ \A i \in 1 .. k : SubSeq(t, 1, k)[i] = t[i]
    BY <1>1, <1>2, <2>1
  <2>3. SubSeq(s, 1, k) \in Seq(S) /\ Len(SubSeq(s, 1, k)) = k /\ \A i \in 1 .. k : SubSeq(s, 1, k)[i] = s[i]
    BY <1>1, <2>1
  <2>4. \A i \in 1 .. k : t[i] = s[i]
    BY <1>1, <1>2
  <2>. QED  BY <2>2, <2>3, <2>4, SeqEqual
<1>. QED  BY <1>2, <1>3 DEF t

LEMMA SideFacts ==
  ASSUME NEW S, NEW s \in Seq(S), NEW p \in 1 .. Len(s), NEW d \in Directions
  PROVE  /\ Side(d, s, p) \in Seq(S)
         /\ Len(Side(d, s, p)) = IF d = "backward" THEN p - 1 ELSE Len(s) - p
         /\ \A k \in 1 .. Len(Side(d, s, p)) :
               Side(d, s, p)[k] = IF d = "backward" THEN s[p - k] ELSE s[p + k]
<1>1. Len(s) \in Nat /\ p \in Nat /\ p - 1 \in 0 .. Len(s) /\ p + 1 \in 1 .. (Len(s) + 1)
  OBVIOUS
<1>2. CASE d = "backward"
  <2>. DEFINE t == SubSeq(s, 1, p - 1)
  <2>1. t \in Seq(S) /\ Len(t) = p - 1 /\ \A i \in 1 .. (p - 1) : t[i] = s[i]
    BY <1>1, PrefixFacts
  <2>. HIDE DEF t
  <2>2. Side(d, s, p) = Reverse(t)
    BY <1>2 DEF Side, t
  <2>3. Reverse(t) = [k \in 1 .. (p - 1) |-> t[(p - 1) - k + 1]]
    BY <2>1 DEF Reverse
  <2>4. \A k \in 1 .. (p - 1) : (p - 1) - k + 1 = p - k /\ p - k \in 1 .. (p - 1)
    BY <1>1
  <2>5. \A k \in 1 .. (p - 1) : t[(p - 1) - k + 1] = s[p - k] /\ s[p - k] \in S
    BY <1>1, <2>1, <2>4
  <2>6. Reverse(t) \in [1 .. (p - 1) -> S] /\ \A k \in 1 .. (p - 1) : Reverse(t)[k] = s[p - k]
    BY <2>3, <2>5
  <2>7. Reverse(t) \in Seq(S) /\ Len(Reverse(t)) = p - 1
    <3>1. p - 1 \in Nat
      BY <1>1
    <3>. QED  BY <2>6, <3>1
  <2>. QED  BY <1>2, <2>2, <2>6, <2>7
<1>3. CASE d = "forward"
  <2>1. Side(d, s, p) = SubSeq(s, p + 1, Len(s))
    BY <1>3 DEF Side
  <2>2. /\ SubSeq(s, p + 1, Len(s)) \in Seq(S)
        /\ Len(SubSeq(s, p + 1, Len(s))) = Len(s) - p
        /\ \A k \in 1 .. (Len(s) - p) : SubSeq(s, p + 1, Len(s))[k] = s[p + k]
    <3>1. p + 1 \in 1 .. (Len(s) + 1) /\ Len(s) \in ((p + 1) - 1) .. Len(s)
      BY <1>1
    <3>2. SubSeq(s, p + 1, Len(s)) \in Seq(S)
      BY <1>1, <3>1, SubSeqProperties
    <3>3. Len(SubSeq(s, p + 1, Len(s))) = Len(s) - p
      BY <1>1, <3>1
    <3>4. \A k \in 1 .. (Len(s) - p) : SubSeq(s, p + 1, Len(s))[k] = s[p + k]
      BY <1>1
    <3>. QED  BY <3>2, <3>3, <3>4
  <2>. QED  BY <1>3, <2>1, <2>2
<1>. QED  BY <1>2, <1>3 DEF Directions

(* The columns of a prefix are those of the whole word. *)
LEMMA ProgramOfPrefix ==
  ASSUME InputsOK, NEW q \in Seq(Symbols), NEW w \in Seq(Symbols), NEW n \in 0 .. Len(w)
  PROVE  Program(q, SubSeq(w, 1, n))[n] = Program(q, w)[n]
<1>. DEFINE t == SubSeq(w, 1, n)
            Good == {k \in 0 .. n : Program(q, t)[k] = Program(q, w)[k]}
<1>1. /\ t \in Seq(Symbols) /\ Len(t) = n /\ \A i \in 1 .. n : t[i] = w[i]
      /\ Len(w) \in Nat /\ n \in Nat
  BY PrefixFacts
<1>. HIDE DEF t
<1>2. /\ Program(q, w)[0] = RootColumn(q)
      /\ \A k \in 1 .. Len(w) : Program(q, w)[k] = StepColumn(q, w[k], Program(q, w)[k - 1])
      /\ Program(q, t)[0] = RootColumn(q)
      /\ \A k \in 1 .. n : Program(q, t)[k] = StepColumn(q, t[k], Program(q, t)[k - 1])
  BY <1>1, ColumnsDefined
<1>3. 0 \in Good
  BY <1>1, <1>2
<1>4. ASSUME NEW k \in Good, k < n PROVE k + 1 \in Good
  <2>1. k + 1 \in 1 .. n /\ k + 1 \in 1 .. Len(w) /\ (k + 1) - 1 = k /\ k + 1 \in 0 .. n
    BY <1>1, <1>4
  <2>2. Program(q, t)[k] = Program(q, w)[k]
    OBVIOUS
  <2>3. Program(q, t)[k + 1] = StepColumn(q, t[k + 1], Program(q, t)[k])
    BY <1>2, <2>1
  <2>4. Program(q, w)[k + 1] = StepColumn(q, w[k + 1], Program(q, w)[k])
    BY <1>2, <2>1
  <2>. QED  BY <1>1, <2>1, <2>2, <2>3, <2>4
<1>5. Good = 0 .. n
  <2>1. Good \in SUBSET (0 .. n)
    OBVIOUS
  <2>. HIDE DEF Good
  <2>. QED  BY <1>1, <1>3, <1>4, <2>1, BoundedInduction
<1>6. n \in Good
  BY <1>1, <1>5
<1>. QED  BY <1>6 DEF t

(* The column of a path. *)
ColumnOf(q, path) == Program(q, path)[Len(path)]

(* What the caches hold: columns of paths that lead away from a place of   *)
(* the corpus, each the one of its path.                                   *)
Path(key) ==
  \E d \in Directions, i \in Positions, id \in DOMAIN corpus :
     \E p \in 1 .. Len(corpus[id]) :
        \E n \in 0 .. Len(Side(d, corpus[id], p)) : key = Key(d, i, Side(d, corpus[id], p), n)

Cached ==
  \A key \in DOMAIN forest :
     /\ Path(key)
     /\ forest[key] = ColumnOf(Side(key[1], query, key[2]), key[3])

(* So the columns along any data are those of the program. *)
LEMMA ColumnsAlongProgram ==
  ASSUME InputsOK, Cached, NEW d \in Directions, NEW i \in Positions, NEW data \in Seq(Symbols)
  PROVE  ColumnsAlong(d, i, data) = Program(Side(d, query, i), data)
<1>. DEFINE q == Side(d, query, i)
            m == Len(data)
            P == Program(q, data)
            known(n) == Key(d, i, data, n) \in DOMAIN forest
            Recursive(g) == g = [n \in 0 .. m |->
                IF Key(d, i, data, n) \in DOMAIN forest THEN forest[Key(d, i, data, n)]
                ELSE IF n = 0 THEN RootColumn(q)
                ELSE StepColumn(q, data[n], g[n - 1])]
            c == CHOOSE g : Recursive(g)
<1>1. q \in Seq(Symbols) /\ m \in Nat
  <2>1. query \in Seq(Symbols) /\ i \in 1 .. Len(query)
    BY InputTypes DEF Positions
  <2>. QED  BY <2>1, SideFacts
<1>2. /\ P \in [0 .. m -> Columns(q)] /\ P[0] = RootColumn(q)
      /\ \A k \in 1 .. m : P[k] = StepColumn(q, data[k], P[k - 1])
  <2>. HIDE DEF q
  <2>. QED  BY <1>1, ColumnsDefined
<1>3. ASSUME NEW n \in 0 .. m, known(n) PROVE forest[Key(d, i, data, n)] = P[n]
  <2>1. /\ Key(d, i, data, n)[1] = d /\ Key(d, i, data, n)[2] = i
        /\ Key(d, i, data, n)[3] = SubSeq(data, 1, n)
    BY DEF Key
  <2>2. forest[Key(d, i, data, n)] = ColumnOf(q, SubSeq(data, 1, n))
    BY <1>3, <2>1 DEF Cached
  <2>3. Len(SubSeq(data, 1, n)) = n
    BY PrefixFacts
  <2>. HIDE DEF q
  <2>4. Program(q, SubSeq(data, 1, n))[n] = P[n]
    BY <1>1, ProgramOfPrefix
  <2>. QED  BY <2>2, <2>3, <2>4 DEF ColumnOf
<1>. HIDE DEF P, q
<1>4. Recursive(P)
  <2>1. ASSUME NEW n \in 0 .. m
        PROVE  P[n] = IF known(n) THEN forest[Key(d, i, data, n)]
                      ELSE IF n = 0 THEN RootColumn(q) ELSE StepColumn(q, data[n], P[n - 1])
    <3>1. n = 0 \/ n \in 1 .. m
      BY <1>1
    <3>. QED  BY <1>2, <1>3, <3>1
  <2>. QED  BY <1>2, <2>1
<1>5. Recursive(c)
  <2>. HIDE DEF Recursive
  <2>. QED  BY <1>4
<1>. HIDE DEF c
<1>6. /\ c = [n \in 0 .. m |-> c[n]]
      /\ \A n \in 0 .. m : c[n] = IF known(n) THEN forest[Key(d, i, data, n)]
                                  ELSE IF n = 0 THEN RootColumn(q) ELSE StepColumn(q, data[n], c[n - 1])
  BY <1>5
<1>. DEFINE Good == {n \in 0 .. m : c[n] = P[n]}
<1>7. 0 \in Good
  <2>1. 0 \in 0 .. m
    BY <1>1
  <2>. QED  BY <1>2, <1>3, <1>6, <2>1
<1>8. ASSUME NEW n \in Good, n < m PROVE n + 1 \in Good
  <2>1. n + 1 \in 1 .. m /\ (n + 1) - 1 = n /\ n + 1 \in 0 .. m /\ n + 1 # 0
    BY <1>1, <1>8
  <2>2. c[n] = P[n]
    OBVIOUS
  <2>3. c[n + 1] = IF known(n + 1) THEN forest[Key(d, i, data, n + 1)]
                   ELSE StepColumn(q, data[n + 1], c[n])
    BY <1>6, <2>1
  <2>4. P[n + 1] = StepColumn(q, data[n + 1], P[n])
    BY <1>2, <2>1
  <2>. HIDE DEF known
  <2>5. known(n + 1) => forest[Key(d, i, data, n + 1)] = P[n + 1]
    BY <1>3, <2>1
  <2>. QED  BY <2>1, <2>2, <2>3, <2>4, <2>5
<1>9. Good = 0 .. m
  <2>1. Good \in SUBSET (0 .. m)
    OBVIOUS
  <2>. HIDE DEF Good
  <2>. QED  BY <1>1, <1>7, <1>8, <2>1, BoundedInduction
<1>10. c = P
  <2>1. P = [n \in 0 .. m |-> P[n]] /\ \A n \in 0 .. m : c[n] = P[n]
    BY <1>2, <1>9
  <2>. QED  BY <1>6, <2>1
<1>11. ColumnsAlong(d, i, data) = c
  BY DEF ColumnsAlong, c, q
<1>. QED  BY <1>10, <1>11 DEF P, q

(* What a candidate adds to the caches. *)
LEMMA NodesAreCached ==
  ASSUME InputsOK, Cached, NEW candidate, IsValid(candidate),
         NEW key \in DOMAIN Extension(candidate).nodes
  PROVE  /\ Path(key)
         /\ Extension(candidate).nodes[key] = ColumnOf(Side(key[1], query, key[2]), key[3])
<1>. DEFINE i == candidate.query
            p == candidate.position
            string == corpus[candidate.string]
            budget == Residual(AnchorCost)
            columns == [d \in Directions |-> ColumnsAlong(d, i, Side(d, string, p))]
            visited == UNION {{<<d, n>> : n \in Visited(columns[d], budget)} : d \in Directions}
            keys == {Key(node[1], i, Side(node[1], string, p), node[2]) : node \in visited}
<1>1. Extension(candidate).nodes = [k \in keys |-> columns[k[1]][Len(k[3])]]
  BY DEF Extension
<1>2. /\ i \in Positions /\ candidate.string \in DOMAIN corpus /\ p \in 1 .. Len(string)
      /\ string \in Seq(Symbols)
  BY InputTypes DEF IsValid
<1>3. PICK node \in visited : key = Key(node[1], i, Side(node[1], string, p), node[2])
  <2>1. key \in keys
    BY <1>1
  <2>. QED  BY <2>1
<1>32. Extension(candidate).nodes[key] = columns[key[1]][Len(key[3])]
  <2>. HIDE DEF keys, columns
  <2>1. key \in keys
    BY <1>1
  <2>. QED  BY <1>1, <2>1
<1>. DEFINE d == node[1]
            n == node[2]
<1>. DEFINE side == Side(d, string, p)
            q == Side(d, query, i)
<1>31. d \in Directions /\ n \in Visited(columns[d], budget)
  <2>1. PICK e \in Directions : node \in {<<e, k>> : k \in Visited(columns[e], budget)}
    OBVIOUS
  <2>. QED  BY <2>1
<1>. HIDE DEF visited
<1>4. side \in Seq(Symbols) /\ q \in Seq(Symbols)
  <2>1. query \in Seq(Symbols) /\ i \in 1 .. Len(query)
    BY <1>2, InputTypes DEF Positions
  <2>. QED  BY <1>2, <1>31, <2>1, SideFacts
<1>5. columns[d] = Program(q, side)
  <2>1. columns[d] = ColumnsAlong(d, i, side)
    BY <1>31
  <2>. HIDE DEF side, columns
  <2>. QED  BY <1>2, <1>31, <1>4, <2>1, ColumnsAlongProgram
<1>6. n \in 0 .. Len(side)
  <2>1. n \in DOMAIN columns[d]
    BY <1>31 DEF Visited
  <2>. HIDE DEF side, q, columns
  <2>2. DOMAIN Program(q, side) = 0 .. Len(side)
    BY <1>4, ColumnsDefined
  <2>. QED  BY <1>5, <2>1, <2>2
<1>7. key = Key(d, i, side, n) /\ key[1] = d /\ key[2] = i /\ key[3] = SubSeq(side, 1, n)
  BY <1>3 DEF Key
<1>8. Path(key)
  BY <1>2, <1>31, <1>6, <1>7 DEF Path
<1>. HIDE DEF side, q, columns
<1>9. Len(key[3]) = n
  BY <1>4, <1>6, <1>7, PrefixFacts
<1>10. Extension(candidate).nodes[key] = Program(q, side)[n]
  BY <1>5, <1>7, <1>9, <1>32
<1>11. Program(q, key[3])[n] = Program(q, side)[n]
  BY <1>4, <1>6, <1>7, ProgramOfPrefix
<1>. QED  BY <1>7, <1>8, <1>9, <1>10, <1>11 DEF ColumnOf, q

LEMMA CachedFixed ==
  ASSUME Cached, UNCHANGED <<inputs, forest>>
  PROVE  Cached'
<1>1. query' = query /\ corpus' = corpus /\ forest' = forest /\ Positions' = Positions
      /\ costs' = costs
  BY DEF inputs, Positions
<1>2. \A q, path : ColumnOf(q, path)' = ColumnOf(q, path)
  BY <1>1 DEF ColumnOf, Program, RootColumn, StepColumn, Insert, Delete, Substitute
<1>3. \A key : Path(key)' = Path(key)
  BY <1>1 DEF Path
<1>. QED  BY <1>1, <1>2, <1>3 DEF Cached

(* Verifying a candidate adds to the caches and keeps what they have. *)
LEMMA VerifyingCaches ==
  ASSUME InputsOK, Cached, VerifyCandidate, IsValid(Current)
  PROVE  Cached'
<1>. DEFINE nodes == Extension(Current).nodes
<1>1. /\ UNCHANGED inputs
      /\ forest' = [key \in DOMAIN nodes \cup DOMAIN forest |->
                      IF key \in DOMAIN forest THEN forest[key] ELSE nodes[key]]
  BY DEF VerifyCandidate
<1>2. \A key \in DOMAIN nodes :
         Path(key) /\ nodes[key] = ColumnOf(Side(key[1], query, key[2]), key[3])
  BY NodesAreCached
<1>. HIDE DEF nodes
<1>3. \A key \in DOMAIN forest' :
         Path(key) /\ forest'[key] = ColumnOf(Side(key[1], query, key[2]), key[3])
  BY <1>1, <1>2 DEF Cached
<1>4. query' = query /\ corpus' = corpus /\ Positions' = Positions /\ costs' = costs
  BY <1>1 DEF inputs, Positions
<1>5. \A q, path : ColumnOf(q, path)' = ColumnOf(q, path)
  BY <1>4 DEF ColumnOf, Program, RootColumn, StepColumn, Insert, Delete, Substitute
<1>6. \A key : Path(key)' = Path(key)
  BY <1>4 DEF Path
<1>. QED  BY <1>3, <1>4, <1>5, <1>6 DEF Cached

------------------------------------------------------------------------------
(* The state of a search with its caches. *)
CachingInv == SearchInv /\ Cached

LEMMA CurrentFacts ==
  ASSUME SearchInv, stage = "verifying", next \in DOMAIN candidates
  PROVE  InputsOK /\ IsValid(Current) /\ Current \in Anchored
<1>1. Filtered /\ WithinLimit /\ candidates = GeneratedCandidates
  BY DEF SearchInv, LateStages
<1>2. InputsOK /\ candidates \in Seq(Anchored)
  BY <1>1, CandidatesGenerated DEF Filtered
<1>3. candidates[next] \in Anchored
  BY <1>2
<1>. QED  BY <1>2, <1>3, AnchoredAreValid DEF Current

LEMMA CachingStep ==
  ASSUME CachingInv, [Next]_vars
  PROVE  CachingInv'
<1>1. SearchInv'
  BY SearchStep DEF CachingInv
<1>2. VerifyCandidate \/ UNCHANGED <<inputs, forest>>
  BY DEF vars, Next, FilteringNext, SelectionNext, RejectThreshold, Decline, StartAtDerivedRadius,
         Pick, SelectionSucceeds, SelectionFails, TryMiddle, SettleRadius, DeclineExpensive, Generate,
         VerificationNext, RejectCandidates, AcceptCandidates, SkipCandidate, Finish,
         verificationVars, selectionVars, selectionState
<1>3. CASE VerifyCandidate
  BY <1>1, <1>3, CurrentFacts, VerifyingCaches DEF CachingInv, VerifyCandidate
<1>4. CASE UNCHANGED <<inputs, forest>>
  BY <1>1, <1>4, CachedFixed DEF CachingInv
<1>. QED  BY <1>2, <1>3, <1>4

LEMMA CachingAtStart ==
  ASSUME Init
  PROVE  CachingInv
<1>1. SelectionInv /\ VerificationInit /\ stage = "checking"
  BY InitialState DEF Init, SelectionInit
<1>2. SearchInv
  BY <1>1 DEF SearchInv, SelectionStages, LateStages
<1>. QED  BY <1>1, <1>2 DEF CachingInv, Cached, VerificationInit

LEMMA CachingIsInvariant == Spec => []CachingInv
<1>1. Init => CachingInv
  BY CachingAtStart
<1>2. CachingInv /\ [Next]_vars => CachingInv'
  BY CachingStep
<1>. QED  BY <1>1, <1>2, PTL DEF Spec

(* The columns the caches hold are exact.                                  *)
LEMMA ExactColumns ==
  ASSUME InputsOK, Cached, NEW V, NEW M, SumsAreExact(V, M), DistancesAreBelow(M),
         NEW key \in DOMAIN forest
  PROVE  \A r \in DOMAIN forest[key] :
            forest[key][r] =
              WeightedEditDistance(costs, SubSeq(Side(key[1], query, key[2]), 1, r), key[3])
<1>1. Path(key) /\ forest[key] = ColumnOf(Side(key[1], query, key[2]), key[3])
  BY DEF Cached
<1>2. PICK d \in Directions, i \in Positions, id \in DOMAIN corpus :
        \E p \in 1 .. Len(corpus[id]) :
           \E n \in 0 .. Len(Side(d, corpus[id], p)) : key = Key(d, i, Side(d, corpus[id], p), n)
  BY <1>1 DEF Path
<1>3. PICK p \in 1 .. Len(corpus[id]) :
        \E n \in 0 .. Len(Side(d, corpus[id], p)) : key = Key(d, i, Side(d, corpus[id], p), n)
  BY <1>2
<1>4. PICK n \in 0 .. Len(Side(d, corpus[id], p)) : key = Key(d, i, Side(d, corpus[id], p), n)
  BY <1>3
<1>. DEFINE side == Side(d, corpus[id], p)
            q == Side(d, query, i)
            path == SubSeq(side, 1, n)
            column == Program(q, path)[n]
<1>5. key[1] = d /\ key[2] = i /\ key[3] = path
  BY <1>4 DEF Key
<1>6. /\ corpus \in Corpora /\ query \in Queries /\ costs \in Policies
      /\ corpus[id] \in Seq(Symbols) /\ query \in Seq(Symbols) /\ i \in 1 .. Len(query)
  BY InputTypes DEF InputsOK, Positions
<1>7. side \in Seq(Symbols) /\ q \in Seq(Symbols)
  BY <1>6, SideFacts
<1>8. ASSUME NEW r \in 0 .. Len(q)
      PROVE  WeightedEditDistance(costs, SubSeq(q, 1, r), path) < M
  BY <1>6 DEF DistancesAreBelow
<1>. HIDE DEF side, q
<1>9. /\ path \in Seq(Symbols) /\ Len(path) = n /\ n \in Nat
      /\ SubSeq(path, 1, n) = path
  <2>1. Len(side) \in Nat /\ n \in 0 .. Len(side) /\ n \in 0 .. n
    BY <1>7 DEF side
  <2>2. path \in Seq(Symbols) /\ Len(path) = n /\ SubSeq(path, 1, n) = SubSeq(side, 1, n)
    BY <1>7, <2>1, PrefixFacts
  <2>. QED  BY <2>1, <2>2
<1>. HIDE DEF path
<1>10. /\ column \in Columns(q)
       /\ \A r \in 0 .. Len(q) : column[r] \in V /\ Agree(column[r], Entry(costs, q, path, r, n), M)
  <2>1. n \in 0 .. Len(path)
    BY <1>9
  <2>2. Program(q, path) \in [0 .. Len(path) -> Columns(q)]
    BY <1>7, <1>9, ColumnsDefined
  <2>3. Exactly(q, path, V, M, n, Program(q, path)[n])
    BY <1>7, <1>9, <2>1, ProgramIsExact
  <2>. QED  BY <2>1, <2>2, <2>3 DEF Exactly
<1>11. forest[key] = column
  BY <1>1, <1>5, <1>9 DEF ColumnOf, q
<1>. HIDE DEF column
<1>12. ASSUME NEW r \in 0 .. Len(q)
       PROVE  column[r] = WeightedEditDistance(costs, SubSeq(q, 1, r), path)
  <2>1. n \in 0 .. Len(path) /\ Policy(costs, Symbols) /\ V \in SUBSET Nat /\ M \in Nat
    BY <1>9, CostsAreExact
  <2>2. Entry(costs, q, path, r, n) = WeightedEditDistance(costs, SubSeq(q, 1, r), path)
    <3>1. Entry(costs, q, path, r, n) = WeightedEditDistance(costs, SubSeq(q, 1, r), SubSeq(path, 1, n))
      BY <1>7, <1>9, <2>1, EntryIsDistance
    <3>. QED  BY <1>9, <3>1
  <2>3. Entry(costs, q, path, r, n) \in Nat
    BY <1>7, <1>9, <2>1, EntriesPriced
  <2>. QED  BY <1>8, <1>10, <2>1, <2>2, <2>3 DEF Agree
<1>13. DOMAIN column = 0 .. Len(q)
  BY <1>10 DEF Columns
<1>. QED  BY <1>5, <1>11, <1>12, <1>13 DEF q, path

(* Whatever candidates were verified, in whatever order and with whatever  *)
(* budgets, every cached column holds weighted edit distances, as long as  *)
(* these stay where sums are exact.                                        *)
THEOREM SearchCachesAreExact ==
  ASSUME NEW V, NEW M, SumsAreExact(V, M), DistancesAreBelow(M)
  PROVE  Spec => []CacheIsExact
<1>1. ASSUME CachingInv PROVE CacheIsExact
  <2>. SUFFICES ASSUME NEW key \in DOMAIN forest
                PROVE  \A r \in DOMAIN forest[key] :
                          forest[key][r] =
                            WeightedEditDistance(costs, SubSeq(Side(key[1], query, key[2]), 1, r), key[3])
    BY DEF CacheIsExact
  <2>1. ~VerificationInit
    BY DEF VerificationInit
  <2>2. stage \in LateStages
    BY <1>1, <2>1 DEF CachingInv, SearchInv
  <2>3. InputsOK /\ Cached
    BY <1>1, <2>2 DEF CachingInv, SearchInv, Filtered
  <2>. QED  BY <2>3, ExactColumns
<1>. QED  BY CachingIsInvariant, <1>1, PTL

------------------------------------------------------------------------------
(***************************************************************************)
(* 8. Filtering loses nothing.                                             *)
(***************************************************************************)
(* A chain pays for each element of S at least what leaving it unmatched   *)
(* or matching it costs at least.                                          *)
LEMMA ChainPaysFor ==
  ASSUME NEW c, NEW I, NEW J, Priced(c, I, J), NEW P \in ChainsOn(I, J), NEW S \in SUBSET I, NEW f,
         \A i \in S : f[i] \in Nat /\ f[i] <= c.left[i],
         \A p \in P : p[1] \in S => f[p[1]] <= c.pair[p]
  PROVE  Total(f, S) <= ChainCost(c, I, J, P) /\ Total(f, S) \in Nat
<1>. DEFINE R == {p \in P : p[1] \in S}
            h == [p \in R |-> p[1]]
            g == [p \in R |-> f[p[1]]]
            A == {h[p] : p \in R}
<1>1. /\ P \in SUBSET (I \X J) /\ Chain(P)
      /\ I \in SUBSET Nat /\ J \in SUBSET Nat /\ IsFiniteSet(I)
  BY DEF ChainsOn, Priced
<1>2. /\ IsFiniteSet(P) /\ IsFiniteSet(I \ Lefts(P))
      /\ Total(c.pair, P) \in Nat /\ Total(c.left, I \ Lefts(P)) \in Nat
      /\ Total(c.right, J \ Rights(P)) \in Nat
  BY <1>1, ChainTypes
<1>3. IsFiniteSet(R) /\ IsFiniteSet(S) /\ R \in SUBSET P
  BY <1>1, <1>2, FS_Subset
<1>4. A \in SUBSET S /\ A \in SUBSET Lefts(P) /\ S \ A \in SUBSET (I \ Lefts(P))
  <2>1. A = {p[1] : p \in R}
    OBVIOUS
  <2>. QED  BY <2>1 DEF Lefts
<1>5. \A x, y \in R : h[x] = h[y] => x = y
  <2>. SUFFICES ASSUME NEW x \in R, NEW y \in R, x[1] = y[1] PROVE x = y
    OBVIOUS
  <2>1. x \in I \X J /\ y \in I \X J /\ (x[1] < y[1] <=> x[2] < y[2]) /\ (y[1] < x[1] <=> y[2] < x[2])
    BY <1>1 DEF Chain
  <2>2. x[1] \in Nat /\ x[2] \in Nat /\ y[2] \in Nat /\ x = <<x[1], x[2]>> /\ y = <<y[1], y[2]>>
    <3>1. x[1] \in I /\ x[2] \in J /\ y[2] \in J
      BY <2>1
    <3>2. \A z \in I \X J : z = <<z[1], z[2]>>
      OBVIOUS
    <3>. HIDE DEF R
    <3>. QED  BY <1>1, <2>1, <3>1, <3>2
  <2>3. x[2] = y[2]
    BY <2>1, <2>2
  <2>. QED  BY <2>2, <2>3
<1>6. /\ \A p \in R : g[p] \in Nat /\ g[p] <= c.pair[p] /\ f[h[p]] = g[p]
      /\ \A p \in P : c.pair[p] \in Nat
      /\ \A i \in S \ A : f[i] \in Nat /\ f[i] <= c.left[i]
      /\ \A i \in I \ Lefts(P) : c.left[i] \in Nat
  BY <1>1 DEF Priced
<1>. HIDE DEF g, h, R
<1>7. Total(g, R) = Total(f, A)
  BY <1>3, <1>5, <1>6, TotalRenamed
<1>. HIDE DEF A
<1>8. Total(g, R) <= Total(c.pair, P)
  BY <1>2, <1>3, <1>6, TotalIsMonotone
<1>9. Total(f, S \ A) <= Total(c.left, I \ Lefts(P))
  BY <1>2, <1>4, <1>6, TotalIsMonotone
<1>10. IsFiniteSet(A) /\ IsFiniteSet(S \ A) /\ A \cap (S \ A) = {} /\ A \cup (S \ A) = S
  BY <1>3, <1>4, FS_Subset
<1>11. Total(f, S) = Total(f, A) + Total(f, S \ A) /\ Total(f, A) \in Nat /\ Total(f, S \ A) \in Nat
  <2>1. \A x \in A \cup (S \ A) : f[x] \in Nat
    BY <1>10
  <2>2. Total(f, A) \in Nat /\ Total(f, S \ A) \in Nat
    BY <1>10, <2>1, TotalIsTotal
  <2>3. Total(f, A \cup (S \ A)) = Total(f, A) + Total(f, S \ A)
    <3>. DEFINE B == S \ A
    <3>1. IsFiniteSet(A) /\ IsFiniteSet(B) /\ A \cap B = {} /\ \A x \in A \cup B : f[x] \in Nat
      BY <1>10, <2>1
    <3>. HIDE DEF B
    <3>2. Total(f, A \cup B) = Total(f, A) + Total(f, B)
      BY <3>1, TotalUnion
    <3>. QED  BY <3>2 DEF B
  <2>. QED  BY <1>10, <2>2, <2>3
<1>. QED  BY <1>2, <1>7, <1>8, <1>9, <1>11 DEF ChainCost

(* Float sums of costs that add up exactly are the exact sums.             *)
LEMMA SumsAgree ==
  ASSUME InputsOK, NEW V, NEW M, SumsAreExact(V, M), NEW amount \in [Positions -> Cost],
         \A i \in Positions : amount[i] \in V, NEW S \in SUBSET Positions
  PROVE  /\ SumOver(amount, S) \in V
         /\ Agree(SumOver(amount, S), Total(amount, S), M)
         /\ Total(amount, S) \in Nat
<1>. DEFINE sum == RunningSum(amount, S)
            T(i) == S \cap (1 .. i)
            Good == {i \in 0 .. Len(query) : sum[i] \in V /\ Agree(sum[i], Total(amount, T(i)), M)}
<1>1. /\ Len(query) \in Nat /\ Positions = 1 .. Len(query)
      /\ V \in SUBSET Nat /\ 0 \in V /\ M \in Nat
  BY InputTypes, CostsAreExact DEF Positions
<1>2. sum[0] = 0 /\ \A i \in Positions : Grows(amount, S, sum, i)
  BY RunningSumDefined
<1>3. \A i \in Positions : amount[i] \in Nat
  BY CostAssumption
<1>4. \A i \in 0 .. Len(query) : IsFiniteSet(T(i)) /\ Total(amount, T(i)) \in Nat
  <2>. SUFFICES ASSUME NEW i \in 0 .. Len(query) PROVE IsFiniteSet(T(i)) /\ Total(amount, T(i)) \in Nat
    OBVIOUS
  <2>1. IsFiniteSet(1 .. i) /\ T(i) \in SUBSET (1 .. i) /\ T(i) \in SUBSET Positions
    BY <1>1, InitialSegment
  <2>2. IsFiniteSet(T(i)) /\ \A x \in T(i) : amount[x] \in Nat
    BY <1>3, <2>1, FS_Subset
  <2>. HIDE DEF T
  <2>. QED  BY <2>2, TotalIsTotal
<1>. HIDE DEF sum
<1>5. 0 \in Good
  <2>1. T(0) = {}
    BY <1>1
  <2>2. Total(amount, T(0)) = 0
    BY <2>1, TotalEmpty
  <2>. QED  BY <1>1, <1>2, <2>2 DEF Agree
<1>6. ASSUME NEW i \in Good, i < Len(query) PROVE i + 1 \in Good
  <2>1. i + 1 \in Positions /\ (i + 1) - 1 = i /\ i \in 0 .. Len(query) /\ i + 1 \in 0 .. Len(query) /\ i \in Nat
    BY <1>1, <1>6
  <2>2. sum[i + 1] = IF i + 1 \in S THEN Add(sum[i], amount[i + 1]) ELSE sum[i]
    BY <1>2, <2>1 DEF Grows
  <2>3. CASE i + 1 \notin S
    <3>1. T(i + 1) = T(i)
      BY <1>1, <2>1, <2>3
    <3>. QED  BY <2>1, <2>2, <2>3, <3>1
  <2>4. CASE i + 1 \in S
    <3>1. T(i + 1) = T(i) \cup {i + 1} /\ (i + 1) \notin T(i)
      BY <1>1, <2>1, <2>4
    <3>2. Total(amount, T(i) \cup {i + 1}) = Total(amount, T(i)) + amount[i + 1]
      <4>1. IsFiniteSet(T(i)) /\ amount[i + 1] \in Nat /\ \A y \in T(i) : amount[y] \in Nat
        BY <1>3, <1>4, <2>1
      <4>2. (i + 1) \notin T(i)
        BY <3>1
      <4>. HIDE DEF T
      <4>. QED  BY <4>1, <4>2, TotalAdd
    <3>3. Agree(amount[i + 1], amount[i + 1], M) /\ amount[i + 1] \in V /\ amount[i + 1] \in Nat
      BY <1>3, <2>1 DEF Agree
    <3>4. sum[i] \in V /\ Agree(sum[i], Total(amount, T(i)), M) /\ Total(amount, T(i)) \in Nat
      BY <1>4, <2>1
    <3>. HIDE DEF T
    <3>5. /\ Add(sum[i], amount[i + 1]) \in V
          /\ Agree(Add(sum[i], amount[i + 1]), Total(amount, T(i)) + amount[i + 1], M)
      BY <3>3, <3>4, AgreeingSums
    <3>. QED  BY <2>1, <2>2, <2>4, <3>1, <3>2, <3>5
  <2>. QED  BY <2>3, <2>4
<1>7. Good = 0 .. Len(query)
  <2>1. Good \in SUBSET (0 .. Len(query))
    OBVIOUS
  <2>. HIDE DEF Good
  <2>. QED  BY <1>1, <1>5, <1>6, <2>1, BoundedInduction
<1>8. Len(query) \in Good
  <2>1. Len(query) \in 0 .. Len(query)
    BY <1>1
  <2>. HIDE DEF Good
  <2>. QED  BY <1>7, <2>1
<1>9. T(Len(query)) = S
  BY <1>1
<1>10. Len(query) \in 0 .. Len(query)
  BY <1>1
<1>11. Total(amount, S) \in Nat
  BY <1>4, <1>9, <1>10
<1>. QED  BY <1>8, <1>9, <1>11 DEF SumOver, sum

(* What is admitted, in exact terms.                                       *)
LEMMA ExactlyAdmitted ==
  ASSUME InputsOK, HasNextUp(threshold), NEW V, NEW M, SumsAreExact(V, M),
         NEW x \in V, NEW i \in Nat, Agree(x, i, M)
  PROVE  /\ Admits(x) <=> i <= threshold
         /\ Admits(x) => x = i
<1>1. threshold \in Thresholds /\ threshold \in Cost /\ threshold < M
  BY InputsAssumption DEF InputsOK, SumsAreExact
<1>2. V \in SUBSET Distance /\ V \in SUBSET Nat /\ M \in Nat /\ threshold \in Nat
  BY <1>1, CostsAreExact, CostAssumption
<1>3. /\ Bound \in Cost /\ threshold < Bound /\ \A d \in Cost : threshold < d => Bound <= d
  BY <1>1, NextUpAssumption DEF Bound
<1>4. Bound \in Nat /\ Bound < Infinity /\ Infinity \in Nat
  BY <1>3, CostAssumption
<1>5. Admits(x) <=> x <= threshold
  <2>1. x \in Cost \/ x = Infinity
    BY <1>2 DEF Distance
  <2>2. x \in Nat
    BY <1>2
  <2>. QED  BY <1>2, <1>3, <1>4, <2>1, <2>2 DEF Admits
<1>6. x \in Nat
  BY <1>2
<1>. QED  BY <1>1, <1>2, <1>5, <1>6 DEF Agree

(* An alignment of the query with a word of the corpus that pairs no       *)
(* position of S with a symbol of its neighborhood costs the contributions *)
(* of S.                                                                   *)
LEMMA AvoidingCostsExactly ==
  ASSUME InputsOK, NEW V, NEW M, SumsAreExact(V, M), NEW r \in Nat, NEW S \in SUBSET Positions,
         NEW word \in Seq(Alphabet), NEW alignment \in AllAlignments(query, word),
         \A pair \in Pairs(alignment) :
            pair[1] \in S => word[pair[2]] \notin Neighbors(query[pair[1]], r)
  PROVE  /\ Total(ContributionsAt(r), S) <= AlignmentCost(costs, query, word, alignment)
         /\ AlignmentCost(costs, query, word, alignment) \in Nat
<1>. DEFINE z == Prices(costs, query, word)
            n == Len(query)
            m == Len(word)
            P == Pairs(alignment)
            f == ContributionsAt(r)
<1>1. /\ n \in Nat /\ m \in Nat /\ query \in Seq(Symbols) /\ word \in Seq(Symbols)
      /\ Policy(costs, Symbols) /\ Positions = 1 .. n
  <2>1. Alphabet \in SUBSET Symbols
    BY PlacesAreFinite
  <2>. QED  BY <2>1, InputTypes, CostsAreExact DEF Positions
<1>2. P \in ChainsOn(1 .. n, 1 .. m)
  <2>1. alignment \in Alignments(n, m)
    BY DEF AllAlignments
  <2>. QED  BY <1>1, <2>1, AlignmentIsChain
<1>3. AlignmentCost(costs, query, word, alignment) = ChainCost(z, 1 .. n, 1 .. m, P)
  BY <1>1, AlignmentCosts
<1>4. Priced(z, 1 .. n, 1 .. m)
  BY <1>1, PricesOfPolicy
<1>5. P \in SUBSET ((1 .. n) \X (1 .. m))
  BY <1>2 DEF ChainsOn
<1>6. \A i \in S : /\ f[i] \in Nat /\ f[i] = OutsideCost(query[i], r)
                   /\ f[i] <= Delete(query[i]) /\ z.left[i] = Delete(query[i])
  <2>. SUFFICES ASSUME NEW i \in S
                PROVE  /\ f[i] \in Nat /\ f[i] = OutsideCost(query[i], r)
                       /\ f[i] <= Delete(query[i]) /\ z.left[i] = Delete(query[i])
    OBVIOUS
  <2>1. i \in Positions /\ i \in 1 .. n /\ query[i] \in Symbols
    BY <1>1
  <2>2. z.left[i] = Delete(query[i])
    BY <2>1 DEF Prices, Delete
  <2>3. f[i] = OutsideCost(query[i], r)
    BY <2>1 DEF ContributionsAt
  <2>4. OutsideCost(query[i], r) \in Cost /\ OutsideCost(query[i], r) <= Delete(query[i])
    BY <2>1, OutsideFacts
  <2>. QED  BY <2>2, <2>3, <2>4, CostAssumption
<1>7. \A p \in P : p[1] \in S => f[p[1]] <= z.pair[p]
  <2>. SUFFICES ASSUME NEW p \in P, p[1] \in S PROVE f[p[1]] <= z.pair[p]
    OBVIOUS
  <2>1. p \in (1 .. n) \X (1 .. m) /\ p[1] \in Positions /\ word[p[2]] \in Alphabet
    <3>1. p \in (1 .. n) \X (1 .. m)
      BY <1>5
    <3>2. p[1] \in 1 .. n /\ p[2] \in 1 .. m
      BY <3>1
    <3>. QED  BY <1>1, <3>1, <3>2
  <2>2. z.pair[p] = Substitute(query[p[1]], word[p[2]])
    BY <2>1 DEF Prices, Substitute
  <2>3. word[p[2]] \notin Neighbors(query[p[1]], r)
    OBVIOUS
  <2>. HIDE DEF z, P, f
  <2>4. OutsideCost(query[p[1]], r) <= Substitute(query[p[1]], word[p[2]])
    BY <2>1, <2>3, OutsideIsCheapest
  <2>. QED  BY <1>6, <2>2, <2>4
<1>8. S \in SUBSET (1 .. n)
  BY <1>1
<1>9. \A i \in S : f[i] \in Nat /\ f[i] <= z.left[i]
  BY <1>6
<1>. HIDE DEF z, P, f, n, m
<1>10. Total(f, S) <= ChainCost(z, 1 .. n, 1 .. m, P)
  BY <1>2, <1>4, <1>7, <1>8, <1>9, ChainPaysFor
<1>11. ChainCost(z, 1 .. n, 1 .. m, P) \in Nat
  BY <1>4, <1>5, ChainTypes
<1>. QED  BY <1>3, <1>10, <1>11 DEF f

LEMMA ContributionsAreExact ==
  ASSUME InputsOK, NEW V, NEW M, SumsAreExact(V, M), NEW r \in Nat
  PROVE  \A i \in Positions : ContributionsAt(r)[i] \in V
<1>. SUFFICES ASSUME NEW i \in Positions PROVE OutsideCost(query[i], r) \in V
  BY DEF ContributionsAt
<1>. DEFINE s == query[i]
            S == {Delete(s)} \cup {Substitute(s, c) : c \in Alphabet \ Neighbors(s, r)}
<1>1. s \in Symbols /\ Alphabet \in SUBSET Symbols
  BY InputTypes, PlacesAreFinite
<1>2. S \in SUBSET V /\ S \in SUBSET Nat /\ S # {}
  <2>1. V \in SUBSET Nat
    BY CostsAreExact
  <2>2. Delete(s) \in V /\ \A c \in Alphabet : Substitute(s, c) \in V
    <3>. HIDE DEF s
    <3>. QED  BY <1>1, CostsAreExact
  <2>. QED  BY <2>1, <2>2
<1>3. OutsideCost(s, r) = Min(S)
  BY DEF OutsideCost
<1>. HIDE DEF S
<1>. QED  BY <1>2, <1>3, MinIsLeast

(* Every alignment within the threshold pairs a selected position with a   *)
(* symbol of its neighborhood, so that a candidate stands for the pair.    *)
LEMMA NothingIsFilteredOut ==
  ASSUME SearchInv, stage \in {"validating", "verifying", "answered"}, NEW V, NEW M, SumsAreExact(V, M),
         NEW segment \in ProperSegments(corpus),
         NEW alignment \in AllAlignments(query, Word(corpus, segment)),
         AlignmentCost(costs, query, Word(corpus, segment), alignment) <= threshold
  PROVE  \E k \in DOMAIN candidates, pair \in Pairs(alignment) :
            candidates[k] = [string   |-> segment[1],
                             position |-> segment[2] + pair[2],
                             query    |-> pair[1]]
<1>. DEFINE S == Range(chosen.picked)
            r == chosen.radius
            word == Word(corpus, segment)
<1>1. /\ InputsOK /\ HasNextUp(threshold) /\ candidates = GeneratedCandidates
      /\ chosen \in [found : BOOLEAN, radius : Cost, picked : Seq(Positions)]
      /\ ~Admits(SumOver(ContributionsAt(r), S))
  BY DEF SearchInv, LateStages, Filtered, ChosenLeavesBound
<1>2. r \in Nat /\ S \in SUBSET Positions /\ chosen.picked \in Seq(Positions)
  <2>1. r \in Cost /\ chosen.picked \in Seq(Positions)
    BY <1>1
  <2>2. \A k \in DOMAIN chosen.picked : chosen.picked[k] \in Positions
    BY <2>1
  <2>. QED  BY <2>1, <2>2, CostAssumption DEF Range
<1>3. word \in Seq(Alphabet)
  BY <1>1, WordsOfCorpus
<1>4. ~(Total(ContributionsAt(r), S) <= threshold)
  <2>. HIDE DEF S, r
  <2>1. /\ ContributionsAt(r) \in [Positions -> Cost]
        /\ \A i \in Positions : ContributionsAt(r)[i] \in V
    BY <1>1, <1>2, ContributionFacts, ContributionsAreExact
  <2>2. /\ SumOver(ContributionsAt(r), S) \in V
        /\ Agree(SumOver(ContributionsAt(r), S), Total(ContributionsAt(r), S), M)
        /\ Total(ContributionsAt(r), S) \in Nat
    BY <1>1, <1>2, <2>1, SumsAgree
  <2>. QED  BY <1>1, <2>2, ExactlyAdmitted
<1>5. PICK pair \in Pairs(alignment) : /\ pair[1] \in S
                                      /\ word[pair[2]] \in Neighbors(query[pair[1]], r)
  <2>. SUFFICES ASSUME \A pair \in Pairs(alignment) :
                          pair[1] \in S => word[pair[2]] \notin Neighbors(query[pair[1]], r)
                PROVE  FALSE
    OBVIOUS
  <2>. HIDE DEF S, r
  <2>1. /\ Total(ContributionsAt(r), S) <= AlignmentCost(costs, query, word, alignment)
        /\ AlignmentCost(costs, query, word, alignment) \in Nat
    <3>. HIDE DEF word
    <3>1. alignment \in AllAlignments(query, word)
      BY DEF word
    <3>. QED  BY <1>1, <1>2, <1>3, <3>1, AvoidingCostsExactly
  <2>2. Total(ContributionsAt(r), S) \in Nat
    <3>1. /\ ContributionsAt(r) \in [Positions -> Cost]
          /\ \A i \in Positions : ContributionsAt(r)[i] \in V
      BY <1>1, <1>2, ContributionFacts, ContributionsAreExact
    <3>. QED  BY <1>1, <1>2, <3>1, SumsAgree
  <2>3. threshold \in Nat
    BY <1>1, InputTypes, CostAssumption
  <2>. QED  BY <1>4, <2>1, <2>2, <2>3
<1>6. PICK id \in DOMAIN corpus :
         segment \in {<<id, b, e>> : b \in 0 .. Len(corpus[id]), e \in 1 .. Len(corpus[id])}
  BY DEF ProperSegments, Segments
<1>7. PICK b \in 0 .. Len(corpus[id]), e \in 1 .. Len(corpus[id]) :
         segment = <<id, b, e>> /\ b < e
  BY <1>6 DEF ProperSegments
<1>8. corpus[id] \in Seq(Symbols) /\ Len(corpus[id]) \in Nat /\ b \in Nat /\ e \in Nat
  BY <1>1, InputTypes
<1>9. Len(word) = e - b /\ \A j \in 1 .. (e - b) : word[j] = corpus[id][b + j]
  <2>1. word = SubSeq(corpus[id], b + 1, e)
    BY <1>7 DEF Word
  <2>2. b + 1 \in 1 .. (Len(corpus[id]) + 1) /\ e \in ((b + 1) - 1) .. Len(corpus[id])
    BY <1>7, <1>8
  <2>3. Len(SubSeq(corpus[id], b + 1, e)) = e - b
    BY <1>7, <1>8, <2>2
  <2>4. \A j \in 1 .. (e - b) : SubSeq(corpus[id], b + 1, e)[j] = corpus[id][b + j]
    BY <1>7, <1>8, <2>2
  <2>. QED  BY <2>1, <2>3, <2>4
<1>10. pair[2] \in 1 .. (e - b)
  <2>1. alignment \in Alignments(Len(query), Len(word)) /\ Len(query) \in Nat /\ Len(word) \in Nat
    BY <1>1, <1>3, InputTypes DEF AllAlignments
  <2>2. Pairs(alignment) \in ChainsOn(1 .. Len(query), 1 .. Len(word))
    BY <2>1, AlignmentIsChain
  <2>3. pair \in (1 .. Len(query)) \X (1 .. Len(word))
    BY <2>2 DEF ChainsOn
  <2>. QED  BY <1>9, <2>3
<1>11. b + pair[2] \in 1 .. Len(corpus[id])
  BY <1>7, <1>8, <1>10
<1>12. <<id, b + pair[2]>> \in Places /\ SymbolAt(<<id, b + pair[2]>>) = word[pair[2]]
  BY <1>9, <1>10, <1>11 DEF Places, SymbolAt
<1>13. PICK k \in 1 .. Len(GeneratedCandidates) :
          GeneratedCandidates[k] = Anchor(<<id, b + pair[2]>>, pair[1])
  BY <1>1, <1>2, <1>5, <1>12, CandidatesGenerated
<1>14. k \in DOMAIN candidates
  <2>1. GeneratedCandidates \in Seq(Anchored)
    BY <1>1, <1>2, CandidatesGenerated
  <2>. QED  BY <1>1, <1>13, <2>1
<1>. QED  BY <1>1, <1>7, <1>13, <1>14 DEF Anchor

(* Filtering is complete wherever sums are exact.                          *)
THEOREM SearchFilterIsComplete ==
  ASSUME NEW V, NEW M, SumsAreExact(V, M)
  PROVE  Spec => []FilterIsComplete
<1>1. ASSUME SearchInv PROVE FilterIsComplete
  BY <1>1, NothingIsFilteredOut DEF FilterIsComplete
<1>. QED  BY SearchIsInvariant, <1>1, PTL

------------------------------------------------------------------------------
(***************************************************************************)
(* 9. Alignments around an anchor.                                         *)
(***************************************************************************)
Around(I1, i, I2) ==
  /\ I1 \in SUBSET Nat /\ i \in Nat /\ I2 \in SUBSET Nat
  /\ \A x \in I1 : x < i
  /\ \A x \in I2 : i < x

(* A chain through the anchor is one before it, the anchor, and one after. *)
Joined(P1, i, j, P2) == (P1 \cup {<<i, j>>}) \cup P2

AroundCosts(c, I1, J1, i, j, I2, J2) ==
  /\ Priced(c, I1, J1) /\ Priced(c, I2, J2) /\ c.pair[<<i, j>>] \in Nat
  /\ \A P1 \in SUBSET (I1 \X J1), P2 \in SUBSET (I2 \X J2) :
        ChainCost(c, (I1 \cup {i}) \cup I2, (J1 \cup {j}) \cup J2, Joined(P1, i, j, P2))
          = (ChainCost(c, I1, J1, P1) + c.pair[<<i, j>>]) + ChainCost(c, I2, J2, P2)

LEMMA CostsAround ==
  ASSUME NEW c, NEW I1, NEW J1, NEW i, NEW j, NEW I2, NEW J2,
         Around(I1, i, I2), Around(J1, j, J2),
         Priced(c, (I1 \cup {i}) \cup I2, (J1 \cup {j}) \cup J2)
  PROVE  AroundCosts(c, I1, J1, i, j, I2, J2)
<1>. DEFINE A == I1 \cup {i}
            B == J1 \cup {j}
<1>1. A \cap I2 = {} /\ B \cap J2 = {} /\ i \notin I1 /\ j \notin J1
  <2>1. \A x \in I1 \cup {i} : x \in Nat /\ x <= i
    BY DEF Around
  <2>2. \A x \in J1 \cup {j} : x \in Nat /\ x <= j
    BY DEF Around
  <2>3. \A x \in I2 : x \in Nat /\ i < x
    BY DEF Around
  <2>4. \A x \in J2 : x \in Nat /\ j < x
    BY DEF Around
  <2>5. i \in Nat /\ j \in Nat
    BY DEF Around
  <2>6. A \cap I2 = {}
    BY <2>1, <2>3, <2>5
  <2>7. B \cap J2 = {}
    BY <2>2, <2>4, <2>5
  <2>8. i \notin I1 /\ j \notin J1
    BY <2>5 DEF Around
  <2>. QED  BY <2>6, <2>7, <2>8
<1>2. /\ Priced(c, A \cup I2, B \cup J2) /\ i \in A /\ j \in B
      /\ {} \in SUBSET (A \X B) /\ {} \in SUBSET (I2 \X J2)
  OBVIOUS
<1>. HIDE DEF A, B
<1>3. /\ Priced(c, A, B) /\ Priced(c, I2, J2)
      /\ \A P \in SUBSET (A \X B), P2 \in SUBSET (I2 \X J2) :
            ChainCost(c, A \cup I2, B \cup J2, P \cup P2) = ChainCost(c, A, B, P) + ChainCost(c, I2, J2, P2)
  <2>1. AreApart(c, A, B, I2, J2)
    BY <1>1, <1>2 DEF AreApart
  <2>2. AddUp(c, A, B, I2, J2)
    BY <2>1, CostsOfUnion
  <2>. QED  BY <2>2 DEF AddUp
<1>4. StepCosts(c, I1, J1, i, j)
  BY <1>1, <1>3, CostOfStep DEF A, B
<1>5. Priced(c, I1, J1) /\ \A P1 \in SUBSET (I1 \X J1) :
         ChainCost(c, A, B, P1 \cup {<<i, j>>}) = ChainCost(c, I1, J1, P1) + c.pair[<<i, j>>]
  BY <1>4 DEF StepCosts, A, B
<1>6. c.pair[<<i, j>>] \in Nat
  <2>1. <<i, j>> \in A \X B
    BY <1>2
  <2>. QED  BY <1>3, <2>1 DEF Priced
<1>7. ASSUME NEW P1 \in SUBSET (I1 \X J1), NEW P2 \in SUBSET (I2 \X J2)
      PROVE  ChainCost(c, A \cup I2, B \cup J2, Joined(P1, i, j, P2))
               = (ChainCost(c, I1, J1, P1) + c.pair[<<i, j>>]) + ChainCost(c, I2, J2, P2)
  <2>1. P1 \cup {<<i, j>>} \in SUBSET (A \X B)
    BY DEF A, B
  <2>2. ChainCost(c, A \cup I2, B \cup J2, (P1 \cup {<<i, j>>}) \cup P2)
          = ChainCost(c, A, B, P1 \cup {<<i, j>>}) + ChainCost(c, I2, J2, P2)
    BY <1>3, <2>1
  <2>. QED  BY <1>5, <2>2 DEF Joined
<1>. QED  BY <1>3, <1>5, <1>6, <1>7 DEF AroundCosts, A, B

AroundChains(I1, J1, i, j, I2, J2) ==
  /\ \A P1 \in ChainsOn(I1, J1), P2 \in ChainsOn(I2, J2) :
        Joined(P1, i, j, P2) \in ChainsOn((I1 \cup {i}) \cup I2, (J1 \cup {j}) \cup J2)
  /\ \A P \in ChainsOn((I1 \cup {i}) \cup I2, (J1 \cup {j}) \cup J2) :
        <<i, j>> \in P =>
           \E P1 \in ChainsOn(I1, J1), P2 \in ChainsOn(I2, J2) : P = Joined(P1, i, j, P2)

LEMMA ChainsAround ==
  ASSUME NEW I1, NEW J1, NEW i, NEW j, NEW I2, NEW J2, Around(I1, i, I2), Around(J1, j, J2)
  PROVE  AroundChains(I1, J1, i, j, I2, J2)
<1>. DEFINE A == (I1 \cup {i}) \cup I2
            B == (J1 \cup {j}) \cup J2
<1>1. /\ \A x \in I1 : x \in Nat /\ x < i
      /\ \A x \in I2 : x \in Nat /\ i < x
      /\ \A x \in J1 : x \in Nat /\ x < j
      /\ \A x \in J2 : x \in Nat /\ j < x
      /\ i \in Nat /\ j \in Nat
  BY DEF Around
<1>2. ASSUME NEW P1 \in ChainsOn(I1, J1), NEW P2 \in ChainsOn(I2, J2)
      PROVE  Joined(P1, i, j, P2) \in ChainsOn(A, B)
  <2>1. P1 \in SUBSET (I1 \X J1) /\ Chain(P1) /\ P2 \in SUBSET (I2 \X J2) /\ Chain(P2)
    BY DEF ChainsOn
  <2>2. \A p \in P1 : p[1] \in Nat /\ p[2] \in Nat /\ p[1] < i /\ p[2] < j
    BY <1>1, <2>1
  <2>3. \A p \in P2 : p[1] \in Nat /\ p[2] \in Nat /\ i < p[1] /\ j < p[2]
    BY <1>1, <2>1
  <2>4. Joined(P1, i, j, P2) \in SUBSET (A \X B)
    <3>1. P1 \in SUBSET (A \X B) /\ P2 \in SUBSET (A \X B) /\ <<i, j>> \in A \X B
      BY <2>1
    <3>. HIDE DEF A, B
    <3>. QED  BY <3>1 DEF Joined
  <2>5. ASSUME NEW x \in Joined(P1, i, j, P2), NEW y \in Joined(P1, i, j, P2)
        PROVE  x[1] < y[1] <=> x[2] < y[2]
    <3>1. (x \in P1 \/ x = <<i, j>> \/ x \in P2) /\ (y \in P1 \/ y = <<i, j>> \/ y \in P2)
      BY <2>5 DEF Joined
    <3>2. CASE x \in P1 /\ y \in P1
      BY <2>1, <3>2 DEF Chain
    <3>3. CASE x \in P2 /\ y \in P2
      BY <2>1, <3>3 DEF Chain
    <3>4. CASE x \in P1 /\ y \in P2
      BY <1>1, <2>2, <2>3, <3>4
    <3>5. CASE x \in P2 /\ y \in P1
      BY <1>1, <2>2, <2>3, <3>5
    <3>6. CASE x = <<i, j>>
      BY <1>1, <2>2, <2>3, <3>1, <3>6
    <3>7. CASE y = <<i, j>>
      BY <1>1, <2>2, <2>3, <3>1, <3>7
    <3>. QED  BY <3>1, <3>2, <3>3, <3>4, <3>5, <3>6, <3>7
  <2>. QED  BY <2>4, <2>5 DEF ChainsOn, Chain
<1>3. ASSUME NEW P \in ChainsOn(A, B), <<i, j>> \in P
      PROVE  \E P1 \in ChainsOn(I1, J1), P2 \in ChainsOn(I2, J2) : P = Joined(P1, i, j, P2)
  <2>. DEFINE P1 == {p \in P : p[1] < i}
              P2 == {p \in P : i < p[1]}
  <2>1. P \in SUBSET (A \X B) /\ Chain(P)
    BY DEF ChainsOn
  <2>2. \A p \in P : /\ p = <<p[1], p[2]>> /\ p[1] \in A /\ p[2] \in B
                     /\ p[1] \in Nat /\ p[2] \in Nat
    <3>1. \A x \in A : x \in Nat
      BY <1>1
    <3>2. \A x \in B : x \in Nat
      BY <1>1
    <3>. HIDE DEF A, B
    <3>. QED  BY <2>1, <3>1, <3>2
  <2>3. \A p \in P : (p[1] < i <=> p[2] < j) /\ (i < p[1] <=> j < p[2])
    <3>. TAKE p \in P
    <3>. DEFINE a == <<i, j>>
    <3>1. (p[1] < a[1] <=> p[2] < a[2]) /\ (a[1] < p[1] <=> a[2] < p[2])
      BY <1>3, <2>1 DEF Chain
    <3>. QED  BY <3>1
  <2>4. /\ \A x \in A : (x < i => x \in I1) /\ (i < x => x \in I2)
        /\ \A x \in B : (x < j => x \in J1) /\ (j < x => x \in J2)
    <3>1. ASSUME NEW x \in (I1 \cup {i}) \cup I2 PROVE (x < i => x \in I1) /\ (i < x => x \in I2)
      <4>1. x \in I1 \/ x = i \/ x \in I2
        BY <3>1
      <4>. QED  BY <1>1, <4>1
    <3>2. ASSUME NEW x \in (J1 \cup {j}) \cup J2 PROVE (x < j => x \in J1) /\ (j < x => x \in J2)
      <4>1. x \in J1 \/ x = j \/ x \in J2
        BY <3>2
      <4>. QED  BY <1>1, <4>1
    <3>. QED  BY <3>1, <3>2
  <2>. HIDE DEF A, B
  <2>5. \A p \in P : (p[1] < i => p \in I1 \X J1) /\ (i < p[1] => p \in I2 \X J2)
    BY <2>2, <2>3, <2>4
  <2>6. P1 \in ChainsOn(I1, J1) /\ P2 \in ChainsOn(I2, J2)
    <3>1. P1 \in SUBSET (I1 \X J1) /\ P2 \in SUBSET (I2 \X J2)
      BY <2>5
    <3>2. Chain(P1) /\ Chain(P2)
      BY <2>1 DEF Chain
    <3>. QED  BY <3>1, <3>2 DEF ChainsOn
  <2>7. \A p \in P : p \in P1 \/ p = <<i, j>> \/ p \in P2
    BY <1>1, <2>2, <2>3
  <2>8. P = Joined(P1, i, j, P2)
    BY <1>3, <2>7 DEF Joined
  <2>. QED  BY <2>6, <2>8
<1>. QED  BY <1>2, <1>3 DEF AroundChains

(* The least cost of a chain through i and j. *)
Through(c, I, J, i, j) == Min({ChainCost(c, I, J, P) : P \in {R \in ChainsOn(I, J) : <<i, j>> \in R}})

AroundLeast(c, I1, J1, i, j, I2, J2) ==
  /\ Through(c, (I1 \cup {i}) \cup I2, (J1 \cup {j}) \cup J2, i, j)
       = (Least(c, I1, J1) + c.pair[<<i, j>>]) + Least(c, I2, J2)
  /\ Least(c, I1, J1) \in Nat /\ Least(c, I2, J2) \in Nat /\ c.pair[<<i, j>>] \in Nat

LEMMA LeastAround ==
  ASSUME NEW c, NEW I1, NEW J1, NEW i, NEW j, NEW I2, NEW J2,
         Around(I1, i, I2), Around(J1, j, J2),
         Priced(c, (I1 \cup {i}) \cup I2, (J1 \cup {j}) \cup J2)
  PROVE  AroundLeast(c, I1, J1, i, j, I2, J2)
<1>. DEFINE I == (I1 \cup {i}) \cup I2
            J == (J1 \cup {j}) \cup J2
            T == {R \in ChainsOn(I, J) : <<i, j>> \in R}
            S == {ChainCost(c, I, J, P) : P \in T}
            a == Least(c, I1, J1)
            b == Least(c, I2, J2)
            d == c.pair[<<i, j>>]
<1>1. AroundCosts(c, I1, J1, i, j, I2, J2)
  BY CostsAround
<1>2. AroundChains(I1, J1, i, j, I2, J2)
  BY ChainsAround
<1>3. /\ Priced(c, I1, J1) /\ Priced(c, I2, J2) /\ d \in Nat
      /\ \A P1 \in SUBSET (I1 \X J1), P2 \in SUBSET (I2 \X J2) :
            ChainCost(c, I, J, Joined(P1, i, j, P2)) = (ChainCost(c, I1, J1, P1) + d) + ChainCost(c, I2, J2, P2)
  BY <1>1 DEF AroundCosts
<1>4. /\ \A P1 \in ChainsOn(I1, J1), P2 \in ChainsOn(I2, J2) : Joined(P1, i, j, P2) \in T
      /\ \A P \in T : \E P1 \in ChainsOn(I1, J1), P2 \in ChainsOn(I2, J2) : P = Joined(P1, i, j, P2)
  <2>1. \A P1, P2 : <<i, j>> \in Joined(P1, i, j, P2)
    BY DEF Joined
  <2>. QED  BY <1>2, <2>1 DEF AroundChains
<1>5. /\ a \in Nat /\ b \in Nat
      /\ \E P \in ChainsOn(I1, J1) : ChainCost(c, I1, J1, P) = a
      /\ \E P \in ChainsOn(I2, J2) : ChainCost(c, I2, J2, P) = b
      /\ \A P \in ChainsOn(I1, J1) : a <= ChainCost(c, I1, J1, P) /\ ChainCost(c, I1, J1, P) \in Nat
      /\ \A P \in ChainsOn(I2, J2) : b <= ChainCost(c, I2, J2, P) /\ ChainCost(c, I2, J2, P) \in Nat
  <2>1. /\ \A P \in ChainsOn(I1, J1) : ChainCost(c, I1, J1, P) \in Nat
        /\ \A P \in ChainsOn(I2, J2) : ChainCost(c, I2, J2, P) \in Nat
    BY <1>3, ChainTypes DEF ChainsOn
  <2>. QED  BY <1>3, <2>1, LeastFacts
<1>. HIDE DEF a, b, d, I, J
<1>6. /\ ChainsOn(I1, J1) \in SUBSET SUBSET (I1 \X J1)
      /\ ChainsOn(I2, J2) \in SUBSET SUBSET (I2 \X J2)
  BY DEF ChainsOn
<1>7. (a + d) + b \in S
  <2>1. PICK P1 \in ChainsOn(I1, J1) : ChainCost(c, I1, J1, P1) = a
    BY <1>5
  <2>2. PICK P2 \in ChainsOn(I2, J2) : ChainCost(c, I2, J2, P2) = b
    BY <1>5
  <2>3. Joined(P1, i, j, P2) \in T
    BY <1>4
  <2>4. P1 \in SUBSET (I1 \X J1) /\ P2 \in SUBSET (I2 \X J2)
    BY <1>6
  <2>5. ChainCost(c, I, J, Joined(P1, i, j, P2)) = (a + d) + b
    BY <1>3, <2>1, <2>2, <2>4
  <2>. QED  BY <2>3, <2>5
<1>8. \A x \in S : x \in Nat /\ (a + d) + b <= x
  <2>. TAKE x \in S
  <2>1. PICK P \in T : x = ChainCost(c, I, J, P)
    OBVIOUS
  <2>2. PICK P1 \in ChainsOn(I1, J1), P2 \in ChainsOn(I2, J2) : P = Joined(P1, i, j, P2)
    BY <1>4
  <2>3. P1 \in SUBSET (I1 \X J1) /\ P2 \in SUBSET (I2 \X J2)
    BY <1>6
  <2>4. x = (ChainCost(c, I1, J1, P1) + d) + ChainCost(c, I2, J2, P2)
    BY <1>3, <2>1, <2>2, <2>3
  <2>5. /\ a <= ChainCost(c, I1, J1, P1) /\ ChainCost(c, I1, J1, P1) \in Nat
        /\ b <= ChainCost(c, I2, J2, P2) /\ ChainCost(c, I2, J2, P2) \in Nat
        /\ a \in Nat /\ b \in Nat /\ d \in Nat
    BY <1>3, <1>5
  <2>. HIDE DEF S, T
  <2>. QED  BY <2>4, <2>5
<1>9. Min(S) = (a + d) + b
  <2>. HIDE DEF S
  <2>1. S \in SUBSET Nat /\ S # {}
    BY <1>7, <1>8
  <2>2. Min(S) \in S /\ \A x \in S : Min(S) <= x
    BY <2>1, MinIsLeast
  <2>3. Min(S) \in Nat /\ (a + d) + b \in Nat /\ Min(S) <= (a + d) + b /\ (a + d) + b <= Min(S)
    BY <1>7, <1>8, <2>2
  <2>. QED  BY <2>3
<1>. QED  BY <1>3, <1>5, <1>9 DEF a, b, d, I, J, Through, AroundLeast

LEMMA ImageReversed ==
  ASSUME NEW n \in Nat, NEW h, \A x \in 1 .. n : h[x] = (n + 1) - x
  PROVE  /\ Image(h, 1 .. n) = 1 .. n
         /\ Reverses(h, 1 .. n)
         /\ \A x, y \in 1 .. n : h[x] = h[y] => x = y
<1>1. \A x \in 1 .. n : h[x] \in 1 .. n
  OBVIOUS
<1>2. \A y \in 1 .. n : (n + 1) - y \in 1 .. n /\ h[(n + 1) - y] = y
  <2>. TAKE y \in 1 .. n
  <2>1. (n + 1) - y \in 1 .. n /\ (n + 1) - ((n + 1) - y) = y
    OBVIOUS
  <2>. QED  BY <2>1
<1>3. Image(h, 1 .. n) = 1 .. n
  <2>1. \A y \in 1 .. n : \E x \in 1 .. n : h[x] = y
    BY <1>2
  <2>. QED  BY <1>1, <2>1 DEF Image
<1>4. Reverses(h, 1 .. n)
  BY DEF Reverses
<1>5. \A x, y \in 1 .. n : h[x] = h[y] => x = y
  OBVIOUS
<1>. QED  BY <1>3, <1>4, <1>5

LEMMA ImageShifted ==
  ASSUME NEW n \in Nat, NEW k \in Nat, NEW h, \A x \in 1 .. n : h[x] = k + x
  PROVE  /\ Image(h, 1 .. n) = (k + 1) .. (k + n)
         /\ Keeps(h, 1 .. n)
         /\ \A x, y \in 1 .. n : h[x] = h[y] => x = y
<1>1. \A x \in 1 .. n : h[x] \in (k + 1) .. (k + n)
  OBVIOUS
<1>2. \A y \in (k + 1) .. (k + n) : \E x \in 1 .. n : h[x] = y
  <2>. TAKE y \in (k + 1) .. (k + n)
  <2>1. y - k \in 1 .. n /\ k + (y - k) = y
    OBVIOUS
  <2>2. h[y - k] = y
    BY <2>1
  <2>. QED  BY <2>1, <2>2
<1>3. Image(h, 1 .. n) = (k + 1) .. (k + n)
  BY <1>1, <1>2 DEF Image
<1>4. Keeps(h, 1 .. n)
  BY DEF Keeps
<1>5. \A x, y \in 1 .. n : h[x] = h[y] => x = y
  OBVIOUS
<1>. QED  BY <1>3, <1>4, <1>5

(* The prices of one side are those of the whole, seen from the anchor.    *)
SideLength(d, s, p) == IF d = "backward" THEN p - 1 ELSE Len(s) - p
Away(d, p, n)       == [k \in 1 .. n |-> IF d = "backward" THEN p - k ELSE p + k]
SidePart(d, s, p)   == IF d = "backward" THEN 1 .. (p - 1) ELSE (p + 1) .. Len(s)

LEMMA SideIndices ==
  ASSUME NEW S, NEW s \in Seq(S), NEW p \in 1 .. Len(s), NEW d \in Directions
  PROVE  LET n == SideLength(d, s, p)
             h == Away(d, p, n)
         IN  /\ n \in Nat
             /\ Side(d, s, p) \in Seq(S) /\ Len(Side(d, s, p)) = n
             /\ \A k \in 1 .. n : h[k] \in 1 .. Len(s) /\ Side(d, s, p)[k] = s[h[k]]
             /\ Image(h, 1 .. n) = SidePart(d, s, p)
             /\ d = "backward" => Reverses(h, 1 .. n)
             /\ d = "forward" => Keeps(h, 1 .. n)
             /\ \A x, y \in 1 .. n : h[x] = h[y] => x = y
<1>. DEFINE n == SideLength(d, s, p)
            h == Away(d, p, n)
<1>1. Len(s) \in Nat /\ p \in Nat /\ n \in Nat
  BY DEF SideLength
<1>2. /\ Side(d, s, p) \in Seq(S) /\ Len(Side(d, s, p)) = n
      /\ \A k \in 1 .. n : Side(d, s, p)[k] = IF d = "backward" THEN s[p - k] ELSE s[p + k]
  BY SideFacts DEF SideLength
<1>3. \A k \in 1 .. n : h[k] = IF d = "backward" THEN p - k ELSE p + k
  BY DEF Away
<1>4. CASE d = "backward"
  <2>1. n = p - 1 /\ (n + 1) = p
    BY <1>1, <1>4 DEF SideLength
  <2>2. \A k \in 1 .. n : h[k] = (n + 1) - k
    BY <1>3, <1>4, <2>1
  <2>3. \A k \in 1 .. n : h[k] \in 1 .. Len(s) /\ Side(d, s, p)[k] = s[h[k]]
    BY <1>1, <1>2, <1>3, <1>4, <2>1
  <2>. HIDE DEF h, n
  <2>4. /\ Image(h, 1 .. n) = 1 .. n /\ Reverses(h, 1 .. n)
        /\ \A x, y \in 1 .. n : h[x] = h[y] => x = y
    BY <1>1, <2>2, ImageReversed
  <2>. QED  BY <1>1, <1>2, <1>4, <2>1, <2>3, <2>4 DEF h, n, SidePart
<1>5. CASE d = "forward"
  <2>1. n = Len(s) - p /\ p + n = Len(s)
    BY <1>1, <1>5 DEF SideLength
  <2>2. \A k \in 1 .. n : h[k] = p + k
    BY <1>3, <1>5
  <2>3. \A k \in 1 .. n : h[k] \in 1 .. Len(s) /\ Side(d, s, p)[k] = s[h[k]]
    BY <1>1, <1>2, <1>3, <1>5, <2>1
  <2>. HIDE DEF h, n
  <2>4. /\ Image(h, 1 .. n) = (p + 1) .. (p + n) /\ Keeps(h, 1 .. n)
        /\ \A x, y \in 1 .. n : h[x] = h[y] => x = y
    BY <1>1, <2>2, ImageShifted
  <2>. QED  BY <1>1, <1>2, <1>5, <2>1, <2>3, <2>4 DEF h, n, SidePart
<1>. QED  BY <1>4, <1>5 DEF Directions

(* What lies on one side of an anchor can be aligned on its own. *)
LEMMA LeastOfSide ==
  ASSUME NEW Q, NEW c, Policy(c, Q), NEW q \in Seq(Q), NEW w \in Seq(Q),
         NEW i \in 1 .. Len(q), NEW j \in 1 .. Len(w), NEW d \in Directions
  PROVE  Least(Prices(c, q, w), SidePart(d, q, i), SidePart(d, w, j))
           = Entry(c, Side(d, q, i), Side(d, w, j), SideLength(d, q, i), SideLength(d, w, j))
<1>. DEFINE n == SideLength(d, q, i)
            m == SideLength(d, w, j)
            h == Away(d, i, n)
            g == Away(d, j, m)
            x == Side(d, q, i)
            y == Side(d, w, j)
            z == Prices(c, x, y)
            a == Prices(c, q, w)
            I == 1 .. n
            J == 1 .. m
<1>1. /\ n \in Nat /\ x \in Seq(Q) /\ Len(x) = n
      /\ \A k \in 1 .. n : h[k] \in 1 .. Len(q) /\ x[k] = q[h[k]]
      /\ Image(h, 1 .. n) = SidePart(d, q, i)
      /\ d = "backward" => Reverses(h, 1 .. n)
      /\ d = "forward" => Keeps(h, 1 .. n)
      /\ \A s, t \in 1 .. n : h[s] = h[t] => s = t
  BY SideIndices
<1>2. /\ m \in Nat /\ y \in Seq(Q) /\ Len(y) = m
      /\ \A k \in 1 .. m : g[k] \in 1 .. Len(w) /\ y[k] = w[g[k]]
      /\ Image(g, 1 .. m) = SidePart(d, w, j)
      /\ d = "backward" => Reverses(g, 1 .. m)
      /\ d = "forward" => Keeps(g, 1 .. m)
      /\ \A s, t \in 1 .. m : g[s] = g[t] => s = t
  BY SideIndices
<1>. HIDE DEF n, m, h, g, x, y
<1>3. /\ \A s \in I : a.left[h[s]] = z.left[s]
      /\ \A t \in J : a.right[g[t]] = z.right[t]
      /\ \A s \in I, t \in J : a.pair[<<h[s], g[t]>>] = z.pair[<<s, t>>]
  BY <1>1, <1>2 DEF Prices
<1>4. (Keeps(h, I) /\ Keeps(g, J)) \/ (Reverses(h, I) /\ Reverses(g, J))
  BY <1>1, <1>2 DEF Directions
<1>5. Priced(z, I, J)
  <2>1. Priced(Prices(c, x, y), 1 .. Len(x), 1 .. Len(y))
    BY <1>1, <1>2, PricesOfPolicy
  <2>. QED  BY <1>1, <1>2, <2>1
<1>6. /\ \A s, t \in I : h[s] = h[t] => s = t
      /\ \A s, t \in J : g[s] = g[t] => s = t
      /\ Image(h, I) = SidePart(d, q, i) /\ Image(g, J) = SidePart(d, w, j)
  BY <1>1, <1>2
<1>. HIDE DEF z, a, I, J
<1>7. Renames(z, a, I, J, h, g)
  BY <1>3, <1>4, <1>6 DEF Renames
<1>8. Least(a, Image(h, I), Image(g, J)) = Least(z, I, J)
  BY <1>5, <1>7, LeastRenamed
<1>. QED  BY <1>6, <1>8 DEF a, z, I, J, n, m, x, y, Entry

(* So the distance at an anchor is a sum of three.                         *)
LEMMA AnchoredSplits ==
  ASSUME NEW Q, NEW c, Policy(c, Q), NEW q \in Seq(Q), NEW w \in Seq(Q),
         NEW i \in 1 .. Len(q), NEW j \in 1 .. Len(w)
  PROVE  LET e(d) == Entry(c, Side(d, q, i), Side(d, w, j), SideLength(d, q, i), SideLength(d, w, j))
         IN  /\ AnchoredDistance(c, q, w, i, j)
                  = (e("backward") + c.substitution[<<q[i], w[j]>>]) + e("forward")
             /\ e("backward") \in Nat /\ e("forward") \in Nat
             /\ c.substitution[<<q[i], w[j]>>] \in Nat
<1>. DEFINE z == Prices(c, q, w)
            n == Len(q)
            m == Len(w)
            I == 1 .. n
            J == 1 .. m
            I1 == 1 .. (i - 1)
            I2 == (i + 1) .. n
            J1 == 1 .. (j - 1)
            J2 == (j + 1) .. m
<1>1. n \in Nat /\ m \in Nat /\ i \in Nat /\ j \in Nat
  OBVIOUS
<1>2. /\ Around(I1, i, I2) /\ Around(J1, j, J2)
      /\ I = (I1 \cup {i}) \cup I2 /\ J = (J1 \cup {j}) \cup J2
  BY <1>1 DEF Around
<1>3. Priced(z, I, J)
  BY PricesOfPolicy
<1>4. AnchoredDistance(c, q, w, i, j)
        = Through(z, I, J, i, j)
  BY DistanceIsLeast DEF Through
<1>5. z.pair[<<i, j>>] = c.substitution[<<q[i], w[j]>>]
  BY DEF Prices
<1>6. /\ I1 = SidePart("backward", q, i) /\ J1 = SidePart("backward", w, j)
      /\ I2 = SidePart("forward", q, i) /\ J2 = SidePart("forward", w, j)
  BY DEF SidePart
<1>. HIDE DEF z, I, J, I1, I2, J1, J2, n, m
<1>7. /\ Through(z, I, J, i, j)
           = (Least(z, I1, J1) + z.pair[<<i, j>>]) + Least(z, I2, J2)
      /\ Least(z, I1, J1) \in Nat /\ Least(z, I2, J2) \in Nat /\ z.pair[<<i, j>>] \in Nat
  <2>1. Around(I1, i, I2) /\ Around(J1, j, J2) /\ Priced(z, I, J)
    BY <1>2, <1>3
  <2>2. I = (I1 \cup {i}) \cup I2
    BY <1>2
  <2>3. J = (J1 \cup {j}) \cup J2
    BY <1>2
  <2>4. Priced(z, (I1 \cup {i}) \cup I2, (J1 \cup {j}) \cup J2)
    BY <2>1, <2>2, <2>3
  <2>5. AroundLeast(z, I1, J1, i, j, I2, J2)
    BY <2>1, <2>4, LeastAround
  <2>. QED  BY <2>2, <2>3, <2>5 DEF AroundLeast
<1>8. \A d \in Directions :
         Least(z, SidePart(d, q, i), SidePart(d, w, j))
           = Entry(c, Side(d, q, i), Side(d, w, j), SideLength(d, q, i), SideLength(d, w, j))
  BY LeastOfSide DEF z
<1>9. "backward" \in Directions /\ "forward" \in Directions
  BY DEF Directions
<1>. QED  BY <1>4, <1>5, <1>6, <1>7, <1>8, <1>9

(* Entries look only at the prefixes they stand for.                       *)
LEMMA EntrySame ==
  ASSUME NEW Q, NEW c, Policy(c, Q), NEW q \in Seq(Q), NEW v \in Seq(Q), NEW w \in Seq(Q),
         NEW n \in 0 .. Len(v), n \in 0 .. Len(w), \A k \in 1 .. n : v[k] = w[k], NEW r \in 0 .. Len(q)
  PROVE  Entry(c, q, v, r, n) = Entry(c, q, w, r, n)
<1>1. Len(v) \in Nat /\ Len(w) \in Nat
  OBVIOUS
<1>2. /\ SubSeq(v, 1, n) \in Seq(Q) /\ Len(SubSeq(v, 1, n)) = n
      /\ \A i \in 1 .. n : SubSeq(v, 1, n)[i] = v[i]
  BY PrefixFacts
<1>3. /\ SubSeq(w, 1, n) \in Seq(Q) /\ Len(SubSeq(w, 1, n)) = n
      /\ \A i \in 1 .. n : SubSeq(w, 1, n)[i] = w[i]
  BY PrefixFacts
<1>4. SubSeq(v, 1, n) = SubSeq(w, 1, n)
  <2>. DEFINE s == SubSeq(v, 1, n)
              t == SubSeq(w, 1, n)
  <2>1. \A i \in 1 .. n : s[i] = t[i]
    BY <1>2, <1>3
  <2>. HIDE DEF s, t
  <2>2. s = t
    BY <1>2, <1>3, <2>1, SeqEqual DEF s, t
  <2>. QED  BY <2>2 DEF s, t
<1>5. Entry(c, q, v, r, n) = WeightedEditDistance(c, SubSeq(q, 1, r), SubSeq(v, 1, n))
  BY EntryIsDistance
<1>6. Entry(c, q, w, r, n) = WeightedEditDistance(c, SubSeq(q, 1, r), SubSeq(w, 1, n))
  BY EntryIsDistance
<1>. QED  BY <1>4, <1>5, <1>6

(* Two words that are alike in their first n symbols.                      *)
AreAlike(Q, c, q, v, w, n, r) ==
  /\ Policy(c, Q) /\ q \in Seq(Q) /\ v \in Seq(Q) /\ w \in Seq(Q)
  /\ n \in 0 .. Len(v) /\ n \in 0 .. Len(w) /\ r \in 0 .. Len(q)
  /\ \A k \in 1 .. n : v[k] = w[k]

LEMMA EntryAlike ==
  ASSUME NEW Q, NEW c, NEW q, NEW v, NEW w, NEW n, NEW r, AreAlike(Q, c, q, v, w, n, r)
  PROVE  Entry(c, q, v, r, n) = Entry(c, q, w, r, n)
<1>1. /\ Policy(c, Q) /\ q \in Seq(Q) /\ v \in Seq(Q) /\ w \in Seq(Q)
      /\ n \in 0 .. Len(v) /\ n \in 0 .. Len(w) /\ r \in 0 .. Len(q)
      /\ \A k \in 1 .. n : v[k] = w[k]
  BY DEF AreAlike
<1>. QED  BY <1>1, EntrySame, SMTT(30)

------------------------------------------------------------------------------
(***************************************************************************)
(* 10. Pruning.                                                            *)
(***************************************************************************)
AllReach(q, column, budget) == \A r \in 0 .. Len(q) : column[r] >= budget

LEMMA ExhaustedReaches ==
  ASSUME NEW q, Len(q) \in Nat, NEW column \in Columns(q), NEW budget \in Nat
  PROVE  Exhausts(column, budget) <=> AllReach(q, column, budget)
<1>. DEFINE S == Range(column)
<1>1. /\ DOMAIN column = 0 .. Len(q) /\ 0 \in 0 .. Len(q)
      /\ \A r \in 0 .. Len(q) : column[r] \in Nat
  BY DistanceFacts DEF Columns
<1>2. S = {column[r] : r \in 0 .. Len(q)}
  BY <1>1 DEF Range
<1>3. S \in SUBSET Nat /\ S # {}
  BY <1>1, <1>2
<1>4. Min(S) \in S /\ Min(S) \in Nat /\ \A x \in S : Min(S) <= x
  <2>. HIDE DEF S
  <2>. QED  BY <1>3, MinIsLeast
<1>5. Min(S) >= budget <=> \A x \in S : x >= budget
  <2>. HIDE DEF S
  <2>. QED  BY <1>3, <1>4
<1>6. Exhausts(column, budget) <=> \A x \in S : x >= budget
  BY <1>5 DEF Exhausts
<1>. HIDE DEF S
<1>. QED  BY <1>2, <1>6 DEF AllReach

LEMMA StepReaches ==
  ASSUME InputsOK, NEW q \in Seq(Symbols), NEW symbol \in Symbols, NEW previous \in Columns(q),
         NEW budget \in Nat, AllReach(q, previous, budget)
  PROVE  AllReach(q, StepColumn(q, symbol, previous), budget)
<1>. DEFINE column == StepColumn(q, symbol, previous)
            Good == {r \in 0 .. Len(q) : column[r] >= budget}
<1>1. /\ column \in Columns(q)
      /\ column[0] = AddDistance(previous[0], Insert(symbol))
      /\ \A r \in 1 .. Len(q) : column[r] \in StepEntry(q, column, symbol, previous, r)
  BY StepColumnDefined
<1>2. /\ Len(q) \in Nat /\ Insert(symbol) \in Distance
      /\ \A r \in 1 .. Len(q) : Delete(q[r]) \in Distance /\ Substitute(q[r], symbol) \in Distance
  BY OperationsAreDistances
<1>3. /\ Distance \in SUBSET Nat
      /\ \A x, y \in Distance : x <= AddDistance(x, y) /\ AddDistance(x, y) \in Distance
  BY DistanceFacts
<1>. HIDE DEF column
<1>4. \A r \in 0 .. Len(q) : /\ previous[r] \in Distance /\ previous[r] \in Nat /\ previous[r] >= budget
                            /\ column[r] \in Distance /\ column[r] \in Nat
  BY <1>1, <1>3 DEF Columns, AllReach
<1>5. \A x, y \in Distance : x >= budget => AddDistance(x, y) >= budget
  <2>. SUFFICES ASSUME NEW x \in Distance, NEW y \in Distance, x >= budget
                PROVE  AddDistance(x, y) >= budget
    OBVIOUS
  <2>1. x \in Nat /\ AddDistance(x, y) \in Nat /\ x <= AddDistance(x, y)
    BY <1>3
  <2>. QED  BY <2>1
<1>6. 0 \in Good
  <2>1. 0 \in 0 .. Len(q)
    BY <1>2
  <2>. QED  BY <1>1, <1>2, <1>4, <1>5, <2>1
<1>7. ASSUME NEW r \in Good, r < Len(q) PROVE r + 1 \in Good
  <2>1. r + 1 \in 1 .. Len(q) /\ (r + 1) - 1 = r /\ r \in 0 .. Len(q) /\ r + 1 \in 0 .. Len(q)
    BY <1>2, <1>7
  <2>2. column[r + 1] \in {AddDistance(previous[r], Substitute(q[r + 1], symbol)),
                           AddDistance(previous[r + 1], Insert(symbol)),
                           AddDistance(column[r], Delete(q[r + 1]))}
    BY <1>1, <2>1 DEF StepEntry
  <2>3. column[r] >= budget
    OBVIOUS
  <2>4. column[r + 1] >= budget
    BY <1>2, <1>4, <1>5, <2>1, <2>2, <2>3
  <2>. QED  BY <2>1, <2>4
<1>8. Good = 0 .. Len(q)
  <2>1. Good \in SUBSET (0 .. Len(q))
    OBVIOUS
  <2>. HIDE DEF Good
  <2>. QED  BY <1>2, <1>6, <1>7, <2>1, BoundedInduction
<1>. QED  BY <1>8 DEF AllReach, column

LEMMA ProgramReaches ==
  ASSUME InputsOK, NEW q \in Seq(Symbols), NEW w \in Seq(Symbols), NEW budget \in Nat,
         NEW n \in 0 .. Len(w), AllReach(q, Program(q, w)[n], budget)
  PROVE  \A m \in 0 .. Len(w) : n <= m => AllReach(q, Program(q, w)[m], budget)
<1>. DEFINE Good == {m \in 0 .. Len(w) : n <= m => AllReach(q, Program(q, w)[m], budget)}
<1>1. /\ Len(w) \in Nat /\ n \in Nat
      /\ Program(q, w) \in [0 .. Len(w) -> Columns(q)]
      /\ \A k \in 1 .. Len(w) : Program(q, w)[k] = StepColumn(q, w[k], Program(q, w)[k - 1])
  BY ColumnsDefined
<1>2. 0 \in Good
  <2>1. n <= 0 => n = 0
    BY <1>1
  <2>. QED  BY <1>1, <2>1
<1>3. ASSUME NEW m \in Good, m < Len(w) PROVE m + 1 \in Good
  <2>1. m + 1 \in 1 .. Len(w) /\ (m + 1) - 1 = m /\ m \in 0 .. Len(w) /\ m + 1 \in 0 .. Len(w)
    BY <1>1, <1>3
  <2>2. CASE n <= m
    <3>1. AllReach(q, Program(q, w)[m], budget)
      BY <2>2
    <3>2. Program(q, w)[m] \in Columns(q) /\ w[m + 1] \in Symbols
      <4>1. w[m + 1] \in Symbols
        BY <2>1
      <4>. HIDE DEF Good
      <4>2. Program(q, w)[m] \in Columns(q)
        BY <1>1, <2>1
      <4>. QED  BY <4>1, <4>2
    <3>3. Program(q, w)[m + 1] = StepColumn(q, w[m + 1], Program(q, w)[m])
      BY <1>1, <2>1
    <3>4. AllReach(q, Program(q, w)[m + 1], budget)
      BY <3>1, <3>2, <3>3, StepReaches
    <3>. QED  BY <2>1, <3>4
  <2>3. CASE ~(n <= m)
    <3>1. n <= m + 1 => n = m + 1
      BY <1>1, <2>1, <2>3
    <3>. QED  BY <2>1, <3>1
  <2>. QED  BY <2>2, <2>3
<1>4. Good = 0 .. Len(w)
  <2>1. Good \in SUBSET (0 .. Len(w))
    OBVIOUS
  <2>. HIDE DEF Good
  <2>. QED  BY <1>1, <1>2, <1>3, <2>1, BoundedInduction
<1>. QED  BY <1>4

(* What a walk leaves out is beyond its budget. *)
LEMMA WalkFacts ==
  ASSUME InputsOK, NEW q \in Seq(Symbols), NEW w \in Seq(Symbols), NEW budget \in Nat
  PROVE  LET length == WalkLength(Program(q, w), budget)
         IN  /\ length \in 0 .. Len(w)
             /\ \A n \in 0 .. Len(w) : length < n => Program(q, w)[n][Len(q)] >= budget
<1>. DEFINE P == Program(q, w)
            stops == {n \in DOMAIN P \ {0} : Exhausts(P[n], budget)}
            length == WalkLength(P, budget)
<1>1. Len(q) \in Nat /\ Len(w) \in Nat /\ P \in [0 .. Len(w) -> Columns(q)]
  BY ColumnsDefined
<1>2. Cardinality(DOMAIN P) - 1 = Len(w)
  <2>1. DOMAIN P = 0 .. Len(w)
    BY <1>1
  <2>2. Cardinality(0 .. Len(w)) = Len(w) + 1
    BY <1>1, FS_Interval
  <2>. QED  BY <1>1, <2>1, <2>2
<1>3. length = IF stops = {} THEN Len(w) ELSE Min(stops) - 1
  <2>. HIDE DEF P
  <2>. QED  BY <1>2 DEF WalkLength
<1>4. stops = {n \in 1 .. Len(w) : AllReach(q, P[n], budget)}
  <2>1. DOMAIN P \ {0} = 1 .. Len(w)
    BY <1>1
  <2>2. \A n \in 1 .. Len(w) : P[n] \in Columns(q)
    BY <1>1
  <2>. HIDE DEF P
  <2>3. \A n \in 1 .. Len(w) : Exhausts(P[n], budget) <=> AllReach(q, P[n], budget)
    BY <1>1, <2>2, ExhaustedReaches
  <2>. QED  BY <2>1, <2>3
<1>. HIDE DEF length, stops
<1>5. CASE stops = {}
  BY <1>1, <1>3, <1>5 DEF length, P
<1>6. CASE stops # {}
  <2>. DEFINE m == Min(stops)
  <2>1. stops \in SUBSET Nat
    BY <1>4
  <2>2. m \in stops
    BY <1>6, <2>1, MinIsLeast
  <2>3. m \in 1 .. Len(w) /\ AllReach(q, P[m], budget)
    BY <1>4, <2>2
  <2>4. length = m - 1 /\ m - 1 \in 0 .. Len(w) /\ m \in 0 .. Len(w) /\ m \in Nat
    BY <1>1, <1>3, <1>6, <2>3
  <2>. HIDE DEF m
  <2>5. \A n \in 0 .. Len(w) : m <= n => AllReach(q, P[n], budget)
    BY <2>3, <2>4, ProgramReaches
  <2>6. \A n \in 0 .. Len(w) : length < n => m <= n
    BY <2>4
  <2>7. Len(q) \in 0 .. Len(q)
    BY <1>1
  <2>. QED  BY <2>4, <2>5, <2>6, <2>7 DEF AllReach, length, P
<1>. QED  BY <1>5, <1>6

------------------------------------------------------------------------------
(***************************************************************************)
(* 11. What one candidate adds.                                            *)
(***************************************************************************)
(* The distance of a segment at a candidate, the query and the data on one *)
(* side of it, what the rest of the query on that side exactly costs over  *)
(* the first n data symbols there, and what the program makes of that.     *)
DistanceAt(candidate, segment) ==
  AnchoredDistance(costs, query, Word(corpus, segment), candidate.query, candidate.position - segment[2])

QuerySide(candidate, d) == Side(d, query, candidate.query)
DataSide(candidate, d)  == Side(d, corpus[candidate.string], candidate.position)
Rest(candidate, d, n) ==
  Entry(costs, QuerySide(candidate, d), DataSide(candidate, d), Len(QuerySide(candidate, d)), n)
ComputedRest(candidate, d, n) ==
  Program(QuerySide(candidate, d), DataSide(candidate, d))[n][Len(QuerySide(candidate, d))]

PairCost(candidate) == Substitute(query[candidate.query], corpus[candidate.string][candidate.position])

LEMMA SidesOfCandidate ==
  ASSUME InputsOK, NEW candidate, IsValid(candidate), NEW d \in Directions
  PROVE  /\ QuerySide(candidate, d) \in Seq(Symbols)
         /\ DataSide(candidate, d) \in Seq(Symbols)
         /\ Len(QuerySide(candidate, d)) = SideLength(d, query, candidate.query)
         /\ Len(DataSide(candidate, d)) = SideLength(d, corpus[candidate.string], candidate.position)
         /\ Len(QuerySide(candidate, d)) \in Nat /\ Len(DataSide(candidate, d)) \in Nat
<1>1. query \in Seq(Symbols) /\ candidate.query \in 1 .. Len(query)
  BY InputTypes DEF IsValid, Positions
<1>2. corpus[candidate.string] \in Seq(Symbols) /\ candidate.position \in 1 .. Len(corpus[candidate.string])
  BY InputTypes DEF IsValid
<1>3. /\ Side(d, query, candidate.query) \in Seq(Symbols)
      /\ Len(Side(d, query, candidate.query)) = SideLength(d, query, candidate.query)
      /\ SideLength(d, query, candidate.query) \in Nat
  BY <1>1, SideIndices
<1>4. /\ Side(d, corpus[candidate.string], candidate.position) \in Seq(Symbols)
      /\ Len(Side(d, corpus[candidate.string], candidate.position))
           = SideLength(d, corpus[candidate.string], candidate.position)
      /\ SideLength(d, corpus[candidate.string], candidate.position) \in Nat
  BY <1>2, SideIndices
<1>. QED  BY <1>3, <1>4 DEF QuerySide, DataSide

LEMMA RestsAgree ==
  ASSUME InputsOK, NEW V, NEW M, SumsAreExact(V, M), NEW candidate, IsValid(candidate), NEW d \in Directions,
         NEW n \in 0 .. Len(DataSide(candidate, d))
  PROVE  /\ ComputedRest(candidate, d, n) \in V
         /\ Agree(ComputedRest(candidate, d, n), Rest(candidate, d, n), M)
         /\ Rest(candidate, d, n) \in Nat
<1>. DEFINE q == QuerySide(candidate, d)
            w == DataSide(candidate, d)
<1>1. q \in Seq(Symbols) /\ w \in Seq(Symbols) /\ Len(q) \in Nat /\ Len(q) \in 0 .. Len(q)
  BY SidesOfCandidate
<1>2. n \in 0 .. Len(w)
  OBVIOUS
<1>. HIDE DEF q, w
<1>3. Exactly(q, w, V, M, n, Program(q, w)[n])
  BY <1>1, <1>2, ProgramIsExact
<1>4. Entry(costs, q, w, Len(q), n) \in Nat
  BY <1>1, <1>2, CostsAreExact, EntriesPriced
<1>5. Program(q, w)[n][Len(q)] \in V /\ Agree(Program(q, w)[n][Len(q)], Entry(costs, q, w, Len(q), n), M)
  BY <1>1, <1>3 DEF Exactly
<1>. QED  BY <1>4, <1>5 DEF q, w, Rest, ComputedRest

(* The segments a candidate lies in, by how far they reach on both sides.  *)
SegmentOf(candidate, b, f) ==
  <<candidate.string, candidate.position - 1 - b, candidate.position + f>>

LEMMA SegmentsAt ==
  ASSUME InputsOK, NEW candidate, IsValid(candidate)
  PROVE  /\ \A b \in 0 .. Len(DataSide(candidate, "backward")), f \in 0 .. Len(DataSide(candidate, "forward")) :
               LET segment == SegmentOf(candidate, b, f)
               IN  /\ segment \in ProperSegments(corpus) /\ AnchoredAt(candidate, segment)
                   /\ candidate.position - 1 - segment[2] = b /\ segment[3] - candidate.position = f
         /\ \A segment \in ProperSegments(corpus) : AnchoredAt(candidate, segment) =>
               /\ candidate.position - 1 - segment[2] \in 0 .. Len(DataSide(candidate, "backward"))
               /\ segment[3] - candidate.position \in 0 .. Len(DataSide(candidate, "forward"))
               /\ segment = SegmentOf(candidate, candidate.position - 1 - segment[2],
                                      segment[3] - candidate.position)
<1>. DEFINE id == candidate.string
            p == candidate.position
            n == Len(corpus[id])
<1>1. id \in DOMAIN corpus /\ n \in Nat /\ p \in 1 .. n /\ p \in Nat
  BY InputTypes DEF IsValid
<1>2. Len(DataSide(candidate, "backward")) = p - 1 /\ Len(DataSide(candidate, "forward")) = n - p
  BY SidesOfCandidate DEF SideLength, Directions
<1>3. ASSUME NEW b \in 0 .. (p - 1), NEW f \in 0 .. (n - p)
      PROVE  LET segment == SegmentOf(candidate, b, f)
             IN  /\ segment \in ProperSegments(corpus) /\ AnchoredAt(candidate, segment)
                 /\ p - 1 - segment[2] = b /\ segment[3] - p = f
  <2>. DEFINE x == p - 1 - b
              y == p + f
              segment == <<id, x, y>>
  <2>1. x \in 0 .. n /\ y \in 1 .. n /\ x < y /\ p \in (x + 1) .. y /\ p - 1 - x = b /\ y - p = f
    <3>1. n \in Nat /\ p \in 1 .. n /\ b \in 0 .. (p - 1) /\ f \in 0 .. (n - p)
      BY <1>1
    <3>. HIDE DEF n, p, id, segment
    <3>. QED  BY <3>1
  <2>2. segment[1] = id /\ segment[2] = x /\ segment[3] = y
    OBVIOUS
  <2>. HIDE DEF x, y
  <2>3. segment \in {<<id, v, e>> : v \in 0 .. n, e \in 1 .. n}
    BY <2>1
  <2>4. segment \in ProperSegments(corpus)
    BY <1>1, <2>1, <2>2, <2>3 DEF ProperSegments, Segments
  <2>5. AnchoredAt(candidate, segment)
    BY <2>1, <2>2 DEF AnchoredAt
  <2>. QED  BY <2>1, <2>2, <2>4, <2>5 DEF SegmentOf, x, y
<1>4. ASSUME NEW segment \in ProperSegments(corpus), AnchoredAt(candidate, segment)
      PROVE  /\ p - 1 - segment[2] \in 0 .. (p - 1) /\ segment[3] - p \in 0 .. (n - p)
             /\ segment = SegmentOf(candidate, p - 1 - segment[2], segment[3] - p)
  <2>1. PICK k \in DOMAIN corpus :
           segment \in {<<k, b, e>> : b \in 0 .. Len(corpus[k]), e \in 1 .. Len(corpus[k])}
    BY DEF ProperSegments, Segments
  <2>2. PICK b \in 0 .. Len(corpus[k]), e \in 1 .. Len(corpus[k]) : segment = <<k, b, e>>
    BY <2>1
  <2>3. segment[1] = k /\ segment[2] = b /\ segment[3] = e
    BY <2>2
  <2>4. id = k /\ p \in (b + 1) .. e
    BY <1>4, <2>3 DEF AnchoredAt
  <2>5. b \in 0 .. n /\ e \in 1 .. n
    BY <2>4
  <2>6. p - 1 - b \in 0 .. (p - 1) /\ e - p \in 0 .. (n - p) /\ p - 1 - (p - 1 - b) = b /\ p + (e - p) = e
    BY <1>1, <2>4, <2>5
  <2>. QED  BY <2>2, <2>3, <2>4, <2>6 DEF SegmentOf
<1>. QED  BY <1>2, <1>3, <1>4

(* The sides of an anchor within a segment are those within the string,    *)
(* cut off where the segment ends.                                         *)
LEMMA SideOfWord ==
  ASSUME NEW S, NEW s \in Seq(S), NEW p \in 1 .. Len(s), NEW b \in 0 .. (p - 1), NEW f \in 0 .. (Len(s) - p)
  PROVE  LET w == SubSeq(s, (p - 1 - b) + 1, p + f)
             j == p - (p - 1 - b)
         IN  /\ w \in Seq(S) /\ j \in 1 .. Len(w) /\ w[j] = s[p]
             /\ SideLength("backward", w, j) = b /\ SideLength("forward", w, j) = f
             /\ \A d \in Directions : \A k \in 1 .. SideLength(d, w, j) :
                   Side(d, w, j)[k] = Side(d, s, p)[k]
<1>. DEFINE x == (p - 1 - b) + 1
            y == p + f
            w == SubSeq(s, x, y)
            j == p - (p - 1 - b)
<1>1. /\ Len(s) \in Nat /\ p \in Nat /\ b \in Nat /\ f \in Nat
      /\ x = p - b /\ x \in 1 .. Len(s) /\ y \in x .. Len(s) /\ x \in 1 .. (Len(s) + 1) /\ y \in (x - 1) .. Len(s)
      /\ j = b + 1 /\ (y - x) + 1 = (b + 1) + f
  OBVIOUS
<1>2. w \in Seq(S)
  BY <1>1, SubSeqProperties
<1>3. Len(w) = (b + 1) + f
  <2>. HIDE DEF x, y
  <2>1. x <= y + 1 /\ x \in Nat /\ y \in Nat
    BY <1>1
  <2>2. Len(SubSeq(s, x, y)) = (y - x) + 1
    BY <1>1, <2>1
  <2>. QED  BY <1>1, <2>2
<1>4. \A k \in 1 .. ((b + 1) + f) : w[k] = s[(p - b) + k - 1]
  <2>. HIDE DEF x, y
  <2>1. \A k \in 1 .. ((y - x) + 1) : SubSeq(s, x, y)[k] = s[x + k - 1]
    BY <1>1
  <2>. QED  BY <1>1, <2>1
<1>. HIDE DEF x, y, w, j
<1>5. j \in 1 .. Len(w) /\ w[j] = s[p]
  <2>1. b + 1 \in 1 .. ((b + 1) + f) /\ (p - b) + (b + 1) - 1 = p
    BY <1>1
  <2>. QED  BY <1>1, <1>3, <1>4, <2>1
<1>6. SideLength("backward", w, j) = b /\ SideLength("forward", w, j) = f
  BY <1>1, <1>3 DEF SideLength
<1>7. ASSUME NEW d \in Directions, NEW k \in 1 .. SideLength(d, w, j)
      PROVE  Side(d, w, j)[k] = Side(d, s, p)[k]
  <2>1. /\ Side(d, w, j)[k] = w[IF d = "backward" THEN j - k ELSE j + k]
    <3>1. SideLength(d, w, j) \in Nat /\ Side(d, w, j)[k] = w[Away(d, j, SideLength(d, w, j))[k]]
      BY <1>2, <1>5, <1>7, SideIndices
    <3>. QED  BY <1>7, <3>1 DEF Away
  <2>2. SideLength(d, s, p) \in Nat /\ SideLength(d, w, j) <= SideLength(d, s, p)
    BY <1>1, <1>6 DEF SideLength, Directions
  <2>3. k \in 1 .. SideLength(d, s, p)
    BY <1>1, <1>6, <1>7, <2>2 DEF Directions
  <2>4. Side(d, s, p)[k] = s[IF d = "backward" THEN p - k ELSE p + k]
    <3>1. Side(d, s, p)[k] = s[Away(d, p, SideLength(d, s, p))[k]]
      BY <2>3, SideIndices
    <3>. QED  BY <2>3, <3>1 DEF Away
  <2>5. CASE d = "backward"
    <3>1. k \in 1 .. b
      BY <1>6, <1>7, <2>5
    <3>2. j - k \in 1 .. ((b + 1) + f) /\ (p - b) + (j - k) - 1 = p - k
      BY <1>1, <3>1
    <3>3. w[j - k] = s[p - k]
      BY <1>4, <3>2
    <3>. QED  BY <2>1, <2>4, <2>5, <3>3
  <2>6. CASE d = "forward"
    <3>1. k \in 1 .. f
      BY <1>6, <1>7, <2>6
    <3>2. j + k \in 1 .. ((b + 1) + f) /\ (p - b) + (j + k) - 1 = p + k
      BY <1>1, <3>1
    <3>3. w[j + k] = s[p + k]
      BY <1>4, <3>2
    <3>. QED  BY <2>1, <2>4, <2>6, <3>3
  <2>. QED  BY <2>5, <2>6 DEF Directions
<1>. QED  BY <1>2, <1>5, <1>6, <1>7 DEF x, y, w, j

(* The distance at a candidate is the cost of its pair and of both rests.  *)
LEMMA DistanceSplits ==
  ASSUME InputsOK, NEW candidate, IsValid(candidate),
         Policy(costs, Symbols),
         NEW b \in 0 .. Len(DataSide(candidate, "backward")),
         NEW f \in 0 .. Len(DataSide(candidate, "forward"))
  PROVE  /\ DistanceAt(candidate, SegmentOf(candidate, b, f))
              = (Rest(candidate, "backward", b) + PairCost(candidate)) + Rest(candidate, "forward", f)
         /\ PairCost(candidate) \in Nat
         /\ Rest(candidate, "backward", b) \in Nat /\ Rest(candidate, "forward", f) \in Nat
<1>. DEFINE s == corpus[candidate.string]
            p == candidate.position
            i == candidate.query
            w == SubSeq(s, (p - 1 - b) + 1, p + f)
            j == p - (p - 1 - b)
            e(d) == Entry(costs, Side(d, query, i), Side(d, w, j), SideLength(d, query, i), SideLength(d, w, j))
            reach(d) == IF d = "backward" THEN b ELSE f
<1>1. /\ s \in Seq(Symbols) /\ p \in 1 .. Len(s) /\ query \in Seq(Symbols) /\ i \in 1 .. Len(query)
  BY InputTypes DEF IsValid, Positions
<1>2. Len(DataSide(candidate, "backward")) = p - 1 /\ Len(DataSide(candidate, "forward")) = Len(s) - p
  BY SidesOfCandidate DEF SideLength, Directions
<1>3. b \in 0 .. (p - 1) /\ f \in 0 .. (Len(s) - p)
  BY <1>2
<1>. HIDE DEF s, p, i
<1>4. /\ w \in Seq(Symbols) /\ j \in 1 .. Len(w) /\ w[j] = s[p]
      /\ SideLength("backward", w, j) = b /\ SideLength("forward", w, j) = f
      /\ \A d \in Directions : \A k \in 1 .. SideLength(d, w, j) : Side(d, w, j)[k] = Side(d, s, p)[k]
  BY <1>1, <1>3, SideOfWord
<1>5. DistanceAt(candidate, SegmentOf(candidate, b, f)) = AnchoredDistance(costs, query, w, i, j)
  BY DEF DistanceAt, SegmentOf, Word, s, p, i
<1>. HIDE DEF w, j
<1>6. /\ AnchoredDistance(costs, query, w, i, j)
           = (e("backward") + costs.substitution[<<query[i], w[j]>>]) + e("forward")
      /\ e("backward") \in Nat /\ e("forward") \in Nat
      /\ costs.substitution[<<query[i], w[j]>>] \in Nat
  BY <1>1, <1>4, AnchoredSplits
<1>7. ASSUME NEW d \in Directions PROVE e(d) = Rest(candidate, d, reach(d))
  <2>. DEFINE q == Side(d, query, i)
              v == Side(d, w, j)
              t == Side(d, s, p)
              n == SideLength(d, w, j)
  <2>1. q \in Seq(Symbols) /\ Len(q) = SideLength(d, query, i) /\ Len(q) \in Nat
    BY <1>1, SideIndices
  <2>2. v \in Seq(Symbols) /\ Len(v) = n /\ n \in Nat
    BY <1>4, SideIndices
  <2>3. t \in Seq(Symbols) /\ t = DataSide(candidate, d) /\ q = QuerySide(candidate, d)
    BY <1>1, SideIndices DEF DataSide, QuerySide, s, p, i
  <2>4. n = reach(d) /\ n \in 0 .. Len(t) /\ n \in 0 .. Len(v)
    BY <1>4, <2>2, <2>3 DEF Directions
  <2>5. \A k \in 1 .. n : v[k] = t[k]
    BY <1>4
  <2>6. Len(q) \in 0 .. Len(q)
    BY <2>1
  <2>7. e(d) = Entry(costs, q, v, Len(q), n)
    BY <2>1
  <2>. HIDE DEF q, v, t, n, e
  <2>8. Entry(costs, q, v, Len(q), n) = Entry(costs, q, t, Len(q), n)
    <3>1. Policy(costs, Symbols)
      BY <1>1
    <3>2. /\ q \in Seq(Symbols) /\ v \in Seq(Symbols) /\ t \in Seq(Symbols)
          /\ n \in 0 .. Len(v) /\ n \in 0 .. Len(t) /\ Len(q) \in 0 .. Len(q)
      BY <2>1, <2>2, <2>3, <2>4, <2>6
    <3>3. AreAlike(Symbols, costs, q, v, t, n, Len(q))
      BY <2>5, <3>1, <3>2 DEF AreAlike
    <3>. QED  BY <3>3, EntryAlike
  <2>. QED  BY <2>3, <2>4, <2>7, <2>8 DEF Rest
<1>8. PairCost(candidate) = costs.substitution[<<query[i], w[j]>>]
  BY <1>4 DEF PairCost, Substitute, s, p, i
<1>9. e("backward") = Rest(candidate, "backward", b) /\ e("forward") = Rest(candidate, "forward", f)
  BY <1>7 DEF Directions
<1>. QED  BY <1>5, <1>6, <1>8, <1>9

WalkOf(candidate, d) ==
  WalkLength(Program(QuerySide(candidate, d), DataSide(candidate, d)), Residual(PairCost(candidate)))

ComputedDistanceAt(candidate, b, f) ==
  AddDistance(AddDistance(PairCost(candidate), ComputedRest(candidate, "backward", b)),
              ComputedRest(candidate, "forward", f))

LEMMA PairFacts ==
  ASSUME InputsOK, HasNextUp(threshold), NEW V, NEW M, SumsAreExact(V, M), NEW candidate, IsValid(candidate)
  PROVE  /\ PairCost(candidate) \in V /\ PairCost(candidate) \in Nat /\ PairCost(candidate) \in Distance
         /\ Admits(PairCost(candidate)) <=> PairCost(candidate) <= threshold
         /\ Admits(PairCost(candidate)) =>
               PairCost(candidate) \in Cost /\ Residual(PairCost(candidate)) \in Nat
         /\ threshold \in Cost /\ threshold \in Nat /\ threshold < M
<1>1. query[candidate.query] \in Symbols /\ corpus[candidate.string][candidate.position] \in Symbols
  BY InputTypes DEF IsValid
<1>2. PairCost(candidate) \in V /\ PairCost(candidate) \in Nat /\ PairCost(candidate) \in Distance
  BY <1>1, CostsAreExact DEF PairCost
<1>3. Agree(PairCost(candidate), PairCost(candidate), M)
  BY DEF Agree
<1>4. Admits(PairCost(candidate)) <=> PairCost(candidate) <= threshold
  BY <1>2, <1>3, ExactlyAdmitted
<1>5. Admits(PairCost(candidate)) =>
         PairCost(candidate) \in Cost /\ Residual(PairCost(candidate)) \in Nat
  BY <1>2, BoundFacts, CostAssumption
<1>6. threshold \in Cost /\ threshold \in Nat /\ threshold < M
  BY InputTypes, CostAssumption DEF InputsOK, SumsAreExact
<1>. QED  BY <1>2, <1>4, <1>5, <1>6

(* A rest beyond the walk leaves no distance within the threshold.         *)
LEMMA RestsBeyondTheWalk ==
  ASSUME InputsOK, HasNextUp(threshold), NEW V, NEW M, SumsAreExact(V, M), NEW candidate, IsValid(candidate),
         Admits(PairCost(candidate)), NEW d \in Directions
  PROVE  /\ WalkOf(candidate, d) \in 0 .. Len(DataSide(candidate, d))
         /\ \A n \in 0 .. Len(DataSide(candidate, d)) :
               WalkOf(candidate, d) < n => PairCost(candidate) + Rest(candidate, d, n) > threshold
<1>. DEFINE x == PairCost(candidate)
            budget == Residual(x)
            q == QuerySide(candidate, d)
            w == DataSide(candidate, d)
<1>1. /\ x \in Cost /\ x \in Nat /\ budget \in Nat
      /\ threshold \in Cost /\ threshold \in Nat /\ threshold < M
  BY PairFacts
<1>2. q \in Seq(Symbols) /\ w \in Seq(Symbols)
  BY SidesOfCandidate
<1>3. budget = Sub(NextUp(threshold), x)
  BY DEF Residual, Bound
<1>. HIDE DEF x, budget
<1>4. /\ WalkOf(candidate, d) \in 0 .. Len(w)
      /\ \A n \in 0 .. Len(w) : WalkOf(candidate, d) < n => ComputedRest(candidate, d, n) >= budget
  <2>1. WalkOf(candidate, d) = WalkLength(Program(q, w), budget)
    BY DEF WalkOf, x, budget
  <2>2. \A n : ComputedRest(candidate, d, n) = Program(q, w)[n][Len(q)]
    BY DEF ComputedRest
  <2>. HIDE DEF q, w
  <2>3. /\ WalkLength(Program(q, w), budget) \in 0 .. Len(w)
        /\ \A n \in 0 .. Len(w) : WalkLength(Program(q, w), budget) < n => Program(q, w)[n][Len(q)] >= budget
    BY <1>1, <1>2, WalkFacts
  <2>. QED  BY <2>1, <2>2, <2>3
<1>5. ASSUME NEW n \in 0 .. Len(w), WalkOf(candidate, d) < n
      PROVE  x + Rest(candidate, d, n) > threshold
  <2>. DEFINE y == ComputedRest(candidate, d, n)
              r == Rest(candidate, d, n)
  <2>1. y \in V /\ Agree(y, r, M) /\ r \in Nat /\ y >= budget
    BY <1>4, <1>5, RestsAgree
  <2>2. V \in SUBSET Distance /\ V \in SUBSET Nat /\ M \in Nat
    BY CostsAreExact
  <2>. HIDE DEF y, r
  <2>3. y \in Cost \/ y = Infinity
    BY <2>1, <2>2 DEF Distance
  <2>4. CASE y \in Cost
    <3>1. ~(x + y <= threshold)
      <4>1. x + y <= threshold => y < budget
        BY <1>1, <1>3, <2>4, BudgetAssumption
      <4>2. y \in Nat
        BY <2>1, <2>2
      <4>. QED  BY <1>1, <2>1, <4>1, <4>2
    <3>. QED  BY <1>1, <2>1, <2>2, <3>1 DEF Agree, r
  <2>5. CASE y = Infinity
    <3>1. threshold < y /\ y \in Nat
      BY <1>1, <2>5, CostAssumption
    <3>. QED  BY <1>1, <2>1, <2>2, <3>1 DEF Agree, r
  <2>. QED  BY <2>3, <2>4, <2>5
<1>. QED  BY <1>4, <1>5 DEF x

(* The distances verification adds up are the exact ones.                  *)
LEMMA ComputedDistancesAgree ==
  ASSUME InputsOK, HasNextUp(threshold), NEW V, NEW M, SumsAreExact(V, M), NEW candidate, IsValid(candidate),
         NEW b \in 0 .. Len(DataSide(candidate, "backward")),
         NEW f \in 0 .. Len(DataSide(candidate, "forward"))
  PROVE  LET x == ComputedDistanceAt(candidate, b, f)
             i == DistanceAt(candidate, SegmentOf(candidate, b, f))
         IN  /\ i \in Nat
             /\ Admits(x) <=> i <= threshold
             /\ Admits(x) => x = i
             /\ PairCost(candidate) + Rest(candidate, "backward", b) <= i
             /\ PairCost(candidate) + Rest(candidate, "forward", f) <= i
             /\ PairCost(candidate) <= i
<1>. DEFINE a == PairCost(candidate)
            yb == ComputedRest(candidate, "backward", b)
            yf == ComputedRest(candidate, "forward", f)
            rb == Rest(candidate, "backward", b)
            rf == Rest(candidate, "forward", f)
            i == DistanceAt(candidate, SegmentOf(candidate, b, f))
            x == ComputedDistanceAt(candidate, b, f)
<1>1. a \in V /\ a \in Nat /\ Agree(a, a, M)
  BY PairFacts DEF Agree
<1>2. /\ yb \in V /\ Agree(yb, rb, M) /\ rb \in Nat
      /\ yf \in V /\ Agree(yf, rf, M) /\ rf \in Nat
  BY RestsAgree DEF Directions
<1>3. i = (rb + a) + rf
  BY CostsAreExact, DistanceSplits
<1>4. x = AddDistance(AddDistance(a, yb), yf)
  BY DEF ComputedDistanceAt
<1>. HIDE DEF a, yb, yf, rb, rf, i, x
<1>5. AddDistance(a, yb) \in V /\ Agree(AddDistance(a, yb), a + rb, M) /\ a + rb \in Nat
  BY <1>1, <1>2, AgreeingSums
<1>6. x \in V /\ Agree(x, (a + rb) + rf, M)
  BY <1>2, <1>4, <1>5, AgreeingSums
<1>7. i \in Nat /\ i = (a + rb) + rf /\ a + rb <= i /\ a + rf <= i /\ a <= i
  BY <1>1, <1>2, <1>3
<1>8. (Admits(x) <=> i <= threshold) /\ (Admits(x) => x = i)
  BY <1>6, <1>7, ExactlyAdmitted
<1>. QED  BY <1>7, <1>8 DEF a, rb, rf, i, x

(* A candidate whose pair is too dear anchors nothing within the threshold. *)
LEMMA SkippedIsFar ==
  ASSUME InputsOK, HasNextUp(threshold), NEW V, NEW M, SumsAreExact(V, M), NEW candidate, IsValid(candidate),
         ~Admits(PairCost(candidate)), NEW segment \in ProperSegments(corpus), AnchoredAt(candidate, segment)
  PROVE  ~(DistanceAt(candidate, segment) <= threshold)
<1>. DEFINE b == candidate.position - 1 - segment[2]
            f == segment[3] - candidate.position
<1>1. /\ b \in 0 .. Len(DataSide(candidate, "backward"))
      /\ f \in 0 .. Len(DataSide(candidate, "forward"))
      /\ segment = SegmentOf(candidate, b, f)
  BY SegmentsAt
<1>. HIDE DEF b, f
<1>2. /\ DistanceAt(candidate, segment) \in Nat
      /\ PairCost(candidate) <= DistanceAt(candidate, segment)
  BY <1>1, ComputedDistancesAgree
<1>3. /\ PairCost(candidate) \in Nat /\ ~(PairCost(candidate) <= threshold)
      /\ threshold \in Nat
  BY PairFacts
<1>. QED  BY <1>2, <1>3

(* What verifying a candidate finds: the segments around it within the     *)
(* threshold of an alignment anchored at it, with their distances there.   *)
LEMMA ResultsOfCandidate ==
  ASSUME InputsOK, HasNextUp(threshold), Cached, NEW V, NEW M, SumsAreExact(V, M), IsValid(Current),
         Admits(AnchorCost)
  PROVE  LET results == Extension(Current).results
         IN  /\ DOMAIN results \in SUBSET ProperSegments(corpus)
             /\ \A segment \in ProperSegments(corpus) :
                   segment \in DOMAIN results
                     <=> AnchoredAt(Current, segment) /\ DistanceAt(Current, segment) <= threshold
             /\ \A segment \in DOMAIN results : results[segment] = DistanceAt(Current, segment)
<1>. DEFINE c == Current
            i == c.query
            p == c.position
            string == corpus[c.string]
            budget == Residual(AnchorCost)
            columns == [d \in Directions |-> ColumnsAlong(d, i, Side(d, string, p))]
            rests   == [d \in Directions |->
                          [n \in 0 .. WalkLength(columns[d], budget) |->
                             columns[d][n][Len(Side(d, query, i))]]]
            distance(b, f) ==
              AddDistance(AddDistance(AnchorCost, rests["backward"][b]), rests["forward"][f])
            found == {pair \in (DOMAIN rests["backward"]) \X (DOMAIN rests["forward"]) :
                        Admits(distance(pair[1], pair[2]))}
            found2 == {pair \in (0 .. WalkOf(c, "backward")) \X (0 .. WalkOf(c, "forward")) :
                        Admits(ComputedDistanceAt(c, pair[1], pair[2]))}
            domain == {SegmentOf(c, pair[1], pair[2]) : pair \in found2}
            results == Extension(Current).results
<1>1. results = [segment \in {<<c.string, p - 1 - pair[1], p + pair[2]>> : pair \in found} |->
                   distance(p - 1 - segment[2], segment[3] - p)]
  BY DEF Extension
<1>2. AnchorCost = PairCost(c) /\ IsValid(c)
  BY DEF AnchorCost, PairCost
<1>3. ASSUME NEW d \in Directions
      PROVE  columns[d] = Program(QuerySide(c, d), DataSide(c, d))
  <2>1. columns[d] = ColumnsAlong(d, i, DataSide(c, d))
    BY DEF DataSide
  <2>2. DataSide(c, d) \in Seq(Symbols)
    BY <1>2, SidesOfCandidate
  <2>3. i \in Positions
    BY DEF IsValid
  <2>. HIDE DEF columns
  <2>. QED  BY <2>1, <2>2, <2>3, ColumnsAlongProgram DEF QuerySide
<1>4. ASSUME NEW d \in Directions
      PROVE  /\ DOMAIN rests[d] = 0 .. WalkOf(c, d)
             /\ \A n \in 0 .. WalkOf(c, d) : rests[d][n] = ComputedRest(c, d, n)
  <2>. HIDE DEF columns
  <2>1. WalkLength(columns[d], budget) = WalkOf(c, d)
    BY <1>2, <1>3 DEF WalkOf
  <2>2. rests[d] = [n \in 0 .. WalkOf(c, d) |-> columns[d][n][Len(Side(d, query, i))]]
    BY <2>1
  <2>. QED  BY <1>3, <2>2 DEF ComputedRest, QuerySide
<1>5. "backward" \in Directions /\ "forward" \in Directions
  BY DEF Directions
<1>. HIDE DEF rests
<1>6. \A b \in 0 .. WalkOf(c, "backward"), f \in 0 .. WalkOf(c, "forward") :
         distance(b, f) = ComputedDistanceAt(c, b, f)
  BY <1>2, <1>4, <1>5 DEF ComputedDistanceAt
<1>7. found = found2
  <2>1. DOMAIN rests["backward"] = 0 .. WalkOf(c, "backward") /\ DOMAIN rests["forward"] = 0 .. WalkOf(c, "forward")
    BY <1>4, <1>5
  <2>2. \A pair \in (0 .. WalkOf(c, "backward")) \X (0 .. WalkOf(c, "forward")) :
           distance(pair[1], pair[2]) = ComputedDistanceAt(c, pair[1], pair[2])
    BY <1>6
  <2>. HIDE DEF distance
  <2>. QED  BY <2>1, <2>2
<1>8. /\ DOMAIN results = domain
      /\ \A segment \in domain : results[segment] = distance(p - 1 - segment[2], segment[3] - p)
  <2>1. domain = {<<c.string, p - 1 - pair[1], p + pair[2]>> : pair \in found}
    BY <1>7 DEF SegmentOf
  <2>. HIDE DEF domain, found, distance
  <2>. QED  BY <1>1, <2>1
<1>. HIDE DEF found, results, distance, c, p
<1>9. /\ WalkOf(c, "backward") \in 0 .. Len(DataSide(c, "backward"))
      /\ WalkOf(c, "forward") \in 0 .. Len(DataSide(c, "forward"))
  BY <1>2, <1>5, RestsBeyondTheWalk
<1>10. Len(DataSide(c, "backward")) \in Nat /\ Len(DataSide(c, "forward")) \in Nat
  BY <1>2, <1>5, SidesOfCandidate
<1>11. ASSUME NEW segment \in domain
       PROVE  /\ segment \in ProperSegments(corpus) /\ AnchoredAt(c, segment)
              /\ DistanceAt(c, segment) <= threshold
              /\ results[segment] = DistanceAt(c, segment)
  <2>1. PICK pair \in found2 : segment = SegmentOf(c, pair[1], pair[2])
    OBVIOUS
  <2>. DEFINE b == pair[1]
              f == pair[2]
  <2>2. /\ b \in 0 .. WalkOf(c, "backward") /\ f \in 0 .. WalkOf(c, "forward")
        /\ Admits(ComputedDistanceAt(c, b, f)) /\ segment = SegmentOf(c, b, f)
    BY <2>1
  <2>3. b \in 0 .. Len(DataSide(c, "backward")) /\ f \in 0 .. Len(DataSide(c, "forward"))
    BY <1>9, <1>10, <2>2
  <2>. HIDE DEF b, f, found2, domain
  <2>4. /\ segment \in ProperSegments(corpus) /\ AnchoredAt(c, segment)
        /\ p - 1 - segment[2] = b /\ segment[3] - p = f
    BY <1>2, <2>2, <2>3, SegmentsAt DEF p
  <2>5. results[segment] = ComputedDistanceAt(c, b, f)
    BY <1>6, <1>8, <2>2, <2>4
  <2>6. DistanceAt(c, segment) <= threshold /\ ComputedDistanceAt(c, b, f) = DistanceAt(c, segment)
    BY <1>2, <2>2, <2>3, ComputedDistancesAgree
  <2>. QED  BY <2>4, <2>5, <2>6
<1>12. ASSUME NEW segment \in ProperSegments(corpus), AnchoredAt(c, segment),
              DistanceAt(c, segment) <= threshold
       PROVE  segment \in domain
  <2>. DEFINE b == p - 1 - segment[2]
              f == segment[3] - p
  <2>1. /\ b \in 0 .. Len(DataSide(c, "backward")) /\ f \in 0 .. Len(DataSide(c, "forward"))
        /\ segment = SegmentOf(c, b, f)
    BY <1>2, <1>12, SegmentsAt DEF p
  <2>. HIDE DEF b, f
  <2>2. /\ Admits(ComputedDistanceAt(c, b, f)) /\ DistanceAt(c, segment) \in Nat
        /\ PairCost(c) + Rest(c, "backward", b) <= DistanceAt(c, segment)
        /\ PairCost(c) + Rest(c, "forward", f) <= DistanceAt(c, segment)
    BY <1>2, <1>12, <2>1, ComputedDistancesAgree
  <2>3. /\ PairCost(c) \in Nat /\ threshold \in Nat
        /\ Rest(c, "backward", b) \in Nat /\ Rest(c, "forward", f) \in Nat
    BY <1>2, <1>5, <2>1, PairFacts, RestsAgree
  <2>4. b <= WalkOf(c, "backward")
    <3>1. WalkOf(c, "backward") < b => PairCost(c) + Rest(c, "backward", b) > threshold
      BY <1>2, <1>5, <2>1, RestsBeyondTheWalk
    <3>2. ~(PairCost(c) + Rest(c, "backward", b) > threshold)
      BY <1>12, <2>2, <2>3
    <3>. QED  BY <1>9, <1>10, <2>1, <3>1, <3>2
  <2>5. f <= WalkOf(c, "forward")
    <3>1. WalkOf(c, "forward") < f => PairCost(c) + Rest(c, "forward", f) > threshold
      BY <1>2, <1>5, <2>1, RestsBeyondTheWalk
    <3>2. ~(PairCost(c) + Rest(c, "forward", f) > threshold)
      BY <1>12, <2>2, <2>3
    <3>. QED  BY <1>9, <1>10, <2>1, <3>1, <3>2
  <2>6. <<b, f>> \in found2
    <3>1. b \in 0 .. WalkOf(c, "backward") /\ f \in 0 .. WalkOf(c, "forward")
      BY <1>9, <1>10, <2>1, <2>4, <2>5
    <3>. QED  BY <2>2, <3>1
  <2>7. <<b, f>>[1] = b /\ <<b, f>>[2] = f
    OBVIOUS
  <2>. HIDE DEF found2
  <2>. QED  BY <2>1, <2>6, <2>7
<1>. HIDE DEF domain
<1>. QED  BY <1>8, <1>11, <1>12 DEF results, c

------------------------------------------------------------------------------
(***************************************************************************)
(* 12. The results, candidate by candidate.                                *)
(***************************************************************************)
(* The results of a search, candidate by candidate. *)
Within(segment) == {d \in AnchoredDistances(segment) : d <= threshold}
Adds(candidate, segment) ==
  {d \in {DistanceAt(candidate, segment)} : AnchoredAt(candidate, segment) /\ d <= threshold}

ReportsLeast(segment) ==
  /\ segment \in DOMAIN substrings <=> Within(segment) # {}
  /\ Within(segment) # {} => substrings[segment] = Min(Within(segment))

Reporting ==
  /\ next \in Nat \ {0}
  /\ substrings = [s \in DOMAIN substrings |-> substrings[s]]
  /\ DOMAIN substrings \in SUBSET ProperSegments(corpus)
  /\ \A segment \in ProperSegments(corpus) : ReportsLeast(segment)

ResultsInv == CachingInv /\ Reporting

LEMMA DistancesFixed ==
  ASSUME UNCHANGED inputs
  PROVE  /\ ProperSegments(corpus)' = ProperSegments(corpus)
         /\ \A c, s : /\ AnchoredAt(c, s)' = AnchoredAt(c, s)
                      /\ DistanceAt(c, s)' = DistanceAt(c, s)
<1>1. corpus' = corpus /\ query' = query /\ costs' = costs
  BY DEF inputs
<1>2. \A c, s : AnchoredAt(c, s)' = AnchoredAt(c, s)
  BY <1>1 DEF AnchoredAt, IsValid, Positions
<1>3. \A c, s : DistanceAt(c, s)' = DistanceAt(c, s)
  BY <1>1 DEF DistanceAt
<1>. QED  BY <1>1, <1>2, <1>3

(* The distances anchored at the candidates before the next one.           *)
LEMMA WithinByCandidate ==
  ASSUME NEW segment
  PROVE  /\ \A d \in Within(segment) :
               \E k \in 1 .. (next - 1) : /\ AnchoredAt(candidates[k], segment)
                                          /\ d = DistanceAt(candidates[k], segment)
                                          /\ d <= threshold
         /\ \A k \in 1 .. (next - 1) :
               AnchoredAt(candidates[k], segment) /\ DistanceAt(candidates[k], segment) <= threshold
                 => DistanceAt(candidates[k], segment) \in Within(segment)
<1>1. AnchoredDistances(segment) =
        {DistanceAt(candidates[k], segment) :
           k \in {k \in 1 .. (next - 1) : AnchoredAt(candidates[k], segment)}}
  BY DEF AnchoredDistances, DistanceAt
<1>. QED  BY <1>1 DEF Within

LEMMA WithinGrows ==
  ASSUME next \in Nat \ {0}, next' = next + 1, UNCHANGED <<inputs, candidates>>, NEW segment
  PROVE  Within(segment)' = Within(segment) \cup Adds(Current, segment)
<1>. DEFINE at(k) == AnchoredAt(candidates[k], segment)
            distance(k) == DistanceAt(candidates[k], segment)
<1>1. \A k : at(k)' = at(k) /\ distance(k)' = distance(k)
  BY DistancesFixed
<1>2. threshold' = threshold
  BY DEF inputs
<1>3. 1 .. (next' - 1) = (1 .. (next - 1)) \cup {next}
  OBVIOUS
<1>4. AnchoredDistances(segment) = {distance(k) : k \in {k \in 1 .. (next - 1) : at(k)}}
  BY DEF AnchoredDistances, DistanceAt
<1>5. AnchoredDistances(segment)' = {distance(k)' : k \in {k \in 1 .. (next' - 1) : at(k)'}}
  BY DEF AnchoredDistances, DistanceAt
<1>6. Adds(Current, segment) = {d \in {distance(next)} : at(next) /\ d <= threshold}
  BY DEF Adds, Current
<1>. HIDE DEF at, distance
<1>7. AnchoredDistances(segment)' = {distance(k) : k \in {k \in 1 .. (next' - 1) : at(k)}}
  BY <1>1, <1>5
<1>8. AnchoredDistances(segment)' = AnchoredDistances(segment) \cup {distance(k) : k \in {k \in {next} : at(k)}}
  BY <1>3, <1>4, <1>7
<1>. QED  BY <1>2, <1>6, <1>8 DEF Within

LEMMA WithinKept ==
  ASSUME UNCHANGED <<inputs, candidates, next>>, NEW segment
  PROVE  Within(segment)' = Within(segment)
<1>1. \A c, s : AnchoredAt(c, s)' = AnchoredAt(c, s) /\ DistanceAt(c, s)' = DistanceAt(c, s)
  BY DistancesFixed
<1>2. threshold' = threshold
  BY DEF inputs
<1>3. AnchoredDistances(segment) =
        {DistanceAt(candidates[k], segment) :
           k \in {k \in 1 .. (next - 1) : AnchoredAt(candidates[k], segment)}}
  BY DEF AnchoredDistances, DistanceAt
<1>4. AnchoredDistances(segment)' =
        {DistanceAt(candidates[k], segment)' :
           k \in {k \in 1 .. (next - 1) : AnchoredAt(candidates[k], segment)'}}
  BY DEF AnchoredDistances, DistanceAt
<1>. QED  BY <1>1, <1>2, <1>3, <1>4 DEF Within

LEMMA WithinPriced ==
  ASSUME InputsOK, HasNextUp(threshold), NEW V, NEW M, SumsAreExact(V, M),
         NEW segment \in ProperSegments(corpus)
  PROVE  /\ Within(segment) \in SUBSET Nat
         /\ \A candidate : AnchoredAt(candidate, segment) => DistanceAt(candidate, segment) \in Nat
<1>1. ASSUME NEW candidate, AnchoredAt(candidate, segment)
      PROVE  DistanceAt(candidate, segment) \in Nat
  <2>1. IsValid(candidate)
    BY <1>1 DEF AnchoredAt
  <2>. DEFINE b == candidate.position - 1 - segment[2]
              f == segment[3] - candidate.position
  <2>2. /\ b \in 0 .. Len(DataSide(candidate, "backward"))
        /\ f \in 0 .. Len(DataSide(candidate, "forward"))
        /\ segment = SegmentOf(candidate, b, f)
    BY <1>1, <2>1, SegmentsAt
  <2>. HIDE DEF b, f
  <2>. QED  BY <2>1, <2>2, ComputedDistancesAgree
<1>. QED  BY <1>1, WithinByCandidate

LEMMA LeastOfJoined ==
  ASSUME NEW S \in SUBSET Nat, S # {}, NEW a \in Nat
  PROVE  Min({a, Min(S)}) = Min(S \cup {a})
<1>. DEFINE m == Min(S)
            T == {a, m}
            U == S \cup {a}
<1>1. m \in S /\ m \in Nat /\ \A y \in S : m <= y
  BY MinIsLeast
<1>. HIDE DEF m
<1>2. T \in SUBSET Nat /\ T # {} /\ U \in SUBSET Nat /\ U # {}
  BY <1>1
<1>3. \A t \in T : t \in U
  BY <1>1
<1>4. a \in T /\ m \in T
  OBVIOUS
<1>5. \A u \in U : u = a \/ m <= u
  BY <1>1
<1>. HIDE DEF T, U
<1>6. Min(T) \in T /\ \A t \in T : Min(T) <= t
  BY <1>2, MinIsLeast
<1>7. Min(U) \in U /\ \A u \in U : Min(U) <= u
  BY <1>2, MinIsLeast
<1>8. Min(T) \in Nat /\ Min(U) \in Nat
  BY <1>2, <1>6, <1>7
<1>9. Min(U) <= Min(T)
  BY <1>3, <1>6, <1>7
<1>10. Min(T) <= Min(U)
  BY <1>1, <1>4, <1>5, <1>6, <1>7, <1>8
<1>11. Min(T) = Min(U)
  BY <1>8, <1>9, <1>10
<1>. QED  BY <1>11 DEF T, U, m

LEMMA LeastOfOne ==
  ASSUME NEW a \in Nat
  PROVE  Min({a}) = a
<1>. DEFINE S == {a}
<1>1. S \in SUBSET Nat /\ S # {}
  OBVIOUS
<1>. HIDE DEF S
<1>2. Min(S) \in S
  BY <1>1, MinIsLeast
<1>. QED  BY <1>2 DEF S

(* Two findings about one segment keep the lesser distance. *)
Merged(found, known, s) == Min({f[s] : f \in {g \in {found, known} : s \in DOMAIN g}})

Knows(known, s, S) == (s \in DOMAIN known <=> S # {}) /\ (S # {} => known[s] = Min(S))

Merges(found, known, s, S, T, a) ==
  /\ S \in SUBSET Nat /\ T \in SUBSET {a} /\ a \in Nat /\ S \cup T # {}
  /\ Knows(known, s, S) /\ Knows(found, s, T)

LEMMA MergedIsLeast ==
  ASSUME NEW found, NEW known, NEW s, NEW S, NEW T, NEW a, Merges(found, known, s, S, T, a)
  PROVE  Merged(found, known, s) = Min(S \cup T)
<1>. USE DEF Knows, Merges
<1>0. T # {} => found[s] = a
  <2>1. T # {} => T = {a}
    OBVIOUS
  <2>. QED  BY <2>1, LeastOfOne
<1>1. CASE T = {}
  <2>1. S \cup T = S /\ s \notin DOMAIN found /\ s \in DOMAIN known /\ known[s] = Min(S)
    BY <1>1
  <2>2. {f[s] : f \in {g \in {found, known} : s \in DOMAIN g}} = {Min(S)}
    BY <2>1
  <2>3. Min(S) \in Nat
    BY <1>1, MinIsLeast
  <2>. QED  BY <2>1, <2>2, <2>3, LeastOfOne DEF Merged
<1>2. CASE T # {} /\ S = {}
  <2>1. T = {a}
    BY <1>2
  <2>2. S \cup T = {a} /\ s \in DOMAIN found /\ s \notin DOMAIN known /\ found[s] = a
    BY <1>0, <1>2, <2>1
  <2>3. {f[s] : f \in {g \in {found, known} : s \in DOMAIN g}} = {a}
    BY <2>2
  <2>. QED  BY <2>2, <2>3, LeastOfOne DEF Merged
<1>3. CASE T # {} /\ S # {}
  <2>1. T = {a}
    BY <1>3
  <2>2. s \in DOMAIN found /\ s \in DOMAIN known /\ found[s] = a /\ known[s] = Min(S)
    BY <1>0, <1>3
  <2>3. {f[s] : f \in {g \in {found, known} : s \in DOMAIN g}} = {a, Min(S)}
    <3>1. {g \in {found, known} : s \in DOMAIN g} = {found, known}
      BY <2>2
    <3>. QED  BY <2>2, <3>1
  <2>. QED  BY <1>3, <2>1, <2>3, LeastOfJoined DEF Merged
<1>. QED  BY <1>1, <1>2, <1>3

(* Verifying a candidate reports what is anchored at it. *)
LEMMA VerifyingReports ==
  ASSUME ResultsInv, VerifyCandidate, NEW V, NEW M, SumsAreExact(V, M)
  PROVE  /\ substrings' = [s \in DOMAIN substrings' |-> substrings'[s]]
         /\ DOMAIN substrings' \in SUBSET ProperSegments(corpus)
         /\ \A segment \in ProperSegments(corpus) : ReportsLeast(segment)'
<1>. DEFINE results == Extension(Current).results
<1>1. /\ stage = "verifying" /\ next \in DOMAIN candidates /\ Admits(AnchorCost)
      /\ next' = next + 1 /\ UNCHANGED <<inputs, candidates>>
      /\ substrings' = [s \in DOMAIN results \cup DOMAIN substrings |-> Merged(results, substrings, s)]
  BY DEF VerifyCandidate, Merged
<1>2. InputsOK /\ HasNextUp(threshold) /\ IsValid(Current) /\ Cached
  BY <1>1, CurrentFacts DEF ResultsInv, CachingInv, SearchInv, LateStages, Filtered
<1>3. /\ DOMAIN results \in SUBSET ProperSegments(corpus)
      /\ \A segment \in ProperSegments(corpus) :
            segment \in DOMAIN results
              <=> AnchoredAt(Current, segment) /\ DistanceAt(Current, segment) <= threshold
      /\ \A segment \in DOMAIN results : results[segment] = DistanceAt(Current, segment)
  BY <1>1, <1>2, ResultsOfCandidate
<1>. HIDE DEF results
<1>4. DOMAIN substrings' = DOMAIN results \cup DOMAIN substrings
  BY <1>1
<1>5. DOMAIN substrings' \in SUBSET ProperSegments(corpus)
  BY <1>3, <1>4 DEF ResultsInv, Reporting
<1>6. ASSUME NEW segment \in ProperSegments(corpus)
      PROVE  ReportsLeast(segment)'
  <2>. DEFINE S == Within(segment)
              T == Adds(Current, segment)
              a == IF AnchoredAt(Current, segment) THEN DistanceAt(Current, segment) ELSE 0
  <2>1. S \in SUBSET Nat /\ a \in Nat
    BY <1>2, WithinPriced
  <2>2. Within(segment)' = S \cup T
    BY <1>1, WithinGrows DEF ResultsInv, Reporting
  <2>3. /\ T \in SUBSET {a} /\ segment \in DOMAIN results <=> T # {}
        /\ T # {} => results[segment] = a
    BY <1>3 DEF Adds
  <2>4. /\ segment \in DOMAIN substrings <=> S # {}
        /\ S # {} => substrings[segment] = Min(S)
    BY DEF ResultsInv, Reporting, ReportsLeast
  <2>. HIDE DEF S, T, a
  <2>5. segment \in DOMAIN substrings' <=> S \cup T # {}
    BY <1>4, <2>3, <2>4
  <2>6. ASSUME S \cup T # {}
        PROVE  substrings'[segment] = Min(S \cup T)
    <3>1. Merged(results, substrings, segment) = Min(S \cup T)
      <4>1. S \in SUBSET Nat /\ a \in Nat /\ T \in SUBSET {a}
        BY <2>1, <2>3
      <4>2. Knows(substrings, segment, S)
        BY <2>4 DEF Knows
      <4>3. T # {} => T = {a}
        BY <4>1
      <4>4. Knows(results, segment, T)
        BY <2>1, <2>3, <4>3, LeastOfOne DEF Knows
      <4>5. Merges(results, substrings, segment, S, T, a)
        BY <2>6, <4>1, <4>2, <4>4 DEF Merges
      <4>. QED  BY <4>5, MergedIsLeast
    <3>. QED  BY <1>1, <1>4, <2>5, <2>6, <3>1
  <2>. QED  BY <2>2, <2>5, <2>6 DEF ReportsLeast
<1>7. substrings' = [s \in DOMAIN substrings' |-> substrings'[s]]
  BY <1>1
<1>. QED  BY <1>5, <1>6, <1>7

(* A candidate that is skipped would have reported nothing. *)
LEMMA SkippingReports ==
  ASSUME ResultsInv, SkipCandidate, NEW V, NEW M, SumsAreExact(V, M)
  PROVE  /\ substrings' = [s \in DOMAIN substrings' |-> substrings'[s]]
         /\ DOMAIN substrings' \in SUBSET ProperSegments(corpus)
         /\ \A segment \in ProperSegments(corpus) : ReportsLeast(segment)'
<1>1. /\ stage = "verifying" /\ next \in DOMAIN candidates /\ ~Admits(PairCost(Current))
      /\ next' = next + 1 /\ UNCHANGED <<inputs, candidates>> /\ substrings' = substrings
  BY DEF SkipCandidate, AnchorCost, PairCost
<1>2. InputsOK /\ HasNextUp(threshold) /\ IsValid(Current)
  BY <1>1, CurrentFacts DEF ResultsInv, CachingInv, SearchInv, LateStages, Filtered
<1>3. ASSUME NEW segment \in ProperSegments(corpus)
      PROVE  ReportsLeast(segment)'
  <2>1. Adds(Current, segment) = {}
    BY <1>1, <1>2, SkippedIsFar DEF Adds
  <2>2. Within(segment)' = Within(segment)
    BY <1>1, <2>1, WithinGrows DEF ResultsInv, Reporting
  <2>. QED  BY <1>1, <2>2 DEF ResultsInv, Reporting, ReportsLeast
<1>. QED  BY <1>1, <1>3 DEF ResultsInv, Reporting

LEMMA NothingReportedYet == VerificationInit => Reporting
<1>. SUFFICES ASSUME VerificationInit PROVE Reporting
  OBVIOUS
<1>1. /\ next = 1 /\ DOMAIN substrings = {}
      /\ substrings = [s \in DOMAIN substrings |-> substrings[s]]
  BY DEF VerificationInit
<1>2. \A segment : Within(segment) = {}
  BY <1>1, WithinByCandidate
<1>. QED  BY <1>1, <1>2 DEF Reporting, ReportsLeast

LEMMA ResultsStep ==
  ASSUME ResultsInv, [Next]_vars, NEW V, NEW M, SumsAreExact(V, M)
  PROVE  ResultsInv'
<1>1. CachingInv'
  BY CachingStep DEF ResultsInv
<1>2. \/ VerifyCandidate
      \/ SkipCandidate
      \/ stage \in SelectionStages /\ UNCHANGED verificationVars
      \/ UNCHANGED <<inputs, candidates, verificationVars>>
  BY DEF vars, Next, FilteringNext, SelectionNext, RejectThreshold, Decline, StartAtDerivedRadius,
         Pick, SelectionSucceeds, SelectionFails, TryMiddle, SettleRadius, DeclineExpensive, Generate,
         VerificationNext, RejectCandidates, AcceptCandidates, Finish, SelectionStages, selectionState
<1>3. CASE VerifyCandidate
  <2>1. next' \in Nat \ {0} /\ ProperSegments(corpus)' = ProperSegments(corpus)
    BY <1>3 DEF ResultsInv, Reporting, VerifyCandidate, inputs
  <2>2. /\ substrings' = [s \in DOMAIN substrings' |-> substrings'[s]]
        /\ DOMAIN substrings' \in SUBSET ProperSegments(corpus)
        /\ \A segment \in ProperSegments(corpus) : ReportsLeast(segment)'
    BY <1>3, VerifyingReports
  <2>. QED  BY <1>1, <2>1, <2>2 DEF ResultsInv, Reporting
<1>4. CASE SkipCandidate
  <2>1. next' \in Nat \ {0} /\ ProperSegments(corpus)' = ProperSegments(corpus)
    BY <1>4 DEF ResultsInv, Reporting, SkipCandidate, inputs
  <2>2. /\ substrings' = [s \in DOMAIN substrings' |-> substrings'[s]]
        /\ DOMAIN substrings' \in SUBSET ProperSegments(corpus)
        /\ \A segment \in ProperSegments(corpus) : ReportsLeast(segment)'
    BY <1>4, SkippingReports
  <2>. QED  BY <1>1, <2>1, <2>2 DEF ResultsInv, Reporting
<1>5. CASE stage \in SelectionStages /\ UNCHANGED verificationVars
  <2>1. VerificationInit'
    BY <1>5 DEF ResultsInv, CachingInv, SearchInv, VerificationInit, verificationVars
  <2>2. VerificationInit' => Reporting'
    BY NothingReportedYet, PTL
  <2>. QED  BY <1>1, <2>1, <2>2 DEF ResultsInv
<1>6. CASE UNCHANGED <<inputs, candidates, verificationVars>>
  <2>1. UNCHANGED <<inputs, candidates, next>> /\ substrings' = substrings
    BY <1>6 DEF verificationVars
  <2>2. \A segment : Within(segment)' = Within(segment)
    BY <2>1, WithinKept
  <2>3. ProperSegments(corpus)' = ProperSegments(corpus)
    BY <2>1 DEF inputs
  <2>. QED  BY <1>1, <2>1, <2>2, <2>3 DEF ResultsInv, Reporting, ReportsLeast
<1>. QED  BY <1>2, <1>3, <1>4, <1>5, <1>6

LEMMA ResultsInvariant ==
  ASSUME NEW V, NEW M, SumsAreExact(V, M)
  PROVE  Spec => []ResultsInv
<1>1. Init => ResultsInv
  <2>. SUFFICES ASSUME Init PROVE ResultsInv
    OBVIOUS
  <2>1. VerificationInit
    BY DEF Init
  <2>2. CachingInv
    BY CachingAtStart
  <2>. QED  BY <2>1, <2>2, NothingReportedYet DEF ResultsInv
<1>2. ResultsInv /\ [Next]_vars => ResultsInv'
  BY ResultsStep
<1>. QED  BY <1>1, <1>2, PTL DEF Spec

(* Neither pruning nor the caches show in the results: they are the        *)
(* segments within the threshold of an alignment anchored at a candidate,  *)
(* each with the least such distance.                                      *)
THEOREM SearchResultsAreAnchored ==
  ASSUME NEW V, NEW M, SumsAreExact(V, M)
  PROVE  Spec => []ResultsAreAnchored
<1>1. ASSUME ResultsInv PROVE ResultsAreAnchored
  <2>1. ASSUME NEW segment \in ProperSegments(corpus)
        PROVE  LET within == {d \in AnchoredDistances(segment) : d <= threshold}
               IN  /\ segment \in DOMAIN substrings <=> within # {}
                   /\ within # {} => substrings[segment] = Min(within)
    BY <1>1 DEF ResultsInv, Reporting, ReportsLeast, Within
  <2>. QED  BY <2>1 DEF ResultsAreAnchored
<1>. QED  BY ResultsInvariant, <1>1, PTL

------------------------------------------------------------------------------
(***************************************************************************)
(* 13. The promise: what a search is to its caller.                        *)
(***************************************************************************)
(* A segment: where it lies, and its word. *)
LEMMA SegmentFacts ==
  ASSUME InputsOK, NEW segment \in ProperSegments(corpus)
  PROVE  /\ segment[1] \in DOMAIN corpus
         /\ segment[2] \in Nat /\ segment[3] \in Nat
         /\ segment[2] < segment[3] /\ segment[3] <= Len(corpus[segment[1]])
         /\ Word(corpus, segment) \in Seq(Symbols)
         /\ Len(Word(corpus, segment)) = segment[3] - segment[2]
<1>0. PICK id \in DOMAIN corpus :
        segment \in {<<id, b, e>> : b \in 0 .. Len(corpus[id]), e \in 1 .. Len(corpus[id])}
  BY DEF ProperSegments, Segments
<1>1. PICK b \in 0 .. Len(corpus[id]), e \in 1 .. Len(corpus[id]) :
        segment = <<id, b, e>> /\ b < e
  BY <1>0 DEF ProperSegments
<1>2. corpus[id] \in Seq(Symbols) /\ Len(corpus[id]) \in Nat
  BY InputTypes
<1>3. segment[1] = id /\ segment[2] = b /\ segment[3] = e
  BY <1>1
<1>4. Word(corpus, segment) = SubSeq(corpus[id], b + 1, e)
  BY <1>3 DEF Word
<1>. DEFINE s == corpus[id]
<1>. HIDE DEF s
<1>5. SubSeq(s, b + 1, e) \in Seq(Symbols) /\ Len(SubSeq(s, b + 1, e)) = e - b
  <2>1. s \in Seq(Symbols) /\ b \in 0 .. Len(s) /\ e \in 1 .. Len(s) /\ b < e /\ Len(s) \in Nat
    BY <1>1, <1>2 DEF s
  <2>. QED  BY <2>1
<1>6. b \in Nat /\ e \in Nat /\ b < e /\ e <= Len(corpus[id])
  BY <1>1, <1>2
<1>7. Word(corpus, segment) \in Seq(Symbols) /\ Len(Word(corpus, segment)) = e - b
  BY <1>4, <1>5 DEF s
<1>. QED  BY <1>3, <1>6, <1>7

(* Alignments have prices, and the weighted edit distance is the least.    *)
LEMMA DistanceIsAttained ==
  ASSUME NEW Q, NEW c, Policy(c, Q), NEW q \in Seq(Q), NEW w \in Seq(Q)
  PROVE  /\ \A a \in AllAlignments(q, w) : AlignmentCost(c, q, w, a) \in Nat
         /\ WeightedEditDistance(c, q, w) \in Nat
         /\ \A a \in AllAlignments(q, w) : WeightedEditDistance(c, q, w) <= AlignmentCost(c, q, w, a)
         /\ \E a \in AllAlignments(q, w) : AlignmentCost(c, q, w, a) = WeightedEditDistance(c, q, w)
<1>. DEFINE n == Len(q)
            m == Len(w)
            z == Prices(c, q, w)
            D == {AlignmentCost(c, q, w, a) : a \in AllAlignments(q, w)}
<1>1. n \in Nat /\ m \in Nat /\ AllAlignments(q, w) = Alignments(n, m)
  BY DEF AllAlignments
<1>2. Priced(z, 1 .. n, 1 .. m)
  BY PricesOfPolicy
<1>3. \A a \in AllAlignments(q, w) : AlignmentCost(c, q, w, a) \in Nat
  <2>. SUFFICES ASSUME NEW a \in AllAlignments(q, w) PROVE AlignmentCost(c, q, w, a) \in Nat
    OBVIOUS
  <2>1. AlignmentCost(c, q, w, a) = ChainCost(z, 1 .. n, 1 .. m, Pairs(a))
    BY AlignmentCosts
  <2>. HIDE DEF n, m, z
  <2>2. Pairs(a) \in ChainsOn(1 .. n, 1 .. m)
    BY <1>1, AlignmentIsChain
  <2>3. Pairs(a) \in SUBSET ((1 .. n) \X (1 .. m))
    BY <2>2 DEF ChainsOn
  <2>4. ChainCost(z, 1 .. n, 1 .. m, Pairs(a)) \in Nat
    BY <1>2, <2>3, ChainTypes
  <2>. QED  BY <2>1, <2>4
<1>4. \E a : a \in AllAlignments(q, w)
  <2>1. {} \in ChainsOn(1 .. n, 1 .. m)
    BY DEF ChainsOn, Chain
  <2>. HIDE DEF n, m
  <2>2. <<Lefts({}), Rights({})>> \in Alignments(n, m)
    BY <1>1, <2>1, ChainIsAlignment
  <2>. QED  BY <1>1, <2>2
<1>5. D \in SUBSET Nat /\ D # {}
  BY <1>3, <1>4
<1>6. Min(D) \in D /\ \A d \in D : Min(D) <= d
  <2>. HIDE DEF D
  <2>. QED  BY <1>5, MinIsLeast
<1>7. WeightedEditDistance(c, q, w) = Min(D)
  BY DEF WeightedEditDistance
<1>. QED  BY <1>3, <1>5, <1>6, <1>7

LEMMA AnchoredIsAttained ==
  ASSUME NEW Q, NEW c, Policy(c, Q), NEW q \in Seq(Q), NEW w \in Seq(Q),
         NEW i \in 1 .. Len(q), NEW j \in 1 .. Len(w)
  PROVE  /\ \E a \in AllAlignments(q, w) : AlignmentCost(c, q, w, a) = AnchoredDistance(c, q, w, i, j)
         /\ \A a \in AllAlignments(q, w) :
               <<i, j>> \in Pairs(a) => AnchoredDistance(c, q, w, i, j) <= AlignmentCost(c, q, w, a)
<1>. DEFINE n == Len(q)
            m == Len(w)
            A == {b \in AllAlignments(q, w) : <<i, j>> \in Pairs(b)}
            D == {AlignmentCost(c, q, w, a) : a \in A}
<1>1. n \in Nat /\ m \in Nat /\ AllAlignments(q, w) = Alignments(n, m)
  BY DEF AllAlignments
<1>2. A # {}
  <2>. DEFINE P == {<<i, j>>}
  <2>1. P \in ChainsOn(1 .. n, 1 .. m)
    <3>1. P \in SUBSET ((1 .. n) \X (1 .. m))
      OBVIOUS
    <3>2. Chain(P)
      BY DEF Chain
    <3>. QED  BY <3>1, <3>2 DEF ChainsOn
  <2>2. <<i, j>> \in P
    OBVIOUS
  <2>. HIDE DEF n, m, P
  <2>3. /\ <<Lefts(P), Rights(P)>> \in Alignments(n, m)
        /\ Pairs(<<Lefts(P), Rights(P)>>) = P
    BY <1>1, <2>1, ChainIsAlignment
  <2>. QED  BY <1>1, <2>2, <2>3
<1>3. \A a \in AllAlignments(q, w) : AlignmentCost(c, q, w, a) \in Nat
  BY DistanceIsAttained
<1>4. D \in SUBSET Nat /\ D # {}
  BY <1>2, <1>3
<1>5. Min(D) \in D /\ \A d \in D : Min(D) <= d
  <2>. HIDE DEF D
  <2>. QED  BY <1>4, MinIsLeast
<1>6. AnchoredDistance(c, q, w, i, j) = Min(D)
  BY DEF AnchoredDistance
<1>. QED  BY <1>5, <1>6

------------------------------------------------------------------------------
(* A segment's distance, by definition. *)
Exact(segment) == WeightedEditDistance(costs, query, Word(corpus, segment))

LEMMA AnchoredIsFarther ==
  ASSUME InputsOK, NEW V, NEW M, SumsAreExact(V, M), NEW segment \in ProperSegments(corpus),
         NEW candidate, AnchoredAt(candidate, segment)
  PROVE  /\ Exact(segment) <= DistanceAt(candidate, segment)
         /\ \A a \in AllAlignments(query, Word(corpus, segment)) :
               <<candidate.query, candidate.position - segment[2]>> \in Pairs(a) =>
                  DistanceAt(candidate, segment) <= AlignmentCost(costs, query, Word(corpus, segment), a)
<1>. DEFINE w == Word(corpus, segment)
            i == candidate.query
            j == candidate.position - segment[2]
<1>1. /\ query \in Seq(Symbols) /\ Policy(costs, Symbols)
      /\ w \in Seq(Symbols) /\ Len(w) = segment[3] - segment[2]
      /\ segment[2] \in Nat /\ segment[3] \in Nat
  BY InputTypes, CostsAreExact, SegmentFacts
<1>2. i \in 1 .. Len(query) /\ j \in 1 .. Len(w)
  BY <1>1 DEF AnchoredAt, IsValid, Positions
<1>3. DistanceAt(candidate, segment) = AnchoredDistance(costs, query, w, i, j)
  BY DEF DistanceAt
<1>4. Exact(segment) = WeightedEditDistance(costs, query, w)
  BY DEF Exact
<1>. HIDE DEF w, i, j
<1>5. \A a \in AllAlignments(query, w) : WeightedEditDistance(costs, query, w) <= AlignmentCost(costs, query, w, a)
  BY <1>1, DistanceIsAttained
<1>6. /\ \E a \in AllAlignments(query, w) : AlignmentCost(costs, query, w, a) = AnchoredDistance(costs, query, w, i, j)
      /\ \A a \in AllAlignments(query, w) :
            <<i, j>> \in Pairs(a) => AnchoredDistance(costs, query, w, i, j) <= AlignmentCost(costs, query, w, a)
  BY <1>1, <1>2, AnchoredIsAttained
<1>. QED  BY <1>3, <1>4, <1>5, <1>6 DEF w, i, j

(* Once every candidate was processed, the results are exact: no match was *)
(* filtered out, and the candidate it left is anchored where its best      *)
(* alignment is.                                                           *)
LEMMA WithinIsExact ==
  ASSUME ResultsInv, stage = "verifying", next \notin DOMAIN candidates, NEW V, NEW M, SumsAreExact(V, M),
         NEW segment \in ProperSegments(corpus)
  PROVE  /\ Within(segment) # {} <=> Exact(segment) <= threshold
         /\ Within(segment) # {} => Min(Within(segment)) = Exact(segment)
<1>. DEFINE w == Word(corpus, segment)
<1>1. /\ SearchInv /\ InputsOK /\ HasNextUp(threshold) /\ WithinLimit
      /\ candidates = GeneratedCandidates /\ chosen.picked \in Seq(Positions)
  BY DEF ResultsInv, CachingInv, SearchInv, LateStages, Filtered
<1>2. candidates \in Seq(Anchored)
  BY <1>1, CandidatesGenerated
<1>3. DOMAIN candidates \in SUBSET (1 .. (next - 1))
  <2>1. next \in Nat \ {0}
    BY DEF ResultsInv, Reporting
  <2>2. DOMAIN candidates = 1 .. Len(candidates) /\ Len(candidates) \in Nat
    BY <1>2
  <2>. QED  BY <2>1, <2>2
<1>4. Within(segment) \in SUBSET Nat
  BY <1>1, WithinPriced
<1>5. ASSUME NEW d \in Within(segment)
      PROVE  Exact(segment) <= d /\ d <= threshold
  <2>1. PICK k \in 1 .. (next - 1) : /\ AnchoredAt(candidates[k], segment)
                                     /\ d = DistanceAt(candidates[k], segment)
                                     /\ d <= threshold
    BY WithinByCandidate
  <2>2. Exact(segment) <= DistanceAt(candidates[k], segment)
    BY <1>1, <2>1, AnchoredIsFarther
  <2>. QED  BY <2>1, <2>2
<1>6. /\ w \in Seq(Symbols) /\ query \in Seq(Symbols) /\ Policy(costs, Symbols) /\ threshold \in Nat
      /\ Len(w) = segment[3] - segment[2]
      /\ segment[2] \in Nat /\ segment[3] \in Nat
  BY <1>1, InputTypes, CostsAreExact, SegmentFacts, CostAssumption
<1>. HIDE DEF w
<1>7. Exact(segment) \in Nat
  BY <1>6, DistanceIsAttained DEF Exact, w
<1>8. ASSUME Exact(segment) <= threshold
      PROVE  Exact(segment) \in Within(segment)
  <2>1. PICK a \in AllAlignments(query, w) : AlignmentCost(costs, query, w, a) = Exact(segment)
    BY <1>6, DistanceIsAttained DEF Exact, w
  <2>2. PICK k \in DOMAIN candidates, pair \in Pairs(a) :
          candidates[k] = [string   |-> segment[1],
                           position |-> segment[2] + pair[2],
                           query    |-> pair[1]]
    BY <1>1, <1>8, <2>1, NothingIsFilteredOut DEF w
  <2>3. pair \in (1 .. Len(query)) \X (1 .. Len(w))
    <3>1. a \in Alignments(Len(query), Len(w)) /\ Len(query) \in Nat /\ Len(w) \in Nat
      BY <1>6 DEF AllAlignments
    <3>2. Pairs(a) \in ChainsOn(1 .. Len(query), 1 .. Len(w))
      BY <3>1, AlignmentIsChain
    <3>. QED  BY <3>2 DEF ChainsOn
  <2>4. pair[1] \in 1 .. Len(query) /\ pair[2] \in 1 .. Len(w) /\ pair = <<pair[1], pair[2]>>
    BY <2>3
  <2>5. IsValid(candidates[k])
    BY <1>1, <1>2, AnchoredAreValid
  <2>6. /\ candidates[k].string = segment[1]
        /\ candidates[k].position = segment[2] + pair[2]
        /\ candidates[k].query = pair[1]
    BY <2>2
  <2>7. AnchoredAt(candidates[k], segment)
    BY <1>6, <2>4, <2>5, <2>6 DEF AnchoredAt
  <2>8. <<candidates[k].query, candidates[k].position - segment[2]>> \in Pairs(a)
    <3>1. candidates[k].position - segment[2] = pair[2]
      BY <1>6, <2>4, <2>6
    <3>. QED  BY <2>4, <2>6, <3>1
  <2>9. DistanceAt(candidates[k], segment) <= Exact(segment)
    BY <1>1, <2>1, <2>7, <2>8, AnchoredIsFarther DEF w
  <2>10. Exact(segment) <= DistanceAt(candidates[k], segment) /\ DistanceAt(candidates[k], segment) \in Nat
    BY <1>1, <2>7, AnchoredIsFarther, WithinPriced
  <2>11. DistanceAt(candidates[k], segment) = Exact(segment)
    BY <1>7, <2>9, <2>10
  <2>. QED  BY <1>3, <1>8, <2>2, <2>7, <2>11, WithinByCandidate
<1>9. Within(segment) # {} => Min(Within(segment)) \in Within(segment) /\ \A d \in Within(segment) : Min(Within(segment)) <= d
  BY <1>4, MinIsLeast
<1>10. \A d \in Within(segment) : d \in Nat
  BY <1>4
<1>. HIDE DEF Within, Exact
<1>11. Within(segment) # {} <=> Exact(segment) <= threshold
  BY <1>5, <1>6, <1>7, <1>8, <1>10
<1>12. ASSUME Within(segment) # {} PROVE Min(Within(segment)) = Exact(segment)
  <2>1. Exact(segment) \in Within(segment)
    BY <1>8, <1>11, <1>12
  <2>2. /\ Min(Within(segment)) \in Nat /\ Min(Within(segment)) <= Exact(segment)
        /\ Exact(segment) <= Min(Within(segment))
    BY <1>5, <1>9, <1>10, <1>12, <2>1
  <2>. QED  BY <1>7, <2>2
<1>. QED  BY <1>11, <1>12

(* The operators of the promise are those of the search. *)
LEMMA PromisedOperators ==
  /\ \A S : Promise!Min(S) = Min(S)
  /\ \A f : Promise!SumFunction(f) = SumFunction(f)
  /\ \A n, m : Promise!Alignments(n, m) = Alignments(n, m)
  /\ \A a : Promise!Pairs(a) = Pairs(a)
  /\ \A strings : Promise!ProperSegments(strings) = ProperSegments(strings)
  /\ \A strings, s : Promise!Word(strings, s) = Word(strings, s)
<1>1. \A S : Promise!Min(S) = Min(S)
  BY DEF Promise!Min, Min
<1>2. \A f : Promise!SumFunction(f) = SumFunction(f)
  BY DEF Promise!SumFunction, SumFunction, Promise!SumFunctionOnSet, SumFunctionOnSet, Promise!FoldFunctionOnSet, FoldFunctionOnSet, Promise!MapThenFoldSet, MapThenFoldSet
<1>3. \A n, m : Promise!Alignments(n, m) = Alignments(n, m)
  BY DEF Promise!Alignments, Alignments, Promise!Cardinality, Cardinality
<1>4. \A a : Promise!Pairs(a) = Pairs(a)
  BY DEF Promise!Pairs, Pairs, Promise!Rank, Rank, Promise!Cardinality, Cardinality
<1>5. \A strings : Promise!ProperSegments(strings) = ProperSegments(strings)
  BY DEF Promise!ProperSegments, ProperSegments, Promise!Segments, Segments
<1>6. \A strings, s : Promise!Word(strings, s) = Word(strings, s)
  BY DEF Promise!Word, Word
<1>. QED  BY <1>1, <1>2, <1>3, <1>4, <1>5, <1>6

LEMMA PromisedDistance ==
  \A c, q, w : Promise!WeightedEditDistance(c, q, w) = WeightedEditDistance(c, q, w)
<1>. SUFFICES ASSUME NEW c, NEW q, NEW w
              PROVE  Promise!WeightedEditDistance(c, q, w) = WeightedEditDistance(c, q, w)
  OBVIOUS
<1>1. \A a : Promise!AlignmentCost(c, q, w, a) = AlignmentCost(c, q, w, a)
  BY PromisedOperators DEF Promise!AlignmentCost, AlignmentCost
<1>2. Promise!AllAlignments(q, w) = AllAlignments(q, w)
  BY PromisedOperators DEF Promise!AllAlignments, AllAlignments
<1>. DEFINE D == {AlignmentCost(c, q, w, a) : a \in AllAlignments(q, w)}
            E == {Promise!AlignmentCost(c, q, w, a) : a \in Promise!AllAlignments(q, w)}
<1>3. D = E
  BY <1>1, <1>2
<1>4. WeightedEditDistance(c, q, w) = Min(D) /\ Promise!WeightedEditDistance(c, q, w) = Promise!Min(E)
  BY DEF WeightedEditDistance, Promise!WeightedEditDistance
<1>. QED  BY <1>3, <1>4, PromisedOperators

LEMMA PromisedMatches ==
  Promise!ExactMatches =
    [segment \in {s \in ProperSegments(corpus) : Exact(s) <= threshold} |-> Exact(segment)]
<1>1. \A s : Promise!DistanceOf(s) = Exact(s)
  BY PromisedOperators, PromisedDistance DEF Promise!DistanceOf, Exact
<1>2. Promise!ProperSegments(corpus) = ProperSegments(corpus)
  BY PromisedOperators
<1>. QED  BY <1>1, <1>2 DEF Promise!ExactMatches

(* The threshold admits deleting the whole query, summed up one way or the *)
(* other.                                                                  *)
LEMMA DeletionsAdmitted ==
  ASSUME InputsOK, HasNextUp(threshold), NEW V, NEW M, SumsAreExact(V, M)
  PROVE  /\ Promise!DeletionCost \in Nat
         /\ Admits(SumOver(Deletions, Positions)) <=> Promise!DeletionCost <= threshold
<1>. DEFINE f == [i \in DOMAIN query |-> costs.deletion[query[i]]]
<1>1. /\ query \in Seq(Symbols) /\ Positions = 1 .. Len(query) /\ DOMAIN query = Positions
      /\ Len(query) \in Nat /\ IsFiniteSet(Positions)
  BY InputTypes, InitialSegment DEF Positions
<1>2. \A i \in Positions : query[i] \in Symbols
  BY <1>1
<1>3. Deletions \in [Positions -> Cost] /\ \A i \in Positions : Deletions[i] \in V /\ Deletions[i] \in Nat /\ Deletions[i] = f[i]
  <2>1. costs.deletion \in [Symbols -> Cost]
    BY InputsAssumption DEF InputsOK
  <2>2. \A i \in Positions : /\ Deletions[i] = Delete(query[i]) /\ f[i] = Delete(query[i])
                             /\ Delete(query[i]) \in Cost
    BY <1>1, <1>2, <2>1 DEF Deletions, Delete
  <2>3. \A i \in Positions : Delete(query[i]) \in V /\ Delete(query[i]) \in Nat
    BY <1>2, CostsAreExact
  <2>. QED  BY <2>2, <2>3 DEF Deletions
<1>4. Promise!DeletionCost = SumFunction(f)
  BY PromisedOperators DEF Promise!DeletionCost
<1>5. SumFunction(f) = Total(Deletions, Positions)
  <2>1. DOMAIN f = Positions
    BY <1>1
  <2>. HIDE DEF f
  <2>. QED  BY <1>1, <1>3, <2>1, SumOfPart
<1>6. /\ SumOver(Deletions, Positions) \in V
      /\ Agree(SumOver(Deletions, Positions), Total(Deletions, Positions), M)
      /\ Total(Deletions, Positions) \in Nat
  BY <1>3, SumsAgree
<1>7. Admits(SumOver(Deletions, Positions)) <=> Total(Deletions, Positions) <= threshold
  BY <1>6, ExactlyAdmitted
<1>. QED  BY <1>4, <1>5, <1>6, <1>7

Status  == IF stage \in Outcomes THEN stage ELSE "pending"
Matches == IF stage = "answered" THEN substrings ELSE <<>>

Responds(outcome, found) ==
  /\ Status = "pending" /\ Status' = outcome /\ Matches' = found /\ UNCHANGED inputs

LEMMA PromisedActions ==
  /\ Promise!Answer <=>
       threshold < Promise!DeletionCost /\ Responds("answered", Promise!ExactMatches)
  /\ Promise!Decline <=> threshold >= Promise!DeletionCost /\ Responds("unavailable", <<>>)
  /\ Promise!DeclineExpensive <=> /\ limit # Unlimited /\ threshold < Promise!DeletionCost
                                  /\ Responds("expensive", <<>>)
  /\ Promise!Reject <=> threshold = MaxCost /\ Responds("invalid", <<>>)
BY DEF Promise!Answer, Promise!Decline, Promise!DeclineExpensive, Promise!Reject,
       Promise!Respond, Promise!inputs, inputs, Responds, Status, Matches

LEMMA StatusOfStage ==
  /\ stage \notin Outcomes => Status = "pending" /\ Matches = <<>>
  /\ stage \in Outcomes => Status = stage
  /\ stage # "answered" => Matches = <<>>
  /\ stage = "answered" => Matches = substrings
BY DEF Status, Matches, Outcomes

LEMMA StatusOfNextStage ==
  /\ stage' \notin Outcomes => Status' = "pending" /\ Matches' = <<>>
  /\ stage' \in Outcomes => Status' = stage'
  /\ stage' # "answered" => Matches' = <<>>
  /\ stage' = "answered" => Matches' = substrings'
BY DEF Status, Matches, Outcomes

(* Between the call and its return, the caller sees nothing.               *)
LEMMA HiddenSteps ==
  ASSUME UNCHANGED inputs, stage \notin Outcomes, stage' \notin Outcomes
  PROVE  UNCHANGED <<inputs, Status, Matches>>
BY StatusOfStage, StatusOfNextStage

LEMMA RejectingResponds ==
  ASSUME RejectThreshold
  PROVE  Promise!Reject
<1>1. stage = "checking" /\ stage' = "invalid" /\ UNCHANGED inputs /\ threshold = MaxCost
  BY DEF RejectThreshold, HasNextUp
<1>2. Responds("invalid", <<>>)
  BY <1>1, StatusOfStage, StatusOfNextStage DEF Responds, Outcomes
<1>. QED  BY <1>1, <1>2, PromisedActions

LEMMA DecliningResponds ==
  ASSUME ResultsInv, ResultsInv', stage \notin Outcomes, stage' = "unavailable", UNCHANGED inputs,
         NEW V, NEW M, SumsAreExact(V, M)
  PROVE  Promise!Decline
<1>1. SelectionInv'
  BY DEF ResultsInv, CachingInv, SearchInv, SelectionStages
<1>2. InputsOK' /\ HasNextUp(threshold)' /\ Admits(SumOver(Deletions, Positions))'
  BY <1>1 DEF SelectionInv, SelectionTypeOK, Admissible, UnavailableOnlyIfDeletionsAdmitted
<1>3. InputsOK /\ HasNextUp(threshold)
  BY <1>2, InputsFixed
<1>4. Admits(SumOver(Deletions, Positions))
  BY <1>2, DeletionsFixed DEF AnyRadiusCanSelect
<1>5. threshold >= Promise!DeletionCost
  BY <1>3, <1>4, DeletionsAdmitted, InputTypes, CostAssumption
<1>6. Responds("unavailable", <<>>)
  BY StatusOfStage, StatusOfNextStage DEF Responds, Outcomes
<1>. QED  BY <1>5, <1>6, PromisedActions

LEMMA DeletionsRefused ==
  ASSUME Filtered, NEW V, NEW M, SumsAreExact(V, M)
  PROVE  threshold < Promise!DeletionCost
<1>1. InputsOK /\ HasNextUp(threshold) /\ ~Admits(SumOver(Deletions, Positions))
  BY DEF Filtered, AnyRadiusCanSelect
<1>2. Promise!DeletionCost \in Nat /\ ~(Promise!DeletionCost <= threshold)
  BY <1>1, DeletionsAdmitted
<1>3. threshold \in Nat
  BY <1>1, InputTypes, CostAssumption
<1>. QED  BY <1>2, <1>3

LEMMA LimitResponds ==
  ASSUME ResultsInv, DeclineExpensive, NEW V, NEW M, SumsAreExact(V, M)
  PROVE  Promise!DeclineExpensive
<1>1. stage = "counting" /\ ~WithinLimit /\ stage' = "expensive" /\ UNCHANGED inputs
  BY DEF DeclineExpensive
<1>2. Filtered
  BY <1>1, CountingIsFiltered DEF ResultsInv, CachingInv, SearchInv, SelectionStages, LateStages
<1>4. threshold < Promise!DeletionCost
  BY <1>2, DeletionsRefused
<1>5. limit # Unlimited
  BY <1>1 DEF WithinLimit
<1>6. Responds("expensive", <<>>)
  BY <1>1, StatusOfStage, StatusOfNextStage DEF Responds, Outcomes
<1>. QED  BY <1>4, <1>5, <1>6, PromisedActions

(* The results are the exact matches when verification ends. *)
LEMMA ReportIsExact ==
  ASSUME ResultsInv, stage = "verifying", next \notin DOMAIN candidates, NEW V, NEW M, SumsAreExact(V, M)
  PROVE  substrings = Promise!ExactMatches
<1>. DEFINE D == {s \in ProperSegments(corpus) : Exact(s) <= threshold}
<1>1. /\ substrings = [s \in DOMAIN substrings |-> substrings[s]]
      /\ DOMAIN substrings \in SUBSET ProperSegments(corpus)
      /\ \A segment \in ProperSegments(corpus) : ReportsLeast(segment)
  BY DEF ResultsInv, Reporting
<1>2. \A s \in ProperSegments(corpus) :
         /\ s \in DOMAIN substrings <=> Exact(s) <= threshold
         /\ s \in DOMAIN substrings => substrings[s] = Exact(s)
  BY <1>1, WithinIsExact DEF ReportsLeast
<1>3. DOMAIN substrings = D
  BY <1>1, <1>2
<1>4. \A s \in D : substrings[s] = Exact(s)
  BY <1>2
<1>. HIDE DEF D
<1>5. substrings = [segment \in D |-> Exact(segment)]
  BY <1>1, <1>3, <1>4
<1>. QED  BY <1>5, PromisedMatches DEF D

LEMMA FinishingResponds ==
  ASSUME ResultsInv, Finish, NEW V, NEW M, SumsAreExact(V, M)
  PROVE  Promise!Answer
<1>1. /\ stage = "verifying" /\ next \notin DOMAIN candidates /\ stage' = "answered" /\ UNCHANGED inputs
      /\ substrings' = substrings
  BY DEF Finish, verificationVars
<1>2. Filtered
  BY <1>1 DEF ResultsInv, CachingInv, SearchInv, LateStages
<1>3. threshold < Promise!DeletionCost
  BY <1>2, DeletionsRefused
<1>4. substrings' = Promise!ExactMatches
  BY <1>1, ReportIsExact
<1>. HIDE DEF Promise!ExactMatches
<1>5. Responds("answered", Promise!ExactMatches)
  BY <1>1, <1>4, StatusOfStage, StatusOfNextStage DEF Responds, Outcomes
<1>. QED  BY <1>3, <1>5, PromisedActions

(* Candidates that filtering generated are never found invalid. *)
LEMMA NothingIsRejected ==
  ASSUME ResultsInv
  PROVE  ~RejectCandidates
<1>. SUFFICES ASSUME RejectCandidates PROVE FALSE
  OBVIOUS
<1>1. stage = "validating"
  BY DEF RejectCandidates
<1>2. InputsOK /\ candidates = GeneratedCandidates /\ chosen.picked \in Seq(Positions)
  BY <1>1 DEF ResultsInv, CachingInv, SearchInv, LateStages, Filtered
<1>3. candidates \in Seq(Anchored)
  BY <1>2, CandidatesGenerated
<1>4. \A k \in DOMAIN candidates : IsValid(candidates[k])
  BY <1>2, <1>3, AnchoredAreValid
<1>. QED  BY <1>4 DEF RejectCandidates

LEMMA MappedStep ==
  ASSUME ResultsInv, ResultsInv', [Next]_vars, NEW V, NEW M, SumsAreExact(V, M)
  PROVE  Promise!Next \/ UNCHANGED <<inputs, Status, Matches>>
<1>1. CASE UNCHANGED vars
  BY <1>1 DEF vars, selectionState, verificationVars, Status, Matches
<1>2. CASE RejectThreshold
  BY <1>2, RejectingResponds DEF Promise!Next
<1>3. CASE Decline \/ SettleRadius
  <2>1. stage \notin Outcomes /\ UNCHANGED inputs /\ stage' \in {"unavailable", "counting"}
    BY <1>3 DEF Decline, SettleRadius, Outcomes
  <2>2. CASE stage' = "unavailable"
    BY <2>1, <2>2, DecliningResponds DEF Promise!Next
  <2>3. CASE stage' = "counting"
    BY <2>1, <2>3, HiddenSteps DEF Outcomes
  <2>. QED  BY <2>1, <2>2, <2>3
<1>4. CASE DeclineExpensive
  BY <1>4, LimitResponds DEF Promise!Next
<1>5. CASE Finish
  BY <1>5, FinishingResponds DEF Promise!Next
<1>6. CASE \/ StartAtDerivedRadius \/ Pick \/ SelectionSucceeds \/ SelectionFails \/ TryMiddle
           \/ Generate \/ AcceptCandidates \/ SkipCandidate \/ VerifyCandidate
  <2>1. UNCHANGED inputs /\ stage \notin Outcomes /\ stage' \notin Outcomes
    BY <1>6 DEF StartAtDerivedRadius, Start, Pick, SelectionSucceeds, SelectionFails, TryMiddle,
                Generate, AcceptCandidates, SkipCandidate, VerifyCandidate, Outcomes
  <2>. QED  BY <2>1, HiddenSteps
<1>. QED
  BY <1>1, <1>2, <1>3, <1>4, <1>5, <1>6, NothingIsRejected
     DEF Next, FilteringNext, SelectionNext, VerificationNext

(* A search on a built engine keeps the promise of the documentation: it   *)
(* returns every segment within the threshold and nothing else, each with  *)
(* its weighted edit distance, or declines for a documented reason.        *)
THEOREM SearchKeepsItsPromise ==
  ASSUME NEW V, NEW M, SumsAreExact(V, M)
  PROVE  Spec => SearchIsExact
<1>1. Init => Promise!Init
  <2>. SUFFICES ASSUME Init PROVE Promise!Init
    OBVIOUS
  <2>1. stage = "checking" /\ threshold \in Thresholds
    BY DEF Init, SelectionInit, InputsInit
  <2>. QED  BY <2>1 DEF Promise!Init, Outcomes
<1>2. ResultsInv /\ ResultsInv' /\ [Next]_vars => [Promise!Next]_<<Promise!inputs, Status, Matches>>
  BY MappedStep DEF Promise!inputs, inputs
<1>3. Spec => []ResultsInv
  BY ResultsInvariant
<1>. QED  BY <1>1, <1>2, <1>3, PTL DEF Spec, SearchIsExact, Promise!Spec, Status, Matches

------------------------------------------------------------------------------
(***************************************************************************)
(* 14. The factor of selection.                                            *)
(***************************************************************************)

(* Products grow with their factors.                                       *)
LEMMA ProductIsMonotone ==
  ASSUME NEW x \in Nat, NEW y \in Nat, NEW v \in Nat, x <= y
  PROVE  x * v <= y * v /\ x * v \in Nat /\ y * v \in Nat
<1>1. PICK e \in Nat : y = x + e
  <2>1. y - x \in Nat /\ y = x + (y - x)
    OBVIOUS
  <2>. QED  BY <2>1
<1>2. (x + e) * v = x * v + e * v /\ e * v \in Nat /\ x * v \in Nat
  OBVIOUS
<1>. QED  BY <1>1, <1>2

(* Sums add term by term, and scale.                                       *)
LEMMA TotalAddsUp ==
  ASSUME NEW S, IsFiniteSet(S), NEW f, NEW g, NEW h, NEW v \in Nat,
         \A x \in S : f[x] \in Nat /\ g[x] \in Nat /\ h[x] = f[x] + g[x] * v
  PROVE  Total(h, S) = Total(f, S) + Total(g, S) * v
<1>. DEFINE P == {s \in SUBSET S : Total(h, s) = Total(f, s) + Total(g, s) * v}
<1>1. {} \in P
  BY TotalEmpty
<1>2. ASSUME NEW s \in SUBSET S, NEW x \in S, s \in P /\ x \notin s PROVE s \cup {x} \in P
  <2>1. IsFiniteSet(s) /\ \A y \in s \cup {x} : f[y] \in Nat /\ g[y] \in Nat /\ h[y] \in Nat
    BY FS_Subset
  <2>2. /\ Total(f, s \cup {x}) = Total(f, s) + f[x]
        /\ Total(g, s \cup {x}) = Total(g, s) + g[x]
        /\ Total(h, s \cup {x}) = Total(h, s) + h[x]
    BY <1>2, <2>1, TotalAdd
  <2>3. Total(f, s) \in Nat /\ Total(g, s) \in Nat
    BY <2>1, TotalIsTotal
  <2>4. (Total(g, s) + g[x]) * v = Total(g, s) * v + g[x] * v
    BY <2>3
  <2>5. Total(h, s) = Total(f, s) + Total(g, s) * v /\ h[x] = f[x] + g[x] * v
    BY <1>2
  <2>6. Total(g, s) * v \in Nat /\ g[x] * v \in Nat /\ f[x] \in Nat
    BY <2>3
  <2>7. Total(h, s \cup {x}) = Total(f, s \cup {x}) + Total(g, s \cup {x}) * v
    BY <2>2, <2>3, <2>4, <2>5, <2>6
  <2>. QED  BY <2>7
<1>3. S \in P
  <2>. HIDE DEF P
  <2>. QED  BY <1>1, <1>2, SetInduction
<1>. QED  BY <1>3

(* Terms of at most k.                                                     *)
LEMMA TotalIsBounded ==
  ASSUME NEW S, IsFiniteSet(S), NEW f, NEW k \in Nat, \A x \in S : f[x] \in Nat /\ f[x] <= k
  PROVE  Total(f, S) <= Cardinality(S) * k
<1>. DEFINE P == {s \in SUBSET S : Total(f, s) <= Cardinality(s) * k}
<1>1. {} \in P
  BY TotalEmpty, FS_EmptySet
<1>2. ASSUME NEW s \in SUBSET S, NEW x \in S, s \in P /\ x \notin s PROVE s \cup {x} \in P
  <2>1. IsFiniteSet(s) /\ Cardinality(s) \in Nat
    BY FS_Subset, FS_CardinalityType
  <2>2. Total(f, s \cup {x}) = Total(f, s) + f[x] /\ Total(f, s) \in Nat
    BY <1>2, <2>1, TotalAdd, TotalIsTotal
  <2>3. Cardinality(s \cup {x}) = Cardinality(s) + 1
    BY <1>2, <2>1, FS_AddElement
  <2>4. (Cardinality(s) + 1) * k = Cardinality(s) * k + k
    BY <2>1
  <2>5. Total(f, s) <= Cardinality(s) * k /\ f[x] \in Nat /\ f[x] <= k /\ Cardinality(s) * k \in Nat
    BY <1>2, <2>1
  <2>6. Total(f, s \cup {x}) <= Cardinality(s \cup {x}) * k
    BY <2>2, <2>3, <2>4, <2>5
  <2>. QED  BY <2>6
<1>3. S \in P
  <2>. HIDE DEF P
  <2>. QED  BY <1>1, <1>2, SetInduction
<1>. QED  BY <1>3

(* Each term of one sum v times that of the other.                         *)
Scales(h, g, v, S) == \A x \in S : g[x] \in Nat /\ h[x] = g[x] * v

LEMMA TotalScales ==
  ASSUME NEW S, IsFiniteSet(S), NEW g, NEW h, NEW v \in Nat, Scales(h, g, v, S)
  PROVE  Total(h, S) = Total(g, S) * v /\ Total(g, S) \in Nat
<1>. DEFINE zero == [x \in S |-> 0]
<1>1. \A x \in S : g[x] \in Nat
  BY DEF Scales
<1>2. Total(g, S) \in Nat
  BY <1>1, TotalIsTotal
<1>3. ASSUME NEW x \in S PROVE zero[x] \in Nat /\ g[x] \in Nat /\ h[x] = zero[x] + g[x] * v
  <2>1. g[x] \in Nat /\ h[x] = g[x] * v /\ zero[x] = 0
    BY DEF Scales
  <2>2. g[x] * v \in Nat
    BY <2>1
  <2>. QED  BY <2>1, <2>2
<1>4. \A x \in S : zero[x] = 0
  OBVIOUS
<1>. HIDE DEF zero
<1>5. Total(h, S) = Total(zero, S) + Total(g, S) * v
  BY <1>3, TotalAddsUp
<1>6. Total(zero, S) = 0
  <2>2. \A x \in S : zero[x] \in Nat /\ zero[x] <= 0
    BY <1>4
  <2>3. Total(zero, S) <= Cardinality(S) * 0 /\ Total(zero, S) \in Nat /\ Cardinality(S) \in Nat
    BY <2>2, TotalIsBounded, TotalIsTotal, FS_CardinalityType
  <2>. QED  BY <2>3
<1>7. Total(g, S) * v \in Nat
  BY <1>2
<1>. QED  BY <1>2, <1>5, <1>6, <1>7

------------------------------------------------------------------------------
(* The payments of a primal-dual selection from I of terms c that reach d: *)
(* P is selected so far, pays what each term has paid of its price, y what *)
(* the rounds have shared out.  No selection that reaches d pays           *)
(* less than y; the terms selected, with any that keep them below d, pay   *)
(* at most y, and the last one at most another y.                          *)
Gains(I, c, d, P) ==
  [i \in I |-> IF c[i] <= d - Total(c, P) THEN c[i] ELSE d - Total(c, P)]

SharesOut(I, c, price, d, P, pays, y) ==
  /\ y \in Nat
  /\ pays \in [I -> Nat]
  /\ \A S \in SUBSET I : d <= Total(c, S) => y <= Total(pays, S)
  /\ \A i \in I : pays[i] <= price[i]
  /\ \A i \in P : price[i] < pays[i] + d
  /\ \A Q \in SUBSET I : P \subseteq Q /\ Total(c, Q) < d => Total(pays, Q) <= y
  /\ \A i \in I \ P : Total(c, P) < d => pays[i] <= y
  /\ Total(pays, P) <= 2 * y

LEMMA SharesAtStart ==
  ASSUME NEW I, IsFiniteSet(I), NEW c \in [I -> Nat], NEW price \in [I -> Nat], NEW d \in Nat,
         NEW pays, pays = [i \in I |-> 0]
  PROVE  SharesOut(I, c, price, d, {}, pays, 0)
<1>1. ASSUME NEW S \in SUBSET I PROVE Total(pays, S) = 0
  <2>1. IsFiniteSet(S) /\ \A x \in S : pays[x] \in Nat /\ pays[x] <= 0
    BY FS_Subset
  <2>2. Total(pays, S) \in Nat /\ Total(pays, S) <= Cardinality(S) * 0
    BY <2>1, TotalIsTotal, TotalIsBounded
  <2>3. Cardinality(S) \in Nat
    BY <2>1, FS_CardinalityType
  <2>. QED  BY <2>2, <2>3
<1>2. {} \in SUBSET I
  OBVIOUS
<1>. QED  BY <1>1, <1>2 DEF SharesOut

(* A term beyond what is missing, or terms that reach it together.         *)
LEMMA GainsReach ==
  ASSUME NEW I, IsFiniteSet(I), NEW c \in [I -> Nat], NEW d \in Nat,
         NEW P \in SUBSET I, Total(c, P) < d, NEW S \in SUBSET I, d <= Total(c, S)
  PROVE  d - Total(c, P) <= Total(Gains(I, c, d, P), S \ P)
<1>. DEFINE g == Gains(I, c, d, P)
            r == d - Total(c, P)
            R == S \ P
<1>1. IsFiniteSet(P) /\ IsFiniteSet(S) /\ IsFiniteSet(R) /\ R \in SUBSET I
  BY FS_Subset
<1>2. Total(c, P) \in Nat /\ r \in Nat /\ r > 0
  BY <1>1, TotalIsTotal
<1>3. \A i \in I : g[i] \in Nat /\ g[i] = IF c[i] <= r THEN c[i] ELSE r
  BY <1>2 DEF Gains
<1>4. CASE \E i \in R : c[i] > r
  <2>1. PICK i \in R : c[i] > r
    BY <1>4
  <2>2. g[i] = r
    BY <1>2, <1>3, <2>1
  <2>. HIDE DEF g, r, R
  <2>3. Total(g, {i}) <= Total(g, R)
    <3>1. {i} \in SUBSET R /\ (\A x \in {i} : g[x] \in Nat /\ g[x] <= g[x]) /\ \A x \in R : g[x] \in Nat
      BY <1>1, <1>3, <2>1
    <3>. QED  BY <1>1, <3>1, TotalIsMonotone
  <2>4. Total(g, {i}) = r
    <3>1. {} \cup {i} = {i} /\ i \notin {} /\ IsFiniteSet({}) /\ g[i] \in Nat
      BY <1>2, <2>2, FS_EmptySet
    <3>2. Total(g, {} \cup {i}) = Total(g, {}) + g[i]
      BY <3>1, TotalAdd
    <3>. QED  BY <1>2, <2>2, <3>1, <3>2, TotalEmpty
  <2>. QED  BY <2>3, <2>4 DEF g, r, R
<1>5. CASE \A i \in R : c[i] <= r
  <2>1. \A i \in R : c[i] \in Nat /\ g[i] = c[i]
    BY <1>1, <1>3, <1>5
  <2>. HIDE DEF g, r
  <2>2. Total(c, R) = Total(g, R)
    <3>. HIDE DEF R
    <3>. QED  BY <1>1, <2>1, TotalSame
  <2>3. Total(c, P \cup R) = Total(c, P) + Total(c, R) /\ Total(c, R) \in Nat
    <3>1. P \cap R = {} /\ \A x \in P \cup R : c[x] \in Nat
      BY <1>1
    <3>. HIDE DEF R
    <3>. QED  BY <1>1, <3>1, TotalUnion, TotalIsTotal
  <2>4. Total(c, S) <= Total(c, P \cup R) /\ Total(c, S) \in Nat
    <3>1. S \in SUBSET (P \cup R)
      OBVIOUS
    <3>2. (\A x \in S : c[x] \in Nat /\ c[x] <= c[x]) /\ \A x \in P \cup R : c[x] \in Nat
      BY <1>1
    <3>. HIDE DEF R
    <3>3. IsFiniteSet(P \cup R)
      BY <1>1, FS_Union
    <3>. QED  BY <1>1, <3>1, <3>2, <3>3, TotalIsMonotone, TotalIsTotal
  <2>. QED  BY <1>2, <2>2, <2>3, <2>4 DEF g, r, R
<1>. QED
  <2>1. \A i \in R : c[i] \in Nat
    BY <1>1
  <2>. QED  BY <1>2, <1>4, <1>5, <2>1

(* Terms that keep the selected ones below d gain less than is missing.    *)
LEMMA GainsStayBelow ==
  ASSUME NEW I, IsFiniteSet(I), NEW c \in [I -> Nat], NEW d \in Nat,
         NEW P \in SUBSET I, Total(c, P) < d, NEW Q \in SUBSET I, P \subseteq Q, Total(c, Q) < d
  PROVE  Total(Gains(I, c, d, P), Q \ P) <= d - Total(c, P)
<1>. DEFINE g == Gains(I, c, d, P)
            r == d - Total(c, P)
            R == Q \ P
<1>1. IsFiniteSet(P) /\ IsFiniteSet(R) /\ R \in SUBSET I /\ P \cap R = {} /\ P \cup R = Q
  BY FS_Subset
<1>2. Total(c, P) \in Nat /\ Total(c, R) \in Nat
  <2>1. \A x \in R : c[x] \in Nat
    BY <1>1
  <2>. HIDE DEF R
  <2>. QED  BY <1>1, <2>1, TotalIsTotal
<1>3. r \in Nat
  BY <1>2
<1>4. \A i \in R : g[i] \in Nat /\ g[i] <= c[i] /\ c[i] \in Nat
  BY <1>1, <1>3 DEF Gains
<1>5. Total(c, Q) = Total(c, P) + Total(c, R)
  <2>1. \A x \in P \cup R : c[x] \in Nat
    BY <1>1
  <2>. HIDE DEF R
  <2>2. Total(c, P \cup R) = Total(c, P) + Total(c, R)
    BY <1>1, <2>1, TotalUnion
  <2>. QED  BY <1>1, <2>2
<1>6. Total(g, R) <= Total(c, R) /\ Total(g, R) \in Nat
  <2>. HIDE DEF R, g
  <2>1. R \in SUBSET R
    OBVIOUS
  <2>. QED  BY <1>1, <1>4, <2>1, TotalIsMonotone, TotalIsTotal
<1>. HIDE DEF g, R
<1>. QED  BY <1>2, <1>5, <1>6 DEF g, R

(* What any set has paid after a round at value v.                         *)
Paying(I, c, d, P, pays, v) ==
  [i \in I |-> IF i \in P THEN pays[i] ELSE pays[i] + Gains(I, c, d, P)[i] * v]

RoundAdds(I, c, d, P, pays, v, S) ==
  Total(Paying(I, c, d, P, pays, v), S) = Total(pays, S) + Total(Gains(I, c, d, P), S \ P) * v

LEMMA RoundPays ==
  ASSUME NEW I, IsFiniteSet(I), NEW c \in [I -> Nat], NEW d \in Nat,
         NEW P \in SUBSET I, Total(c, P) < d, NEW pays \in [I -> Nat], NEW v \in Nat
  PROVE  /\ Gains(I, c, d, P) \in [I -> Nat]
         /\ Paying(I, c, d, P, pays, v) \in [I -> Nat]
         /\ \A S \in SUBSET I : RoundAdds(I, c, d, P, pays, v, S)
<1>. DEFINE g == Gains(I, c, d, P)
            after == Paying(I, c, d, P, pays, v)
<1>. SUFFICES ASSUME NEW S \in SUBSET I
              PROVE  /\ g \in [I -> Nat] /\ after \in [I -> Nat]
                     /\ Total(after, S) = Total(pays, S) + Total(g, S \ P) * v
  BY DEF RoundAdds
<1>. DEFINE A == S \cap P
            B == S \ P
<1>1. /\ IsFiniteSet(P) /\ IsFiniteSet(A) /\ IsFiniteSet(B) /\ A \cap B = {} /\ A \cup B = S
      /\ A \in SUBSET I /\ B \in SUBSET I
  BY FS_Subset
<1>2. Total(c, P) \in Nat
  BY <1>1, TotalIsTotal
<1>3. g \in [I -> Nat]
  BY <1>2 DEF Gains
<1>4. \A i \in I : after[i] = IF i \in P THEN pays[i] ELSE pays[i] + g[i] * v
  BY DEF Paying
<1>5. after \in [I -> Nat]
  <2>1. ASSUME NEW i \in I PROVE (IF i \in P THEN pays[i] ELSE pays[i] + g[i] * v) \in Nat
    <3>1. g[i] \in Nat /\ g[i] * v \in Nat
      BY <1>3
    <3>. QED  BY <3>1
  <2>. QED  BY <2>1 DEF Paying
<1>6. Total(after, A) = Total(pays, A)
  <2>1. \A x \in A : pays[x] \in Nat /\ after[x] = pays[x]
    BY <1>1, <1>4
  <2>. HIDE DEF A, after
  <2>. QED  BY <1>1, <2>1, TotalSame
<1>7. Total(after, B) = Total(pays, B) + Total(g, B) * v
  <2>1. \A x \in B : pays[x] \in Nat /\ g[x] \in Nat /\ after[x] = pays[x] + g[x] * v
    BY <1>1, <1>3, <1>4
  <2>. HIDE DEF B, after, g
  <2>. QED  BY <1>1, <2>1, TotalAddsUp
<1>8. Total(after, A \cup B) = Total(after, A) + Total(after, B)
  <2>1. \A x \in A \cup B : after[x] \in Nat
    BY <1>1, <1>5
  <2>. HIDE DEF A, B, after
  <2>. QED  BY <1>1, <2>1, TotalUnion
<1>9. /\ Total(pays, A \cup B) = Total(pays, A) + Total(pays, B)
      /\ Total(pays, A) \in Nat /\ Total(pays, B) \in Nat
  <2>1. \A x \in A \cup B : pays[x] \in Nat
    BY <1>1
  <2>. HIDE DEF A, B
  <2>. QED  BY <1>1, <2>1, TotalUnion, TotalIsTotal
<1>10. Total(g, B) \in Nat
  <2>1. \A x \in B : g[x] \in Nat
    BY <1>1, <1>3
  <2>. HIDE DEF B, g
  <2>. QED  BY <1>1, <2>1, TotalIsTotal
<1>11. Total(g, B) * v \in Nat
  BY <1>10
<1>12. Total(after, S) = Total(pays, S) + Total(g, B) * v
  <2>. HIDE DEF A, B, after, g
  <2>1. /\ Total(after, S) = Total(after, A) + Total(after, B)
        /\ Total(pays, S) = Total(pays, A) + Total(pays, B)
    BY <1>1, <1>8, <1>9
  <2>2. Total(after, S) = Total(pays, A) + (Total(pays, B) + Total(g, B) * v)
    BY <1>6, <1>7, <2>1
  <2>. HIDE DEF Total
  <2>. QED  BY <1>9, <1>11, <2>1, <2>2
<1>. QED  BY <1>3, <1>5, <1>12

LEMMA SharesAfterRound ==
  ASSUME NEW I, IsFiniteSet(I), NEW c \in [I -> Nat], NEW price \in [I -> Nat], NEW d \in Nat,
         NEW P \in SUBSET I, Total(c, P) < d, NEW pays, NEW y, SharesOut(I, c, price, d, P, pays, y),
         NEW v \in Nat, NEW b \in I \ P,
         \A i \in I \ P : pays[i] + Gains(I, c, d, P)[i] * v <= price[i],
         price[b] < pays[b] + Gains(I, c, d, P)[b] * v + Gains(I, c, d, P)[b]
  PROVE  SharesOut(I, c, price, d, P \cup {b}, Paying(I, c, d, P, pays, v), y + (d - Total(c, P)) * v)
<1>. DEFINE g == Gains(I, c, d, P)
            after == Paying(I, c, d, P, pays, v)
            r == d - Total(c, P)
            R == P \cup {b}
            z == y + r * v
<1>1. IsFiniteSet(P) /\ R \in SUBSET I /\ IsFiniteSet(R) /\ y \in Nat /\ pays \in [I -> Nat]
  BY FS_Subset DEF SharesOut
<1>2. Total(c, P) \in Nat /\ r \in Nat
  <2>1. Total(c, P) \in Nat
    BY <1>1, TotalIsTotal
  <2>. QED  BY <2>1
<1>3. r * v \in Nat
  BY <1>2
<1>4. g \in [I -> Nat] /\ after \in [I -> Nat]
  BY <1>1, RoundPays
<1>5. ASSUME NEW S \in SUBSET I PROVE Total(after, S) = Total(pays, S) + Total(g, S \ P) * v
  <2>1. RoundAdds(I, c, d, P, pays, v, S)
    BY <1>1, RoundPays
  <2>. QED  BY <2>1 DEF RoundAdds
<1>6. \A i \in I : g[i] <= r /\ g[i] <= d
  BY <1>2 DEF Gains
<1>7. \A i \in I : after[i] = IF i \in P THEN pays[i] ELSE pays[i] + g[i] * v
  BY DEF Paying
<1>8. \A S \in SUBSET I : Total(g, S \ P) \in Nat /\ Total(pays, S) \in Nat /\ Total(after, S) \in Nat
  <2>. HIDE DEF g, after
  <2>. SUFFICES ASSUME NEW S \in SUBSET I
                PROVE  Total(g, S \ P) \in Nat /\ Total(pays, S) \in Nat /\ Total(after, S) \in Nat
    OBVIOUS
  <2>. DEFINE B == S \ P
  <2>1. IsFiniteSet(S) /\ IsFiniteSet(B) /\ \A x \in B : g[x] \in Nat
    BY <1>4, FS_Subset
  <2>2. \A x \in S : pays[x] \in Nat /\ after[x] \in Nat
    BY <1>1, <1>4
  <2>3. Total(g, B) \in Nat
    <3>. HIDE DEF B
    <3>. QED  BY <2>1, TotalIsTotal
  <2>. QED  BY <2>1, <2>2, <2>3, TotalIsTotal
<1>9. \A i \in I \ P : pays[i] <= y /\ g[i] * v <= r * v /\ g[i] * v \in Nat
  <2>. SUFFICES ASSUME NEW i \in I \ P PROVE pays[i] <= y /\ g[i] * v <= r * v /\ g[i] * v \in Nat
    OBVIOUS
  <2>1. pays[i] <= y
    BY DEF SharesOut
  <2>2. g[i] \in Nat /\ g[i] <= r
    BY <1>4, <1>6
  <2>. HIDE DEF g, r
  <2>. QED  BY <1>2, <2>1, <2>2, ProductIsMonotone
<1>. HIDE DEF g, after, r
<1>10. ASSUME NEW S \in SUBSET I, d <= Total(c, S) PROVE z <= Total(after, S)
  <2>1. r <= Total(g, S \ P)
    BY <1>10, GainsReach DEF r, g
  <2>2. r * v <= Total(g, S \ P) * v
    BY <1>2, <1>8, <2>1, ProductIsMonotone
  <2>3. y <= Total(pays, S)
    BY <1>10 DEF SharesOut
  <2>4. Total(g, S \ P) * v \in Nat
    BY <1>2, <1>8, <2>1, ProductIsMonotone
  <2>. QED  BY <1>1, <1>3, <1>5, <1>8, <2>2, <2>3, <2>4
<1>11. ASSUME NEW i \in I PROVE after[i] <= price[i]
  BY <1>7, <1>11 DEF SharesOut, g
<1>12. ASSUME NEW i \in R PROVE price[i] < after[i] + d
  <2>1. CASE i \in P
    BY <1>7, <2>1 DEF SharesOut
  <2>2. CASE i \notin P
    <3>1. i = b /\ price[b] < pays[b] + g[b] * v + g[b] /\ after[b] = pays[b] + g[b] * v
      BY <1>7, <2>2 DEF g
    <3>2. g[b] \in Nat /\ g[b] <= d /\ after[b] \in Nat /\ price[b] \in Nat
      BY <1>4, <1>6
    <3>. QED  BY <3>1, <3>2
  <2>. QED  BY <2>1, <2>2
<1>13. ASSUME NEW Q \in SUBSET I, R \subseteq Q, Total(c, Q) < d PROVE Total(after, Q) <= z
  <2>1. P \subseteq Q
    BY <1>13
  <2>2. Total(g, Q \ P) <= r
    BY <1>13, <2>1, GainsStayBelow DEF r, g
  <2>3. Total(g, Q \ P) * v <= r * v
    BY <1>2, <1>8, <2>2, ProductIsMonotone
  <2>4. Total(pays, Q) <= y
    BY <1>13, <2>1 DEF SharesOut
  <2>5. Total(g, Q \ P) * v \in Nat
    BY <1>2, <1>8, <2>2, ProductIsMonotone
  <2>. QED  BY <1>1, <1>3, <1>5, <1>8, <2>3, <2>4, <2>5
<1>14. ASSUME NEW i \in I \ P PROVE after[i] <= z
  <2>1. after[i] = pays[i] + g[i] * v /\ pays[i] \in Nat
    BY <1>1, <1>7
  <2>. QED  BY <1>1, <1>3, <1>9, <2>1
<1>15. Total(after, R) <= 2 * z
  <2>1. Total(after, R) = Total(after, P) + after[b]
    <3>1. b \notin P /\ after[b] \in Nat /\ \A x \in P : after[x] \in Nat
      BY <1>4
    <3>. QED  BY <1>1, <3>1, TotalAdd
  <2>2. Total(after, P) <= y
    <3>1. Total(after, P) = Total(pays, P)
      <4>1. \A x \in P : pays[x] \in Nat /\ after[x] = pays[x]
        BY <1>1, <1>7
      <4>. QED  BY <1>1, <4>1, TotalSame
    <3>2. Total(pays, P) <= y
      BY DEF SharesOut
    <3>. QED  BY <3>1, <3>2
  <2>3. after[b] <= z /\ after[b] \in Nat
    BY <1>4, <1>14
  <2>4. Total(after, P) \in Nat
    BY <1>8
  <2>. QED  BY <1>1, <1>3, <2>1, <2>2, <2>3, <2>4
<1>16. z \in Nat
  BY <1>1, <1>3
<1>17. SharesOut(I, c, price, d, R, after, z)
  <2>. HIDE DEF z, R
  <2>1. I \ R \subseteq I \ P
    BY DEF R
  <2>. QED  BY <1>4, <1>10, <1>11, <1>12, <1>13, <1>14, <1>15, <1>16, <2>1 DEF SharesOut
<1>. QED  BY <1>17 DEF after, r

(* What the selected terms cost is at most twice what any that reach d do, *)
(* but for what rounding loses.                                            *)
LEMMA PricesAreHalf ==
  ASSUME NEW I, IsFiniteSet(I), NEW c, NEW price \in [I -> Nat], NEW d \in Nat, d > 0,
         NEW P \in SUBSET I, NEW pays, NEW y, SharesOut(I, c, price, d, P, pays, y),
         NEW S \in SUBSET I, d <= Total(c, S)
  PROVE  Total(price, P) <= 2 * Total(price, S) + Cardinality(P) * (d - 1)
<1>1. IsFiniteSet(P) /\ IsFiniteSet(S) /\ Cardinality(P) \in Nat
  BY FS_Subset, FS_CardinalityType
<1>2. y \in Nat /\ pays \in [I -> Nat]
  BY DEF SharesOut
<1>3. \A i \in I : price[i] \in Nat
  OBVIOUS
<1>5. Total(price, P) <= Total(pays, P) + Cardinality(P) * (d - 1) /\ Total(pays, P) \in Nat
  <2>. DEFINE e == [i \in P |-> price[i] - pays[i]]
  <2>1. \A x \in P : price[x] \in Nat /\ pays[x] \in Nat /\ pays[x] <= price[x] /\ price[x] < pays[x] + d
    BY <1>2, <1>3 DEF SharesOut
  <2>2. ASSUME NEW x \in P
        PROVE  e[x] \in Nat /\ e[x] <= d - 1 /\ pays[x] \in Nat /\ price[x] = pays[x] + e[x] * 1
    <3>1. e[x] = price[x] - pays[x]
      OBVIOUS
    <3>. HIDE DEF e
    <3>2. e[x] \in Nat /\ e[x] <= d - 1 /\ price[x] = pays[x] + e[x] /\ pays[x] \in Nat
      BY <2>1, <3>1
    <3>3. e[x] * 1 = e[x]
      BY <3>2
    <3>. QED  BY <3>2, <3>3
  <2>. HIDE DEF e
  <2>3. Total(price, P) = Total(pays, P) + Total(e, P) * 1
    <3>1. 1 \in Nat /\ \A x \in P : pays[x] \in Nat /\ e[x] \in Nat /\ price[x] = pays[x] + e[x] * 1
      BY <2>2
    <3>. QED  BY <1>1, <3>1, TotalAddsUp
  <2>4. Total(e, P) <= Cardinality(P) * (d - 1) /\ Total(e, P) \in Nat /\ Total(pays, P) \in Nat
    <3>1. d - 1 \in Nat
      OBVIOUS
    <3>. QED  BY <1>1, <2>2, <3>1, TotalIsBounded, TotalIsTotal
  <2>5. Cardinality(P) * (d - 1) \in Int
    BY <1>1
  <2>. QED  BY <2>3, <2>4, <2>5
<1>7. Total(pays, P) <= 2 * y /\ y <= Total(pays, S)
  BY DEF SharesOut
<1>8. Total(pays, S) <= Total(price, S) /\ Total(pays, S) \in Nat
  <2>1. \A x \in S : pays[x] \in Nat /\ price[x] \in Nat /\ pays[x] <= price[x]
    BY <1>2, <1>3 DEF SharesOut
  <2>2. S \in SUBSET S
    OBVIOUS
  <2>. QED  BY <1>1, <2>1, <2>2, TotalIsMonotone, TotalIsTotal
<1>9. Cardinality(P) * (d - 1) \in Nat /\ Total(price, P) \in Nat /\ Total(price, S) \in Nat
  <2>1. d - 1 \in Nat /\ (\A x \in P : price[x] \in Nat) /\ \A x \in S : price[x] \in Nat
    OBVIOUS
  <2>2. Cardinality(P) * (d - 1) \in Nat
    BY <1>1, <2>1
  <2>3. Total(price, P) \in Nat /\ Total(price, S) \in Nat
    BY <1>1, <2>1, TotalIsTotal
  <2>. QED  BY <2>2, <2>3
<1>. QED  BY <1>2, <1>5, <1>7, <1>8, <1>9

(* Prices of whole units of k, larger than what rounding loses: what the   *)
(* selected terms cost is at most twice what any that reach d do.          *)
LEMMA SharesAreHalf ==
  ASSUME NEW I, IsFiniteSet(I), NEW c, NEW price, NEW d \in Nat, d > 0,
         NEW P \in SUBSET I, NEW pays, NEW y, SharesOut(I, c, price, d, P, pays, y),
         NEW m \in [I -> Nat], NEW k \in Nat, k > 0, Cardinality(I) * d <= k,
         price = [i \in I |-> m[i] * k],
         NEW S \in SUBSET I, d <= Total(c, S)
  PROVE  Total(m, P) <= 2 * Total(m, S)
<1>1. /\ IsFiniteSet(P) /\ IsFiniteSet(S) /\ Cardinality(P) \in Nat /\ Cardinality(I) \in Nat
      /\ Cardinality(P) <= Cardinality(I)
  BY FS_Subset, FS_CardinalityType
<1>3. \A i \in I : m[i] \in Nat /\ price[i] = m[i] * k /\ price[i] \in Nat
  <2>. SUFFICES ASSUME NEW i \in I PROVE m[i] \in Nat /\ price[i] = m[i] * k /\ price[i] \in Nat
    OBVIOUS
  <2>1. m[i] \in Nat /\ m[i] <= m[i] /\ price[i] = m[i] * k
    OBVIOUS
  <2>2. m[i] * k \in Nat
    BY <2>1, ProductIsMonotone
  <2>. QED  BY <2>1, <2>2
<1>4. ASSUME NEW T \in SUBSET I PROVE Total(price, T) = Total(m, T) * k /\ Total(m, T) \in Nat /\ Total(price, T) \in Nat
  <2>1. IsFiniteSet(T) /\ Scales(price, m, k, T)
    BY <1>3, FS_Subset DEF Scales
  <2>2. Total(price, T) = Total(m, T) * k /\ Total(m, T) \in Nat
    BY <2>1, TotalScales
  <2>3. \A x \in T : price[x] \in Nat
    BY <1>3
  <2>. QED  BY <2>1, <2>2, <2>3, TotalIsTotal
<1>5. Total(price, P) <= 2 * Total(price, S) + Cardinality(P) * (d - 1)
  <2>1. price \in [I -> Nat]
    BY <1>3
  <2>. QED  BY <2>1, PricesAreHalf
<1>6. Cardinality(P) * (d - 1) < k /\ Cardinality(P) * (d - 1) \in Nat
  <2>1. Cardinality(P) * (d - 1) <= Cardinality(I) * (d - 1)
    BY <1>1, ProductIsMonotone
  <2>2. Cardinality(I) * (d - 1) = Cardinality(I) * d - Cardinality(I) /\ Cardinality(I) * d \in Nat
    BY <1>1
  <2>3. CASE Cardinality(I) = 0
    BY <1>1, <2>3
  <2>4. CASE Cardinality(I) > 0
    <3>1. Cardinality(P) * (d - 1) \in Nat
      BY <1>1
    <3>. QED  BY <1>1, <2>1, <2>2, <2>4, <3>1
  <2>. QED  BY <1>1, <2>3, <2>4
<1>9. Total(m, P) * k < 2 * (Total(m, S) * k) + k
  <2>1. /\ Total(price, P) = Total(m, P) * k /\ Total(price, P) \in Nat
        /\ Total(price, S) = Total(m, S) * k /\ Total(price, S) \in Nat
    BY <1>4
  <2>. QED  BY <1>5, <1>6, <2>1
<1>10. Total(m, P) \in Nat /\ Total(m, S) \in Nat
  BY <1>4
<1>. SUFFICES ASSUME 2 * Total(m, S) + 1 <= Total(m, P) PROVE FALSE
  BY <1>10
<1>11. (2 * Total(m, S) + 1) * k <= Total(m, P) * k
  BY <1>10, ProductIsMonotone
<1>12. (2 * Total(m, S) + 1) * k = 2 * (Total(m, S) * k) + k
  BY <1>10
<1>. QED  BY <1>9, <1>11, <1>12, <1>10

(* What each position would generate at radius r, and its price in the     *)
(* units payments are made in.                                             *)
CountsAt(r) ==
  [i \in Positions |->
     Cardinality({place \in Places : SymbolAt(place) \in Neighbors(query[i], r)})]
PricesAt(r) == [i \in Positions |-> CountsAt(r)[i] * PaymentScale]

LEMMA CountsAtFacts ==
  ASSUME InputsOK, NEW r
  PROVE  /\ CountsAt(r) \in [Positions -> Nat] /\ PricesAt(r) \in [Positions -> Nat]
         /\ IsFiniteSet(Positions) /\ Cardinality(Positions) = Len(query) /\ Len(query) \in Nat
         /\ \A S \in SUBSET Positions : CandidatesOf(S, r) = Total(CountsAt(r), S)
<1>1. CountsAt(r) \in [Positions -> Nat]
  <2>1. ASSUME NEW i \in Positions
        PROVE  Cardinality({place \in Places : SymbolAt(place) \in Neighbors(query[i], r)}) \in Nat
    <3>. DEFINE T == {place \in Places : SymbolAt(place) \in Neighbors(query[i], r)}
    <3>1. IsFiniteSet(T)
      <4>1. T \in SUBSET Places
        OBVIOUS
      <4>. HIDE DEF T
      <4>. QED  BY <4>1, PlacesAreFinite, FS_Subset
    <3>. HIDE DEF T
    <3>2. Cardinality(T) \in Nat
      BY <3>1, FS_CardinalityType
    <3>. QED  BY <3>2 DEF T
  <2>. QED  BY <2>1 DEF CountsAt
<1>2. PricesAt(r) \in [Positions -> Nat]
  <2>1. \A i \in Positions : CountsAt(r)[i] * PaymentScale \in Nat
    BY <1>1, ScaleAssumption
  <2>. QED  BY <2>1 DEF PricesAt
<1>3. Len(query) \in Nat /\ Positions = 1 .. Len(query)
  BY InputTypes DEF Positions
<1>4. IsFiniteSet(Positions) /\ Cardinality(Positions) = Len(query)
  <2>1. ASSUME NEW n \in Nat PROVE IsFiniteSet(1 .. n) /\ Cardinality(1 .. n) = n
    BY FS_Interval
  <2>. QED  BY <1>3, <2>1
<1>5. ASSUME NEW S \in SUBSET Positions PROVE CandidatesOf(S, r) = Total(CountsAt(r), S)
  <2>. DEFINE f == [i \in S |-> Cardinality({place \in Places : SymbolAt(place) \in Neighbors(query[i], r)})]
  <2>1. IsFiniteSet(S)
    BY <1>4, FS_Subset
  <2>2. DOMAIN f = S /\ \A i \in S : f[i] = CountsAt(r)[i] /\ f[i] \in Nat
    BY <1>1 DEF CountsAt
  <2>3. CandidatesOf(S, r) = SumFunction(f)
    BY DEF CandidatesOf
  <2>. HIDE DEF f
  <2>. QED  BY <2>1, <2>2, <2>3, SumOfPart
<1>. QED  BY <1>1, <1>2, <1>3, <1>4, <1>5

(* Where sums are exact, a selection leaves the bound exactly when its     *)
(* contributions reach it.                                                 *)
LEMMA BoundIsReached ==
  ASSUME InputsOK, HasNextUp(threshold), NEW V, NEW M, SumsAreExact(V, M), PaymentsAreFine(V, M),
         NEW r \in Nat, NEW S \in SUBSET Positions
  PROVE  /\ ContributionsAt(r) \in [Positions -> Nat]
         /\ Bound \in Nat /\ Bound > 0
         /\ Total(ContributionsAt(r), S) \in Nat
         /\ Admits(SumOver(ContributionsAt(r), S)) <=> Total(ContributionsAt(r), S) < Bound
         /\ Admits(SumOver(ContributionsAt(r), S)) =>
              /\ SumOver(ContributionsAt(r), S) = Total(ContributionsAt(r), S)
              /\ Residual(SumOver(ContributionsAt(r), S)) = Bound - Total(ContributionsAt(r), S)
<1>. DEFINE c == ContributionsAt(r)
            x == SumOver(c, S)
            t == Total(c, S)
<1>1. c \in [Positions -> Cost] /\ \A i \in Positions : c[i] \in V
  BY ContributionFacts, ContributionsAreExact
<1>2. c \in [Positions -> Nat]
  BY <1>1, CostAssumption
<1>3. x \in V /\ Agree(x, t, M) /\ t \in Nat
  <2>. HIDE DEF c
  <2>. QED  BY <1>1, SumsAgree
<1>4. (Admits(x) <=> t <= threshold) /\ (Admits(x) => x = t)
  <2>. HIDE DEF x, t
  <2>. QED  BY <1>3, ExactlyAdmitted
<1>5. threshold \in Thresholds /\ threshold \in Nat /\ V \in SUBSET Nat /\ M \in Nat
  BY InputsAssumption, CostsAreExact, CostAssumption DEF InputsOK
<1>6. Bound \in Nat /\ Bound = NextUp(threshold) /\ Bound <= M /\ threshold < Bound
  <2>1. Bound = NextUp(threshold) /\ NextUp(threshold) <= M
    BY <1>5 DEF Bound, PaymentsAreFine
  <2>2. threshold \in Cost
    BY <1>5, InputsAssumption
  <2>3. NextUp(threshold) \in Cost /\ threshold < NextUp(threshold)
    BY <2>2, NextUpAssumption
  <2>. QED  BY <2>1, <2>3, CostAssumption
<1>7. Admits(x) <=> x < Bound
  BY DEF Admits
<1>8. Admits(x) <=> t < Bound
  <2>. HIDE DEF x, t
  <2>. QED  BY <1>3, <1>4, <1>5, <1>6, <1>7 DEF Agree
<1>9. Admits(x) => Residual(x) = Bound - t
  <2>. SUFFICES ASSUME Admits(x) PROVE Residual(x) = Bound - t
    OBVIOUS
  <2>1. x = t /\ x <= threshold
    BY <1>4
  <2>2. Sub(NextUp(threshold), x) = NextUp(threshold) - x
    <3>. HIDE DEF x
    <3>. QED  BY <1>3, <1>5, <2>1 DEF PaymentsAreFine
  <2>. QED  BY <1>6, <2>1, <2>2 DEF Residual
<1>. QED  BY <1>2, <1>3, <1>4, <1>5, <1>6, <1>8, <1>9

(* The invariant: while a selection runs, its payments are shares.         *)
Sharing ==
  stage = "selecting" =>
     \E y : SharesOut(Positions, ContributionsAt(radius), PricesAt(radius), Bound, Range(picked), paid, y)

HalfAt(r, P) ==
  \A S \in SUBSET Positions :
     ~Admits(SumOver(ContributionsAt(r), S)) => CandidatesOf(P, r) <= 2 * CandidatesOf(S, r)

FactorInv == SearchInv /\ Sharing /\ SelectionIsTwoApproximate

LEMMA CountsFixed ==
  ASSUME UNCHANGED inputs, NEW r
  PROVE  /\ CountsAt(r)' = CountsAt(r) /\ PricesAt(r)' = PricesAt(r)
         /\ Bound' = Bound /\ \A S : CandidatesOf(S, r)' = CandidatesOf(S, r)
<1>1. /\ Positions' = Positions /\ Places' = Places /\ Alphabet' = Alphabet
      /\ corpus' = corpus /\ query' = query /\ costs' = costs /\ threshold' = threshold
  BY InputsFixed DEF inputs
<1>2. \A place : SymbolAt(place)' = SymbolAt(place)
  BY <1>1 DEF SymbolAt
<1>3. \A s : Neighbors(s, r)' = Neighbors(s, r)
  BY <1>1 DEF Neighbors, Substitute
<1>4. CountsAt(r)' = CountsAt(r)
  BY <1>1, <1>2, <1>3 DEF CountsAt
<1>5. PricesAt(r)' = PricesAt(r)
  BY <1>1, <1>4 DEF PricesAt
<1>6. ASSUME NEW S PROVE CandidatesOf(S, r)' = CandidatesOf(S, r)
  <2>. DEFINE T(i) == {place \in Places : SymbolAt(place) \in Neighbors(query[i], r)}
              f == [i \in S |-> Cardinality(T(i))]
  <2>1. \A i : T(i)' = T(i)
    BY <1>1, <1>2, <1>3
  <2>2. CandidatesOf(S, r) = SumFunction(f) /\ CandidatesOf(S, r)' = SumFunction(f)'
    BY DEF CandidatesOf
  <2>3. f' = f
    <3>. HIDE DEF T
    <3>. QED  BY <2>1
  <2>. HIDE DEF f
  <2>. QED  BY <2>2, <2>3
<1>. QED  BY <1>1, <1>4, <1>5, <1>6 DEF Bound

LEMMA FactorKept ==
  ASSUME SelectionIsTwoApproximate, UNCHANGED inputs, UNCHANGED chosen
  PROVE  SelectionIsTwoApproximate'
<1>1. \A r, S : SumOver(ContributionsAt(r), S)' = SumOver(ContributionsAt(r), S)
  BY SumsFixed, ContributionsFixed
<1>2. \A r, S : CandidatesOf(S, r)' = CandidatesOf(S, r)
  BY CountsFixed
<1>3. Positions' = Positions /\ \A d : Admits(d)' = Admits(d)
  BY InputsFixed, AdmitsFixed
<1>. QED  BY <1>1, <1>2, <1>3 DEF SelectionIsTwoApproximate, Range

LEMMA StartShares ==
  ASSUME SelectionTypeOK, HasNextUp(threshold), NEW V, NEW M, SumsAreExact(V, M), PaymentsAreFine(V, M),
         NEW r \in Cost, Start(r), UNCHANGED inputs
  PROVE  Sharing'
<1>1. stage' = "selecting" /\ radius' = r /\ picked' = <<>> /\ paid' = [i \in Positions |-> 0]
  BY DEF Start
<1>2. InputsOK /\ r \in Nat
  BY CostAssumption DEF SelectionTypeOK
<1>3. /\ ContributionsAt(r) \in [Positions -> Nat] /\ Bound \in Nat
      /\ PricesAt(r) \in [Positions -> Nat] /\ IsFiniteSet(Positions)
  <2>1. {} \in SUBSET Positions
    OBVIOUS
  <2>. QED  BY <1>2, <2>1, BoundIsReached, CountsAtFacts
<1>4. SharesOut(Positions, ContributionsAt(r), PricesAt(r), Bound, {}, [i \in Positions |-> 0], 0)
  BY <1>3, SharesAtStart
<1>5. /\ ContributionsAt(radius)' = ContributionsAt(r)
      /\ PricesAt(radius)' = PricesAt(r)
      /\ Bound' = Bound /\ Positions' = Positions /\ Range(picked)' = {}
  <2>1. /\ ContributionsAt(radius)' = ContributionsAt(radius')
        /\ PricesAt(radius)' = PricesAt(radius')
    BY ContributionsFixed, CountsFixed
  <2>. QED  BY <1>1, <2>1, InputsFixed, CountsFixed DEF Range
<1>. QED  BY <1>1, <1>4, <1>5 DEF Sharing

(* What a round gains, at which value, and what it pays.                   *)
LEMMA RoundShares ==
  ASSUME SelectionInv, stage = "selecting", Admits(total), Useful # {},
         NEW V, NEW M, SumsAreExact(V, M), PaymentsAreFine(V, M),
         NEW y, SharesOut(Positions, ContributionsAt(radius), PricesAt(radius), Bound, Selected, paid, y)
  PROVE  SharesOut(Positions, ContributionsAt(radius), PricesAt(radius), Bound, Selected \cup {Cheapest},
                   [i \in Positions |-> IF i \in Useful THEN paid[i] + Gain(i) * Value(Cheapest) ELSE paid[i]],
                   y + Residual(total) * Value(Cheapest))
<1>. DEFINE c == ContributionsAt(radius)
            price == PricesAt(radius)
            P == Selected
            b == Cheapest
            v == Value(Cheapest)
            g == Gains(Positions, c, Bound, P)
            missing == Bound - Total(c, P)
<1>1. /\ SelectionTypeOK /\ InputsOK /\ HasNextUp(threshold)
      /\ radius \in Cost /\ radius \in Nat /\ total \in Distance
      /\ paid \in [Positions -> Nat] /\ picked \in Seq(Positions)
      /\ total = SumOver(c, P)
  BY CostAssumption DEF SelectionInv, SelectionTypeOK, Admissible, TotalIsOrdered, Selected
<1>2. P \in SUBSET Positions
  <2>1. \A k \in DOMAIN picked : picked[k] \in Positions
    BY <1>1
  <2>. QED  BY <2>1 DEF Selected, Range
<1>3. /\ c \in [Positions -> Nat] /\ Bound \in Nat /\ Total(c, P) \in Nat /\ Total(c, P) < Bound
      /\ Residual(total) = missing
  BY <1>1, <1>2, BoundIsReached
<1>4. price \in [Positions -> Nat] /\ IsFiniteSet(Positions) /\ missing \in Nat
  <2>1. missing \in Nat
    BY <1>3
  <2>. QED  BY <1>1, <2>1, CountsAtFacts
<1>5. /\ b \in Useful /\ (\A i \in Useful : v <= Value(i)) /\ Useful \in SUBSET Positions
      /\ \A i \in Useful : Value(i) \in Nat /\ Gain(i) \in Nat
  BY <1>1, PickFacts
<1>6. /\ b \in Positions \ P /\ v \in Nat
      /\ \A i \in Useful : i \in Positions \ P /\ Gain(i) > 0
      /\ \A i \in Positions \ P : i \notin Useful => ~(Gain(i) > 0)
  BY <1>5 DEF Useful, Open
<1>7. ASSUME NEW i \in Positions PROVE g[i] = Gain(i) /\ Gain(i) \in Nat
  <2>. DEFINE Terms == {c[i], missing}
  <2>1. c[i] \in Nat /\ Contribution(i) = c[i] /\ g[i] = IF c[i] <= missing THEN c[i] ELSE missing
    BY <1>3 DEF Contribution, ContributionsAt, Gains
  <2>2. Gain(i) = Min(Terms)
    BY <1>3, <2>1 DEF Gain
  <2>3. Min(Terms) \in Terms /\ \A x \in Terms : Min(Terms) <= x
    <3>1. Terms \in SUBSET Nat /\ Terms # {}
      BY <1>4, <2>1
    <3>. HIDE DEF Terms
    <3>. QED  BY <3>1, MinIsLeast
  <2>4. Gain(i) \in {c[i], missing} /\ Gain(i) <= c[i] /\ Gain(i) <= missing
    BY <2>2, <2>3
  <2>. HIDE DEF missing, g, c
  <2>. QED  BY <1>4, <2>1, <2>4
<1>8. ASSUME NEW i \in Positions PROVE CandidateCount(i) = price[i]
  <2>1. /\ price[i] = Cardinality(Occurrences(i)) * PaymentScale
        /\ CandidateCount(i) = PaymentScale * Cardinality(Occurrences(i))
    BY DEF PricesAt, CountsAt, Occurrences, CandidateCount
  <2>2. Cardinality(Occurrences(i)) \in Nat /\ PaymentScale \in Nat
    <3>1. IsFiniteSet(Occurrences(i))
      <4>1. Occurrences(i) \in SUBSET Places
        BY DEF Occurrences
      <4>. QED  BY <1>1, <4>1, PlacesAreFinite, FS_Subset
    <3>. QED  BY <3>1, FS_CardinalityType, ScaleAssumption
  <2>. QED  BY <2>1, <2>2
<1>9. \A i \in Positions : paid[i] \in Nat /\ price[i] \in Nat /\ paid[i] <= price[i]
  BY <1>1, <1>4 DEF SharesOut
<1>10. ASSUME NEW i \in Useful
       PROVE  /\ Value(i) * Gain(i) <= price[i] - paid[i]
              /\ price[i] - paid[i] < Value(i) * Gain(i) + Gain(i)
  <2>1. i \in Positions /\ Gain(i) \in Nat /\ Gain(i) > 0 /\ CandidateCount(i) = price[i]
    BY <1>5, <1>6, <1>8
  <2>2. /\ paid[i] \in Nat /\ price[i] \in Nat /\ paid[i] <= price[i]
    BY <1>9, <2>1
  <2>. HIDE DEF price
  <2>3. Unpaid(i) = price[i] - paid[i] /\ Unpaid(i) \in Nat
    BY <2>1, <2>2 DEF Unpaid
  <2>4. Value(i) = Unpaid(i) \div Gain(i)
    BY DEF Value
  <2>5. \A n, d \in Nat : d > 0 => (n \div d) * d <= n /\ n < (n \div d) * d + d
    BY SMTT(30)
  <2>. HIDE DEF Unpaid, Gain, Value
  <2>6. (Unpaid(i) \div Gain(i)) * Gain(i) <= Unpaid(i) /\ Unpaid(i) < (Unpaid(i) \div Gain(i)) * Gain(i) + Gain(i)
    BY <2>1, <2>3, <2>5
  <2>. QED  BY <2>3, <2>4, <2>6
<1>. HIDE DEF c, price, P, b, v, missing
<1>11. ASSUME NEW i \in Positions \ P PROVE paid[i] + g[i] * v <= price[i]
  <2>1. g[i] = Gain(i) /\ Gain(i) \in Nat
    BY <1>7
  <2>2. paid[i] \in Nat /\ price[i] \in Nat /\ paid[i] <= price[i]
    BY <1>9
  <2>3. CASE i \in Useful
    <3>1. v * Gain(i) <= Value(i) * Gain(i) /\ v * Gain(i) \in Nat
      BY <1>5, <1>6, <2>1, <2>3, ProductIsMonotone
    <3>2. Value(i) * Gain(i) <= price[i] - paid[i] /\ Value(i) * Gain(i) \in Nat
      BY <1>5, <1>10, <2>3
    <3>3. Gain(i) * v = v * Gain(i)
      BY <1>6, <2>1
    <3>. QED  BY <2>1, <2>2, <3>1, <3>2, <3>3
  <2>4. CASE i \notin Useful
    <3>1. Gain(i) = 0
      BY <1>6, <2>1, <2>4
    <3>2. Gain(i) * v = 0
      BY <1>6, <3>1
    <3>. QED  BY <2>1, <2>2, <3>2
  <2>. QED  BY <2>3, <2>4
<1>12. price[b] < paid[b] + g[b] * v + g[b]
  <2>1. b \in Useful /\ b \in Positions
    BY <1>5, <1>6 DEF b
  <2>2. g[b] = Gain(b) /\ Gain(b) \in Nat /\ paid[b] \in Nat /\ price[b] \in Nat
    BY <1>7, <1>9, <2>1
  <2>3. price[b] - paid[b] < v * Gain(b) + Gain(b)
    BY <1>10, <2>1 DEF v, b
  <2>4. v * Gain(b) = Gain(b) * v /\ Gain(b) * v \in Nat
    BY <1>6, <2>2
  <2>. QED  BY <2>2, <2>3, <2>4
<1>13. [i \in Positions |-> IF i \in Useful THEN paid[i] + Gain(i) * v ELSE paid[i]]
         = Paying(Positions, c, Bound, P, paid, v)
  <2>1. ASSUME NEW i \in Positions
        PROVE  (IF i \in Useful THEN paid[i] + Gain(i) * v ELSE paid[i])
                 = IF i \in P THEN paid[i] ELSE paid[i] + g[i] * v
    <3>1. g[i] = Gain(i) /\ Gain(i) \in Nat /\ paid[i] \in Nat
      BY <1>7, <1>9
    <3>2. CASE i \in P
      BY <1>6, <3>2
    <3>3. CASE i \notin P /\ i \in Useful
      BY <3>1, <3>3
    <3>4. CASE i \notin P /\ i \notin Useful
      <4>1. Gain(i) = 0
        BY <1>6, <3>1, <3>4
      <4>2. g[i] * v = 0
        BY <1>6, <3>1, <4>1
      <4>. QED  BY <3>1, <3>4, <4>2
    <3>. QED  BY <3>2, <3>3, <3>4
  <2>. HIDE DEF g
  <2>. QED  BY <2>1 DEF Paying, g
<1>14. SharesOut(Positions, c, price, Bound, P \cup {b}, Paying(Positions, c, Bound, P, paid, v),
                 y + (Bound - Total(c, P)) * v)
  <2>1. SharesOut(Positions, c, price, Bound, P, paid, y)
    BY DEF c, price, P
  <2>. QED  BY <1>2, <1>3, <1>4, <1>6, <1>11, <1>12, <2>1, SharesAfterRound
<1>. QED  BY <1>3, <1>13, <1>14 DEF c, price, P, b, v, missing

LEMMA PickShares ==
  ASSUME SelectionInv, Pick, Sharing, NEW V, NEW M, SumsAreExact(V, M), PaymentsAreFine(V, M)
  PROVE  Sharing'
<1>1. /\ UNCHANGED inputs /\ UNCHANGED radius
      /\ stage = "selecting" /\ Admits(total) /\ Useful # {}
      /\ paid' = [i \in Positions |->
                    IF i \in Useful THEN paid[i] + Gain(i) * Value(Cheapest) ELSE paid[i]]
      /\ picked' = Append(picked, Cheapest)
  BY DEF Pick
<1>2. PICK y : SharesOut(Positions, ContributionsAt(radius), PricesAt(radius), Bound, Selected, paid, y)
  BY <1>1 DEF Sharing, Selected
<1>3. SharesOut(Positions, ContributionsAt(radius), PricesAt(radius), Bound, Selected \cup {Cheapest},
                paid', y + Residual(total) * Value(Cheapest))
  BY <1>1, <1>2, RoundShares
<1>4. Range(picked') = Selected \cup {Cheapest}
  <2>1. picked \in Seq(Positions)
    BY DEF SelectionInv, SelectionTypeOK
  <2>2. InputsOK /\ HasNextUp(threshold) /\ radius \in Cost /\ total \in Distance /\ paid \in [Positions -> Nat]
    BY <1>1 DEF SelectionInv, SelectionTypeOK, Admissible
  <2>3. Cheapest \in Positions
    BY <1>1, <2>2, PickFacts
  <2>. QED  BY <1>1, <2>1, <2>3, RangeOfAppend DEF Selected
<1>5. /\ ContributionsAt(radius)' = ContributionsAt(radius)
      /\ PricesAt(radius)' = PricesAt(radius)
      /\ Bound' = Bound /\ Positions' = Positions /\ Range(picked)' = Range(picked')
  <2>1. /\ ContributionsAt(radius)' = ContributionsAt(radius')
        /\ PricesAt(radius)' = PricesAt(radius')
    BY <1>1, ContributionsFixed, CountsFixed
  <2>. QED  BY <1>1, <2>1, InputsFixed, CountsFixed DEF Range
<1>. QED  BY <1>3, <1>4, <1>5 DEF Sharing

(* A selection that leaves the bound has chosen at most twice as many      *)
(* candidates as any that leaves it.                                       *)
LEMMA SharesGiveHalf ==
  ASSUME SelectionInv, stage = "selecting", Sharing,
         NEW V, NEW M, SumsAreExact(V, M), PaymentsAreFine(V, M)
  PROVE  HalfAt(radius, Range(picked))
<1>. DEFINE c == ContributionsAt(radius)
            P == Range(picked)
            n == CountsAt(radius)
<1>1. /\ InputsOK /\ HasNextUp(threshold) /\ radius \in Nat /\ picked \in Seq(Positions)
  BY CostAssumption DEF SelectionInv, SelectionTypeOK, Admissible
<1>2. P \in SUBSET Positions
  <2>1. \A k \in DOMAIN picked : picked[k] \in Positions
    BY <1>1
  <2>. QED  BY <2>1 DEF Range
<1>3. PICK y : SharesOut(Positions, c, PricesAt(radius), Bound, P, paid, y)
  BY DEF Sharing
<1>4. /\ n \in [Positions -> Nat] /\ IsFiniteSet(Positions)
      /\ Cardinality(Positions) = Len(query) /\ Len(query) \in Nat
      /\ \A S \in SUBSET Positions : CandidatesOf(S, radius) = Total(n, S)
      /\ PricesAt(radius) = [i \in Positions |-> n[i] * PaymentScale]
  BY <1>1, CountsAtFacts DEF PricesAt
<1>5. Cardinality(Positions) * Bound <= PaymentScale /\ PaymentScale \in Nat /\ PaymentScale > 0
  <2>1. query \in Queries /\ threshold \in Thresholds
    BY <1>1 DEF InputsOK
  <2>2. Len(query) * NextUp(threshold) <= PaymentScale
    BY <1>1, <2>1 DEF PaymentsAreFine
  <2>. QED  BY <1>4, <2>2, ScaleAssumption DEF Bound
<1>6. SUFFICES ASSUME NEW S \in SUBSET Positions, ~Admits(SumOver(c, S))
               PROVE  CandidatesOf(P, radius) <= 2 * CandidatesOf(S, radius)
  BY DEF HalfAt
<1>7. Bound \in Nat /\ Bound > 0 /\ Bound <= Total(c, S)
  BY <1>1, <1>6, BoundIsReached
<1>8. Total(n, P) <= 2 * Total(n, S)
  <2>. HIDE DEF c, P, n
  <2>. QED  BY <1>2, <1>3, <1>4, <1>5, <1>7, SharesAreHalf
<1>. QED  BY <1>2, <1>4, <1>8

LEMMA FactorSelectionSteps ==
  ASSUME FactorInv, SelectionInv, SelectionNext, NEW V, NEW M, SumsAreExact(V, M), PaymentsAreFine(V, M)
  PROVE  Sharing' /\ SelectionIsTwoApproximate'
<1>1. UNCHANGED inputs /\ Sharing /\ SelectionIsTwoApproximate
  BY DEF FactorInv, SelectionNext, RejectThreshold, Decline, StartAtDerivedRadius, Pick,
         SelectionSucceeds, SelectionFails, TryMiddle, SettleRadius
<1>2. CASE UNCHANGED chosen /\ stage' # "selecting"
  BY <1>1, <1>2, FactorKept DEF Sharing
<1>3. CASE StartAtDerivedRadius
  <2>1. SelectionTypeOK /\ InputsOK /\ HasNextUp(threshold) /\ Start(Eta) /\ UNCHANGED chosen
    BY <1>3 DEF SelectionInv, SelectionTypeOK, StartAtDerivedRadius
  <2>2. Eta \in Cost
    BY <2>1, RadiiFacts
  <2>. QED  BY <1>1, <2>1, <2>2, StartShares, FactorKept
<1>4. CASE TryMiddle
  <2>1. /\ stage = "widening" /\ low < high /\ Start(radii[Middle + 1]) /\ UNCHANGED chosen
    BY <1>4 DEF TryMiddle
  <2>2. /\ SelectionTypeOK /\ InputsOK /\ HasNextUp(threshold)
        /\ radii = SortedRadii /\ Len(SortedRadii) \in Nat
        /\ low \in Nat /\ high \in Nat /\ high <= Len(SortedRadii)
    BY <2>1, WideningFacts
  <2>3. Middle + 1 \in 1 .. Len(SortedRadii)
    BY <2>1, <2>2 DEF Middle
  <2>4. radii[Middle + 1] \in Cost
    BY <2>2, <2>3, RadiiFacts
  <2>. QED  BY <1>1, <2>1, <2>2, <2>4, StartShares, FactorKept
<1>5. CASE Pick
  <2>1. UNCHANGED chosen
    BY <1>5 DEF Pick
  <2>. QED  BY <1>1, <1>5, <2>1, PickShares, FactorKept
<1>6. CASE SelectionSucceeds
  <2>1. /\ stage = "selecting" /\ stage' # "selecting"
        /\ chosen' = [found |-> TRUE, radius |-> radius, picked |-> picked]
    BY <1>6 DEF SelectionSucceeds
  <2>2. HalfAt(radius, Range(picked))
    BY <1>1, <2>1, SharesGiveHalf
  <2>3. chosen'.radius = radius /\ chosen'.picked = picked
    BY <2>1
  <2>4. SelectionIsTwoApproximate'
    <3>1. \A r, S : SumOver(ContributionsAt(r), S)' = SumOver(ContributionsAt(r), S)
      BY <1>1, SumsFixed, ContributionsFixed
    <3>2. \A r, S : CandidatesOf(S, r)' = CandidatesOf(S, r)
      BY <1>1, CountsFixed
    <3>3. Positions' = Positions /\ \A d : Admits(d)' = Admits(d)
      BY <1>1, InputsFixed, AdmitsFixed
    <3>. QED  BY <2>2, <2>3, <3>1, <3>2, <3>3 DEF SelectionIsTwoApproximate, HalfAt, Range
  <2>. QED  BY <2>1, <2>4 DEF Sharing
<1>. QED
  BY <1>2, <1>3, <1>4, <1>5, <1>6
     DEF SelectionNext, RejectThreshold, Decline, SelectionFails, SettleRadius

LEMMA FactorStep ==
  ASSUME FactorInv, [Next]_vars, NEW V, NEW M, SumsAreExact(V, M), PaymentsAreFine(V, M)
  PROVE  FactorInv'
<1>1. SearchInv /\ SearchInv' /\ Sharing /\ SelectionIsTwoApproximate
  BY SearchStep DEF FactorInv
<1>2. CASE SelectionNext
  <2>1. stage \in {"checking", "selecting", "widening"}
    BY <1>2 DEF SelectionNext, RejectThreshold, Decline, StartAtDerivedRadius, Pick,
                SelectionSucceeds, SelectionFails, TryMiddle, SettleRadius
  <2>2. SelectionInv
    BY <1>1, <2>1 DEF SearchInv, SelectionStages
  <2>. QED  BY <1>1, <1>2, <2>2, FactorSelectionSteps DEF FactorInv
<1>3. CASE DeclineExpensive \/ Generate \/ (VerificationNext /\ UNCHANGED selectionVars)
  <2>1. UNCHANGED inputs /\ UNCHANGED chosen /\ stage' # "selecting"
    <3>1. CASE DeclineExpensive \/ Generate
      BY <3>1 DEF DeclineExpensive, Generate, selectionVars
    <3>2. CASE VerificationNext /\ UNCHANGED selectionVars
      BY <3>2 DEF VerificationNext, RejectCandidates, AcceptCandidates, SkipCandidate,
                  VerifyCandidate, Finish, selectionVars
    <3>. QED  BY <1>3, <3>1, <3>2
  <2>. QED  BY <1>1, <2>1, FactorKept DEF FactorInv, Sharing
<1>4. CASE UNCHANGED vars
  <2>1. /\ UNCHANGED inputs /\ UNCHANGED chosen /\ UNCHANGED stage /\ UNCHANGED radius
        /\ UNCHANGED picked /\ UNCHANGED paid
    BY <1>4 DEF vars, selectionState, selectionVars
  <2>2. /\ ContributionsAt(radius)' = ContributionsAt(radius)
        /\ PricesAt(radius)' = PricesAt(radius)
        /\ Bound' = Bound /\ Positions' = Positions /\ Range(picked)' = Range(picked)
    BY <2>1, InputsFixed, ContributionsFixed, CountsFixed DEF Range
  <2>3. Sharing'
    BY <1>1, <2>1, <2>2 DEF Sharing
  <2>. QED  BY <1>1, <2>1, <2>3, FactorKept DEF FactorInv
<1>. QED  BY <1>2, <1>3, <1>4 DEF Next, FilteringNext

(* MinCand's positions yield at most twice as many candidates as any       *)
(* positions that leave the bound, where sums are exact and what divisions *)
(* round away is less than a candidate.                                    *)
THEOREM SearchSelectsWithinFactor ==
  ASSUME NEW V, NEW M, SumsAreExact(V, M), PaymentsAreFine(V, M)
  PROVE  Spec => []SelectionIsTwoApproximate
<1>1. Init => FactorInv
  <2>. SUFFICES ASSUME Init PROVE FactorInv
    OBVIOUS
  <2>1. SelectionInv /\ VerificationInit /\ stage = "checking"
    BY InitialState DEF Init, SelectionInit
  <2>2. SearchInv
    BY <2>1 DEF SearchInv, SelectionStages, LateStages
  <2>3. ~chosen.found
    BY DEF Init, SelectionInit, NotFound
  <2>. QED  BY <2>1, <2>2, <2>3 DEF FactorInv, Sharing, SelectionIsTwoApproximate
<1>2. FactorInv /\ [Next]_vars => FactorInv'
  BY FactorStep
<1>3. FactorInv => SelectionIsTwoApproximate
  BY DEF FactorInv
<1>. QED  BY <1>1, <1>2, <1>3, PTL DEF Spec
==============================================================================
