---------------------------- MODULE CommonLemmas -----------------------------
(***************************************************************************)
(* Facts about natural numbers, least elements, sorted sets, recursive     *)
(* functions and joined sequences that the proofs share, and about sums    *)
(* over finite sets and the pairings of two sets in order, with the least  *)
(* of what they cost.  Induction is stated with sets, since the provers    *)
(* cannot instantiate a predicate, and recursion with the function that    *)
(* takes each value to the next.                                           *)
(***************************************************************************)
EXTENDS Ordering, SequencesExt, FiniteSetTheorems, SequenceTheorems, WellFoundedInduction, TLAPS

LessThan == OpToRel(<, Nat)

(* A non-empty set of naturals has a least element. *)
LEMMA LeastNatural ==
  ASSUME NEW T \in SUBSET Nat, T # {}
  PROVE  \E x \in T : \A y \in T : x <= y
<1>1. IsWellFoundedOn(LessThan, Nat)
  BY NatLessThanWellFounded DEF LessThan
<1>2. PICK x \in T : \A y \in T : ~(<<y, x>> \in LessThan)
  <2>. HIDE DEF LessThan
  <2>. QED  BY <1>1, WFMin
<1>3. ASSUME NEW y \in T, y < x PROVE FALSE
  <2>1. <<y, x>> \in LessThan
    BY <1>3 DEF LessThan, OpToRel
  <2>. QED  BY <1>2, <2>1
<1>. QED  BY <1>2, <1>3

(* Induction over the naturals, for the set of those a property holds of. *)
LEMMA NaturalInduction ==
  ASSUME NEW S \in SUBSET Nat, 0 \in S, \A n \in S : n + 1 \in S
  PROVE  S = Nat
<1>. SUFFICES ASSUME S # Nat PROVE FALSE
  OBVIOUS
<1>. DEFINE T == Nat \ S
<1>1. PICK x \in T : \A y \in T : x <= y
  <2>. HIDE DEF T
  <2>1. T \in SUBSET Nat /\ T # {}
    BY DEF T
  <2>. QED  BY <2>1, LeastNatural
<1>2. x # 0
  OBVIOUS
<1>3. x - 1 \in Nat /\ x - 1 \notin T
  BY <1>1, <1>2
<1>4. x \in S
  BY <1>3
<1>. QED  BY <1>4

(* Induction up to a bound. *)
LEMMA BoundedInduction ==
  ASSUME NEW n \in Nat, NEW S \in SUBSET (0 .. n), 0 \in S,
         \A k \in S : k < n => k + 1 \in S
  PROVE  S = 0 .. n
<1>. DEFINE T == {k \in Nat : k <= n => k \in S}
<1>1. T \in SUBSET Nat /\ 0 \in T /\ \A k \in T : k + 1 \in T
  OBVIOUS
<1>2. T = Nat
  <2>. HIDE DEF T
  <2>. QED  BY <1>1, NaturalInduction
<1>3. ASSUME NEW k \in 0 .. n PROVE k \in S
  <2>1. k \in T
    BY <1>2
  <2>. QED  BY <2>1
<1>. QED  BY <1>3

(* Min picks a least element. *)
LEMMA MinIsLeast ==
  ASSUME NEW S \in SUBSET Nat, S # {}
  PROVE  Min(S) \in S /\ \A y \in S : Min(S) <= y
BY LeastNatural DEF Min

------------------------------------------------------------------------------
(* The functions that grow from d0 by next, up to n.                       *)
Advances(n, D)          == [1 .. n -> [D -> D]]
Growing(n, D, d0, next) ==
  {f \in [0 .. n -> D] : f[0] = d0 /\ \A i \in 1 .. n : f[i] = next[i][f[i - 1]]}

(* There is one: what a recursive definition needs.                        *)
LEMMA RecursionExists ==
  ASSUME NEW n \in Nat, NEW D, NEW d0 \in D, NEW next \in Advances(n, D)
  PROVE  Growing(n, D, d0, next) # {}
<1>. USE DEF Advances, Growing
<1>. DEFINE Prefix(k) == {g \in [0 .. k -> D] :
                            g[0] = d0 /\ \A i \in 1 .. k : g[i] = next[i][g[i - 1]]}
            Reached == {k \in 0 .. n : Prefix(k) # {}}
<1>1. 0 \in Reached
  <2>1. [i \in 0 .. 0 |-> d0] \in Prefix(0)
    OBVIOUS
  <2>. QED  BY <2>1
<1>2. ASSUME NEW k \in Reached, k < n PROVE k + 1 \in Reached
  <2>1. PICK g \in [0 .. k -> D] : g[0] = d0 /\ \A i \in 1 .. k : g[i] = next[i][g[i - 1]]
    OBVIOUS
  <2>. DEFINE last == next[k + 1][g[k]]
              h == [i \in 0 .. (k + 1) |-> IF i = k + 1 THEN last ELSE g[i]]
  <2>2. k \in Nat /\ k + 1 \in 1 .. n
    BY <1>2
  <2>3. last \in D
    BY <2>2
  <2>4. h \in [0 .. (k + 1) -> D] /\ h[0] = d0
    <3>. HIDE DEF last
    <3>. QED  BY <2>1, <2>2, <2>3
  <2>5. ASSUME NEW i \in 1 .. (k + 1) PROVE h[i] = next[i][h[i - 1]]
    <3>1. CASE i = k + 1
      <4>1. h[i] = last /\ h[i - 1] = g[k]
        BY <2>2, <3>1
      <4>. QED  BY <3>1, <4>1
    <3>2. CASE i # k + 1
      <4>1. i \in 1 .. k /\ h[i] = g[i] /\ h[i - 1] = g[i - 1]
        BY <2>2, <3>2
      <4>. QED  BY <2>1, <4>1
    <3>. QED  BY <3>1, <3>2
  <2>6. h \in Prefix(k + 1)
    <3>. HIDE DEF h
    <3>. QED  BY <2>4, <2>5
  <2>7. Prefix(k + 1) # {} /\ k + 1 \in 0 .. n
    <3>. HIDE DEF Prefix
    <3>. QED  BY <2>2, <2>6
  <2>. QED  BY <2>7
<1>3. Reached = 0 .. n
  <2>1. Reached \in SUBSET (0 .. n)
    OBVIOUS
  <2>. HIDE DEF Reached
  <2>. QED  BY <1>1, <1>2, <2>1, BoundedInduction
<1>4. n \in Reached
  BY <1>3, SMTT(30)
<1>. QED  BY <1>4

(* A function of 0 .. n whose values stay in D from each to the next.      *)
LEMMA RecursionTyped ==
  ASSUME NEW n \in Nat, NEW D, NEW f, f = [i \in 0 .. n |-> f[i]], f[0] \in D,
         \A i \in 1 .. n : f[i - 1] \in D => f[i] \in D
  PROVE  f \in [0 .. n -> D]
<1>. DEFINE Typed == {k \in 0 .. n : f[k] \in D}
<1>1. 0 \in Typed
  OBVIOUS
<1>2. ASSUME NEW k \in Typed, k < n PROVE k + 1 \in Typed
  <2>1. k + 1 \in 1 .. n /\ (k + 1) - 1 = k /\ f[k] \in D
    BY <1>2
  <2>2. f[(k + 1) - 1] \in D => f[k + 1] \in D
    BY <2>1
  <2>3. f[k + 1] \in D
    BY <2>1, <2>2
  <2>. QED  BY <2>1, <2>3
<1>3. Typed = 0 .. n
  <2>1. Typed \in SUBSET (0 .. n)
    OBVIOUS
  <2>. HIDE DEF Typed
  <2>. QED  BY <1>1, <1>2, <2>1, BoundedInduction
<1>. QED  BY <1>3

------------------------------------------------------------------------------
(* Sorting.  An order is a set of pairs; an element's rank is the number   *)
(* of elements before it.                                                  *)
Under(S, R, x) == {y \in S : <<y, x>> \in R}

StrictOrder(S, R) ==
  /\ \A x \in S : <<x, x>> \notin R
  /\ \A x, y, z \in S : <<x, y>> \in R /\ <<y, z>> \in R => <<x, z>> \in R
  /\ \A x, y \in S : x # y => <<x, y>> \in R \/ <<y, x>> \in R

(* The sequence s of n elements goes through S in the order R. *)
Sorts(S, R, s, n) ==
  /\ n \in Nat
  /\ s \in [1 .. n -> S]
  /\ \A i, j \in 1 .. n : i < j => <<s[i], s[j]>> \in R
  /\ \A x \in S : \E i \in 1 .. n : s[i] = x

(* What comes later has more before it.                                    *)
LEMMA RankGrows ==
  ASSUME NEW S, IsFiniteSet(S), NEW R, StrictOrder(S, R), NEW x \in S, NEW y \in S, <<x, y>> \in R
  PROVE  Cardinality(Under(S, R, x)) < Cardinality(Under(S, R, y))
<1>1. Under(S, R, x) \cup {x} \in SUBSET Under(S, R, y) /\ x \notin Under(S, R, x)
  BY DEF Under, StrictOrder
<1>2. Under(S, R, x) \in SUBSET S /\ Under(S, R, y) \in SUBSET S
  BY DEF Under
<1>3. /\ IsFiniteSet(Under(S, R, x)) /\ Cardinality(Under(S, R, x)) \in Nat
      /\ IsFiniteSet(Under(S, R, y)) /\ Cardinality(Under(S, R, y)) \in Nat
  BY <1>2, FS_Subset, FS_CardinalityType
<1>4. Cardinality(Under(S, R, x) \cup {x}) = Cardinality(Under(S, R, x)) + 1
  BY <1>1, <1>3, FS_AddElement
<1>5. Cardinality(Under(S, R, x) \cup {x}) <= Cardinality(Under(S, R, y))
  BY <1>1, <1>3, FS_Subset
<1>. QED  BY <1>3, <1>4, <1>5

LEMMA RankIsUnique ==
  ASSUME NEW S, IsFiniteSet(S), NEW R, StrictOrder(S, R), NEW x \in S, NEW y \in S,
         Cardinality(Under(S, R, x)) = Cardinality(Under(S, R, y))
  PROVE  x = y
<1>1. /\ Cardinality(Under(S, R, x)) \in Nat
      /\ Cardinality(Under(S, R, y)) \in Nat
  BY FS_Subset, FS_CardinalityType DEF Under
<1>2. <<x, y>> \notin R /\ <<y, x>> \notin R
  BY <1>1, RankGrows
<1>. QED  BY <1>2 DEF StrictOrder

(* Every rank below the size of the set is some element's: the ranks are   *)
(* different and there are no others they could have.                      *)
LEMMA RankExists ==
  ASSUME NEW S, IsFiniteSet(S), NEW R, StrictOrder(S, R),
         NEW k \in 0 .. (Cardinality(S) - 1)
  PROVE  \E x \in S : Cardinality(Under(S, R, x)) = k
<1>. DEFINE n == Cardinality(S)
            T == 0 .. (n - 1)
            rank == [x \in S |-> Cardinality(Under(S, R, x))]
<1>1. n \in Nat
  BY FS_CardinalityType
<1>2. ASSUME NEW x \in S PROVE Cardinality(Under(S, R, x)) \in T
  <2>1. Under(S, R, x) \in SUBSET S /\ x \notin Under(S, R, x)
    BY DEF Under, StrictOrder
  <2>2. Under(S, R, x) # S
    BY <2>1
  <2>3. /\ Cardinality(Under(S, R, x)) \in Nat /\ Cardinality(Under(S, R, x)) <= n
        /\ Cardinality(Under(S, R, x)) # n
    BY <2>1, <2>2, FS_Subset, FS_CardinalityType
  <2>. QED  BY <1>1, <2>3
<1>3. rank \in Injection(S, T)
  <2>1. rank \in [S -> T]
    BY <1>2
  <2>2. \A x, y \in S : rank[x] = rank[y] => x = y
    BY RankIsUnique
  <2>. HIDE DEF rank, T
  <2>. QED  BY <2>1, <2>2 DEF Injection, IsInjective
<1>4. IsFiniteSet(T) /\ Cardinality(T) = n
  <2>1. 0 \in Int /\ n - 1 \in Int /\ (IF 0 > n - 1 THEN 0 ELSE (n - 1) - 0 + 1) = n
    BY <1>1
  <2>. HIDE DEF n
  <2>. QED  BY <2>1, FS_Interval
<1>5. rank \in Surjection(S, T)
  <2>. HIDE DEF rank, T
  <2>. QED  BY <1>3, <1>4, FS_Injection
<1>6. \E x \in S : rank[x] = k
  <2>1. k \in T
    OBVIOUS
  <2>. HIDE DEF rank, T
  <2>. QED  BY <1>5, <2>1 DEF Surjection
<1>. QED  BY <1>6

(* A sequence in which every element stands at its rank is sorted.         *)
LEMMA RankedIsSorted ==
  ASSUME NEW S, IsFiniteSet(S), NEW R, StrictOrder(S, R),
         NEW s \in [1 .. Cardinality(S) -> S],
         \A k \in 1 .. Cardinality(S) : Cardinality(Under(S, R, s[k])) = k - 1
  PROVE  Sorts(S, R, s, Cardinality(S))
<1>. DEFINE n == Cardinality(S)
<1>1. n \in Nat
  BY FS_CardinalityType
<1>2. ASSUME NEW i \in 1 .. n, NEW j \in 1 .. n, i < j PROVE <<s[i], s[j]>> \in R
  <2>1. s[i] \in S /\ s[j] \in S
    OBVIOUS
  <2>2. Cardinality(Under(S, R, s[i])) < Cardinality(Under(S, R, s[j]))
    BY <1>1, <1>2
  <2>3. s[i] # s[j]
    BY <1>1, <1>2, <2>2
  <2>4. <<s[j], s[i]>> \notin R
    <3>1. ~(Cardinality(Under(S, R, s[j])) < Cardinality(Under(S, R, s[i])))
      BY <1>1, <1>2
    <3>. QED  BY <2>1, <3>1, RankGrows
  <2>. QED  BY <2>1, <2>3, <2>4 DEF StrictOrder
<1>3. ASSUME NEW x \in S PROVE \E i \in 1 .. n : s[i] = x
  <2>. DEFINE k == Cardinality(Under(S, R, x)) + 1
  <2>1. Under(S, R, x) \in SUBSET S /\ Under(S, R, x) # S
    BY DEF Under, StrictOrder
  <2>2. /\ Cardinality(Under(S, R, x)) \in Nat /\ Cardinality(Under(S, R, x)) <= n
        /\ Cardinality(Under(S, R, x)) # n
    BY <2>1, FS_Subset, FS_CardinalityType
  <2>3. k \in 1 .. n /\ k - 1 = Cardinality(Under(S, R, x))
    BY <1>1, <2>2
  <2>4. s[k] \in S /\ Cardinality(Under(S, R, s[k])) = Cardinality(Under(S, R, x))
    BY <2>3
  <2>5. s[k] = x
    BY <2>4, RankIsUnique
  <2>. QED  BY <2>3, <2>5
<1>. QED  BY <1>1, <1>2, <1>3 DEF Sorts

(* In a sorted sequence every element stands at its rank.                  *)
LEMMA SortedIsRanked ==
  ASSUME NEW S, NEW R, StrictOrder(S, R), NEW n, NEW s, Sorts(S, R, s, n)
  PROVE  /\ IsFiniteSet(S) /\ Cardinality(S) = n
         /\ \A k \in 1 .. n : Cardinality(Under(S, R, s[k])) = k - 1
<1>. USE DEF Sorts
<1>. DEFINE First(k) == {s[i] : i \in 1 .. k}
<1>1. \A i, j \in 1 .. n : <<s[i], s[j]>> \in R <=> i < j
  <2>. SUFFICES ASSUME NEW i \in 1 .. n, NEW j \in 1 .. n PROVE <<s[i], s[j]>> \in R <=> i < j
    OBVIOUS
  <2>1. s[i] \in S /\ s[j] \in S /\ (i < j \/ i = j \/ j < i)
    OBVIOUS
  <2>2. ~(<<s[i], s[j]>> \in R /\ <<s[j], s[i]>> \in R)
    BY <2>1 DEF StrictOrder
  <2>3. i = j => <<s[i], s[j]>> \notin R
    BY <2>1 DEF StrictOrder
  <2>. QED  BY <2>1, <2>2, <2>3
<1>2. \A k \in 0 .. n : IsFiniteSet(First(k)) /\ Cardinality(First(k)) = k
  <2>. DEFINE T == {k \in 0 .. n : IsFiniteSet(First(k)) /\ Cardinality(First(k)) = k}
  <2>1. 0 \in T
    <3>1. First(0) = {}
      OBVIOUS
    <3>. HIDE DEF First
    <3>. QED  BY <3>1, FS_EmptySet
  <2>2. ASSUME NEW k \in T, k < n PROVE k + 1 \in T
    <3>1. First(k + 1) = First(k) \cup {s[k + 1]}
      OBVIOUS
    <3>2. s[k + 1] \notin First(k)
      <4>1. \A i \in 1 .. k : i \in 1 .. n /\ k + 1 \in 1 .. n /\ i < k + 1 /\ s[i] \in S
        BY <2>2
      <4>2. \A i \in 1 .. k : <<s[i], s[k + 1]>> \in R
        BY <4>1
      <4>3. \A i \in 1 .. k : s[i] # s[k + 1]
        BY <4>1, <4>2 DEF StrictOrder
      <4>. QED  BY <4>3
    <3>3. IsFiniteSet(First(k)) /\ Cardinality(First(k)) = k
      OBVIOUS
    <3>. HIDE DEF First
    <3>4. IsFiniteSet(First(k + 1)) /\ Cardinality(First(k + 1)) = k + 1
      <4>. DEFINE F == First(k)
                  x == s[k + 1]
      <4>1. IsFiniteSet(F) /\ Cardinality(F) = k /\ x \notin F
        BY <3>2, <3>3
      <4>. HIDE DEF F, x, T
      <4>2. IsFiniteSet(F \cup {x}) /\ Cardinality(F \cup {x}) = Cardinality(F) + 1
        BY <4>1, FS_AddElement
      <4>. QED  BY <3>1, <4>1, <4>2 DEF F, x
    <3>. QED  BY <2>2, <3>4
  <2>3. T = 0 .. n
    <3>1. T \in SUBSET (0 .. n)
      OBVIOUS
    <3>. HIDE DEF T
    <3>. QED  BY <2>1, <2>2, <3>1, BoundedInduction
  <2>. QED  BY <2>3
<1>3. S = First(n) /\ n \in 0 .. n
  OBVIOUS
<1>4. ASSUME NEW k \in 1 .. n PROVE Under(S, R, s[k]) = First(k - 1) /\ k - 1 \in 0 .. n
  <2>1. \A x \in S : <<x, s[k]>> \in R <=> \E i \in 1 .. (k - 1) : s[i] = x
    <3>. SUFFICES ASSUME NEW j \in 1 .. n
                  PROVE  <<s[j], s[k]>> \in R <=> \E i \in 1 .. (k - 1) : s[i] = s[j]
      OBVIOUS
    <3>1. \A i \in 1 .. (k - 1) : i \in 1 .. n /\ i < k /\ <<s[i], s[k]>> \in R
      BY <1>1
    <3>2. j < k => j \in 1 .. (k - 1)
      OBVIOUS
    <3>. QED  BY <1>1, <3>1, <3>2
  <2>2. First(k - 1) \in SUBSET S
    OBVIOUS
  <2>. QED  BY <2>1, <2>2 DEF Under
<1>. HIDE DEF First
<1>. QED  BY <1>2, <1>3, <1>4

(* There is one way only to go through a set in an order.                  *)
LEMMA SortIsUnique ==
  ASSUME NEW S, NEW R, StrictOrder(S, R), NEW m, NEW n, NEW s, NEW t,
         Sorts(S, R, s, m), Sorts(S, R, t, n)
  PROVE  s = t /\ m = n
<1>1. /\ IsFiniteSet(S) /\ m = Cardinality(S) /\ n = Cardinality(S)
      /\ \A k \in 1 .. m : Cardinality(Under(S, R, s[k])) = k - 1
      /\ \A k \in 1 .. n : Cardinality(Under(S, R, t[k])) = k - 1
  BY SortedIsRanked
<1>2. \A k \in 1 .. m : s[k] = t[k]
  <2>. TAKE k \in 1 .. m
  <2>1. s[k] \in S /\ t[k] \in S
    BY <1>1 DEF Sorts
  <2>2. Cardinality(Under(S, R, s[k])) = Cardinality(Under(S, R, t[k]))
    BY <1>1
  <2>. QED  BY <1>1, <2>1, <2>2, RankIsUnique
<1>. QED  BY <1>1, <1>2 DEF Sorts

(* A sequence whose elements are chosen by rank is sorted.                 *)
LEMMA ChosenByRank ==
  ASSUME NEW S, IsFiniteSet(S), NEW R, StrictOrder(S, R),
         NEW s, s = [k \in 1 .. Cardinality(S) |-> s[k]],
         \A k \in 1 .. Cardinality(S) :
            (\E x \in S : Cardinality(Under(S, R, x)) = k - 1)
              => s[k] \in S /\ Cardinality(Under(S, R, s[k])) = k - 1
  PROVE  Sorts(S, R, s, Cardinality(S))
<1>1. \A q \in 0 .. (Cardinality(S) - 1) : \E x \in S : Cardinality(Under(S, R, x)) = q
  BY RankExists
<1>2. \A k \in 1 .. Cardinality(S) : k - 1 \in 0 .. (Cardinality(S) - 1)
  BY FS_CardinalityType
<1>3. \A k \in 1 .. Cardinality(S) : s[k] \in S /\ Cardinality(Under(S, R, s[k])) = k - 1
  BY <1>1, <1>2
<1>4. s \in [1 .. Cardinality(S) -> S]
  BY <1>3
<1>. QED  BY <1>3, <1>4, RankedIsSorted

(* A transitive relation of neighbors relates any two elements.            *)
LEMMA NeighborsSuffice ==
  ASSUME NEW S, NEW R, NEW n \in Nat, NEW t \in [1 .. n -> S],
         \A x, y, z \in S : <<x, y>> \in R /\ <<y, z>> \in R => <<x, z>> \in R,
         \A k \in 2 .. n : <<t[k - 1], t[k]>> \in R
  PROVE  \A i, j \in 1 .. n : i < j => <<t[i], t[j]>> \in R
<1>. SUFFICES ASSUME NEW i \in 1 .. n PROVE \A j \in 1 .. n : i < j => <<t[i], t[j]>> \in R
  OBVIOUS
<1>. DEFINE T == {j \in 0 .. n : i < j => <<t[i], t[j]>> \in R}
<1>1. 0 \in T
  OBVIOUS
<1>2. ASSUME NEW j \in T, j < n PROVE j + 1 \in T
  <2>1. SUFFICES ASSUME i < j + 1 PROVE <<t[i], t[j + 1]>> \in R
    BY <1>2
  <2>2. j + 1 \in 2 .. n /\ (j + 1) - 1 = j /\ j \in 1 .. n
    BY <1>2, <2>1
  <2>3. <<t[j], t[j + 1]>> \in R /\ t[j] \in S /\ t[j + 1] \in S /\ t[i] \in S
    BY <2>2
  <2>4. CASE i = j
    BY <2>3, <2>4
  <2>5. CASE i < j
    BY <2>3, <2>5
  <2>. QED  BY <2>1, <2>2, <2>4, <2>5
<1>3. T = 0 .. n
  <2>1. T \in SUBSET (0 .. n)
    OBVIOUS
  <2>. HIDE DEF T
  <2>. QED  BY <1>1, <1>2, <2>1, BoundedInduction
<1>4. \A j \in 1 .. n : j \in T
  <2>. HIDE DEF T
  <2>. QED  BY <1>3
<1>. QED  BY <1>4

(* The order of numbers. *)
Increasing(S) == {pair \in S \X S : pair[1] < pair[2]}

LEMMA NumbersAreOrdered ==
  ASSUME NEW S \in SUBSET Nat
  PROVE  /\ StrictOrder(S, Increasing(S))
         /\ \A x, y \in S : <<x, y>> \in Increasing(S) <=> x < y
<1>1. \A x, y \in S : <<x, y>> \in Increasing(S) <=> x < y
  BY DEF Increasing
<1>2. \A x \in S : x \in Nat
  OBVIOUS
<1>. QED  BY <1>1, <1>2 DEF StrictOrder

(* Ascending lists the elements of a finite set in increasing order.       *)
LEMMA AscendingSorts ==
  ASSUME NEW S \in SUBSET Nat, IsFiniteSet(S)
  PROVE  Sorts(S, Increasing(S), Ascending(S), Cardinality(S))
<1>. DEFINE R == Increasing(S)
            s == Ascending(S)
<1>1. StrictOrder(S, R) /\ \A x \in S : Under(S, R, x) = {y \in S : y < x}
  BY NumbersAreOrdered DEF Under
<1>2. s = [k \in 1 .. Cardinality(S) |-> s[k]]
  <2>. DEFINE Ranked(k) == CHOOSE x \in S : Cardinality({y \in S : y < x}) = k - 1
  <2>1. s = [k \in 1 .. Cardinality(S) |-> Ranked(k)]
    BY ZenonT(30) DEF Ascending, SortedBy
  <2>. HIDE DEF s, Ranked
  <2>. QED  BY <2>1
<1>3. ASSUME NEW k \in 1 .. Cardinality(S),
             \E x \in S : Cardinality(Under(S, R, x)) = k - 1
      PROVE  s[k] \in S /\ Cardinality(Under(S, R, s[k])) = k - 1
  <2>1. s[k] = CHOOSE x \in S : Cardinality({y \in S : y < x}) = k - 1
    BY DEF Ascending, SortedBy
  <2>. HIDE DEF R, s
  <2>2. \E x \in S : Cardinality({y \in S : y < x}) = k - 1
    BY <1>1, <1>3
  <2>3. s[k] \in S /\ Cardinality({y \in S : y < s[k]}) = k - 1
    BY <2>1, <2>2
  <2>. QED  BY <1>1, <2>3
<1>4. Sorts(S, R, s, Cardinality(S))
  <2>. HIDE DEF R, s
  <2>. QED  BY <1>1, <1>2, <1>3, ChosenByRank
<1>. QED  BY <1>4

LEMMA AscendingIsSorted ==
  ASSUME NEW S \in SUBSET Nat, IsFiniteSet(S)
  PROVE  /\ Ascending(S) \in Seq(S)
         /\ Len(Ascending(S)) = Cardinality(S)
         /\ \A i, j \in 1 .. Len(Ascending(S)) : i < j => Ascending(S)[i] < Ascending(S)[j]
         /\ \A x \in S : \E i \in 1 .. Len(Ascending(S)) : Ascending(S)[i] = x
<1>. DEFINE s == Ascending(S)
            n == Cardinality(S)
<1>1. /\ n \in Nat /\ s \in [1 .. n -> S]
      /\ \A i, j \in 1 .. n : i < j => <<s[i], s[j]>> \in Increasing(S)
      /\ \A x \in S : \E i \in 1 .. n : s[i] = x
  BY AscendingSorts DEF Sorts
<1>. HIDE DEF s, n
<1>2. s \in Seq(S) /\ Len(s) = n
  BY <1>1
<1>3. \A i, j \in 1 .. n : i < j => s[i] < s[j]
  BY <1>1, NumbersAreOrdered
<1>. QED  BY <1>1, <1>2, <1>3 DEF s, n

(* The only increasing sequence of the elements of a set is Ascending.     *)
LEMMA AscendingIsUnique ==
  ASSUME NEW n \in Nat, NEW s \in [1 .. n -> Nat],
         \A i, j \in 1 .. n : i < j => s[i] < s[j]
  PROVE  Ascending({s[i] : i \in 1 .. n}) = s
<1>. DEFINE T == {s[i] : i \in 1 .. n}
            R == Increasing(T)
<1>1. T \in SUBSET Nat /\ s \in [1 .. n -> T] /\ \A x \in T : \E i \in 1 .. n : s[i] = x
  OBVIOUS
<1>. HIDE DEF T, R
<1>2. Sorts(T, R, s, n)
  BY <1>1, NumbersAreOrdered DEF Sorts, R
<1>3. StrictOrder(T, R)
  BY <1>1, NumbersAreOrdered DEF R
<1>4. IsFiniteSet(T)
  BY <1>2, <1>3, SortedIsRanked
<1>5. Sorts(T, R, Ascending(T), Cardinality(T))
  BY <1>1, <1>4, AscendingSorts DEF R
<1>6. Ascending(T) = s
  BY <1>2, <1>3, <1>5, SortIsUnique
<1>. QED  BY <1>6 DEF T

------------------------------------------------------------------------------
(* FlattenSeq joins sequences one after the other.                         *)
LEMMA FlattenDefined ==
  ASSUME NEW S, NEW ss \in Seq(Seq(S))
  PROVE  \E f \in [0 .. Len(ss) -> Seq(S)] :
            /\ f[0] = <<>>
            /\ \A i \in 1 .. Len(ss) : f[i] = f[i - 1] \o ss[i]
            /\ FlattenSeq(ss) = f[Len(ss)]
<1>. DEFINE n == Len(ss)
<1>1. n \in Nat /\ ss \in [1 .. n -> Seq(S)]
  OBVIOUS
<1>2. CASE n = 0
  <2>1. ss = <<>> /\ FlattenSeq(ss) = <<>>
    BY <1>2 DEF FlattenSeq
  <2>. DEFINE f == [i \in 0 .. 0 |-> <<>>]
  <2>2. f \in [0 .. 0 -> Seq(S)] /\ f[0] = <<>>
    OBVIOUS
  <2>3. 0 .. Len(ss) = 0 .. 0 /\ 1 .. Len(ss) = {} /\ Len(ss) = 0
    BY <1>2
  <2>. HIDE DEF f
  <2>. QED  BY <2>1, <2>2, <2>3
<1>3. CASE n # 0
  <2>. DEFINE next == [i \in 1 .. n |-> [x \in Seq(S) |-> x \o ss[i]]]
              Recursive(h) == h = [i \in 1 .. n |-> IF i = 1 THEN ss[i] ELSE h[i - 1] \o ss[i]]
              flatten == CHOOSE h : Recursive(h)
  <2>1. next \in Advances(n, Seq(S))
    BY <1>1 DEF Advances
  <2>2. PICK g \in [0 .. n -> Seq(S)] : g[0] = <<>> /\ \A i \in 1 .. n : g[i] = next[i][g[i - 1]]
    <3>0. <<>> \in Seq(S)
      OBVIOUS
    <3>. HIDE DEF next, n
    <3>1. Growing(n, Seq(S), <<>>, next) # {}
      BY <1>1, <2>1, <3>0, RecursionExists
    <3>. QED  BY <3>1 DEF Growing
  <2>3. \A i \in 1 .. n : g[i] = g[i - 1] \o ss[i]
    <3>. TAKE i \in 1 .. n
    <3>1. i - 1 \in 0 .. n
      BY <1>1
    <3>2. g[i - 1] \in Seq(S)
      BY <2>2, <3>1
    <3>. QED  BY <2>2, <3>2
  <2>4. g[1] = ss[1]
    <3>1. 1 \in 1 .. n /\ ss[1] \in Seq(S)
      BY <1>1, <1>3
    <3>2. g[1] = <<>> \o ss[1]
      <4>1. 1 - 1 = 0
        OBVIOUS
      <4>. QED  BY <2>2, <2>3, <3>1, <4>1
    <3>. QED  BY <3>1, <3>2, ConcatEmptySeq
  <2>. DEFINE h1 == [i \in 1 .. n |-> g[i]]
  <2>5. Recursive(h1)
    <3>1. \A i \in 1 .. n : g[i] = IF i = 1 THEN ss[i] ELSE h1[i - 1] \o ss[i]
      <4>. TAKE i \in 1 .. n
      <4>1. i # 1 => i - 1 \in 1 .. n
        BY <1>1
      <4>. QED  BY <2>3, <2>4, <4>1
    <3>. QED  BY <3>1
  <2>6. Recursive(flatten)
    <3>. HIDE DEF Recursive
    <3>. QED  BY <2>5
  <2>7. FlattenSeq(ss) = flatten[n]
    BY <1>3 DEF FlattenSeq
  <2>. DEFINE f == [i \in 0 .. n |-> IF i = 0 THEN <<>> ELSE flatten[i]]
  <2>8. /\ flatten[1] = ss[1]
        /\ \A i \in 2 .. n : flatten[i] = flatten[i - 1] \o ss[i]
    <3>1. \A i \in 1 .. n : flatten[i] = IF i = 1 THEN ss[i] ELSE flatten[i - 1] \o ss[i]
      <4>. HIDE DEF flatten
      <4>. QED  BY <2>6
    <3>2. 1 \in 1 .. n /\ \A i \in 2 .. n : i \in 1 .. n /\ i # 1
      BY <1>1, <1>3
    <3>. HIDE DEF flatten, n
    <3>. QED  BY <3>1, <3>2
  <2>. HIDE DEF flatten
  <2>9. \A i \in 1 .. n : f[i] = f[i - 1] \o ss[i]
    <3>. TAKE i \in 1 .. n
    <3>1. CASE i = 1
      <4>1. f[i] = ss[i] /\ f[i - 1] = <<>> /\ ss[i] \in Seq(S)
        BY <1>1, <2>8, <3>1
      <4>. QED  BY <4>1, ConcatEmptySeq
    <3>2. CASE i # 1
      <4>1. i \in 2 .. n /\ i - 1 \in 0 .. n /\ i - 1 # 0 /\ i \in 0 .. n /\ i # 0
        BY <1>1, <3>2
      <4>2. f[i] = flatten[i] /\ f[i - 1] = flatten[i - 1]
        BY <4>1
      <4>. QED  BY <2>8, <4>1, <4>2
    <3>. QED  BY <3>1, <3>2
  <2>10. f \in [0 .. n -> Seq(S)]
    <3>1. f[0] \in Seq(S) /\ f = [i \in 0 .. n |-> f[i]]
      BY <1>1
    <3>2. \A i \in 1 .. n : f[i - 1] \in Seq(S) => f[i] \in Seq(S)
      <4>. HIDE DEF f
      <4>. SUFFICES ASSUME NEW i \in 1 .. n, f[i - 1] \in Seq(S) PROVE f[i] \in Seq(S)
        OBVIOUS
      <4>1. ss[i] \in Seq(S) /\ f[i] = f[i - 1] \o ss[i]
        BY <1>1, <2>9
      <4>. DEFINE x == f[i - 1]
                  y == ss[i]
      <4>2. x \in Seq(S) /\ y \in Seq(S)
        BY <4>1
      <4>. HIDE DEF x, y
      <4>3. x \o y \in Seq(S)
        BY <4>2, ConcatProperties
      <4>. QED  BY <4>1, <4>3 DEF x, y
    <3>. HIDE DEF f, n
    <3>. QED  BY <1>1, <3>1, <3>2, RecursionTyped
  <2>11. f[0] = <<>> /\ f[n] = FlattenSeq(ss)
    BY <1>1, <1>3, <2>7
  <2>. HIDE DEF f
  <2>. QED  BY <2>9, <2>10, <2>11
<1>. QED  BY <1>2, <1>3

(* Any function that joins them one by one ends with all of them joined.   *)
LEMMA FlattenUnique ==
  ASSUME NEW S, NEW ss \in Seq(Seq(S)), NEW g, g[0] = <<>>,
         \A i \in 1 .. Len(ss) : g[i] = g[i - 1] \o ss[i]
  PROVE  FlattenSeq(ss) = g[Len(ss)]
<1>. DEFINE n == Len(ss)
<1>1. PICK f \in [0 .. n -> Seq(S)] :
        /\ f[0] = <<>>
        /\ \A i \in 1 .. n : f[i] = f[i - 1] \o ss[i]
        /\ FlattenSeq(ss) = f[n]
  BY FlattenDefined
<1>. DEFINE Same == {k \in 0 .. n : f[k] = g[k]}
<1>2. n \in Nat
  OBVIOUS
<1>3. 0 \in Same
  BY <1>1, <1>2
<1>4. ASSUME NEW k \in Same, k < n PROVE k + 1 \in Same
  <2>1. k + 1 \in 1 .. n /\ k + 1 \in 0 .. n /\ (k + 1) - 1 = k
    BY <1>2, <1>4
  <2>2. f[k + 1] = f[k] \o ss[k + 1] /\ g[k + 1] = g[k] \o ss[k + 1]
    BY <1>1, <2>1
  <2>. QED  BY <2>1, <2>2
<1>5. Same = 0 .. n
  <2>1. Same \in SUBSET (0 .. n)
    OBVIOUS
  <2>. HIDE DEF Same, n
  <2>. QED  BY <1>2, <1>3, <1>4, <2>1, BoundedInduction
<1>6. n \in Same
  BY <1>2, <1>5
<1>. QED  BY <1>1, <1>6

LEMMA FlattenType ==
  ASSUME NEW S, NEW ss \in Seq(Seq(S))
  PROVE  FlattenSeq(ss) \in Seq(S)
<1>1. Len(ss) \in 0 .. Len(ss)
  OBVIOUS
<1>2. PICK f \in [0 .. Len(ss) -> Seq(S)] : FlattenSeq(ss) = f[Len(ss)]
  BY FlattenDefined
<1>. QED  BY <1>1, <1>2

LEMMA FlattenEmpty == FlattenSeq(<<>>) = <<>>
BY DEF FlattenSeq

(* One more sequence is joined at the end.                                 *)
LEMMA FlattenAppend ==
  ASSUME NEW S, NEW ss \in Seq(Seq(S)), NEW s \in Seq(S)
  PROVE  FlattenSeq(Append(ss, s)) = FlattenSeq(ss) \o s
<1>. DEFINE n == Len(ss)
            tt == Append(ss, s)
<1>1. /\ n \in Nat /\ tt \in Seq(Seq(S)) /\ Len(tt) = n + 1
      /\ \A i \in 1 .. n : tt[i] = ss[i]
      /\ tt[n + 1] = s
  BY AppendProperties
<1>. HIDE DEF tt
<1>2. PICK f \in [0 .. (n + 1) -> Seq(S)] :
        /\ f[0] = <<>>
        /\ \A i \in 1 .. (n + 1) : f[i] = f[i - 1] \o tt[i]
        /\ FlattenSeq(tt) = f[n + 1]
  <2>1. \E f \in [0 .. Len(tt) -> Seq(S)] :
          /\ f[0] = <<>>
          /\ \A i \in 1 .. Len(tt) : f[i] = f[i - 1] \o tt[i]
          /\ FlattenSeq(tt) = f[Len(tt)]
    BY <1>1, FlattenDefined
  <2>2. Len(tt) = n + 1
    BY <1>1
  <2>. HIDE DEF n
  <2>. QED  BY <2>1, <2>2
<1>3. \A i \in 1 .. n : f[i] = f[i - 1] \o ss[i]
  <2>1. \A i \in 1 .. n : i \in 1 .. (n + 1)
    BY <1>1
  <2>. QED  BY <1>1, <1>2, <2>1
<1>4. FlattenSeq(ss) = f[n]
  BY <1>2, <1>3, FlattenUnique
<1>5. f[n + 1] = f[n] \o s
  <2>1. n + 1 \in 1 .. (n + 1) /\ (n + 1) - 1 = n
    BY <1>1
  <2>. QED  BY <1>1, <1>2, <2>1
<1>. QED  BY <1>2, <1>4, <1>5 DEF tt

(* Three sequences are joined alike from either end.                       *)
AreJoinable(S, u, v, w) == u \in Seq(S) /\ v \in Seq(S) /\ w \in Seq(S)

LEMMA JoinTwice ==
  ASSUME NEW S, NEW u, NEW v, NEW w, AreJoinable(S, u, v, w)
  PROVE  (u \o v) \o w = u \o (v \o w)
<1>1. u \in Seq(S) /\ v \in Seq(S) /\ w \in Seq(S)
  BY DEF AreJoinable
<1>. QED  BY <1>1, ConcatAssociative, SMTT(60)

(* What is joined up to a place and what is joined from there on.          *)
LEMMA FlattenSplit ==
  ASSUME NEW S, NEW ss \in Seq(Seq(S)), NEW k \in 0 .. Len(ss), NEW m \in k .. Len(ss)
  PROVE  FlattenSeq(SubSeq(ss, 1, m))
           = FlattenSeq(SubSeq(ss, 1, k)) \o FlattenSeq(SubSeq(ss, k + 1, m))
<1>. DEFINE n == Len(ss)
            F(a, b) == FlattenSeq(SubSeq(ss, a, b))
            Good == {d \in 0 .. (n - k) : F(1, k + d) = F(1, k) \o F(k + 1, k + d)}
<1>1. n \in Nat /\ k \in Nat /\ n - k \in Nat /\ \A i \in 1 .. n : ss[i] \in Seq(S)
  OBVIOUS
<1>2. \A a \in 1 .. (n + 1), b \in 0 .. n : SubSeq(ss, a, b) \in Seq(Seq(S))
  <2>. TAKE a \in 1 .. (n + 1), b \in 0 .. n
  <2>1. \A i \in a .. b : ss[i] \in Seq(S)
    BY <1>1
  <2>. QED  BY <1>1, <2>1, SubSeqProperties
<1>3. \A a \in 1 .. (n + 1), b \in 0 .. n : F(a, b) \in Seq(S)
  BY <1>2, FlattenType
<1>4. \A a \in 1 .. n, b \in 0 .. (n - 1) :
         a <= b + 1 => F(a, b + 1) = F(a, b) \o ss[b + 1]
  <2>. SUFFICES ASSUME NEW a \in 1 .. n, NEW b \in 0 .. (n - 1), a <= b + 1
                PROVE  F(a, b + 1) = F(a, b) \o ss[b + 1]
    OBVIOUS
  <2>1. SubSeq(ss, a, b + 1) = Append(SubSeq(ss, a, b), ss[b + 1])
    BY <1>1
  <2>2. SubSeq(ss, a, b) \in Seq(Seq(S)) /\ ss[b + 1] \in Seq(S)
    BY <1>1, <1>2
  <2>. QED  BY <2>1, <2>2, FlattenAppend
<1>5. 0 \in Good
  <2>1. SubSeq(ss, k + 1, k) = <<>> /\ k + 0 = k
    BY <1>1
  <2>2. F(1, k) \in Seq(S)
    BY <1>1, <1>3
  <2>3. F(1, k) \o <<>> = F(1, k)
    BY <2>2, ConcatEmptySeq
  <2>4. 0 \in 0 .. (n - k)
    BY <1>1
  <2>. QED  BY <2>1, <2>3, <2>4, FlattenEmpty
<1>6. ASSUME NEW d \in Good, d < n - k PROVE d + 1 \in Good
  <2>1. /\ d + 1 \in 0 .. (n - k) /\ k + (d + 1) = (k + d) + 1 /\ k + d \in 0 .. (n - 1)
        /\ 1 \in 1 .. n /\ k + 1 \in 1 .. n /\ k + 1 <= (k + d) + 1 /\ 1 <= (k + d) + 1
        /\ 1 \in 1 .. (n + 1) /\ k + 1 \in 1 .. (n + 1) /\ k \in 0 .. n /\ k + d \in 0 .. n
    BY <1>1, <1>6
  <2>2. /\ F(1, (k + d) + 1) = F(1, k + d) \o ss[(k + d) + 1]
        /\ F(k + 1, (k + d) + 1) = F(k + 1, k + d) \o ss[(k + d) + 1]
    BY <1>4, <2>1
  <2>3. /\ F(1, k) \in Seq(S) /\ F(k + 1, k + d) \in Seq(S)
        /\ ss[(k + d) + 1] \in Seq(S)
    <3>1. (k + d) + 1 \in 1 .. n
      BY <1>1, <2>1
    <3>. QED  BY <1>1, <1>3, <2>1, <3>1
  <2>4. F(1, k + d) = F(1, k) \o F(k + 1, k + d)
    OBVIOUS
  <2>. DEFINE u == F(1, k)
              v == F(k + 1, k + d)
              w == ss[(k + d) + 1]
  <2>. HIDE DEF F
  <2>5. (F(1, k) \o F(k + 1, k + d)) \o ss[(k + d) + 1]
          = F(1, k) \o (F(k + 1, k + d) \o ss[(k + d) + 1])
    <3>1. AreJoinable(S, u, v, w)
      BY <2>3 DEF AreJoinable
    <3>. HIDE DEF u, v, w, n, Good
    <3>2. (u \o v) \o w = u \o (v \o w)
      BY <3>1, JoinTwice
    <3>. QED  BY <3>2 DEF u, v, w
  <2>. QED  BY <2>1, <2>2, <2>4, <2>5
<1>7. Good = 0 .. (n - k)
  <2>1. Good \in SUBSET (0 .. (n - k))
    OBVIOUS
  <2>. DEFINE d == n - k
  <2>2. d \in Nat
    BY <1>1
  <2>3. \A x \in Good : x < d => x + 1 \in Good
    BY <1>6
  <2>4. Good \in SUBSET (0 .. d) /\ 0 \in Good
    BY <2>1, <1>5
  <2>5. Good = 0 .. d
    <3>. HIDE DEF Good, d
    <3>. QED  BY <2>2, <2>3, <2>4, BoundedInduction
  <2>. QED  BY <2>5
<1>8. m - k \in Good /\ k + (m - k) = m
  <2>1. m - k \in 0 .. (n - k) /\ k + (m - k) = m
    BY <1>1
  <2>. HIDE DEF Good
  <2>. QED  BY <1>7, <2>1
<1>9. F(1, k + (m - k)) = F(1, k) \o F(k + 1, k + (m - k))
  BY <1>8
<1>. QED  BY <1>8, <1>9

LEMMA FlattenOne ==
  ASSUME NEW S, NEW s \in Seq(S)
  PROVE  FlattenSeq(<<s>>) = s
<1>1. <<>> \in Seq(Seq(S)) /\ Append(<<>>, s) = <<s>> /\ <<>> \o s = s
  BY ConcatEmptySeq
<1>. QED  BY <1>1, FlattenAppend, FlattenEmpty

LEMMA MiddleOfThree ==
  ASSUME NEW S, NEW u \in Seq(S), NEW v \in Seq(S), NEW w \in Seq(S)
  PROVE  SubSeq((u \o v) \o w, Len(u) + 1, Len(u) + Len(v)) = v
<1>. DEFINE t == (u \o v) \o w
            r == SubSeq(t, Len(u) + 1, Len(u) + Len(v))
<1>1. Len(u) \in Nat /\ Len(v) \in Nat /\ Len(w) \in Nat
  OBVIOUS
<1>2. \A i \in 1 .. Len(v) : t[Len(u) + i] = v[i]
  <2>1. u \o v \in Seq(S) /\ Len(u \o v) = Len(u) + Len(v)
    BY ConcatProperties
  <2>. TAKE i \in 1 .. Len(v)
  <2>2. Len(u) + i \in 1 .. (Len(u) + Len(v)) /\ ~(Len(u) + i <= Len(u)) /\ (Len(u) + i) - Len(u) = i
    BY <1>1
  <2>3. (u \o v)[Len(u) + i] = v[i]
    BY <2>2, ConcatProperties
  <2>4. Len(u) + i \in 1 .. (Len(u \o v) + Len(w)) /\ Len(u) + i <= Len(u \o v)
    BY <1>1, <2>1, <2>2
  <2>5. t[Len(u) + i] = (u \o v)[Len(u) + i]
    BY <2>1, <2>4, ConcatProperties
  <2>. QED  BY <2>3, <2>5
<1>. HIDE DEF t
<1>3. \A i \in (Len(u) + 1) .. (Len(u) + Len(v)) : t[i] \in S
  <2>. TAKE i \in (Len(u) + 1) .. (Len(u) + Len(v))
  <2>1. i - Len(u) \in 1 .. Len(v) /\ Len(u) + (i - Len(u)) = i
    BY <1>1
  <2>. QED  BY <1>2, <2>1
<1>4. /\ r \in Seq(S)
      /\ Len(r) = Len(v)
      /\ \A i \in 1 .. Len(v) : r[i] = t[(Len(u) + 1) + i - 1]
  BY <1>1, <1>3, SubSeqProperties
<1>5. \A i \in 1 .. Len(v) : r[i] = v[i]
  <2>1. \A i \in 1 .. Len(v) : (Len(u) + 1) + i - 1 = Len(u) + i
    BY <1>1
  <2>. QED  BY <1>2, <1>4, <2>1
<1>. HIDE DEF r
<1>6. r = v
  BY <1>4, <1>5, SeqEqual
<1>. QED  BY <1>6 DEF r, t

(* Slices of what is joined, between two of the places where parts meet.   *)
LEMMA FlattenSlice ==
  ASSUME NEW S, NEW ss \in Seq(Seq(S)), NEW k \in 0 .. Len(ss), NEW m \in k .. Len(ss)
  PROVE  LET F(a, b) == FlattenSeq(SubSeq(ss, a, b))
         IN  /\ F(k + 1, m) \in Seq(S)
             /\ Len(F(1, k)) \in Nat
             /\ Len(F(1, m)) = Len(F(1, k)) + Len(F(k + 1, m))
             /\ Len(F(1, m)) <= Len(FlattenSeq(ss))
             /\ SubSeq(FlattenSeq(ss), Len(F(1, k)) + 1, Len(F(1, m))) = F(k + 1, m)
<1>. DEFINE F(a, b) == FlattenSeq(SubSeq(ss, a, b))
            n == Len(ss)
            u == F(1, k)
            v == F(k + 1, m)
            w == F(m + 1, n)
<1>1. n \in Nat /\ k \in Nat /\ m \in Nat /\ m <= n /\ \A i \in 1 .. n : ss[i] \in Seq(S)
  OBVIOUS
<1>2. /\ SubSeq(ss, 1, k) \in Seq(Seq(S))
      /\ SubSeq(ss, k + 1, m) \in Seq(Seq(S))
      /\ SubSeq(ss, m + 1, n) \in Seq(Seq(S))
  <2>1. \A a \in 1 .. (n + 1), b \in 0 .. n : SubSeq(ss, a, b) \in Seq(Seq(S))
    <3>. TAKE a \in 1 .. (n + 1), b \in 0 .. n
    <3>1. \A i \in a .. b : ss[i] \in Seq(S)
      BY <1>1
    <3>. QED  BY <1>1, <3>1, SubSeqProperties
  <2>2. /\ 1 \in 1 .. (n + 1) /\ k + 1 \in 1 .. (n + 1) /\ m + 1 \in 1 .. (n + 1)
        /\ k \in 0 .. n /\ m \in 0 .. n /\ n \in 0 .. n
    BY <1>1
  <2>. QED  BY <2>1, <2>2
<1>3. u \in Seq(S) /\ v \in Seq(S) /\ w \in Seq(S)
  BY <1>2, FlattenType
<1>4. F(1, m) = u \o v
  BY FlattenSplit
<1>5. FlattenSeq(ss) = F(1, m) \o w
  <2>1. m \in 0 .. n /\ n \in m .. n /\ SubSeq(ss, 1, n) = ss
    BY <1>1
  <2>2. F(1, n) = F(1, m) \o F(m + 1, n)
    BY <2>1, FlattenSplit
  <2>. QED  BY <2>1, <2>2
<1>. HIDE DEF F, u, v, w
<1>6. Len(u \o v) = Len(u) + Len(v) /\ u \o v \in Seq(S)
  BY <1>3, ConcatProperties
<1>7. Len((u \o v) \o w) = Len(u \o v) + Len(w)
  BY <1>3, <1>6, ConcatProperties
<1>8. Len(u) \in Nat /\ Len(v) \in Nat /\ Len(w) \in Nat
  BY <1>3
<1>9. SubSeq((u \o v) \o w, Len(u) + 1, Len(u) + Len(v)) = v
  BY <1>3, MiddleOfThree
<1>10. /\ v \in Seq(S) /\ Len(u) \in Nat /\ Len(F(1, m)) = Len(u) + Len(v)
       /\ Len(F(1, m)) <= Len(FlattenSeq(ss))
       /\ SubSeq(FlattenSeq(ss), Len(u) + 1, Len(F(1, m))) = v
  BY <1>3, <1>4, <1>5, <1>6, <1>7, <1>8, <1>9, SMTT(30)
<1>. QED  BY <1>10 DEF u, v, F

------------------------------------------------------------------------------
(* Induction over a finite set, for the subsets a property holds of.       *)
LEMMA SetInduction ==
  ASSUME NEW S, IsFiniteSet(S), NEW P, {} \in P,
         \A s \in SUBSET S, x \in S : s \in P /\ x \notin s => s \cup {x} \in P
  PROVE  S \in P
<1>. DEFINE n == Cardinality(S)
            K == {k \in 0 .. n : \A s \in SUBSET S : Cardinality(s) = k => s \in P}
<1>1. n \in Nat /\ \A s \in SUBSET S : IsFiniteSet(s) /\ Cardinality(s) \in Nat
  BY FS_CardinalityType, FS_Subset
<1>2. 0 \in K
  <2>1. \A s \in SUBSET S : Cardinality(s) = 0 => s = {}
    BY <1>1, FS_EmptySet
  <2>. QED  BY <1>1, <2>1
<1>3. ASSUME NEW k \in K, k < n PROVE k + 1 \in K
  <2>. SUFFICES ASSUME NEW s \in SUBSET S, Cardinality(s) = k + 1
                PROVE  s \in P
    BY <1>1, <1>3
  <2>1. s # {}
    <3>1. k + 1 # 0
      OBVIOUS
    <3>. QED  BY <3>1, FS_EmptySet
  <2>2. PICK x \in s : TRUE
    BY <2>1
  <2>3. Cardinality(s \ {x}) = Cardinality(s) - 1
    BY <1>1, <2>2, FS_RemoveElement
  <2>4. Cardinality(s \ {x}) = k /\ s \ {x} \in SUBSET S
    BY <2>3
  <2>5. s \ {x} \in P
    BY <2>4
  <2>6. (s \ {x}) \cup {x} = s /\ x \in S /\ x \notin s \ {x}
    BY <2>2
  <2>. QED  BY <2>4, <2>5, <2>6
<1>4. K = 0 .. n
  <2>1. K \in SUBSET (0 .. n)
    OBVIOUS
  <2>. HIDE DEF K, n
  <2>. QED  BY <1>1, <1>2, <1>3, <2>1, BoundedInduction
<1>5. n \in K
  BY <1>1, <1>4, SMTT(30)
<1>. QED  BY <1>5

------------------------------------------------------------------------------
(* Sums over the subsets of S, whatever order they are added in.           *)
IsTotal(F, f, S) ==
  /\ F \in [SUBSET S -> Nat]
  /\ F[{}] = 0
  /\ \A s \in SUBSET S, x \in S : x \notin s => F[s \cup {x}] = F[s] + f[x]

Total(f, S) == (CHOOSE F : IsTotal(F, f, S))[S]

(* What a fold adds, always taking the element CHOOSE gives it.            *)
First(s) == CHOOSE x \in s : TRUE
Folds(F, f, S) ==
  F = [s \in SUBSET S |-> IF s = {} THEN 0 ELSE f[First(s)] + F[s \ {First(s)}]]

LEMMA FoldExists ==
  ASSUME NEW S, IsFiniteSet(S), NEW f \in [S -> Nat]
  PROVE  \E F \in [SUBSET S -> Nat] : Folds(F, f, S)
<1>. DEFINE n == Cardinality(S)
            D == [SUBSET S -> Nat]
            Step(F) == [s \in SUBSET S |-> IF s = {} THEN 0 ELSE f[First(s)] + F[s \ {First(s)}]]
            next == [k \in 1 .. n |-> [F \in D |-> Step(F)]]
            zero == [s \in SUBSET S |-> 0]
<1>1. n \in Nat /\ \A s \in SUBSET S : IsFiniteSet(s) /\ Cardinality(s) \in 0 .. n
  BY FS_CardinalityType, FS_Subset
<1>2. \A s \in SUBSET S : s # {} => First(s) \in s
  BY DEF First
<1>3. zero \in D
  OBVIOUS
<1>4. ASSUME NEW F \in D PROVE Step(F) \in D
  <2>1. ASSUME NEW s \in SUBSET S, s # {} PROVE f[First(s)] + F[s \ {First(s)}] \in Nat
    <3>1. First(s) \in S /\ s \ {First(s)} \in SUBSET S
      BY <1>2, <2>1
    <3>2. f[First(s)] \in Nat /\ F[s \ {First(s)}] \in Nat
      BY <3>1
    <3>. QED  BY <3>2
  <2>. QED  BY <2>1
<1>5. next \in Advances(n, D)
  <2>. HIDE DEF D, Step
  <2>. QED  BY <1>4 DEF Advances
<1>6. PICK h \in [0 .. n -> D] : h[0] = zero /\ \A k \in 1 .. n : h[k] = next[k][h[k - 1]]
  <2>. HIDE DEF D, next, zero, n
  <2>. QED  BY <1>1, <1>3, <1>5, RecursionExists DEF Growing
<1>7. ASSUME NEW k \in 1 .. n PROVE h[k - 1] \in D /\ h[k] = Step(h[k - 1])
  <2>1. h[k - 1] \in D
    <3>. HIDE DEF D
    <3>. QED  BY <1>1, <1>6
  <2>. HIDE DEF D, Step
  <2>. QED  BY <1>6, <2>1
<1>. DEFINE F == [s \in SUBSET S |-> h[Cardinality(s)][s]]
<1>8. F \in D
  <2>1. ASSUME NEW s \in SUBSET S PROVE h[Cardinality(s)][s] \in Nat
    <3>1. h[Cardinality(s)] \in D
      <4>. HIDE DEF D
      <4>. QED  BY <1>1, <1>6
    <3>. QED  BY <3>1
  <2>. QED  BY <2>1
<1>9. ASSUME NEW s \in SUBSET S PROVE F[s] = IF s = {} THEN 0 ELSE f[First(s)] + F[s \ {First(s)}]
  <2>1. CASE s = {}
    <3>1. Cardinality(s) = 0
      BY <2>1, FS_EmptySet
    <3>2. h[Cardinality(s)] = zero
      BY <1>6, <3>1
    <3>. QED  BY <2>1, <3>2
  <2>2. CASE s # {}
    <3>. DEFINE r == s \ {First(s)}
    <3>1. First(s) \in s /\ r \in SUBSET S
      BY <1>2, <2>2
    <3>2. Cardinality(r) = Cardinality(s) - 1
      BY <1>1, <3>1, FS_RemoveElement
    <3>3. Cardinality(s) \in 1 .. n
      BY <1>1, <3>1, <3>2
    <3>4. h[Cardinality(s)] = Step(h[Cardinality(s) - 1])
      <4>. HIDE DEF D, Step, r
      <4>. QED  BY <1>7, <3>3
    <3>5. Step(h[Cardinality(s) - 1])[s] = f[First(s)] + h[Cardinality(s) - 1][r]
      BY <2>2
    <3>6. F[s] = h[Cardinality(s)][s] /\ F[r] = h[Cardinality(r)][r]
      BY <3>1
    <3>. HIDE DEF F, Step, n
    <3>. QED  BY <2>2, <3>2, <3>4, <3>5, <3>6
  <2>. QED  BY <2>1, <2>2
<1>10. Folds(F, f, S)
  <2>1. F = [s \in SUBSET S |-> F[s]]
    OBVIOUS
  <2>. HIDE DEF F
  <2>. QED  BY <1>9, <2>1 DEF Folds
<1>. QED
  <2>. HIDE DEF F
  <2>. QED  BY <1>8, <1>10

(* The order does not matter. *)
LEMMA FoldIsTotal ==
  ASSUME NEW S, IsFiniteSet(S), NEW f \in [S -> Nat], NEW F, Folds(F, f, S)
  PROVE  IsTotal(F, f, S)
<1>. DEFINE n == Cardinality(S)
            AddsUp(s) == F[s] \in Nat /\ \A x \in s : F[s] = f[x] + F[s \ {x}]
            K == {k \in 0 .. n : \A s \in SUBSET S : Cardinality(s) <= k => AddsUp(s)}
<1>1. n \in Nat /\ \A s \in SUBSET S : IsFiniteSet(s) /\ Cardinality(s) \in 0 .. n
  BY FS_CardinalityType, FS_Subset
<1>2. /\ F = [s \in SUBSET S |-> F[s]]
      /\ \A s \in SUBSET S : F[s] = IF s = {} THEN 0 ELSE f[First(s)] + F[s \ {First(s)}]
  BY DEF Folds
<1>3. F[{}] = 0
  <2>1. {} \in SUBSET S
    OBVIOUS
  <2>. QED  BY <1>2, <2>1
<1>4. 0 \in K
  <2>1. \A s \in SUBSET S : Cardinality(s) <= 0 => s = {}
    BY <1>1, FS_EmptySet
  <2>2. AddsUp({})
    BY <1>3
  <2>. HIDE DEF AddsUp
  <2>. QED  BY <1>1, <2>1, <2>2
<1>5. ASSUME NEW k \in K, k < n PROVE k + 1 \in K
  <2>. SUFFICES ASSUME NEW s \in SUBSET S, Cardinality(s) = k + 1
                PROVE  AddsUp(s)
    <3>. HIDE DEF AddsUp
    <3>. QED  BY <1>1, <1>5
  <2>1. ASSUME NEW x \in s PROVE s \ {x} \in SUBSET S /\ Cardinality(s \ {x}) = k
    <3>1. Cardinality(s \ {x}) = Cardinality(s) - 1
      BY <1>1, <2>1, FS_RemoveElement
    <3>. QED  BY <3>1
  <2>2. ASSUME NEW x \in s PROVE AddsUp(s \ {x})
    <3>. HIDE DEF AddsUp
    <3>. QED  BY <1>5, <2>1, <2>2
  <2>3. s # {}
    <3>1. k + 1 # 0
      OBVIOUS
    <3>. QED  BY <3>1, FS_EmptySet
  <2>. DEFINE c == First(s)
  <2>4. c \in s
    BY <2>3 DEF First
  <2>. HIDE DEF c
  <2>5. F[s] = f[c] + F[s \ {c}]
    BY <1>2, <2>3 DEF c
  <2>6. F[s] \in Nat
    <3>1. f[c] \in Nat /\ F[s \ {c}] \in Nat
      BY <2>2, <2>4
    <3>. QED  BY <2>5, <3>1
  <2>7. ASSUME NEW x \in s PROVE F[s] = f[x] + F[s \ {x}]
    <3>1. CASE x = c
      BY <2>5, <3>1
    <3>2. CASE x # c
      <4>1. x \in s \ {c} /\ c \in s \ {x} /\ (s \ {c}) \ {x} = (s \ {x}) \ {c}
        BY <2>4, <3>2
      <4>2. /\ F[s \ {c}] = f[x] + F[(s \ {c}) \ {x}]
            /\ F[s \ {x}] = f[c] + F[(s \ {x}) \ {c}]
        BY <2>2, <2>4, <4>1
      <4>3. f[x] \in Nat /\ f[c] \in Nat
        BY <2>4
      <4>4. F[(s \ {x}) \ {c}] \in Nat
        <5>. DEFINE r == (s \ {x}) \ {c}
        <5>1. r \in SUBSET S /\ r \in SUBSET (s \ {x}) /\ IsFiniteSet(s \ {x})
          BY <1>1, <2>1
        <5>2. Cardinality(r) <= k
          <6>. HIDE DEF r
          <6>. QED  BY <2>1, <5>1, FS_Subset
        <5>. HIDE DEF r, AddsUp
        <5>3. AddsUp(r)
          BY <1>5, <5>1, <5>2
        <5>. QED  BY <5>3 DEF r, AddsUp
      <4>5. F[s] = f[c] + (f[x] + F[(s \ {x}) \ {c}])
        BY <2>5, <4>1, <4>2
      <4>6. F[s \ {x}] = f[c] + F[(s \ {x}) \ {c}]
        BY <4>2
      <4>. QED  BY <4>3, <4>4, <4>5, <4>6
    <3>. QED  BY <3>1, <3>2
  <2>. QED  BY <2>6, <2>7
<1>6. K = 0 .. n
  <2>1. K \in SUBSET (0 .. n)
    OBVIOUS
  <2>. HIDE DEF K, n
  <2>. QED  BY <1>1, <1>4, <1>5, <2>1, BoundedInduction
<1>7. ASSUME NEW s \in SUBSET S PROVE AddsUp(s)
  <2>1. Cardinality(s) \in K
    BY <1>1, <1>6
  <2>. QED  BY <2>1
<1>8. F \in [SUBSET S -> Nat]
  BY <1>2, <1>7
<1>9. ASSUME NEW s \in SUBSET S, NEW x \in S, x \notin s PROVE F[s \cup {x}] = F[s] + f[x]
  <2>1. s \cup {x} \in SUBSET S /\ x \in s \cup {x} /\ (s \cup {x}) \ {x} = s
    BY <1>9
  <2>2. F[s \cup {x}] = f[x] + F[s]
    BY <1>7, <2>1
  <2>3. f[x] \in Nat /\ F[s] \in Nat
    BY <1>8
  <2>. QED  BY <2>2, <2>3
<1>. QED  BY <1>3, <1>8, <1>9 DEF IsTotal

(* A sum of naturals, whatever order they are added in.                    *)
LEMMA TotalExists ==
  ASSUME NEW S, IsFiniteSet(S), NEW f, \A x \in S : f[x] \in Nat
  PROVE  \E F : IsTotal(F, f, S)
<1>. DEFINE g == [x \in S |-> f[x]]
<1>1. g \in [S -> Nat]
  OBVIOUS
<1>2. PICK F : IsTotal(F, g, S)
  <2>. HIDE DEF g
  <2>. QED  BY <1>1, FoldExists, FoldIsTotal
<1>3. \A x \in S : g[x] = f[x]
  OBVIOUS
<1>. HIDE DEF g
<1>4. IsTotal(F, f, S)
  BY <1>2, <1>3 DEF IsTotal
<1>. QED  BY <1>4

(* The sums of two functions that agree on a set agree on its subsets.     *)
LEMMA TotalsAgree ==
  ASSUME NEW S, IsFiniteSet(S), NEW f, NEW F, IsTotal(F, f, S),
         NEW T, NEW g, NEW G, IsTotal(G, g, T),
         NEW r \in SUBSET (S \cap T), \A x \in r : f[x] = g[x]
  PROVE  F[r] = G[r]
<1>. DEFINE P == {s \in SUBSET r : F[s] = G[s]}
<1>1. IsFiniteSet(r) /\ {} \in P
  BY FS_Subset DEF IsTotal
<1>2. ASSUME NEW s \in SUBSET r, NEW x \in r, s \in P /\ x \notin s PROVE s \cup {x} \in P
  <2>1. s \in SUBSET S /\ x \in S /\ s \in SUBSET T /\ x \in T /\ s \cup {x} \in SUBSET r
    OBVIOUS
  <2>2. F[s \cup {x}] = F[s] + f[x]
    BY <1>2, <2>1 DEF IsTotal
  <2>3. G[s \cup {x}] = G[s] + g[x]
    BY <1>2, <2>1 DEF IsTotal
  <2>. QED  BY <1>2, <2>1, <2>2, <2>3
<1>3. r \in P
  <2>. HIDE DEF P
  <2>. QED  BY <1>1, <1>2, SetInduction
<1>. QED  BY <1>3

LEMMA TotalIsTotal ==
  ASSUME NEW S, IsFiniteSet(S), NEW f, \A x \in S : f[x] \in Nat
  PROVE  /\ IsTotal(CHOOSE F : IsTotal(F, f, S), f, S)
         /\ Total(f, S) \in Nat
<1>1. IsTotal(CHOOSE F : IsTotal(F, f, S), f, S)
  BY TotalExists
<1>. QED  BY <1>1 DEF IsTotal, Total

(* Total, by any function that adds up.                                    *)
LEMMA TotalByAny ==
  ASSUME NEW S, IsFiniteSet(S), NEW f, \A x \in S : f[x] \in Nat, NEW F, IsTotal(F, f, S),
         NEW T \in SUBSET S, NEW g, \A x \in T : g[x] = f[x]
  PROVE  Total(g, T) = F[T]
<1>1. IsFiniteSet(T) /\ \A x \in T : g[x] \in Nat
  BY FS_Subset
<1>2. IsTotal(CHOOSE G : IsTotal(G, g, T), g, T)
  BY <1>1, TotalIsTotal
<1>3. T \in SUBSET (S \cap T)
  OBVIOUS
<1>. DEFINE G == CHOOSE G : IsTotal(G, g, T)
<1>. HIDE DEF G
<1>4. F[T] = G[T]
  BY <1>2, <1>3, TotalsAgree DEF G
<1>. QED  BY <1>4 DEF Total, G

LEMMA TotalEmpty == ASSUME NEW f PROVE Total(f, {}) = 0
<1>1. IsTotal(CHOOSE F : IsTotal(F, f, {}), f, {})
  BY FS_EmptySet, TotalIsTotal
<1>. QED  BY <1>1 DEF IsTotal, Total

LEMMA TotalAdd ==
  ASSUME NEW S, IsFiniteSet(S), NEW x, x \notin S, NEW f, f[x] \in Nat, \A y \in S : f[y] \in Nat
  PROVE  Total(f, S \cup {x}) = Total(f, S) + f[x]
<1>. DEFINE R == S \cup {x}
<1>1. IsFiniteSet(R) /\ (\A y \in R : f[y] \in Nat) /\ S \in SUBSET R /\ R \in SUBSET R /\ x \in R
  BY FS_AddElement
<1>2. PICK F : IsTotal(F, f, R)
  <2>. HIDE DEF R
  <2>. QED  BY <1>1, TotalExists
<1>3. Total(f, S) = F[S] /\ Total(f, R) = F[R]
  <2>. HIDE DEF R
  <2>. QED  BY <1>1, <1>2, TotalByAny
<1>. QED  BY <1>1, <1>2, <1>3 DEF IsTotal

LEMMA TotalRemove ==
  ASSUME NEW S, IsFiniteSet(S), NEW x \in S, NEW f, \A y \in S : f[y] \in Nat
  PROVE  Total(f, S) = Total(f, S \ {x}) + f[x]
<1>. DEFINE R == S \ {x}
<1>1. IsFiniteSet(R) /\ x \notin R /\ f[x] \in Nat /\ (\A y \in R : f[y] \in Nat) /\ R \cup {x} = S
  BY FS_Subset
<1>2. Total(f, R \cup {x}) = Total(f, R) + f[x]
  <2>. HIDE DEF R
  <2>. QED  BY <1>1, TotalAdd
<1>. QED  BY <1>1, <1>2

(* Equal terms have equal sums. *)
LEMMA TotalSame ==
  ASSUME NEW S, IsFiniteSet(S), NEW f, NEW g, \A x \in S : f[x] \in Nat /\ g[x] = f[x]
  PROVE  Total(f, S) = Total(g, S)
<1>1. PICK F : IsTotal(F, f, S)
  BY TotalExists
<1>. QED  BY <1>1, TotalByAny

LEMMA TotalUnion ==
  ASSUME NEW S, NEW T, IsFiniteSet(S), IsFiniteSet(T), S \cap T = {},
         NEW f, \A x \in S \cup T : f[x] \in Nat
  PROVE  Total(f, S \cup T) = Total(f, S) + Total(f, T)
<1>. DEFINE P == {t \in SUBSET T : Total(f, S \cup t) = Total(f, S) + Total(f, t)}
<1>1. {} \in P
  BY TotalEmpty, TotalIsTotal
<1>2. ASSUME NEW t \in SUBSET T, NEW x \in T, t \in P /\ x \notin t PROVE t \cup {x} \in P
  <2>1. IsFiniteSet(t) /\ IsFiniteSet(S \cup t) /\ x \notin S \cup t
    BY <1>2, FS_Subset, FS_Union
  <2>2. Total(f, t \cup {x}) = Total(f, t) + f[x]
    BY <1>2, <2>1, TotalAdd
  <2>3. Total(f, (S \cup t) \cup {x}) = Total(f, S \cup t) + f[x]
    <3>. DEFINE R == S \cup t
    <3>1. IsFiniteSet(R) /\ x \notin R /\ f[x] \in Nat /\ \A y \in R : f[y] \in Nat
      BY <2>1
    <3>. HIDE DEF R
    <3>2. Total(f, R \cup {x}) = Total(f, R) + f[x]
      BY <3>1, TotalAdd
    <3>. QED  BY <3>2 DEF R
  <2>4. Total(f, S) \in Nat /\ Total(f, t) \in Nat /\ f[x] \in Nat
    BY <2>1, TotalIsTotal
  <2>5. S \cup (t \cup {x}) = (S \cup t) \cup {x} /\ t \cup {x} \in SUBSET T
    OBVIOUS
  <2>6. Total(f, S \cup t) = Total(f, S) + Total(f, t)
    BY <1>2
  <2>7. Total(f, S \cup (t \cup {x})) = Total(f, S) + Total(f, t \cup {x})
    BY <2>2, <2>3, <2>4, <2>5, <2>6
  <2>. QED  BY <2>5, <2>7
<1>3. T \in P
  <2>. HIDE DEF P
  <2>. QED  BY <1>1, <1>2, SetInduction
<1>. QED  BY <1>3

(* Terms no larger, of fewer elements, have a sum no larger.               *)
LEMMA TotalIsMonotone ==
  ASSUME NEW T, IsFiniteSet(T), NEW S \in SUBSET T, NEW f, NEW g,
         \A x \in S : f[x] \in Nat, \A x \in T : g[x] \in Nat,
         \A x \in S : f[x] <= g[x]
  PROVE  Total(f, S) <= Total(g, T)
<1>. DEFINE P == {t \in SUBSET T : Total(f, S \cap t) <= Total(g, t)}
<1>1. {} \in P
  <2>1. S \cap {} = {}
    OBVIOUS
  <2>. QED  BY <2>1, TotalEmpty
<1>2. ASSUME NEW t \in SUBSET T, NEW x \in T, t \in P /\ x \notin t PROVE t \cup {x} \in P
  <2>. DEFINE s == S \cap t
  <2>1. IsFiniteSet(t) /\ IsFiniteSet(s) /\ x \notin s /\ s \in SUBSET S
    BY <1>2, FS_Subset
  <2>2. Total(g, t \cup {x}) = Total(g, t) + g[x]
    BY <1>2, <2>1, TotalAdd
  <2>3. Total(f, s) \in Nat /\ Total(g, t) \in Nat /\ g[x] \in Nat
    <3>. HIDE DEF s
    <3>. QED  BY <2>1, TotalIsTotal
  <2>4. CASE x \in S
    <3>1. S \cap (t \cup {x}) = s \cup {x} /\ f[x] \in Nat
      BY <2>4
    <3>2. Total(f, s \cup {x}) = Total(f, s) + f[x]
      <4>. HIDE DEF s
      <4>. QED  BY <2>1, <3>1, TotalAdd
    <3>3. Total(f, S \cap (t \cup {x})) <= Total(g, t \cup {x})
      <4>1. Total(f, s) <= Total(g, t) /\ f[x] <= g[x]
        BY <1>2, <2>4
      <4>. HIDE DEF s
      <4>. QED  BY <2>2, <2>3, <3>1, <3>2, <4>1
    <3>. QED  BY <3>3
  <2>5. CASE x \notin S
    <3>1. S \cap (t \cup {x}) = s
      BY <2>5
    <3>2. Total(f, S \cap (t \cup {x})) <= Total(g, t \cup {x})
      <4>1. Total(f, s) <= Total(g, t)
        BY <1>2
      <4>2. Total(f, S \cap (t \cup {x})) = Total(f, s)
        BY <3>1
      <4>. HIDE DEF s
      <4>. QED  BY <2>2, <2>3, <4>1, <4>2
    <3>. QED  BY <3>2
  <2>. QED  BY <2>4, <2>5
<1>3. T \in P
  <2>. HIDE DEF P
  <2>. QED  BY <1>1, <1>2, SetInduction
<1>4. S \cap T = S
  OBVIOUS
<1>. QED  BY <1>3, <1>4

(* A sum that one more term can be added to.                               *)
CanAdd(f, S, x) ==
  /\ IsFiniteSet(S) /\ x \notin S
  /\ f[x] \in Nat /\ \A y \in S : f[y] \in Nat

LEMMA AddOne ==
  ASSUME NEW f, NEW S, NEW x, CanAdd(f, S, x)
  PROVE  Total(f, S \cup {x}) = Total(f, S) + f[x]
<1>1. IsFiniteSet(S) /\ x \notin S /\ f[x] \in Nat /\ \A y \in S : f[y] \in Nat
  BY DEF CanAdd
<1>. QED  BY <1>1, TotalAdd

(* The terms of a sum can be renamed: h takes each term of S to one of T.  *)
LEMMA TotalRenamed ==
  ASSUME NEW S, IsFiniteSet(S), NEW f, NEW g, NEW h,
         \A x \in S : f[x] \in Nat /\ g[h[x]] = f[x],
         \A x, y \in S : h[x] = h[y] => x = y
  PROVE  Total(f, S) = Total(g, {h[x] : x \in S})
<1>. DEFINE Image(s) == {h[x] : x \in s}
            P == {s \in SUBSET S : IsFiniteSet(Image(s)) /\ Total(f, s) = Total(g, Image(s))}
<1>1. {} \in P
  <2>1. Image({}) = {}
    OBVIOUS
  <2>. HIDE DEF Image
  <2>. QED  BY <2>1, TotalEmpty, FS_EmptySet
<1>2. ASSUME NEW s \in SUBSET S, NEW x \in S, s \in P /\ x \notin s PROVE s \cup {x} \in P
  <2>1. IsFiniteSet(s) /\ IsFiniteSet(Image(s))
    BY <1>2, FS_Subset
  <2>2. Image(s \cup {x}) = Image(s) \cup {h[x]} /\ h[x] \notin Image(s)
    BY <1>2
  <2>3. \A y \in Image(s) : g[y] \in Nat
    OBVIOUS
  <2>4. Total(f, s \cup {x}) = Total(f, s) + f[x]
    <3>1. CanAdd(f, s, x)
      BY <1>2, <2>1 DEF CanAdd
    <3>. HIDE DEF P, Image
    <3>. QED  BY <3>1, AddOne
  <2>5. Total(g, Image(s) \cup {h[x]}) = Total(g, Image(s)) + g[h[x]] /\ IsFiniteSet(Image(s) \cup {h[x]})
    <3>. DEFINE R == Image(s)
                z == h[x]
    <3>1. g[z] \in Nat /\ IsFiniteSet(R) /\ z \notin R /\ \A y \in R : g[y] \in Nat
      BY <2>1, <2>2
    <3>. HIDE DEF R, z
    <3>2. Total(g, R \cup {z}) = Total(g, R) + g[z]
      <4>1. CanAdd(g, R, z)
        BY <3>1 DEF CanAdd
      <4>. QED  BY <4>1, AddOne
    <3>3. IsFiniteSet(R \cup {z})
      BY <3>1, FS_AddElement
    <3>. QED  BY <3>2, <3>3 DEF R, z
  <2>. HIDE DEF Image
  <2>. QED  BY <1>2, <2>2, <2>4, <2>5
<1>3. S \in P
  <2>. HIDE DEF P
  <2>. QED  BY <1>1, <1>2, SetInduction
<1>. QED  BY <1>3

------------------------------------------------------------------------------
(* Pairings of some elements of I with as many of J, in the same order,    *)
(* and what they cost where c prices the pairs and the elements left out.  *)
Chain(P)       == \A x, y \in P : x[1] < y[1] <=> x[2] < y[2]
ChainsOn(I, J) == {P \in SUBSET (I \X J) : Chain(P)}
Lefts(P)       == {p[1] : p \in P}
Rights(P)      == {p[2] : p \in P}

ChainCost(c, I, J, P) ==
  Total(c.pair, P) + Total(c.left, I \ Lefts(P)) + Total(c.right, J \ Rights(P))

Least(c, I, J) == Min({ChainCost(c, I, J, P) : P \in ChainsOn(I, J)})

Priced(c, I, J) ==
  /\ I \in SUBSET Nat /\ IsFiniteSet(I)
  /\ J \in SUBSET Nat /\ IsFiniteSet(J)
  /\ \A p \in I \X J : c.pair[p] \in Nat
  /\ \A i \in I : c.left[i] \in Nat
  /\ \A j \in J : c.right[j] \in Nat

LEMMA ChainTypes ==
  ASSUME NEW c, NEW I, NEW J, Priced(c, I, J), NEW P \in SUBSET (I \X J)
  PROVE  /\ IsFiniteSet(P) /\ Lefts(P) \in SUBSET I /\ Rights(P) \in SUBSET J
         /\ IsFiniteSet(I \ Lefts(P)) /\ IsFiniteSet(J \ Rights(P))
         /\ Total(c.pair, P) \in Nat
         /\ Total(c.left, I \ Lefts(P)) \in Nat
         /\ Total(c.right, J \ Rights(P)) \in Nat
         /\ ChainCost(c, I, J, P) \in Nat
<1>1. IsFiniteSet(I) /\ IsFiniteSet(J)
  BY DEF Priced
<1>2. IsFiniteSet(I \X J)
  BY <1>1, FS_Product
<1>3. IsFiniteSet(P) /\ IsFiniteSet(I \ Lefts(P)) /\ IsFiniteSet(J \ Rights(P))
  BY <1>1, <1>2, FS_Subset
<1>4. Lefts(P) \in SUBSET I /\ Rights(P) \in SUBSET J
  BY DEF Lefts, Rights
<1>5. /\ \A p \in P : c.pair[p] \in Nat
      /\ \A i \in I \ Lefts(P) : c.left[i] \in Nat
      /\ \A j \in J \ Rights(P) : c.right[j] \in Nat
  BY DEF Priced
<1>6. /\ Total(c.pair, P) \in Nat
      /\ Total(c.left, I \ Lefts(P)) \in Nat
      /\ Total(c.right, J \ Rights(P)) \in Nat
  BY <1>3, <1>5, TotalIsTotal
<1>. QED  BY <1>3, <1>4, <1>6 DEF ChainCost

(* Some of the pairs of two priced sets, and the sums they leave.          *)
IsPart(c, I, J, P) == Priced(c, I, J) /\ P \in SUBSET (I \X J)

LEMMA PartTypes ==
  ASSUME NEW c, NEW I, NEW J, NEW P, IsPart(c, I, J, P)
  PROVE  /\ IsFiniteSet(P) /\ IsFiniteSet(I \ Lefts(P)) /\ IsFiniteSet(J \ Rights(P))
         /\ Lefts(P) \in SUBSET I /\ Rights(P) \in SUBSET J
         /\ Total(c.pair, P) \in Nat
         /\ Total(c.left, I \ Lefts(P)) \in Nat
         /\ Total(c.right, J \ Rights(P)) \in Nat
<1>1. Priced(c, I, J) /\ P \in SUBSET (I \X J)
  BY DEF IsPart
<1>. QED  BY <1>1, ChainTypes, ZenonT(30)

(* Costs of parts that share no element add up.                            *)
PairsIn(I, J, P) == P \in SUBSET (I \X J)

AreApart(c, I1, J1, I2, J2) ==
  /\ Priced(c, I1 \cup I2, J1 \cup J2)
  /\ I1 \cap I2 = {} /\ J1 \cap J2 = {}

LEMMA CostOfUnion ==
  ASSUME NEW c, NEW I1, NEW J1, NEW I2, NEW J2, AreApart(c, I1, J1, I2, J2),
         NEW P1, NEW P2, PairsIn(I1, J1, P1), PairsIn(I2, J2, P2)
  PROVE  /\ Priced(c, I1, J1) /\ Priced(c, I2, J2)
         /\ ChainCost(c, I1 \cup I2, J1 \cup J2, P1 \cup P2)
              = ChainCost(c, I1, J1, P1) + ChainCost(c, I2, J2, P2)
<1>0. /\ Priced(c, I1 \cup I2, J1 \cup J2) /\ I1 \cap I2 = {} /\ J1 \cap J2 = {}
      /\ P1 \in SUBSET (I1 \X J1) /\ P2 \in SUBSET (I2 \X J2)
  BY DEF AreApart, PairsIn
<1>. USE <1>0
<1>1. /\ IsFiniteSet(I1 \cup I2) /\ IsFiniteSet(J1 \cup J2)
      /\ I1 \in SUBSET (I1 \cup I2) /\ I2 \in SUBSET (I1 \cup I2)
      /\ J1 \in SUBSET (J1 \cup J2) /\ J2 \in SUBSET (J1 \cup J2)
  BY DEF Priced
<1>2. IsFiniteSet(I1) /\ IsFiniteSet(I2) /\ IsFiniteSet(J1) /\ IsFiniteSet(J2)
  BY <1>1, FS_Subset
<1>3. Priced(c, I1, J1) /\ Priced(c, I2, J2)
  BY <1>2 DEF Priced
<1>. DEFINE L1 == I1 \ Lefts(P1)
            L2 == I2 \ Lefts(P2)
            R1 == J1 \ Rights(P1)
            R2 == J2 \ Rights(P2)
<1>4. /\ (I1 \cup I2) \ Lefts(P1 \cup P2) = L1 \cup L2 /\ L1 \cap L2 = {}
      /\ (J1 \cup J2) \ Rights(P1 \cup P2) = R1 \cup R2 /\ R1 \cap R2 = {}
      /\ P1 \cap P2 = {}
  <2>1. Lefts(P1 \cup P2) = Lefts(P1) \cup Lefts(P2) /\ Rights(P1 \cup P2) = Rights(P1) \cup Rights(P2)
    BY DEF Lefts, Rights
  <2>2. Lefts(P1) \in SUBSET I1 /\ Lefts(P2) \in SUBSET I2 /\ Rights(P1) \in SUBSET J1 /\ Rights(P2) \in SUBSET J2
    <3>1. IsPart(c, I1, J1, P1) /\ IsPart(c, I2, J2, P2)
      BY <1>3 DEF IsPart
    <3>. QED  BY <3>1, PartTypes
  <2>3. P1 \cap P2 = {}
    OBVIOUS
  <2>. QED  BY <2>1, <2>2, <2>3
<1>5. /\ IsFiniteSet(P1) /\ IsFiniteSet(P2) /\ IsFiniteSet(L1) /\ IsFiniteSet(L2)
      /\ IsFiniteSet(R1) /\ IsFiniteSet(R2)
      /\ \A p \in P1 \cup P2 : c.pair[p] \in Nat
      /\ \A i \in L1 \cup L2 : c.left[i] \in Nat
      /\ \A j \in R1 \cup R2 : c.right[j] \in Nat
  <2>1. /\ IsFiniteSet(P1) /\ IsFiniteSet(P2) /\ IsFiniteSet(L1) /\ IsFiniteSet(L2)
        /\ IsFiniteSet(R1) /\ IsFiniteSet(R2)
    <3>1. IsPart(c, I1, J1, P1) /\ IsPart(c, I2, J2, P2)
      BY <1>3 DEF IsPart
    <3>. QED  BY <3>1, PartTypes
  <2>2. \A p \in P1 \cup P2 : p \in (I1 \cup I2) \X (J1 \cup J2)
    OBVIOUS
  <2>. QED  BY <2>1, <2>2 DEF Priced
<1>. HIDE DEF L1, L2, R1, R2
<1>6. /\ Total(c.pair, P1 \cup P2) = Total(c.pair, P1) + Total(c.pair, P2)
      /\ Total(c.left, L1 \cup L2) = Total(c.left, L1) + Total(c.left, L2)
      /\ Total(c.right, R1 \cup R2) = Total(c.right, R1) + Total(c.right, R2)
  BY <1>4, <1>5, TotalUnion
<1>7. /\ Total(c.pair, P1) \in Nat /\ Total(c.left, L1) \in Nat /\ Total(c.right, R1) \in Nat
      /\ Total(c.pair, P2) \in Nat /\ Total(c.left, L2) \in Nat /\ Total(c.right, R2) \in Nat
  <2>1. IsPart(c, I1, J1, P1) /\ IsPart(c, I2, J2, P2)
    BY <1>3 DEF IsPart
  <2>. QED  BY <2>1, PartTypes DEF L1, L2, R1, R2
<1>8. /\ ChainCost(c, I1, J1, P1) = Total(c.pair, P1) + Total(c.left, L1) + Total(c.right, R1)
      /\ ChainCost(c, I2, J2, P2) = Total(c.pair, P2) + Total(c.left, L2) + Total(c.right, R2)
      /\ ChainCost(c, I1 \cup I2, J1 \cup J2, P1 \cup P2)
           = Total(c.pair, P1 \cup P2) + Total(c.left, L1 \cup L2) + Total(c.right, R1 \cup R2)
  BY <1>4 DEF ChainCost, L1, L2, R1, R2
<1>. QED  BY <1>3, <1>6, <1>7, <1>8

(* The same for every choice of pairs in the two parts.                    *)
AddUp(c, I1, J1, I2, J2) ==
  /\ Priced(c, I1, J1) /\ Priced(c, I2, J2)
  /\ \A P1 \in SUBSET (I1 \X J1), P2 \in SUBSET (I2 \X J2) :
        ChainCost(c, I1 \cup I2, J1 \cup J2, P1 \cup P2)
          = ChainCost(c, I1, J1, P1) + ChainCost(c, I2, J2, P2)

LEMMA CostsOfUnion ==
  ASSUME NEW c, NEW I1, NEW J1, NEW I2, NEW J2, AreApart(c, I1, J1, I2, J2)
  PROVE  AddUp(c, I1, J1, I2, J2)
<1>1. ASSUME NEW P1 \in SUBSET (I1 \X J1), NEW P2 \in SUBSET (I2 \X J2)
      PROVE  /\ Priced(c, I1, J1) /\ Priced(c, I2, J2)
             /\ ChainCost(c, I1 \cup I2, J1 \cup J2, P1 \cup P2)
                  = ChainCost(c, I1, J1, P1) + ChainCost(c, I2, J2, P2)
  <2>1. PairsIn(I1, J1, P1) /\ PairsIn(I2, J2, P2)
    BY DEF PairsIn
  <2>. QED  BY <2>1, CostOfUnion
<1>2. {} \in SUBSET (I1 \X J1) /\ {} \in SUBSET (I2 \X J2)
  OBVIOUS
<1>. QED  BY <1>1, <1>2 DEF AddUp

LEMMA LeastFacts ==
  ASSUME NEW c, NEW I, NEW J, Priced(c, I, J)
  PROVE  /\ Least(c, I, J) \in Nat
         /\ \E P \in ChainsOn(I, J) : ChainCost(c, I, J, P) = Least(c, I, J)
         /\ \A P \in ChainsOn(I, J) : Least(c, I, J) <= ChainCost(c, I, J, P)
<1>. DEFINE S == {ChainCost(c, I, J, P) : P \in ChainsOn(I, J)}
<1>1. \A P \in ChainsOn(I, J) : ChainCost(c, I, J, P) \in Nat
  BY ChainTypes DEF ChainsOn
<1>2. {} \in ChainsOn(I, J)
  BY DEF ChainsOn, Chain
<1>3. S \in SUBSET Nat /\ S # {}
  BY <1>1, <1>2
<1>4. Min(S) \in S /\ \A y \in S : Min(S) <= y
  <2>. HIDE DEF S
  <2>. QED  BY <1>3, MinIsLeast
<1>5. Least(c, I, J) = Min(S)
  BY DEF Least
<1>. QED  BY <1>3, <1>4, <1>5

(* Single elements. *)
LEMMA CostOfOne ==
  ASSUME NEW c, NEW I, NEW J, Priced(c, I, J)
  PROVE  /\ ChainCost(c, {}, {}, {}) = 0
         /\ \A i \in I : ChainCost(c, {i}, {}, {}) = c.left[i]
         /\ \A j \in J : ChainCost(c, {}, {j}, {}) = c.right[j]
         /\ \A i \in I, j \in J : ChainCost(c, {i}, {j}, {<<i, j>>}) = c.pair[<<i, j>>]
<1>1. /\ \A f : Total(f, {}) = 0
      /\ \A f, x : f[x] \in Nat => Total(f, {x}) = f[x]
  <2>1. \A f : Total(f, {}) = 0
    BY TotalEmpty
  <2>2. ASSUME NEW f, NEW x, f[x] \in Nat PROVE Total(f, {x}) = f[x]
    <3>1. IsFiniteSet({}) /\ x \notin {} /\ \A y \in {} : f[y] \in Nat
      BY FS_EmptySet
    <3>2. Total(f, {} \cup {x}) = Total(f, {}) + f[x]
      BY <2>2, <3>1, TotalAdd
    <3>3. {} \cup {x} = {x}
      OBVIOUS
    <3>. QED  BY <2>1, <2>2, <3>2, <3>3
  <2>. QED  BY <2>1, <2>2
<1>2. /\ \A x : {x} \ {} = {x} /\ {x} \ {x} = {} /\ {} \ {x} = {}
      /\ {} \ {} = {}
  OBVIOUS
<1>3. Lefts({}) = {} /\ Rights({}) = {} /\ \A i, j : Lefts({<<i, j>>}) = {i} /\ Rights({<<i, j>>}) = {j}
  BY DEF Lefts, Rights
<1>4. ChainCost(c, {}, {}, {}) = 0
  BY <1>1, <1>2, <1>3 DEF ChainCost
<1>5. ASSUME NEW i \in I PROVE ChainCost(c, {i}, {}, {}) = c.left[i]
  <2>1. c.left[i] \in Nat
    BY DEF Priced
  <2>. QED  BY <1>1, <1>2, <1>3, <2>1 DEF ChainCost
<1>6. ASSUME NEW j \in J PROVE ChainCost(c, {}, {j}, {}) = c.right[j]
  <2>1. c.right[j] \in Nat
    BY DEF Priced
  <2>2. ChainCost(c, {}, {j}, {}) = Total(c.pair, {}) + Total(c.left, {}) + Total(c.right, {j})
    BY <1>2, <1>3 DEF ChainCost
  <2>3. Total(c.pair, {}) = 0 /\ Total(c.left, {}) = 0 /\ Total(c.right, {j}) = c.right[j]
    BY <1>1, <2>1
  <2>. QED  BY <2>1, <2>2, <2>3
<1>7. ASSUME NEW i \in I, NEW j \in J
      PROVE  ChainCost(c, {i}, {j}, {<<i, j>>}) = c.pair[<<i, j>>]
  <2>1. c.pair[<<i, j>>] \in Nat
    BY DEF Priced
  <2>2. ChainCost(c, {i}, {j}, {<<i, j>>})
          = Total(c.pair, {<<i, j>>}) + Total(c.left, {}) + Total(c.right, {})
    <3>. DEFINE P == {<<i, j>>}
    <3>1. {i} \ Lefts(P) = {} /\ {j} \ Rights(P) = {}
      BY DEF Lefts, Rights
    <3>. HIDE DEF P
    <3>2. ChainCost(c, {i}, {j}, P) = Total(c.pair, P) + Total(c.left, {}) + Total(c.right, {})
      BY <3>1 DEF ChainCost
    <3>. QED  BY <3>2 DEF P
  <2>3. Total(c.pair, {<<i, j>>}) = c.pair[<<i, j>>] /\ Total(c.left, {}) = 0 /\ Total(c.right, {}) = 0
    BY <1>1, <2>1
  <2>. QED  BY <2>1, <2>2, <2>3
<1>. QED  BY <1>4, <1>5, <1>6, <1>7

LEMMA LeastOfNothing ==
  ASSUME NEW c
  PROVE  Least(c, {}, {}) = 0
<1>1. Priced(c, {}, {})
  BY FS_EmptySet DEF Priced
<1>2. \A P \in ChainsOn({}, {}) : P = {}
  BY DEF ChainsOn
<1>3. PICK P \in ChainsOn({}, {}) : ChainCost(c, {}, {}, P) = Least(c, {}, {})
  BY <1>1, LeastFacts
<1>4. ChainCost(c, {}, {}, {}) = 0
  BY <1>1, CostOfOne
<1>. QED  BY <1>2, <1>3, <1>4

(* The least costs of sets that grow by a greatest element: its pairing    *)
(* with the other one, or leaving it or the other one out.                 *)
LEMMA LeastOfLeft ==
  ASSUME NEW c, NEW I, NEW r, r \notin I, Priced(c, I \cup {r}, {})
  PROVE  Least(c, I \cup {r}, {}) = Least(c, I, {}) + c.left[r]
<1>. DEFINE R == I \cup {r}
<1>1. \A A, P : P \in ChainsOn(A, {}) => P = {}
  BY DEF ChainsOn
<1>2. {} \in SUBSET (I \X {}) /\ {} \in SUBSET ({r} \X {}) /\ I \cap {r} = {} /\ {} \cap {} = {}
  OBVIOUS
<1>3. /\ Priced(c, I, {}) /\ Priced(c, R, {})
      /\ ChainCost(c, R, {}, {}) = ChainCost(c, I, {}, {}) + ChainCost(c, {r}, {}, {})
  <2>1. {} \cup {} = {}
    OBVIOUS
  <2>2. /\ Priced(c, I, {})
        /\ ChainCost(c, I \cup {r}, {} \cup {}, {} \cup {}) = ChainCost(c, I, {}, {}) + ChainCost(c, {r}, {}, {})
    <3>1. AreApart(c, I, {}, {r}, {}) /\ PairsIn(I, {}, {}) /\ PairsIn({r}, {}, {})
      BY <1>2, <2>1 DEF AreApart, PairsIn
    <3>. QED  BY <3>1, CostOfUnion
  <2>. QED  BY <2>1, <2>2
<1>4. ChainCost(c, {r}, {}, {}) = c.left[r]
  <2>1. r \in R
    OBVIOUS
  <2>. HIDE DEF R
  <2>. QED  BY <1>3, <2>1, CostOfOne
<1>5. PICK P \in ChainsOn(R, {}) : ChainCost(c, R, {}, P) = Least(c, R, {})
  <2>. HIDE DEF R
  <2>. QED  BY <1>3, LeastFacts
<1>6. PICK Q \in ChainsOn(I, {}) : ChainCost(c, I, {}, Q) = Least(c, I, {})
  BY <1>3, LeastFacts
<1>. QED  BY <1>1, <1>3, <1>4, <1>5, <1>6

LEMMA LeastOfRight ==
  ASSUME NEW c, NEW J, NEW n, n \notin J, Priced(c, {}, J \cup {n})
  PROVE  Least(c, {}, J \cup {n}) = Least(c, {}, J) + c.right[n]
<1>. DEFINE R == J \cup {n}
<1>1. \A A, P : P \in ChainsOn({}, A) => P = {}
  BY DEF ChainsOn
<1>2. {} \in SUBSET ({} \X J) /\ {} \in SUBSET ({} \X {n}) /\ J \cap {n} = {} /\ {} \cap {} = {}
  OBVIOUS
<1>3. /\ Priced(c, {}, J) /\ Priced(c, {}, R)
      /\ ChainCost(c, {}, R, {}) = ChainCost(c, {}, J, {}) + ChainCost(c, {}, {n}, {})
  <2>1. {} \cup {} = {}
    OBVIOUS
  <2>2. /\ Priced(c, {}, J)
        /\ ChainCost(c, {} \cup {}, J \cup {n}, {} \cup {}) = ChainCost(c, {}, J, {}) + ChainCost(c, {}, {n}, {})
    <3>1. AreApart(c, {}, J, {}, {n}) /\ PairsIn({}, J, {}) /\ PairsIn({}, {n}, {})
      BY <1>2, <2>1 DEF AreApart, PairsIn
    <3>. QED  BY <3>1, CostOfUnion
  <2>. QED  BY <2>1, <2>2
<1>4. ChainCost(c, {}, {n}, {}) = c.right[n]
  <2>1. n \in R
    OBVIOUS
  <2>. HIDE DEF R
  <2>. QED  BY <1>3, <2>1, CostOfOne
<1>5. PICK P \in ChainsOn({}, R) : ChainCost(c, {}, R, P) = Least(c, {}, R)
  <2>. HIDE DEF R
  <2>. QED  BY <1>3, LeastFacts
<1>6. PICK Q \in ChainsOn({}, J) : ChainCost(c, {}, J, Q) = Least(c, {}, J)
  BY <1>3, LeastFacts
<1>. QED  BY <1>1, <1>3, <1>4, <1>5, <1>6

(* What one step adds to a chain. *)
StepCosts(c, I, J, r, n) ==
  /\ Priced(c, I, J) /\ Priced(c, I \cup {r}, J) /\ Priced(c, I, J \cup {n})
  /\ \A P \in SUBSET ((I \cup {r}) \X J) :
        ChainCost(c, I \cup {r}, J \cup {n}, P) = ChainCost(c, I \cup {r}, J, P) + c.right[n]
  /\ \A P \in SUBSET (I \X (J \cup {n})) :
        ChainCost(c, I \cup {r}, J \cup {n}, P) = ChainCost(c, I, J \cup {n}, P) + c.left[r]
  /\ \A P \in SUBSET (I \X J) :
        ChainCost(c, I \cup {r}, J \cup {n}, P \cup {<<r, n>>})
          = ChainCost(c, I, J, P) + c.pair[<<r, n>>]

LEMMA CostOfStep ==
  ASSUME NEW c, NEW I, NEW J, NEW r, NEW n, r \notin I, n \notin J,
         Priced(c, I \cup {r}, J \cup {n})
  PROVE  StepCosts(c, I, J, r, n)
<1>. DEFINE A == I \cup {r}
            B == J \cup {n}
<1>1. Priced(c, A, B) /\ A \cup {} = A /\ B \cup {} = B /\ r \in A /\ n \in B
  OBVIOUS
<1>2. I \cap {r} = {} /\ J \cap {n} = {} /\ A \cap {} = {} /\ B \cap {} = {}
  OBVIOUS
<1>3. /\ ChainCost(c, {r}, {}, {}) = c.left[r]
      /\ ChainCost(c, {}, {n}, {}) = c.right[n]
      /\ ChainCost(c, {r}, {n}, {<<r, n>>}) = c.pair[<<r, n>>]
  <2>. HIDE DEF A, B
  <2>. QED  BY <1>1, CostOfOne
<1>4. ASSUME NEW P \in SUBSET (A \X J)
      PROVE  Priced(c, A, J) /\ ChainCost(c, A, B, P) = ChainCost(c, A, J, P) + c.right[n]
  <2>1. {} \in SUBSET ({} \X {n}) /\ A \cap {} = {} /\ J \cap {n} = {}
    BY <1>2
  <2>2. Priced(c, A \cup {}, J \cup {n})
    BY <1>1
  <2>3. P \cup {} = P
    OBVIOUS
  <2>. DEFINE E == {}
              N == {n}
  <2>. HIDE DEF A, B, E, N
  <2>4. /\ Priced(c, A, J)
        /\ ChainCost(c, A \cup E, J \cup N, P \cup E) = ChainCost(c, A, J, P) + ChainCost(c, E, N, E)
    <3>1. AreApart(c, A, J, E, N) /\ PairsIn(A, J, P) /\ PairsIn(E, N, E)
      BY <2>1, <2>2 DEF E, N, AreApart, PairsIn
    <3>. QED  BY <3>1, CostOfUnion
  <2>. QED  BY <1>1, <1>3, <2>3, <2>4 DEF B, E, N
<1>5. ASSUME NEW P \in SUBSET (I \X B)
      PROVE  Priced(c, I, B) /\ ChainCost(c, A, B, P) = ChainCost(c, I, B, P) + c.left[r]
  <2>1. {} \in SUBSET ({r} \X {}) /\ I \cap {r} = {} /\ B \cap {} = {}
    BY <1>2
  <2>2. Priced(c, I \cup {r}, B \cup {})
    BY <1>1
  <2>3. P \cup {} = P
    OBVIOUS
  <2>. DEFINE E == {}
              N == {r}
  <2>. HIDE DEF A, B, E, N
  <2>4. /\ Priced(c, I, B)
        /\ ChainCost(c, I \cup N, B \cup E, P \cup E) = ChainCost(c, I, B, P) + ChainCost(c, N, E, E)
    <3>1. AreApart(c, I, B, N, E) /\ PairsIn(I, B, P) /\ PairsIn(N, E, E)
      BY <2>1, <2>2 DEF E, N, AreApart, PairsIn
    <3>. QED  BY <3>1, CostOfUnion
  <2>. QED  BY <1>1, <1>3, <2>3, <2>4 DEF A, E, N
<1>6. ASSUME NEW P \in SUBSET (I \X J)
      PROVE  /\ Priced(c, I, J)
             /\ ChainCost(c, A, B, P \cup {<<r, n>>}) = ChainCost(c, I, J, P) + c.pair[<<r, n>>]
  <2>1. {<<r, n>>} \in SUBSET ({r} \X {n})
    OBVIOUS
  <2>. DEFINE Q == {<<r, n>>}
              M == {r}
              N == {n}
  <2>. HIDE DEF A, B, Q, M, N
  <2>2. /\ Priced(c, I, J)
        /\ ChainCost(c, I \cup M, J \cup N, P \cup Q) = ChainCost(c, I, J, P) + ChainCost(c, M, N, Q)
    <3>1. AreApart(c, I, J, M, N) /\ PairsIn(I, J, P) /\ PairsIn(M, N, Q)
      BY <1>2, <2>1 DEF Q, M, N, AreApart, PairsIn
    <3>. QED  BY <3>1, CostOfUnion
  <2>. QED  BY <1>3, <2>2 DEF A, B, Q, M, N
<1>7. {} \in SUBSET (A \X J) /\ {} \in SUBSET (I \X B) /\ {} \in SUBSET (I \X J)
  OBVIOUS
<1>. HIDE DEF A, B
<1>8. Priced(c, I, J) /\ Priced(c, A, J) /\ Priced(c, I, B)
  BY <1>4, <1>5, <1>6, <1>7
<1>. QED  BY <1>4, <1>5, <1>6, <1>8 DEF A, B, StepCosts

(* A chain over the grown sets leaves one of the new elements out or pairs *)
(* the two of them.                                                        *)
StepChains(I, J, r, n) ==
  /\ ChainsOn(I \cup {r}, J) \in SUBSET ChainsOn(I \cup {r}, J \cup {n})
  /\ ChainsOn(I, J \cup {n}) \in SUBSET ChainsOn(I \cup {r}, J \cup {n})
  /\ \A P \in ChainsOn(I, J) : P \cup {<<r, n>>} \in ChainsOn(I \cup {r}, J \cup {n})
  /\ \A P \in ChainsOn(I \cup {r}, J \cup {n}) :
        \/ P \in ChainsOn(I \cup {r}, J)
        \/ P \in ChainsOn(I, J \cup {n})
        \/ \E Q \in ChainsOn(I, J) : P = Q \cup {<<r, n>>}

LEMMA ChainOfStep ==
  ASSUME NEW I \in SUBSET Nat, NEW J \in SUBSET Nat, NEW r \in Nat, NEW n \in Nat,
         \A i \in I : i < r, \A j \in J : j < n
  PROVE  StepChains(I, J, r, n)
<1>. DEFINE A == I \cup {r}
            B == J \cup {n}
<1>1. ChainsOn(A, J) \in SUBSET ChainsOn(A, B) /\ ChainsOn(I, B) \in SUBSET ChainsOn(A, B)
  BY DEF ChainsOn
<1>2. ASSUME NEW P \in ChainsOn(I, J) PROVE P \cup {<<r, n>>} \in ChainsOn(A, B)
  <2>1. P \in SUBSET (I \X J) /\ Chain(P)
    BY DEF ChainsOn
  <2>2. \A p \in P : p[1] \in Nat /\ p[2] \in Nat /\ p[1] < r /\ p[2] < n
    BY <2>1
  <2>3. Chain(P \cup {<<r, n>>})
    BY <2>1, <2>2 DEF Chain
  <2>4. P \cup {<<r, n>>} \in SUBSET (A \X B)
    BY <2>1
  <2>. QED  BY <2>3, <2>4 DEF ChainsOn
<1>3. ASSUME NEW P \in ChainsOn(A, B)
      PROVE  \/ P \in ChainsOn(A, J) \/ P \in ChainsOn(I, B)
             \/ \E Q \in ChainsOn(I, J) : P = Q \cup {<<r, n>>}
  <2>1. P \in SUBSET (A \X B) /\ Chain(P)
    BY DEF ChainsOn
  <2>0. /\ \A x \in I \cup {r} : x \in Nat /\ x <= r /\ (x \in I \/ x = r)
        /\ \A x \in J \cup {n} : x \in Nat /\ x <= n /\ (x \in J \/ x = n)
    <3>1. ASSUME NEW x \in I \cup {r} PROVE x \in Nat /\ x <= r /\ (x \in I \/ x = r)
      <4>1. CASE x \in I
        BY <4>1
      <4>2. CASE x = r
        BY <4>2
      <4>. QED  BY <3>1, <4>1, <4>2
    <3>2. ASSUME NEW x \in J \cup {n} PROVE x \in Nat /\ x <= n /\ (x \in J \/ x = n)
      <4>1. CASE x \in J
        BY <4>1
      <4>2. CASE x = n
        BY <4>2
      <4>. QED  BY <3>2, <4>1, <4>2
    <3>. QED  BY <3>1, <3>2
  <2>2. \A p \in P : /\ p = <<p[1], p[2]>> /\ p[1] \in Nat /\ p[2] \in Nat
                     /\ p[1] \in I \/ p[1] = r
                     /\ p[2] \in J \/ p[2] = n
                     /\ p[1] <= r /\ p[2] <= n
    <3>. TAKE p \in P
    <3>1. p = <<p[1], p[2]>> /\ p[1] \in I \cup {r} /\ p[2] \in J \cup {n}
      BY <2>1
    <3>2. p[1] \in Nat /\ p[1] <= r /\ (p[1] \in I \/ p[1] = r)
      BY <3>1, <2>0
    <3>3. p[2] \in Nat /\ p[2] <= n /\ (p[2] \in J \/ p[2] = n)
      BY <3>1, <2>0
    <3>. QED  BY <3>1, <3>2, <3>3
  <2>3. CASE \A p \in P : p[2] # n
    <3>1. P \in SUBSET (A \X J)
      BY <2>1, <2>2, <2>3
    <3>. QED  BY <2>1, <3>1 DEF ChainsOn
  <2>4. CASE \A p \in P : p[1] # r
    <3>1. P \in SUBSET (I \X B)
      BY <2>1, <2>2, <2>4
    <3>. QED  BY <2>1, <3>1 DEF ChainsOn
  <2>5. CASE (\E p \in P : p[1] = r) /\ (\E p \in P : p[2] = n)
    <3>1. PICK x \in P, y \in P : x[1] = r /\ y[2] = n
      BY <2>5
    <3>2. (x[1] < y[1] <=> x[2] < y[2]) /\ (y[1] < x[1] <=> y[2] < x[2])
      BY <2>1 DEF Chain
    <3>3. y[1] = r /\ x[2] = n
      BY <2>2, <3>1, <3>2
    <3>. DEFINE Q == P \ {<<r, n>>}
    <3>4. <<r, n>> \in P /\ P = Q \cup {<<r, n>>}
      BY <2>2, <3>1, <3>3
    <3>5. \A p \in Q : p[1] # r /\ p[2] # n
      <4>. TAKE p \in Q
      <4>1. p \in P /\ p # x
        BY <2>2, <3>1, <3>3
      <4>2. /\ (p[1] < x[1] <=> p[2] < x[2]) /\ (x[1] < p[1] <=> x[2] < p[2])
        BY <2>1, <4>1 DEF Chain
      <4>3. p = <<p[1], p[2]>> /\ p # <<r, n>> /\ p[1] \in Nat /\ p[2] \in Nat
        BY <2>2, <4>1
      <4>. QED  BY <2>2, <3>1, <3>3, <4>1, <4>2, <4>3
    <3>6. Q \in SUBSET (I \X J)
      BY <2>1, <2>2, <3>5
    <3>7. Chain(Q)
      BY <2>1 DEF Chain
    <3>8. Q \in ChainsOn(I, J)
      BY <3>6, <3>7 DEF ChainsOn
    <3>. QED  BY <3>4, <3>8
  <2>. QED  BY <2>3, <2>4, <2>5
<1>. QED  BY <1>1, <1>2, <1>3 DEF StepChains

(* The least costs obey the recursion of the dynamic program.              *)
StepLeast(c, I, J, r, n) ==
  Least(c, I \cup {r}, J \cup {n})
    = Min({Least(c, I, J) + c.pair[<<r, n>>],
           Least(c, I \cup {r}, J) + c.right[n],
           Least(c, I, J \cup {n}) + c.left[r]})

LEMMA LeastOfStep ==
  ASSUME NEW c, NEW I, NEW J, NEW r, NEW n,
         Priced(c, I \cup {r}, J \cup {n}),
         \A i \in I : i < r, \A j \in J : j < n
  PROVE  StepLeast(c, I, J, r, n)
<1>. DEFINE A == I \cup {r}
            B == J \cup {n}
            x == Least(c, I, J) + c.pair[<<r, n>>]
            y == Least(c, A, J) + c.right[n]
            z == Least(c, I, B) + c.left[r]
<1>0. /\ I \in SUBSET Nat /\ J \in SUBSET Nat /\ r \in Nat /\ n \in Nat
      /\ r \notin I /\ n \notin J
      /\ Priced(c, I \cup {r}, J \cup {n})
  BY DEF Priced
<1>1. /\ A \in SUBSET Nat /\ B \in SUBSET Nat /\ Priced(c, A, B)
      /\ I \in SUBSET Nat /\ J \in SUBSET Nat /\ r \in Nat /\ n \in Nat
      /\ r \notin I /\ n \notin J
  BY DEF Priced
<1>2. /\ Priced(c, I, J) /\ Priced(c, A, J) /\ Priced(c, I, B)
      /\ \A P \in SUBSET (A \X J) : ChainCost(c, A, B, P) = ChainCost(c, A, J, P) + c.right[n]
      /\ \A P \in SUBSET (I \X B) : ChainCost(c, A, B, P) = ChainCost(c, I, B, P) + c.left[r]
      /\ \A P \in SUBSET (I \X J) :
            ChainCost(c, A, B, P \cup {<<r, n>>}) = ChainCost(c, I, J, P) + c.pair[<<r, n>>]
  <2>1. StepCosts(c, I, J, r, n)
    BY <1>0, CostOfStep
  <2>. QED  BY <2>1 DEF StepCosts
<1>3. /\ ChainsOn(A, J) \in SUBSET ChainsOn(A, B)
      /\ ChainsOn(I, B) \in SUBSET ChainsOn(A, B)
      /\ \A P \in ChainsOn(I, J) : P \cup {<<r, n>>} \in ChainsOn(A, B)
      /\ \A P \in ChainsOn(A, B) :
            \/ P \in ChainsOn(A, J)
            \/ P \in ChainsOn(I, B)
            \/ \E Q \in ChainsOn(I, J) : P = Q \cup {<<r, n>>}
  <2>1. StepChains(I, J, r, n)
    BY <1>0, ChainOfStep
  <2>. QED  BY <2>1 DEF StepChains
<1>4. c.pair[<<r, n>>] \in Nat /\ c.right[n] \in Nat /\ c.left[r] \in Nat
  BY <1>1 DEF Priced
<1>. HIDE DEF A, B
<1>5. \A F, G : \A P \in ChainsOn(F, G) : P \in SUBSET (F \X G)
  BY DEF ChainsOn
<1>6. /\ \A P \in ChainsOn(A, J) : ChainCost(c, A, B, P) = ChainCost(c, A, J, P) + c.right[n]
      /\ \A P \in ChainsOn(I, B) : ChainCost(c, A, B, P) = ChainCost(c, I, B, P) + c.left[r]
      /\ \A P \in ChainsOn(I, J) :
            ChainCost(c, A, B, P \cup {<<r, n>>}) = ChainCost(c, I, J, P) + c.pair[<<r, n>>]
  BY <1>2, <1>5
<1>7. /\ Least(c, A, B) \in Nat /\ Least(c, I, J) \in Nat
      /\ Least(c, A, J) \in Nat /\ Least(c, I, B) \in Nat
  BY <1>1, <1>2, LeastFacts
<1>8. \A F, G : Priced(c, F, G) => \A P \in ChainsOn(F, G) : ChainCost(c, F, G, P) \in Nat
  BY <1>5, ChainTypes
<1>9. Least(c, A, B) <= x
  <2>1. PICK P \in ChainsOn(I, J) : ChainCost(c, I, J, P) = Least(c, I, J)
    BY <1>2, LeastFacts
  <2>2. P \cup {<<r, n>>} \in ChainsOn(A, B)
    BY <1>3
  <2>3. Least(c, A, B) <= ChainCost(c, A, B, P \cup {<<r, n>>})
    BY <1>1, <2>2, LeastFacts
  <2>. QED  BY <1>6, <2>1, <2>3
<1>10. Least(c, A, B) <= y
  <2>1. PICK P \in ChainsOn(A, J) : ChainCost(c, A, J, P) = Least(c, A, J)
    BY <1>2, LeastFacts
  <2>2. Least(c, A, B) <= ChainCost(c, A, B, P)
    BY <1>1, <1>3, LeastFacts
  <2>. QED  BY <1>6, <2>1, <2>2
<1>11. Least(c, A, B) <= z
  <2>1. PICK P \in ChainsOn(I, B) : ChainCost(c, I, B, P) = Least(c, I, B)
    BY <1>2, LeastFacts
  <2>2. Least(c, A, B) <= ChainCost(c, A, B, P)
    BY <1>1, <1>3, LeastFacts
  <2>. QED  BY <1>6, <2>1, <2>2
<1>12. x <= Least(c, A, B) \/ y <= Least(c, A, B) \/ z <= Least(c, A, B)
  <2>1. PICK P \in ChainsOn(A, B) : ChainCost(c, A, B, P) = Least(c, A, B)
    BY <1>1, LeastFacts
  <2>2. CASE P \in ChainsOn(A, J)
    <3>1. Least(c, A, J) <= ChainCost(c, A, J, P) /\ ChainCost(c, A, J, P) \in Nat
      BY <1>2, <1>8, <2>2, LeastFacts
    <3>2. Least(c, A, B) = ChainCost(c, A, J, P) + c.right[n]
      BY <1>6, <2>1, <2>2
    <3>. QED  BY <1>4, <1>7, <3>1, <3>2
  <2>3. CASE P \in ChainsOn(I, B)
    <3>1. Least(c, I, B) <= ChainCost(c, I, B, P) /\ ChainCost(c, I, B, P) \in Nat
      BY <1>2, <1>8, <2>3, LeastFacts
    <3>2. Least(c, A, B) = ChainCost(c, I, B, P) + c.left[r]
      BY <1>6, <2>1, <2>3
    <3>. QED  BY <1>4, <1>7, <3>1, <3>2
  <2>4. CASE \E Q \in ChainsOn(I, J) : P = Q \cup {<<r, n>>}
    <3>1. PICK Q \in ChainsOn(I, J) : P = Q \cup {<<r, n>>}
      BY <2>4
    <3>2. Least(c, I, J) <= ChainCost(c, I, J, Q) /\ ChainCost(c, I, J, Q) \in Nat
      BY <1>2, <1>8, LeastFacts
    <3>3. Least(c, A, B) = ChainCost(c, I, J, Q) + c.pair[<<r, n>>]
      BY <1>6, <2>1, <3>1
    <3>. QED  BY <1>4, <1>7, <3>2, <3>3
  <2>. QED  BY <1>3, <2>2, <2>3, <2>4
<1>13. x \in Nat /\ y \in Nat /\ z \in Nat
  BY <1>4, <1>7
<1>. HIDE DEF x, y, z
<1>14. Least(c, A, B) = Min({x, y, z})
  <2>. DEFINE T == {x, y, z}
  <2>1. T \in SUBSET Nat /\ T # {}
    BY <1>13
  <2>2. Min(T) \in T /\ \A t \in T : Min(T) <= t
    <3>. HIDE DEF T
    <3>. QED  BY <2>1, MinIsLeast
  <2>3. Min(T) \in {x, y, z} /\ Min(T) <= x /\ Min(T) <= y /\ Min(T) <= z
    BY <2>2
  <2>. HIDE DEF T
  <2>4. Least(c, A, B) = Min(T)
    BY <1>7, <1>9, <1>10, <1>11, <1>12, <1>13, <2>3
  <2>. QED  BY <2>4 DEF T
<1>. QED  BY <1>14 DEF x, y, z, A, B, StepLeast
==============================================================================
