---------------------------- MODULE EngineProofs -----------------------------
(***************************************************************************)
(* Engines, for corpora, vocabularies and snapshots of every size.         *)
(*   1. Sorted postings and arrays cut by offsets.                         *)
(*   2. What a store is: its places, numbered through, are its symbols.    *)
(*   3. verify and the posting lists: counts, order and single postings    *)
(*      say that no occurrence is missing.                                 *)
(*   4. Construction: the vocabulary, the strings and the posting lists.   *)
(*   5. Encoded queries.                                                   *)
(*   6. The inductive invariant and the theorems.                          *)
(***************************************************************************)
EXTENDS Engine, CommonLemmas

------------------------------------------------------------------------------
(***************************************************************************)
(* 1. Sorted postings and arrays cut by offsets.                           *)
(***************************************************************************)

Posting == [string : Nat, position : Nat]

Before(S) == {pair \in S \X S : PostingBefore(pair[1], pair[2])}

LEMMA PostingsAreOrdered ==
  ASSUME NEW S \in SUBSET Posting
  PROVE  /\ StrictOrder(S, Before(S))
         /\ \A x, y \in S : <<x, y>> \in Before(S) <=> PostingBefore(x, y)
<1>1. \A x, y \in S : <<x, y>> \in Before(S) <=> PostingBefore(x, y)
  BY DEF Before
<1>2. \A x \in S : x \in Posting
  OBVIOUS
<1>3. \A x, y \in S : x.string = y.string /\ x.position = y.position => x = y
  BY <1>2 DEF Posting
<1>4. \A x \in S : x.string \in Nat /\ x.position \in Nat
  BY <1>2 DEF Posting
<1>5. \A x \in S : ~PostingBefore(x, x)
  BY <1>4 DEF PostingBefore
<1>6. \A x, y, z \in S : PostingBefore(x, y) /\ PostingBefore(y, z) => PostingBefore(x, z)
  BY <1>4 DEF PostingBefore
<1>7. \A x, y \in S : x # y => PostingBefore(x, y) \/ PostingBefore(y, x)
  BY <1>3, <1>4 DEF PostingBefore
<1>. QED  BY <1>1, <1>5, <1>6, <1>7 DEF StrictOrder

LEMMA SortedPostings ==
  ASSUME NEW S \in SUBSET Posting, IsFiniteSet(S)
  PROVE  Sorts(S, Before(S), SortedBy(S, PostingBefore), Cardinality(S))
<1>. DEFINE Chosen(k) == CHOOSE x \in S : Cardinality({y \in S : PostingBefore(y, x)}) = k - 1
            R == Before(S)
            s == SortedBy(S, PostingBefore)
<1>1. /\ StrictOrder(S, R)
      /\ \A x \in S : Under(S, R, x) = {y \in S : PostingBefore(y, x)}
  BY PostingsAreOrdered DEF Under
<1>2. s = [k \in 1 .. Cardinality(S) |-> s[k]]
  <2>1. s = [k \in 1 .. Cardinality(S) |-> Chosen(k)]
    BY DEF SortedBy
  <2>. HIDE DEF s, Chosen
  <2>. QED  BY <2>1
<1>3. ASSUME NEW k \in 1 .. Cardinality(S),
             \E x \in S : Cardinality(Under(S, R, x)) = k - 1
      PROVE  s[k] \in S /\ Cardinality(Under(S, R, s[k])) = k - 1
  <2>1. s[k] = Chosen(k)
    BY DEF SortedBy
  <2>. HIDE DEF R, s
  <2>2. \E x \in S : Cardinality({y \in S : PostingBefore(y, x)}) = k - 1
    BY <1>1, <1>3
  <2>3. s[k] \in S /\ Cardinality({y \in S : PostingBefore(y, s[k])}) = k - 1
    BY <2>1, <2>2
  <2>. QED  BY <1>1, <2>3
<1>4. Sorts(S, R, s, Cardinality(S))
  <2>. HIDE DEF R, s
  <2>. QED  BY <1>1, <1>2, <1>3, ChosenByRank
<1>. QED  BY <1>4

LEMMA OrderedPairs ==
  ASSUME NEW S \in SUBSET Posting, NEW n \in Nat, NEW t \in [1 .. n -> S],
         \A k \in 2 .. n : PostingBefore(t[k - 1], t[k])
  PROVE  \A i, j \in 1 .. n : i < j => <<t[i], t[j]>> \in Before(S)
<1>. DEFINE R == Before(S)
<1>1. \A x, y, z \in S : <<x, y>> \in R /\ <<y, z>> \in R => <<x, z>> \in R
  BY PostingsAreOrdered DEF StrictOrder
<1>2. \A k \in 2 .. n : <<t[k - 1], t[k]>> \in R
  BY PostingsAreOrdered
<1>. HIDE DEF R
<1>3. \A i, j \in 1 .. n : i < j => <<t[i], t[j]>> \in R
  BY <1>1, <1>2, NeighborsSuffice
<1>. QED  BY <1>3 DEF R

(* A list whose neighbors are ordered is the sorted set of its elements.   *)
LEMMA OrderedIsSorted ==
  ASSUME NEW list \in Seq(Posting), StrictlyOrdered(list),
         NEW S, S = {list[k] : k \in 1 .. Len(list)}
  PROVE  /\ S \in SUBSET Posting /\ IsFiniteSet(S)
         /\ Sorts(S, Before(S), list, Len(list))
         /\ list = SortedBy(S, PostingBefore)
<1>1. Len(list) \in Nat /\ list \in [1 .. Len(list) -> S] /\ S \in SUBSET Posting
  OBVIOUS
<1>2. /\ StrictOrder(S, Before(S))
      /\ \A x, y \in S : <<x, y>> \in Before(S) <=> PostingBefore(x, y)
  BY <1>1, PostingsAreOrdered
<1>3. \A k \in 2 .. Len(list) : PostingBefore(list[k - 1], list[k])
  BY DEF StrictlyOrdered
<1>4. \A i, j \in 1 .. Len(list) : i < j => <<list[i], list[j]>> \in Before(S)
  BY <1>1, <1>3, OrderedPairs
<1>5. Sorts(S, Before(S), list, Len(list))
  BY <1>1, <1>4 DEF Sorts
<1>6. IsFiniteSet(S)
  BY <1>2, <1>5, SortedIsRanked
<1>7. list = SortedBy(S, PostingBefore)
  BY <1>1, <1>2, <1>5, <1>6, SortedPostings, SortIsUnique
<1>. QED  BY <1>1, <1>5, <1>6, <1>7

LEMMA SortedIsOrdered ==
  ASSUME NEW S \in SUBSET Posting, IsFiniteSet(S)
  PROVE  LET list == SortedBy(S, PostingBefore)
         IN  /\ list \in Seq(Posting) /\ Len(list) = Cardinality(S)
             /\ StrictlyOrdered(list)
             /\ S = {list[k] : k \in 1 .. Len(list)}
<1>. DEFINE list == SortedBy(S, PostingBefore)
            n == Cardinality(S)
<1>1. Sorts(S, Before(S), list, n)
  BY SortedPostings
<1>. HIDE DEF list, n
<1>2. n \in Nat /\ list \in [1 .. n -> S] /\ list \in Seq(Posting) /\ Len(list) = n
  BY <1>1 DEF Sorts
<1>3. StrictlyOrdered(list)
  <2>1. \A i, j \in 1 .. n : i < j => <<list[i], list[j]>> \in Before(S)
    BY <1>1 DEF Sorts
  <2>2. \A k \in 2 .. n : k - 1 \in 1 .. n /\ k \in 1 .. n /\ k - 1 < k
    BY <1>2
  <2>3. \A k \in 2 .. n : <<list[k - 1], list[k]>> \in Before(S)
    BY <2>1, <2>2
  <2>. QED  BY <1>2, <2>2, <2>3, PostingsAreOrdered DEF StrictlyOrdered
<1>4. S = {list[k] : k \in 1 .. n}
  BY <1>1 DEF Sorts
<1>. QED  BY <1>2, <1>3, <1>4 DEF list, n

(* Offsets cut an array into lists that follow one another ...             *)
LEMMA OffsetsGrow ==
  ASSUME NEW n \in Nat, NEW total \in Nat, NEW o \in ValidOffsets(n, total)
  PROVE  /\ \A i \in 1 .. (n + 1) : o[i] \in 0 .. total
         /\ \A i, j \in 1 .. (n + 1) : i <= j => o[i] <= o[j]
<1>. DEFINE R == {pair \in Nat \X Nat : pair[1] <= pair[2]}
            m == n + 1
<1>1. /\ m \in Nat /\ o \in [1 .. m -> 0 .. total] /\ o \in [1 .. m -> Nat]
      /\ \A k \in 1 .. n : o[k] <= o[k + 1]
  BY DEF ValidOffsets
<1>2. \A x, y, z \in Nat : <<x, y>> \in R /\ <<y, z>> \in R => <<x, z>> \in R
  OBVIOUS
<1>3. \A k \in 2 .. m : <<o[k - 1], o[k]>> \in R
  <2>. TAKE k \in 2 .. m
  <2>1. k - 1 \in 1 .. n /\ (k - 1) + 1 = k /\ k - 1 \in 1 .. m /\ k \in 1 .. m
    OBVIOUS
  <2>2. o[k - 1] <= o[(k - 1) + 1] /\ o[k - 1] \in Nat /\ o[k] \in Nat
    BY <1>1, <2>1
  <2>. QED  BY <2>1, <2>2
<1>4. \A i, j \in 1 .. m : i < j => <<o[i], o[j]>> \in R
  <2>. HIDE DEF R, m
  <2>. QED  BY <1>1, <1>2, <1>3, NeighborsSuffice
<1>5. \A i, j \in 1 .. m : i <= j => o[i] <= o[j]
  <2>. SUFFICES ASSUME NEW i \in 1 .. m, NEW j \in 1 .. m, i <= j PROVE o[i] <= o[j]
    OBVIOUS
  <2>1. CASE i = j
    BY <1>1, <2>1
  <2>2. CASE i < j
    BY <1>4, <2>2
  <2>. QED  BY <2>1, <2>2
<1>. QED  BY <1>1, <1>5

(* ... and every entry of the array is in one of them.                     *)
LEMMA OffsetsCover ==
  ASSUME NEW n \in Nat, NEW total \in Nat, NEW o \in ValidOffsets(n, total), NEW p \in 1 .. total
  PROVE  \E k \in 1 .. n : o[k] < p /\ p <= o[k + 1]
<1>. DEFINE T == {k \in 1 .. (n + 1) : p <= o[k]}
<1>1. /\ \A i \in 1 .. (n + 1) : o[i] \in 0 .. total
      /\ o[1] = 0 /\ o[n + 1] = total
  BY OffsetsGrow DEF ValidOffsets
<1>2. T \in SUBSET Nat /\ T # {}
  BY <1>1
<1>3. PICK k \in T : \A j \in T : k <= j
  <2>. HIDE DEF T
  <2>. QED  BY <1>2, LeastNatural
<1>4. k # 1
  BY <1>1
<1>5. k - 1 \in 1 .. n /\ k - 1 \in 1 .. (n + 1) /\ (k - 1) + 1 = k
  BY <1>4
<1>6. k - 1 \notin T
  <2>1. ~(k <= k - 1)
    OBVIOUS
  <2>. HIDE DEF T
  <2>. QED  BY <1>3, <2>1
<1>7. o[k - 1] < p
  BY <1>1, <1>5, <1>6
<1>. QED  BY <1>5, <1>7

(* The list of an entry is determined by it.                               *)
LEMMA OffsetsSeparate ==
  ASSUME NEW n \in Nat, NEW total \in Nat, NEW o \in ValidOffsets(n, total),
         NEW k \in 1 .. n, NEW m \in 1 .. n, NEW p \in Nat,
         o[k] < p, p <= o[k + 1], o[m] < p, p <= o[m + 1]
  PROVE  k = m
<1>1. /\ \A i \in 1 .. (n + 1) : o[i] \in 0 .. total
      /\ \A i, j \in 1 .. (n + 1) : i <= j => o[i] <= o[j]
  BY OffsetsGrow
<1>2. /\ k \in 1 .. (n + 1) /\ k + 1 \in 1 .. (n + 1)
      /\ m \in 1 .. (n + 1) /\ m + 1 \in 1 .. (n + 1)
  OBVIOUS
<1>3. ~(k < m)
  <2>1. k < m => k + 1 <= m
    OBVIOUS
  <2>. QED  BY <1>1, <1>2, <2>1
<1>4. ~(m < k)
  <2>1. m < k => m + 1 <= k
    OBVIOUS
  <2>. QED  BY <1>1, <1>2, <2>1
<1>. QED  BY <1>3, <1>4

------------------------------------------------------------------------------
(***************************************************************************)
(* 2. Stores.                                                              *)
(***************************************************************************)

(* A store of m strings, as built or as validated when it is opened.       *)
StoreShaped(store, m) ==
  /\ m \in Nat
  /\ store.symbols \in Seq(Nat)
  /\ store.offsets \in ValidOffsets(m, Len(store.symbols))

LEMMA StringsAreCut ==
  ASSUME NEW store, NEW m, StoreShaped(store, m)
  PROVE  /\ Ids(store) = 0 .. (m - 1)
         /\ \A id \in Nat : IsString(store, id) <=> id \in 0 .. (m - 1)
         /\ \A id \in 0 .. (m - 1) :
               LET start  == store.offsets[id + 1]
                   end    == store.offsets[id + 2]
                   string == StringOf(store, id)
               IN  /\ start \in Nat /\ end \in Nat /\ start <= end /\ end <= Len(store.symbols)
                   /\ string \in Seq(Nat)
                   /\ Len(string) = end - start
                   /\ \A p \in 1 .. Len(string) :
                         string[p] = store.symbols[start + p]
<1>. DEFINE o == store.offsets
            t == store.symbols
            n == Len(store.symbols)
<1>1. m \in Nat /\ t \in Seq(Nat) /\ n \in Nat /\ n = Len(t) /\ o \in ValidOffsets(m, n)
  BY DEF StoreShaped
<1>2. /\ o \in [1 .. (m + 1) -> 0 .. n]
      /\ \A k \in 1 .. m : o[k] <= o[k + 1]
  BY <1>1 DEF ValidOffsets
<1>3. Len(o) = m + 1 /\ DOMAIN o = 1 .. (m + 1)
  BY <1>1, <1>2
<1>4. Ids(store) = 0 .. (m - 1)
  BY <1>1, <1>3 DEF Ids
<1>5. \A id \in Nat : IsString(store, id) <=> id \in 0 .. (m - 1)
  BY <1>1, <1>3 DEF IsString
<1>6. ASSUME NEW id \in 0 .. (m - 1)
      PROVE  LET start  == o[id + 1]
                 end    == o[id + 2]
                 string == StringOf(store, id)
             IN  /\ start \in Nat /\ end \in Nat /\ start <= end /\ end <= n
                 /\ string \in Seq(Nat)
                 /\ Len(string) = end - start
                 /\ \A p \in 1 .. Len(string) : string[p] = t[start + p]
  <2>. DEFINE start == o[id + 1]
              end == o[id + 2]
              string == StringOf(store, id)
  <2>1. id + 1 \in 1 .. m /\ id + 1 \in 1 .. (m + 1) /\ id + 2 \in 1 .. (m + 1) /\ (id + 1) + 1 = id + 2
    BY <1>1
  <2>2. start \in 0 .. n /\ end \in 0 .. n /\ start <= end
    BY <1>2, <2>1
  <2>3. string = SubSeq(t, start + 1, end)
    BY DEF StringOf
  <2>. HIDE DEF start, end, string, n, t
  <2>4. start + 1 \in 1 .. (n + 1) /\ end \in start .. n
    BY <1>1, <2>2
  <2>5. string \in Seq(Nat)
    <3>1. \A i \in (start + 1) .. end : i \in 1 .. Len(t)
      BY <1>1, <2>2
    <3>. QED  BY <1>1, <2>2, <2>3, <3>1, SubSeqProperties
  <2>6. Len(string) = end - start
    BY <1>1, <2>2, <2>3, <2>4, SubSeqProperties
  <2>7. \A p \in 1 .. Len(string) : string[p] = t[start + p]
    <3>1. \A p \in 1 .. (end - start) : SubSeq(t, start + 1, end)[p] = t[(start + 1) + p - 1]
      BY <1>1, <2>2, <2>4, SubSeqProperties
    <3>2. \A p \in 1 .. (end - start) : (start + 1) + p - 1 = start + p
      BY <2>2
    <3>. QED  BY <2>3, <2>6, <3>1, <3>2
  <2>8. start \in Nat /\ end \in Nat /\ end <= n
    BY <1>1, <2>2
  <2>. QED  BY <2>2, <2>5, <2>6, <2>7, <2>8 DEF start, end, string
<1>. QED  BY <1>4, <1>5, <1>6

(* The places of the symbols, and their numbers.                           *)
Places(store, m) ==
  {place \in Posting :
     /\ place.string \in 0 .. (m - 1)
     /\ store.offsets[place.string + 1] + place.position < store.offsets[place.string + 2]}

Number(store, place) == store.offsets[place.string + 1] + place.position + 1

LEMMA PlacesAreNumbered ==
  ASSUME NEW store, NEW m, StoreShaped(store, m)
  PROVE  /\ \A place \in Places(store, m) : Number(store, place) \in 1 .. Len(store.symbols)
         /\ \A a, b \in Places(store, m) : Number(store, a) = Number(store, b) => a = b
         /\ \A p \in 1 .. Len(store.symbols) :
               \E place \in Places(store, m) : Number(store, place) = p
         /\ IsFiniteSet(Places(store, m))
         /\ Cardinality(Places(store, m)) = Len(store.symbols)
<1>. DEFINE o == store.offsets
            n == Len(store.symbols)
            P == Places(store, m)
            N == 1 .. n
<1>1. m \in Nat /\ n \in Nat /\ o \in ValidOffsets(m, n)
  BY DEF StoreShaped
<1>2. \A k \in 1 .. (m + 1) : o[k] \in 0 .. n
  BY <1>1, OffsetsGrow
<1>3. ASSUME NEW place \in P
      PROVE  /\ place \in Posting
             /\ place.string + 1 \in 1 .. m
             /\ Number(store, place) \in N
             /\ o[place.string + 1] < Number(store, place)
             /\ Number(store, place) <= o[(place.string + 1) + 1]
  <2>1. /\ place \in Posting /\ place.string \in 0 .. (m - 1) /\ place.position \in Nat
        /\ o[place.string + 1] + place.position < o[place.string + 2]
    BY DEF Places, Posting
  <2>2. /\ place.string + 1 \in 1 .. m /\ place.string + 1 \in 1 .. (m + 1)
        /\ place.string + 2 \in 1 .. (m + 1) /\ (place.string + 1) + 1 = place.string + 2
    BY <1>1, <2>1
  <2>3. o[place.string + 1] \in 0 .. n /\ o[place.string + 2] \in 0 .. n
    BY <1>2, <2>2
  <2>4. \A x, y \in 0 .. n, z \in Nat : x + z < y => x + z + 1 \in 1 .. n /\ x < x + z + 1 /\ x + z + 1 <= y
    BY <1>1
  <2>. HIDE DEF o, n
  <2>5. Number(store, place) = o[place.string + 1] + place.position + 1
    BY DEF Number, o
  <2>. QED  BY <2>1, <2>2, <2>3, <2>4, <2>5
<1>4. ASSUME NEW a \in P, NEW b \in P, Number(store, a) = Number(store, b)
      PROVE  a = b
  <2>1. a.string + 1 = b.string + 1
    <3>. DEFINE p == Number(store, a)
    <3>1. /\ a.string + 1 \in 1 .. m /\ b.string + 1 \in 1 .. m /\ p \in Nat
          /\ o[a.string + 1] < p /\ p <= o[(a.string + 1) + 1]
          /\ o[b.string + 1] < p /\ p <= o[(b.string + 1) + 1]
      BY <1>3, <1>4
    <3>. HIDE DEF p, o, n
    <3>2. \A k, l \in 1 .. m : o[k] < p /\ p <= o[k + 1] /\ o[l] < p /\ p <= o[l + 1] => k = l
      BY <1>1, <3>1, OffsetsSeparate
    <3>. QED  BY <3>1, <3>2
  <2>2. a \in Posting /\ b \in Posting
    BY <1>3
  <2>3. a.string = b.string
    BY <2>1, <2>2 DEF Posting
  <2>4. o[a.string + 1] \in Int
    <3>1. a.string + 1 \in 1 .. (m + 1)
      BY <1>1, <1>3
    <3>. QED  BY <1>1, <1>2, <3>1
  <2>5. a.position = b.position
    <3>1. \A x \in Int, y, z \in Nat : x + y + 1 = x + z + 1 => y = z
      OBVIOUS
    <3>2. o[a.string + 1] + a.position + 1 = o[a.string + 1] + b.position + 1
      BY <1>4, <2>3 DEF Number
    <3>. QED  BY <2>2, <2>4, <3>1, <3>2 DEF Posting
  <2>. QED  BY <2>2, <2>3, <2>5 DEF Posting
<1>5. ASSUME NEW p \in N PROVE \E place \in P : Number(store, place) = p
  <2>1. PICK k \in 1 .. m : o[k] < p /\ p <= o[k + 1]
    <3>. HIDE DEF o, n
    <3>. QED  BY <1>1, OffsetsCover
  <2>2. k \in 1 .. (m + 1) /\ k + 1 \in 1 .. (m + 1) /\ o[k] \in 0 .. n /\ o[k + 1] \in 0 .. n
    <3>1. k \in 1 .. (m + 1) /\ k + 1 \in 1 .. (m + 1)
      BY <1>1
    <3>. QED  BY <1>2, <3>1
  <2>. DEFINE place == [string |-> k - 1, position |-> p - o[k] - 1]
  <2>3. /\ place \in Posting /\ place.string + 1 = k /\ place.string + 2 = k + 1
        /\ place.string \in 0 .. (m - 1) /\ place.position = p - o[k] - 1
    BY <1>1, <2>1, <2>2 DEF Posting
  <2>4. o[k] + (p - o[k] - 1) < o[k + 1] /\ o[k] + (p - o[k] - 1) + 1 = p
    <3>1. \A x, y \in 0 .. n : p <= y => x + (p - x - 1) < y /\ x + (p - x - 1) + 1 = p
      BY <1>1
    <3>. QED  BY <2>1, <2>2, <3>1
  <2>. HIDE DEF place
  <2>5. place \in P
    BY <2>3, <2>4 DEF Places
  <2>6. Number(store, place) = p
    BY <2>3, <2>4 DEF Number
  <2>. QED  BY <2>5, <2>6
<1>6. IsFiniteSet(P) /\ Cardinality(P) = n
  <2>. DEFINE f == [place \in P |-> Number(store, place)]
  <2>1. f \in [P -> N] /\ \A place \in P : f[place] = Number(store, place)
    BY <1>3
  <2>. HIDE DEF f, P, N, n, o
  <2>2. f \in Injection(P, N)
    BY <1>4, <2>1 DEF Injection, IsInjective
  <2>3. f \in Surjection(P, N)
    BY <1>5, <2>1 DEF Surjection
  <2>4. IsFiniteSet(N) /\ Cardinality(N) = n
    <3>1. 1 \in Int /\ n \in Int /\ (IF 1 > n THEN 0 ELSE n - 1 + 1) = n
      BY <1>1
    <3>. QED  BY <3>1, FS_Interval DEF N
  <2>. QED  BY <2>2, <2>3, <2>4, FS_Injection
<1>. QED  BY <1>3, <1>4, <1>5, <1>6

LEMMA OccurrencesArePlaces ==
  ASSUME NEW store, NEW m, StoreShaped(store, m), NEW symbol
  PROVE  /\ OccurrencesOf(store, symbol)
              = {place \in Places(store, m) : store.symbols[Number(store, place)] = symbol}
         /\ \A posting \in Posting :
               PostingMatches(store, symbol, posting) <=> posting \in OccurrencesOf(store, symbol)
<1>. DEFINE Found == {place \in Places(store, m) : store.symbols[Number(store, place)] = symbol}
<1>1. m \in Nat
  BY DEF StoreShaped
<1>2. ASSUME NEW id \in 0 .. (m - 1), NEW q \in Nat
      PROVE  LET place == [string |-> id, position |-> q]
             IN  /\ place \in Places(store, m) <=> q < Len(StringOf(store, id))
                 /\ q < Len(StringOf(store, id)) =>
                      StringOf(store, id)[q + 1] = store.symbols[Number(store, place)]
  <2>. DEFINE place == [string |-> id, position |-> q]
              start == store.offsets[id + 1]
              end == store.offsets[id + 2]
  <2>1. /\ start \in Nat /\ end \in Nat /\ start <= end
        /\ Len(StringOf(store, id)) = end - start
        /\ \A p \in 1 .. Len(StringOf(store, id)) :
              StringOf(store, id)[p] = store.symbols[start + p]
    BY StringsAreCut
  <2>2. place \in Posting /\ place.string = id /\ place.position = q
    BY <1>1 DEF Posting
  <2>. HIDE DEF place, start, end
  <2>3. place \in Places(store, m) <=> start + q < end
    BY <2>2 DEF Places, start, end
  <2>4. Number(store, place) = start + (q + 1)
    <3>1. Number(store, place) = start + q + 1
      BY <2>2 DEF Number, start
    <3>2. start + q + 1 = start + (q + 1)
      BY <2>1
    <3>. QED  BY <3>1, <3>2
  <2>5. (start + q < end <=> q < end - start) /\ (q < end - start => q + 1 \in 1 .. (end - start))
    BY <2>1
  <2>. QED  BY <2>1, <2>3, <2>4, <2>5 DEF place
<1>3. ASSUME NEW posting \in Posting
      PROVE  posting = [string |-> posting.string, position |-> posting.position]
  BY DEF Posting
<1>4. ASSUME NEW posting \in Posting
      PROVE  PostingMatches(store, symbol, posting) <=> posting \in Found
  <2>1. posting.string \in Nat /\ posting.position \in Nat
    BY DEF Posting
  <2>2. CASE posting.string \in 0 .. (m - 1)
    <3>1. /\ posting \in Places(store, m) <=> posting.position < Len(StringOf(store, posting.string))
          /\ posting.position < Len(StringOf(store, posting.string)) =>
               StringOf(store, posting.string)[posting.position + 1]
                 = store.symbols[Number(store, posting)]
      BY <1>2, <1>3, <2>1, <2>2
    <3>2. IsString(store, posting.string)
      BY <2>1, <2>2, StringsAreCut
    <3>. QED  BY <3>1, <3>2 DEF PostingMatches
  <2>3. CASE posting.string \notin 0 .. (m - 1)
    <3>1. ~IsString(store, posting.string)
      BY <2>1, <2>3, StringsAreCut
    <3>2. posting \notin Places(store, m)
      BY <2>3 DEF Places
    <3>. QED  BY <3>1, <3>2 DEF PostingMatches
  <2>. QED  BY <2>2, <2>3
<1>5. OccurrencesOf(store, symbol) = Found
  <2>. DEFINE At(id) == {p \in DOMAIN StringOf(store, id) : StringOf(store, id)[p] = symbol}
              There(id) == {[string |-> id, position |-> p - 1] : p \in At(id)}
  <2>1. \A id \in 0 .. (m - 1) :
           /\ Len(StringOf(store, id)) \in Nat
           /\ DOMAIN StringOf(store, id) = 1 .. Len(StringOf(store, id))
    BY StringsAreCut
  <2>2. ASSUME NEW id \in 0 .. (m - 1), NEW p \in At(id)
        PROVE  [string |-> id, position |-> p - 1] \in Found
    <3>1. /\ p \in 1 .. Len(StringOf(store, id)) /\ StringOf(store, id)[p] = symbol
          /\ p - 1 \in Nat /\ p - 1 < Len(StringOf(store, id)) /\ (p - 1) + 1 = p
      BY <2>1
    <3>2. /\ [string |-> id, position |-> p - 1] \in Places(store, m)
          /\ StringOf(store, id)[p] = store.symbols[Number(store, [string |-> id, position |-> p - 1])]
      BY <1>2, <3>1
    <3>. QED  BY <3>1, <3>2
  <2>3. ASSUME NEW place \in Found
        PROVE  /\ place.string \in 0 .. (m - 1)
               /\ place.position + 1 \in At(place.string)
               /\ place = [string |-> place.string, position |-> (place.position + 1) - 1]
    <3>1. /\ place \in Posting /\ place.string \in 0 .. (m - 1) /\ place.position \in Nat
          /\ place \in Places(store, m) /\ store.symbols[Number(store, place)] = symbol
      BY DEF Places, Posting
    <3>2. place = [string |-> place.string, position |-> place.position]
      BY <1>3, <3>1
    <3>3. /\ place.position < Len(StringOf(store, place.string))
          /\ StringOf(store, place.string)[place.position + 1] = symbol
      BY <1>2, <3>1, <3>2
    <3>4. place.position + 1 \in 1 .. Len(StringOf(store, place.string))
      BY <2>1, <3>1, <3>3
    <3>5. (place.position + 1) - 1 = place.position
      BY <3>1
    <3>6. place.position + 1 \in At(place.string)
      BY <2>1, <3>1, <3>3, <3>4
    <3>. QED  BY <3>1, <3>2, <3>5, <3>6
  <2>4. OccurrencesOf(store, symbol) = UNION {There(id) : id \in 0 .. (m - 1)}
    BY StringsAreCut DEF OccurrencesOf
  <2>. HIDE DEF Found, At
  <2>5. UNION {There(id) : id \in 0 .. (m - 1)} = Found
    <3>1. ASSUME NEW x \in UNION {There(id) : id \in 0 .. (m - 1)} PROVE x \in Found
      BY <2>2
    <3>2. ASSUME NEW x \in Found PROVE x \in UNION {There(id) : id \in 0 .. (m - 1)}
      <4>1. x \in There(x.string)
        BY <2>3
      <4>. QED  BY <2>3, <4>1
    <3>. QED  BY <3>1, <3>2
  <2>. QED  BY <2>4, <2>5
<1>. QED  BY <1>4, <1>5

(* CorpusStore::verify checks every symbol, though string by string.       *)
LEMMA StoreVerifiesSymbols ==
  ASSUME NEW store, NEW m, StoreShaped(store, m), StoreVerifies(store),
         NEW p \in 1 .. Len(store.symbols)
  PROVE  store.symbols[p] # UNKNOWN /\ store.symbols[p] < store.symbolCount
<1>1. PICK place \in Places(store, m) : Number(store, place) = p
  BY PlacesAreNumbered
<1>2. place \in OccurrencesOf(store, store.symbols[p])
  BY <1>1, OccurrencesArePlaces
<1>3. place \in Posting /\ place.string \in Ids(store)
  BY StringsAreCut DEF Places
<1>4. PostingMatches(store, store.symbols[p], place)
  BY <1>2, <1>3, OccurrencesArePlaces
<1>5. /\ place.position + 1 \in DOMAIN StringOf(store, place.string)
      /\ StringOf(store, place.string)[place.position + 1] = store.symbols[p]
  <2>1. StringOf(store, place.string) \in Seq(Nat) /\ place.position \in Nat
    BY <1>3, StringsAreCut DEF Posting
  <2>. QED  BY <1>4, <2>1 DEF PostingMatches
<1>. QED  BY <1>3, <1>5 DEF StoreVerifies, ValidSymbols

------------------------------------------------------------------------------
(***************************************************************************)
(* 3. Posting lists.                                                       *)
(***************************************************************************)

(* An index of count lists, as built or as validated when it is opened.    *)
IndexShaped(index, count) ==
  /\ count \in 0 .. MaxU32
  /\ index.postings \in Seq(Posting)
  /\ index.offsets \in ValidOffsets(count, Len(index.postings))

LEMMA ListsAreCut ==
  ASSUME NEW index, NEW count, IndexShaped(index, count)
  PROVE  /\ IndexedSymbols(index) = 0 .. (count - 1)
         /\ \A s \in 0 .. (count - 1) :
               LET start == index.offsets[s + 1]
                   list  == PostingSlice(index, s)
               IN  /\ start \in Nat
                   /\ list \in Seq(Posting)
                   /\ Len(list) = index.offsets[s + 2] - start
                   /\ \A k \in 1 .. Len(list) :
                         /\ start + k \in 1 .. Len(index.postings)
                         /\ list[k] = index.postings[start + k]
         /\ \A s \in Nat : s >= count => PostingSlice(index, s) = <<>>
<1>. DEFINE o == index.offsets
            t == index.postings
            n == Len(index.postings)
<1>1. /\ count \in Nat /\ count <= MaxU32 /\ t \in Seq(Posting) /\ n \in Nat /\ n = Len(t)
      /\ o \in ValidOffsets(count, n) /\ MaxU32 \in Nat
  BY MaxU32Assumption DEF IndexShaped
<1>2. /\ o \in [1 .. (count + 1) -> 0 .. n]
      /\ \A k \in 1 .. count : o[k] <= o[k + 1]
  BY <1>1 DEF ValidOffsets
<1>3. Len(o) = count + 1 /\ DOMAIN o = 1 .. (count + 1)
  BY <1>1, <1>2
<1>4. IndexedSymbols(index) = 0 .. (count - 1)
  BY <1>1, <1>3 DEF IndexedSymbols
<1>5. ASSUME NEW s \in 0 .. (count - 1)
      PROVE  LET start == o[s + 1]
                 list  == PostingSlice(index, s)
             IN  /\ start \in Nat
                 /\ list \in Seq(Posting)
                 /\ Len(list) = o[s + 2] - start
                 /\ \A k \in 1 .. Len(list) :
                       start + k \in 1 .. n /\ list[k] = t[start + k]
  <2>. DEFINE start == o[s + 1]
              end == o[s + 2]
              list == PostingSlice(index, s)
  <2>1. s + 1 \in 1 .. count /\ s + 1 \in 1 .. (count + 1) /\ s + 2 \in 1 .. (count + 1) /\ (s + 1) + 1 = s + 2
    BY <1>1
  <2>2. start \in 0 .. n /\ end \in 0 .. n /\ start <= end
    BY <1>2, <2>1
  <2>3. list = SubSeq(t, start + 1, end)
    <3>1. s # UNKNOWN
      BY <1>1 DEF UNKNOWN
    <3>2. s + 2 \in DOMAIN index.offsets
      BY <1>3, <2>1
    <3>. QED  BY <3>1, <3>2 DEF PostingSlice
  <2>. HIDE DEF start, end, list, n, t
  <2>4. start + 1 \in 1 .. (n + 1) /\ end \in start .. n
    BY <1>1, <2>2
  <2>5. list \in Seq(Posting)
    <3>1. \A i \in (start + 1) .. end : i \in 1 .. Len(t)
      BY <1>1, <2>2
    <3>. QED  BY <1>1, <2>2, <2>3, <3>1, SubSeqProperties
  <2>6. Len(list) = end - start
    BY <1>1, <2>2, <2>3, <2>4, SubSeqProperties
  <2>7. \A k \in 1 .. Len(list) : start + k \in 1 .. n /\ list[k] = t[start + k]
    <3>1. \A p \in 1 .. (end - start) : SubSeq(t, start + 1, end)[p] = t[(start + 1) + p - 1]
      BY <1>1, <2>2, <2>4, SubSeqProperties
    <3>2. \A p \in 1 .. (end - start) : (start + 1) + p - 1 = start + p /\ start + p \in 1 .. n
      BY <1>1, <2>2
    <3>. QED  BY <2>3, <2>6, <3>1, <3>2
  <2>8. start \in Nat
    BY <1>1, <2>2
  <2>. QED  BY <2>5, <2>6, <2>7, <2>8 DEF start, end, list
<1>6. \A s \in Nat : s >= count => PostingSlice(index, s) = <<>>
  <2>1. \A s \in Nat : s >= count => s + 2 \notin DOMAIN index.offsets
    BY <1>1, <1>3
  <2>. QED  BY <2>1 DEF PostingSlice
<1>. QED  BY <1>4, <1>5, <1>6

(* Every posting is in the list of a symbol.                               *)
LEMMA PostingsAreListed ==
  ASSUME NEW index, NEW count, IndexShaped(index, count), NEW k \in 1 .. Len(index.postings)
  PROVE  \E s \in 0 .. (count - 1) : \E j \in 1 .. Len(PostingSlice(index, s)) :
            k = index.offsets[s + 1] + j /\ PostingSlice(index, s)[j] = index.postings[k]
<1>. DEFINE o == index.offsets
            n == Len(index.postings)
<1>1. count \in Nat /\ n \in Nat /\ o \in ValidOffsets(count, n)
  BY DEF IndexShaped
<1>2. PICK q \in 1 .. count : o[q] < k /\ k <= o[q + 1]
  <2>. HIDE DEF o, n
  <2>. QED  BY <1>1, OffsetsCover DEF n
<1>. DEFINE s == q - 1
            j == k - o[q]
<1>3. s \in 0 .. (count - 1) /\ s + 1 = q /\ s + 2 = q + 1
  BY <1>1
<1>4. o[q] \in Nat /\ o[q + 1] \in Nat
  <2>1. q \in 1 .. (count + 1) /\ q + 1 \in 1 .. (count + 1)
    BY <1>1
  <2>2. \A i \in 1 .. (count + 1) : o[i] \in Nat
    BY <1>1, OffsetsGrow
  <2>. QED  BY <2>1, <2>2
<1>5. Len(PostingSlice(index, s)) = o[q + 1] - o[q]
  BY <1>3, ListsAreCut
<1>6. j \in 1 .. Len(PostingSlice(index, s)) /\ k = o[q] + j
  BY <1>2, <1>4, <1>5, SMTT(30)
<1>7. PostingSlice(index, s)[j] = index.postings[o[q] + j]
  <2>. HIDE DEF s, j
  <2>. QED  BY <1>3, <1>6, ListsAreCut
<1>. QED  BY <1>3, <1>6, <1>7

AllListed(index, count) ==
  \A x \in 1 .. Len(index.postings) :
     \E s \in 0 .. (count - 1) : \E j \in 1 .. Len(PostingSlice(index, s)) :
        x = index.offsets[s + 1] + j /\ PostingSlice(index, s)[j] = index.postings[x]

LEMMA AllAreListed ==
  ASSUME NEW index, NEW count, IndexShaped(index, count)
  PROVE  AllListed(index, count)
BY PostingsAreListed, SMTT(30) DEF AllListed

(* What a search takes for granted of the list of a symbol.                *)
ListIsExact(index, store, s) ==
  /\ StrictlyOrdered(PostingSlice(index, s))
  /\ OccurrencesOf(store, s)
       = {PostingSlice(index, s)[k] : k \in 1 .. Len(PostingSlice(index, s))}

(* Lists that are ordered and hold occurrences of their symbols alone      *)
(* never hold the same place twice, not even in different lists.           *)
LEMMA ListsAreApart ==
  ASSUME NEW store, NEW m, StoreShaped(store, m),
         NEW index, NEW count, IndexShaped(index, count),
         \A s \in 0 .. (count - 1) :
            LET list == PostingSlice(index, s)
            IN  /\ StrictlyOrdered(list)
                /\ \A k \in 1 .. Len(list) : list[k] \in OccurrencesOf(store, s)
  PROVE  index.postings \in Injection(1 .. Len(index.postings), Places(store, m))
<1>. DEFINE N == 1 .. Len(index.postings)
            h == index.postings
            P == Places(store, m)
            Slice(s) == PostingSlice(index, s)
            o == index.offsets
<1>1. h \in Seq(Posting) /\ h \in [N -> Posting]
  BY DEF IndexShaped
<1>2. ASSUME NEW k \in N
      PROVE  \E s \in 0 .. (count - 1) : \E j \in 1 .. Len(Slice(s)) :
                /\ k = o[s + 1] + j /\ Slice(s)[j] = h[k]
                /\ h[k] \in P /\ store.symbols[Number(store, h[k])] = s
  <2>1. PICK s \in 0 .. (count - 1) : \E j \in 1 .. Len(Slice(s)) : k = o[s + 1] + j /\ Slice(s)[j] = h[k]
    <3>1. AllListed(index, count)
      BY AllAreListed
    <3>. QED  BY <3>1, Zenon DEF AllListed
  <2>2. PICK j \in 1 .. Len(Slice(s)) : k = o[s + 1] + j /\ Slice(s)[j] = h[k]
    BY <2>1
  <2>3. h[k] \in OccurrencesOf(store, s)
    BY <2>2
  <2>4. h[k] \in P /\ store.symbols[Number(store, h[k])] = s
    BY <2>3, OccurrencesArePlaces
  <2>. QED  BY <2>2, <2>4
<1>3. ASSUME NEW s \in 0 .. (count - 1), NEW i \in 1 .. Len(Slice(s)), NEW j \in 1 .. Len(Slice(s)),
             Slice(s)[i] = Slice(s)[j]
      PROVE  i = j
  <2>. DEFINE list == Slice(s)
              S == {list[k] : k \in 1 .. Len(list)}
  <2>1. list \in Seq(Posting) /\ StrictlyOrdered(list) /\ Len(list) \in Nat
    BY ListsAreCut
  <2>. HIDE DEF list
  <2>2. S \in SUBSET Posting /\ Sorts(S, Before(S), list, Len(list))
    BY <2>1, OrderedIsSorted
  <2>3. /\ \A x, y \in 1 .. Len(list) : x < y => <<list[x], list[y]>> \in Before(S)
        /\ \A x \in 1 .. Len(list) : list[x] \in S
    BY <2>2 DEF Sorts
  <2>4. \A x \in S : <<x, x>> \notin Before(S)
    BY <2>2, PostingsAreOrdered DEF StrictOrder
  <2>. HIDE DEF S
  <2>5. i \in 1 .. Len(list) /\ j \in 1 .. Len(list) /\ list[i] = list[j]
    BY <1>3 DEF list
  <2>6. ~(i < j) /\ ~(j < i)
    BY <2>3, <2>4, <2>5
  <2>. QED  BY <2>1, <2>5, <2>6
<1>4. ASSUME NEW k \in N, NEW l \in N, h[k] = h[l] PROVE k = l
  <2>1. PICK s \in 0 .. (count - 1) : \E j \in 1 .. Len(Slice(s)) :
           /\ k = o[s + 1] + j /\ Slice(s)[j] = h[k]
           /\ h[k] \in P /\ store.symbols[Number(store, h[k])] = s
    BY <1>2
  <2>2. PICK i \in 1 .. Len(Slice(s)) :
           /\ k = o[s + 1] + i /\ Slice(s)[i] = h[k]
           /\ h[k] \in P /\ store.symbols[Number(store, h[k])] = s
    BY <2>1
  <2>3. PICK r \in 0 .. (count - 1) : \E j \in 1 .. Len(Slice(r)) :
           /\ l = o[r + 1] + j /\ Slice(r)[j] = h[l]
           /\ h[l] \in P /\ store.symbols[Number(store, h[l])] = r
    BY <1>2
  <2>4. PICK j \in 1 .. Len(Slice(r)) :
           /\ l = o[r + 1] + j /\ Slice(r)[j] = h[l]
           /\ h[l] \in P /\ store.symbols[Number(store, h[l])] = r
    BY <2>3
  <2>5. r = s
    BY <1>4, <2>2, <2>4
  <2>6. i = j
    <3>1. i \in 1 .. Len(Slice(s)) /\ j \in 1 .. Len(Slice(s)) /\ Slice(s)[i] = Slice(s)[j]
      BY <1>4, <2>2, <2>4, <2>5
    <3>. HIDE DEF Slice
    <3>. QED  BY <1>3, <3>1
  <2>. QED  BY <2>2, <2>4, <2>5, <2>6
<1>5. h \in [N -> P]
  <2>1. \A k \in N : h[k] \in P
    BY <1>2
  <2>. HIDE DEF N, P
  <2>. QED  BY <1>1, <2>1
<1>. HIDE DEF N, P
<1>6. h \in Injection(N, P)
  BY <1>4, <1>5 DEF Injection, IsInjective
<1>. QED  BY <1>6 DEF N, P

(* IsInvertedIndex list by list.                                           *)
LEMMA InvertedByLists ==
  ASSUME NEW store, NEW m, StoreShaped(store, m),
         NEW index, NEW count, IndexShaped(index, count), store.symbolCount = count
  PROVE  IsInvertedIndex(index, store) <=> \A s \in 0 .. (count - 1) : ListIsExact(index, store, s)
<1>. SUFFICES ASSUME NEW s \in 0 .. (count - 1)
              PROVE  PostingSlice(index, s) = SortedBy(OccurrencesOf(store, s), PostingBefore)
                       <=> ListIsExact(index, store, s)
  BY DEF IsInvertedIndex
<1>. DEFINE list == PostingSlice(index, s)
            S == OccurrencesOf(store, s)
<1>1. list \in Seq(Posting)
  BY ListsAreCut
<1>2. S \in SUBSET Posting /\ IsFiniteSet(S)
  <2>1. S \in SUBSET Places(store, m)
    BY OccurrencesArePlaces
  <2>2. Places(store, m) \in SUBSET Posting /\ IsFiniteSet(Places(store, m))
    BY PlacesAreNumbered DEF Places
  <2>. HIDE DEF S
  <2>. QED  BY <2>1, <2>2, FS_Subset
<1>3. ListIsExact(index, store, s) <=>
        StrictlyOrdered(list) /\ S = {list[k] : k \in 1 .. Len(list)}
  BY DEF ListIsExact
<1>. HIDE DEF list, S
<1>4. ASSUME list = SortedBy(S, PostingBefore)
      PROVE  StrictlyOrdered(list) /\ S = {list[k] : k \in 1 .. Len(list)}
  BY <1>2, <1>4, SortedIsOrdered
<1>5. ASSUME StrictlyOrdered(list), S = {list[k] : k \in 1 .. Len(list)}
      PROVE  list = SortedBy(S, PostingBefore)
  BY <1>1, <1>5, OrderedIsSorted
<1>. QED  BY <1>3, <1>4, <1>5 DEF list, S

(* PostingsIndex::verify, of a store whose symbols are known, accepts the  *)
(* inverted indexes and no others: equal counts leave no place without a   *)
(* posting.                                                                *)
LEMMA VerifyIsExact ==
  ASSUME NEW store, NEW m, StoreShaped(store, m), StoreVerifies(store),
         NEW index, NEW count, IndexShaped(index, count), store.symbolCount = count
  PROVE  IndexVerifies(index, store) <=> IsInvertedIndex(index, store)
<1>. DEFINE N == 1 .. Len(index.postings)
            h == index.postings
            P == Places(store, m)
            Slice(s) == PostingSlice(index, s)
            Range1(s) == {Slice(s)[k] : k \in 1 .. Len(Slice(s))}
            Occ(s) == OccurrencesOf(store, s)
<1>1. /\ IsFiniteSet(P) /\ Cardinality(P) = Len(store.symbols)
      /\ IsFiniteSet(N) /\ Cardinality(N) = Len(index.postings)
      /\ P \in SUBSET Posting
  <2>1. Len(index.postings) \in Nat
    BY DEF IndexShaped
  <2>2. IsFiniteSet(N) /\ Cardinality(N) = Len(index.postings)
    <3>. DEFINE n == Len(index.postings)
    <3>1. 1 \in Int /\ n \in Int /\ (IF 1 > n THEN 0 ELSE n - 1 + 1) = n
      BY <2>1
    <3>. HIDE DEF n
    <3>. QED  BY <3>1, FS_Interval DEF n
  <2>. QED  BY <2>2, PlacesAreNumbered DEF Places
<1>2. /\ IndexedSymbols(index) = 0 .. (count - 1)
      /\ \A s \in 0 .. (count - 1) : Slice(s) \in Seq(Posting) /\ DOMAIN Slice(s) = 1 .. Len(Slice(s))
  <2>1. IndexedSymbols(index) = 0 .. (count - 1)
    BY ListsAreCut
  <2>2. ASSUME NEW s \in 0 .. (count - 1)
        PROVE Slice(s) \in Seq(Posting) /\ DOMAIN Slice(s) = 1 .. Len(Slice(s))
    BY ListsAreCut
  <2>. QED  BY <2>1, <2>2
<1>3. ASSUME NEW place \in P
      PROVE  /\ store.symbols[Number(store, place)] \in 0 .. (count - 1)
             /\ place \in Occ(store.symbols[Number(store, place)])
  <2>. DEFINE p == Number(store, place)
  <2>1. p \in 1 .. Len(store.symbols)
    BY PlacesAreNumbered
  <2>2. store.symbols[p] \in Nat /\ store.symbols[p] < count
    <3>1. store.symbols \in Seq(Nat)
      BY DEF StoreShaped
    <3>2. store.symbols[p] < count
      BY <2>1, StoreVerifiesSymbols
    <3>. HIDE DEF p
    <3>. QED  BY <2>1, <3>1, <3>2
  <2>3. count \in Nat
    BY DEF IndexShaped
  <2>. HIDE DEF p
  <2>4. store.symbols[p] \in 0 .. (count - 1)
    BY <2>2, <2>3
  <2>. QED  BY <2>4, OccurrencesArePlaces DEF p
<1>4. ASSUME IndexVerifies(index, store) PROVE IsInvertedIndex(index, store)
  <2>1. \A s \in 0 .. (count - 1) :
           /\ StrictlyOrdered(Slice(s))
           /\ \A k \in 1 .. Len(Slice(s)) : Slice(s)[k] \in Occ(s)
    <3>. TAKE s \in 0 .. (count - 1)
    <3>1. StrictlyOrdered(Slice(s)) /\ \A k \in 1 .. Len(Slice(s)) : PostingMatches(store, s, Slice(s)[k])
      BY <1>2, <1>4 DEF IndexVerifies
    <3>2. \A k \in 1 .. Len(Slice(s)) : Slice(s)[k] \in Posting
      BY <1>2
    <3>. QED  BY <3>1, <3>2, OccurrencesArePlaces
  <2>2. h \in Injection(N, P)
    BY <2>1, ListsAreApart
  <2>3. h \in Surjection(N, P)
    <3>1. Cardinality(N) = Cardinality(P)
      BY <1>1, <1>4 DEF IndexVerifies, CountsAgree
    <3>. HIDE DEF h, N, P
    <3>. QED  BY <1>1, <2>2, <3>1, FS_Injection
  <2>4. ASSUME NEW s \in 0 .. (count - 1), NEW place \in Occ(s)
        PROVE  place \in Range1(s)
    <3>1. place \in P /\ store.symbols[Number(store, place)] = s
      BY OccurrencesArePlaces
    <3>2. PICK k \in N : h[k] = place
      BY <2>3, <3>1 DEF Surjection
    <3>3. PICK r \in 0 .. (count - 1) : \E j \in 1 .. Len(Slice(r)) : Slice(r)[j] = h[k]
      BY PostingsAreListed
    <3>4. place \in Occ(r) /\ place \in Range1(r)
      BY <2>1, <3>2, <3>3
    <3>5. r = s
      BY <3>1, <3>4, OccurrencesArePlaces
    <3>. QED  BY <3>4, <3>5
  <2>5. \A s \in 0 .. (count - 1) : ListIsExact(index, store, s)
    <3>. TAKE s \in 0 .. (count - 1)
    <3>1. Range1(s) \in SUBSET Occ(s)
      BY <2>1
    <3>2. Occ(s) \in SUBSET Range1(s)
      BY <2>4
    <3>3. Occ(s) = Range1(s)
      <4>. HIDE DEF Occ, Range1
      <4>. QED  BY <3>1, <3>2
    <3>. QED  BY <2>1, <3>3 DEF ListIsExact
  <2>. QED  BY <2>5, InvertedByLists
<1>5. ASSUME IsInvertedIndex(index, store) PROVE IndexVerifies(index, store)
  <2>1. \A s \in 0 .. (count - 1) : StrictlyOrdered(Slice(s)) /\ Occ(s) = Range1(s)
    BY <1>5, InvertedByLists DEF ListIsExact
  <2>2. h \in Injection(N, P)
    <3>1. \A s \in 0 .. (count - 1) : \A k \in 1 .. Len(Slice(s)) : Slice(s)[k] \in Occ(s)
      BY <2>1
    <3>. QED  BY <2>1, <3>1, ListsAreApart
  <2>3. ASSUME NEW place \in P PROVE \E k \in N : h[k] = place
    <3>. DEFINE s == store.symbols[Number(store, place)]
    <3>1. s \in 0 .. (count - 1) /\ place \in Occ(s)
      BY <1>3
    <3>. HIDE DEF s
    <3>2. PICK j \in 1 .. Len(Slice(s)) : Slice(s)[j] = place
      BY <2>1, <3>1
    <3>3. /\ index.offsets[s + 1] + j \in N
          /\ Slice(s)[j] = h[index.offsets[s + 1] + j]
      BY <3>1, ListsAreCut
    <3>. QED  BY <3>2, <3>3
  <2>4. Cardinality(N) = Cardinality(P)
    <3>1. h \in Surjection(N, P)
      <4>. HIDE DEF h, N, P
      <4>. QED  BY <2>2, <2>3 DEF Injection, Surjection
    <3>. HIDE DEF h, N, P
    <3>. QED  BY <1>1, <2>2, <3>1, FS_Injection
  <2>5. CountsAgree(index, store)
    BY <1>1, <2>4 DEF CountsAgree
  <2>6. ASSUME NEW s \in 0 .. (count - 1)
        PROVE  StrictlyOrdered(Slice(s)) /\ \A k \in DOMAIN Slice(s) : PostingMatches(store, s, Slice(s)[k])
    <3>1. \A k \in 1 .. Len(Slice(s)) : Slice(s)[k] \in Posting /\ Slice(s)[k] \in Occ(s)
      BY <1>2, <2>1
    <3>. QED  BY <1>2, <2>1, <3>1, OccurrencesArePlaces
  <2>. QED  BY <1>2, <2>5, <2>6 DEF IndexVerifies
<1>. QED  BY <1>4, <1>5

------------------------------------------------------------------------------
(***************************************************************************)
(* 4. Construction.                                                        *)
(***************************************************************************)

LEMMA SumsAdd ==
  ASSUME NEW lengths \in Seq(Nat)
  PROVE  /\ Sums(lengths) \in [1 .. (Len(lengths) + 1) -> Nat]
         /\ Sums(lengths)[1] = 0
         /\ \A k \in 1 .. Len(lengths) : Sums(lengths)[k + 1] = Sums(lengths)[k] + lengths[k]
<1>. DEFINE n == Len(lengths)
            next == [i \in 1 .. n |-> [d \in Nat |-> d + lengths[i]]]
            Recursive(g) == g = [i \in 0 .. n |-> IF i = 0 THEN 0 ELSE g[i - 1] + lengths[i]]
            sum == CHOOSE g : Recursive(g)
<1>1. n \in Nat /\ \A i \in 1 .. n : lengths[i] \in Nat
  OBVIOUS
<1>2. next \in Advances(n, Nat)
  BY <1>1 DEF Advances
<1>3. PICK g \in [0 .. n -> Nat] : g[0] = 0 /\ \A i \in 1 .. n : g[i] = next[i][g[i - 1]]
  <2>. HIDE DEF next, n
  <2>1. Growing(n, Nat, 0, next) # {}
    BY <1>1, <1>2, RecursionExists
  <2>. QED  BY <2>1 DEF Growing
<1>4. Recursive(g)
  <2>1. \A i \in 1 .. n : g[i - 1] \in Nat /\ i \in 0 .. n
    <3>. TAKE i \in 1 .. n
    <3>1. i - 1 \in 0 .. n /\ i \in 0 .. n
      BY <1>1
    <3>. HIDE DEF n
    <3>. QED  BY <3>1
  <2>2. \A i \in 1 .. n : g[i] = g[i - 1] + lengths[i]
    BY <1>3, <2>1
  <2>3. \A i \in 0 .. n : g[i] = IF i = 0 THEN 0 ELSE g[i - 1] + lengths[i]
    BY <1>1, <1>3, <2>2
  <2>. QED  BY <2>3
<1>5. Recursive(sum)
  <2>. HIDE DEF Recursive
  <2>. QED  BY <1>4
<1>6. /\ sum = [i \in 0 .. n |-> sum[i]] /\ sum[0] = 0
      /\ \A i \in 1 .. n : sum[i] = sum[i - 1] + lengths[i]
  <2>. HIDE DEF sum
  <2>. QED  BY <1>1, <1>5
<1>7. sum \in [0 .. n -> Nat]
  <2>1. \A i \in 1 .. n : sum[i - 1] \in Nat => sum[i] \in Nat
    <3>. HIDE DEF sum, n
    <3>. TAKE i \in 1 .. n
    <3>1. lengths[i] \in Nat /\ sum[i] = sum[i - 1] + lengths[i]
      BY <1>1, <1>6
    <3>2. \A a, b \in Nat : a + b \in Nat
      OBVIOUS
    <3>. QED  BY <3>1, <3>2
  <2>2. n \in Nat /\ sum[0] \in Nat /\ sum = [i \in 0 .. n |-> sum[i]]
    <3>. HIDE DEF sum
    <3>. QED  BY <1>1, <1>6
  <2>. HIDE DEF sum, n
  <2>. QED  BY <2>1, <2>2, RecursionTyped
<1>8. Sums(lengths) = [k \in 1 .. (n + 1) |-> sum[k - 1]]
  BY DEF Sums
<1>. HIDE DEF sum, n
<1>9. /\ \A k \in 1 .. (n + 1) : k - 1 \in 0 .. n
      /\ \A k \in 1 .. n : k \in 1 .. (n + 1) /\ k + 1 \in 1 .. (n + 1) /\ (k + 1) - 1 = k
      /\ 1 \in 1 .. (n + 1) /\ 1 - 1 = 0
  BY <1>1, SMTT(30)
<1>10. Sums(lengths) \in [1 .. (n + 1) -> Nat]
  BY <1>7, <1>8, <1>9
<1>11. Sums(lengths)[1] = 0 /\ \A k \in 1 .. n : Sums(lengths)[k + 1] = Sums(lengths)[k] + lengths[k]
  BY <1>6, <1>8, <1>9, ZenonT(60)
<1>. QED  BY <1>10, <1>11 DEF n

LEMMA NumbersGrow ==
  ASSUME NEW m \in Nat, NEW o \in [1 .. m -> Nat], \A k \in 2 .. m : o[k - 1] <= o[k]
  PROVE  \A i, j \in 1 .. m : i < j => o[i] <= o[j]
<1>. DEFINE R == {pair \in Nat \X Nat : pair[1] <= pair[2]}
<1>1. \A x, y, z \in Nat : <<x, y>> \in R /\ <<y, z>> \in R => <<x, z>> \in R
  OBVIOUS
<1>2. \A k \in 2 .. m : <<o[k - 1], o[k]>> \in R
  <2>. TAKE k \in 2 .. m
  <2>1. k - 1 \in 1 .. m /\ k \in 1 .. m
    OBVIOUS
  <2>. QED  BY <2>1
<1>3. \A i, j \in 1 .. m : i < j => <<o[i], o[j]>> \in R
  <2>. HIDE DEF R
  <2>. QED  BY <1>1, <1>2, NeighborsSuffice
<1>. QED  BY <1>3

LEMMA SumsAreOffsets ==
  ASSUME NEW lengths \in Seq(Nat)
  PROVE  /\ Sums(lengths)[Len(lengths) + 1] \in Nat
         /\ Sums(lengths) \in ValidOffsets(Len(lengths), Sums(lengths)[Len(lengths) + 1])
<1>. DEFINE n == Len(lengths)
            o == Sums(lengths)
            m == n + 1
            total == o[m]
<1>1. /\ n \in Nat /\ m \in Nat /\ o \in [1 .. m -> Nat] /\ o[1] = 0
      /\ \A k \in 1 .. n : lengths[k] \in Nat /\ o[k + 1] = o[k] + lengths[k]
  BY SumsAdd
<1>. HIDE DEF o
<1>2. \A k \in 1 .. n : o[k] <= o[k + 1]
  <2>. TAKE k \in 1 .. n
  <2>1. k \in 1 .. m /\ lengths[k] \in Nat /\ o[k + 1] = o[k] + lengths[k]
    BY <1>1
  <2>2. o[k] \in Nat
    <3>. HIDE DEF m
    <3>. QED  BY <1>1, <2>1
  <2>. QED  BY <2>1, <2>2
<1>4. \A k \in 2 .. m : o[k - 1] <= o[k]
  <2>. TAKE k \in 2 .. m
  <2>1. k - 1 \in 1 .. n /\ (k - 1) + 1 = k /\ k - 1 \in 1 .. m /\ k \in 1 .. m
    BY <1>1
  <2>2. o[k - 1] <= o[(k - 1) + 1]
    BY <1>2, <2>1
  <2>. QED  BY <2>1, <2>2
<1>5. \A i, j \in 1 .. m : i < j => o[i] <= o[j]
  <2>. HIDE DEF m
  <2>. QED  BY <1>1, <1>4, NumbersGrow
<1>6. total \in Nat
  BY <1>1
<1>7. \A i \in 1 .. m : o[i] \in 0 .. total
  <2>. TAKE i \in 1 .. m
  <2>1. i <= m /\ (i < m => o[i] <= o[m])
    BY <1>1, <1>5
  <2>2. o[i] \in Nat
    BY <1>1
  <2>. HIDE DEF m
  <2>. QED  BY <1>1, <1>6, <2>1, <2>2
<1>8. o \in [1 .. m -> 0 .. total]
  BY <1>1, <1>7
<1>. QED  BY <1>1, <1>2, <1>6, <1>8 DEF ValidOffsets, o

LEMMA SliceOne ==
  ASSUME NEW S, NEW s \in Seq(S), NEW k \in 1 .. Len(s)
  PROVE  SubSeq(s, k, k) = <<s[k]>>
<1>. DEFINE t == SubSeq(s, k, k)
<1>1. t \in Seq(S) /\ Len(t) = 1 /\ t[1] = s[k]
  BY SubSeqProperties
<1>2. <<s[k]>> \in Seq(S) /\ Len(<<s[k]>>) = 1 /\ <<s[k]>>[1] = s[k]
  OBVIOUS
<1>. HIDE DEF t
<1>3. t = <<s[k]>>
  <2>1. \A i \in 1 .. Len(t) : t[i] = <<s[k]>>[i]
    BY <1>1, <1>2
  <2>. QED  BY <1>1, <1>2, <2>1, SeqEqual
<1>. QED  BY <1>3 DEF t

LEMMA SliceEnds ==
  ASSUME NEW S, NEW s \in Seq(S)
  PROVE  SubSeq(s, 1, 0) = <<>> /\ SubSeq(s, 1, Len(s)) = s
<1>1. SubSeq(s, 1, 0) \in Seq(S) /\ Len(SubSeq(s, 1, 0)) = 0
  BY SubSeqProperties
<1>2. SubSeq(s, 1, 0) = <<>>
  BY <1>1, EmptySeq
<1>. DEFINE t == SubSeq(s, 1, Len(s))
<1>3. t \in Seq(S) /\ Len(t) = Len(s) /\ \A i \in 1 .. Len(s) : t[i] = s[i]
  BY SubSeqProperties
<1>. HIDE DEF t
<1>4. t = s
  BY <1>3, SeqEqual
<1>. QED  BY <1>2, <1>4 DEF t

(* CorpusStoreBuilder: the strings are found again where they were added.  *)
LEMMA StoreOfStrings ==
  ASSUME NEW strings \in Seq(Seq(Nat)), NEW count
  PROVE  LET store == StoreOf(strings, count)
         IN  /\ StoreShaped(store, Len(strings))
             /\ \A k \in 1 .. Len(strings) : StringOf(store, k - 1) = strings[k]
<1>. DEFINE n == Len(strings)
            F(a, b) == FlattenSeq(SubSeq(strings, a, b))
            lengths == [k \in DOMAIN strings |-> Len(strings[k])]
            o == Sums(lengths)
            store == StoreOf(strings, count)
<1>1. /\ n \in Nat /\ DOMAIN strings = 1 .. n
      /\ lengths \in Seq(Nat) /\ Len(lengths) = n
      /\ \A k \in 1 .. n : strings[k] \in Seq(Nat) /\ lengths[k] = Len(strings[k])
  <2>1. n \in Nat /\ DOMAIN strings = 1 .. n /\ \A k \in 1 .. n : strings[k] \in Seq(Nat)
    OBVIOUS
  <2>2. \A k \in 1 .. n : Len(strings[k]) \in Nat
    BY <2>1
  <2>3. lengths \in [1 .. n -> Nat] /\ \A k \in 1 .. n : lengths[k] = Len(strings[k])
    BY <2>1, <2>2
  <2>. HIDE DEF lengths, n
  <2>. QED  BY <2>1, <2>3
<1>2. /\ o \in [1 .. (n + 1) -> Nat] /\ o[1] = 0
      /\ \A k \in 1 .. n : o[k + 1] = o[k] + lengths[k]
  <2>. HIDE DEF lengths
  <2>. QED  BY <1>1, SumsAdd
<1>3. ASSUME NEW k \in 1 .. n
      PROVE  /\ Len(F(1, k)) = Len(F(1, k - 1)) + lengths[k]
             /\ Len(F(1, k - 1)) \in Nat
             /\ SubSeq(FlattenSeq(strings), Len(F(1, k - 1)) + 1, Len(F(1, k))) = strings[k]
  <2>1. k - 1 \in 0 .. n /\ k \in (k - 1) .. n /\ (k - 1) + 1 = k
    BY <1>1
  <2>2. F(k, k) = strings[k]
    <3>1. SubSeq(strings, k, k) = <<strings[k]>>
      <4>1. k \in Int /\ k >= 1 /\ k <= Len(strings)
        BY <1>1
      <4>. HIDE DEF n
      <4>. QED  BY <4>1, SliceOne
    <3>. QED  BY <1>1, <3>1, FlattenOne
  <2>3. /\ Len(F(1, k - 1)) \in Nat
        /\ Len(F(1, k)) = Len(F(1, k - 1)) + Len(F(k, k))
        /\ SubSeq(FlattenSeq(strings), Len(F(1, k - 1)) + 1, Len(F(1, k))) = F(k, k)
    <3>1. \A i \in 0 .. n : \A j \in i .. n :
             /\ Len(F(1, i)) \in Nat
             /\ Len(F(1, j)) = Len(F(1, i)) + Len(F(i + 1, j))
             /\ SubSeq(FlattenSeq(strings), Len(F(1, i)) + 1, Len(F(1, j))) = F(i + 1, j)
      BY FlattenSlice
    <3>. HIDE DEF F
    <3>. QED  BY <2>1, <3>1
  <2>. QED  BY <1>1, <2>2, <2>3
<1>4. Len(F(1, 0)) = 0 /\ F(1, n) = FlattenSeq(strings)
  <2>1. SubSeq(strings, 1, 0) = <<>> /\ SubSeq(strings, 1, n) = strings
    BY SliceEnds
  <2>2. Len(<<>>) = 0
    OBVIOUS
  <2>. QED  BY <2>1, <2>2, FlattenEmpty
<1>5. \A k \in 0 .. n : o[k + 1] = Len(F(1, k))
  <2>. DEFINE T == {k \in 0 .. n : o[k + 1] = Len(F(1, k))}
  <2>1. 0 \in T
    BY <1>1, <1>2, <1>4
  <2>2. ASSUME NEW k \in T, k < n PROVE k + 1 \in T
    <3>1. k + 1 \in 1 .. n /\ (k + 1) - 1 = k /\ o[k + 1] = Len(F(1, k))
      BY <2>2
    <3>2. o[(k + 1) + 1] = o[k + 1] + lengths[k + 1]
      BY <1>2, <3>1
    <3>3. Len(F(1, k + 1)) = Len(F(1, k)) + lengths[k + 1]
      BY <1>3, <3>1
    <3>4. k + 1 \in 0 .. n
      BY <3>1
    <3>. HIDE DEF F, o, lengths
    <3>. QED  BY <3>1, <3>2, <3>3, <3>4
  <2>3. T = 0 .. n
    <3>1. T \in SUBSET (0 .. n)
      OBVIOUS
    <3>. HIDE DEF T, n
    <3>. QED  BY <1>1, <2>1, <2>2, <3>1, BoundedInduction
  <2>. HIDE DEF F, o
  <2>. QED  BY <2>3
<1>6. store.symbols = FlattenSeq(strings) /\ store.offsets = o
  BY DEF StoreOf
<1>7. StoreShaped(store, n)
  <2>1. FlattenSeq(strings) \in Seq(Nat)
    BY FlattenType
  <2>2. o[n + 1] = Len(FlattenSeq(strings))
    BY <1>1, <1>4, <1>5
  <2>3. o \in ValidOffsets(n, Len(FlattenSeq(strings)))
    <3>1. lengths \in Seq(Nat) /\ Sums(lengths)[Len(lengths) + 1] = Len(FlattenSeq(strings))
      BY <1>1, <2>2
    <3>. HIDE DEF lengths
    <3>. QED  BY <1>1, <3>1, SumsAreOffsets
  <2>. HIDE DEF o, n, store
  <2>. QED  BY <1>1, <1>6, <2>1, <2>3 DEF StoreShaped
<1>8. ASSUME NEW k \in 1 .. n PROVE StringOf(store, k - 1) = strings[k]
  <2>1. k - 1 \in 0 .. n /\ k \in 0 .. n /\ (k - 1) + 1 = k /\ (k - 1) + 2 = k + 1
    BY <1>1
  <2>2. o[k] = Len(F(1, k - 1)) /\ o[k + 1] = Len(F(1, k))
    <3>1. o[(k - 1) + 1] = Len(F(1, k - 1)) /\ o[k + 1] = Len(F(1, k))
      BY <1>5, <2>1
    <3>. HIDE DEF F, o
    <3>. QED  BY <2>1, <3>1
  <2>3. StringOf(store, k - 1) = SubSeq(FlattenSeq(strings), o[k] + 1, o[k + 1])
    <3>. HIDE DEF o, store
    <3>. QED  BY <1>6, <2>1 DEF StringOf
  <2>. HIDE DEF F, o, store
  <2>. QED  BY <1>3, <2>2, <2>3
<1>. QED  BY <1>7, <1>8

(* A set of numbers that has all below each of its own is an interval.     *)
LEMMA InitialSegment ==
  ASSUME NEW n \in Nat, NEW T \in SUBSET (1 .. n), \A k \in T : \A j \in 1 .. k : j \in T
  PROVE  /\ IsFiniteSet(T) /\ Cardinality(T) \in 0 .. n
         /\ \A k \in 1 .. n : k \in T <=> k <= Cardinality(T)
<1>. DEFINE Out == {k \in Nat : k + 1 \notin T}
<1>1. Out \in SUBSET Nat /\ n \in Out
  OBVIOUS
<1>2. PICK c \in Out : \A k \in Out : c <= k
  <2>. HIDE DEF Out
  <2>. QED  BY <1>1, LeastNatural
<1>3. c \in 0 .. n
  <2>. HIDE DEF Out
  <2>. QED  BY <1>1, <1>2
<1>4. ASSUME NEW k \in 1 .. n PROVE k \in T <=> k <= c
  <2>1. CASE k <= c
    <3>1. k - 1 \in Nat /\ ~(c <= k - 1) /\ (k - 1) + 1 = k
      BY <1>3, <2>1
    <3>2. k - 1 \notin Out
      <4>. HIDE DEF Out
      <4>. QED  BY <1>2, <3>1
    <3>3. k \in T
      BY <3>1, <3>2
    <3>. QED  BY <2>1, <3>3
  <2>2. CASE c < k
    <3>1. c + 1 \in 1 .. k /\ c + 1 \notin T
      BY <1>2, <1>3, <2>2
    <3>2. k \notin T
      BY <3>1
    <3>. QED  BY <1>3, <2>2, <3>2
  <2>. QED  BY <1>3, <2>1, <2>2
<1>5. T = 1 .. c
  <2>. HIDE DEF Out
  <2>1. \A k \in 1 .. n : k \in T <=> k <= c
    BY <1>4
  <2>2. \A k \in 1 .. c : k \in 1 .. n /\ k <= c
    BY <1>3
  <2>3. \A k \in T : k \in 1 .. n /\ k \in 1 .. c
    BY <1>3, <2>1
  <2>. QED  BY <2>1, <2>2, <2>3
<1>6. IsFiniteSet(1 .. c) /\ Cardinality(1 .. c) = c
  BY <1>3, FS_Interval
<1>. HIDE DEF Out
<1>. QED  BY <1>3, <1>4, <1>5, <1>6

------------------------------------------------------------------------------
(* The entries PostingsIndexBuilder sorts: a symbol and where it occurs.   *)
EntryBefore(a, b) == a[1] < b[1] \/ (a[1] = b[1] /\ PostingBefore(a[2], b[2]))

Earlier(S) == {pair \in S \X S : EntryBefore(pair[1], pair[2])}

LEMMA EntriesAreOrdered ==
  ASSUME NEW S \in SUBSET (Nat \X Posting)
  PROVE  /\ StrictOrder(S, Earlier(S))
         /\ \A x, y \in S : <<x, y>> \in Earlier(S) <=> EntryBefore(x, y)
<1>1. \A x, y \in S : <<x, y>> \in Earlier(S) <=> EntryBefore(x, y)
  BY DEF Earlier
<1>2. \A x \in S : x[1] \in Nat /\ x[2] \in Posting /\ x = <<x[1], x[2]>>
  OBVIOUS
<1>3. \A p \in Posting : ~PostingBefore(p, p)
  BY DEF PostingBefore, Posting
<1>4. \A p, q, r \in Posting : PostingBefore(p, q) /\ PostingBefore(q, r) => PostingBefore(p, r)
  <2>1. \A p \in Posting : p.string \in Nat /\ p.position \in Nat
    BY DEF Posting
  <2>. HIDE DEF Posting
  <2>. QED  BY <2>1 DEF PostingBefore
<1>5. \A p, q \in Posting : p # q => PostingBefore(p, q) \/ PostingBefore(q, p)
  <2>1. \A p \in Posting : p.string \in Nat /\ p.position \in Nat
    BY DEF Posting
  <2>2. \A p, q \in Posting : p.string = q.string /\ p.position = q.position => p = q
    BY DEF Posting
  <2>. QED  BY <2>1, <2>2 DEF PostingBefore
<1>6. \A x \in S : ~EntryBefore(x, x)
  BY <1>2, <1>3 DEF EntryBefore
<1>7. ASSUME NEW x \in S, NEW y \in S, NEW z \in S, EntryBefore(x, y), EntryBefore(y, z)
      PROVE  EntryBefore(x, z)
  <2>1. /\ x[1] \in Nat /\ y[1] \in Nat /\ z[1] \in Nat
        /\ x[1] <= y[1] /\ y[1] <= z[1]
    BY <1>2, <1>7 DEF EntryBefore
  <2>2. x[1] = y[1] /\ y[1] = z[1] => PostingBefore(x[2], z[2])
    <3>1. SUFFICES ASSUME x[1] = y[1], y[1] = z[1] PROVE PostingBefore(x[2], z[2])
      OBVIOUS
    <3>2. PostingBefore(x[2], y[2]) /\ PostingBefore(y[2], z[2])
      BY <1>7, <2>1, <3>1 DEF EntryBefore
    <3>. QED  BY <1>2, <1>4, <3>2
  <2>. QED  BY <2>1, <2>2 DEF EntryBefore
<1>8. ASSUME NEW x \in S, NEW y \in S, x # y PROVE EntryBefore(x, y) \/ EntryBefore(y, x)
  <2>1. x[1] # y[1] \/ x[2] # y[2]
    BY <1>2, <1>8
  <2>2. CASE x[1] # y[1]
    BY <1>2, <2>2 DEF EntryBefore
  <2>3. CASE x[1] = y[1]
    <3>1. PostingBefore(x[2], y[2]) \/ PostingBefore(y[2], x[2])
      BY <1>2, <1>5, <2>1, <2>3
    <3>. QED  BY <2>3, <3>1 DEF EntryBefore
  <2>. QED  BY <2>2, <2>3
<1>. QED  BY <1>1, <1>6, <1>7, <1>8 DEF StrictOrder

LEMMA SortedEntries ==
  ASSUME NEW S \in SUBSET (Nat \X Posting), IsFiniteSet(S)
  PROVE  Sorts(S, Earlier(S), SortedBy(S, EntryBefore), Cardinality(S))
<1>. DEFINE Chosen(k) == CHOOSE x \in S : Cardinality({y \in S : EntryBefore(y, x)}) = k - 1
            R == Earlier(S)
            s == SortedBy(S, EntryBefore)
<1>1. /\ StrictOrder(S, R)
      /\ \A x \in S : Under(S, R, x) = {y \in S : EntryBefore(y, x)}
  BY EntriesAreOrdered DEF Under
<1>2. s = [k \in 1 .. Cardinality(S) |-> s[k]]
  <2>1. s = [k \in 1 .. Cardinality(S) |-> Chosen(k)]
    BY DEF SortedBy
  <2>. HIDE DEF s, Chosen
  <2>. QED  BY <2>1
<1>3. ASSUME NEW k \in 1 .. Cardinality(S),
             \E x \in S : Cardinality(Under(S, R, x)) = k - 1
      PROVE  s[k] \in S /\ Cardinality(Under(S, R, s[k])) = k - 1
  <2>1. s[k] = Chosen(k)
    BY DEF SortedBy
  <2>. HIDE DEF R, s
  <2>2. \E x \in S : Cardinality({y \in S : EntryBefore(y, x)}) = k - 1
    BY <1>1, <1>3
  <2>3. Chosen(k) \in S /\ Cardinality({y \in S : EntryBefore(y, Chosen(k))}) = k - 1
    BY <2>2
  <2>. QED  BY <1>1, <2>1, <2>3
<1>4. Sorts(S, R, s, Cardinality(S))
  <2>. HIDE DEF R, s
  <2>. QED  BY <1>1, <1>2, <1>3, ChosenByRank
<1>. QED  BY <1>4

------------------------------------------------------------------------------
(* PostingsIndexBuilder: counting the entries of each symbol cuts the      *)
(* sorted entries between the symbols.                                     *)
Counts(entries, count) ==
  [s \in 1 .. count |-> Cardinality({o \in entries : o[1] = s - 1})]

LEMMA CountsAddUp ==
  ASSUME NEW count \in Nat, NEW E \in SUBSET (Nat \X Posting), IsFiniteSet(E),
         \A o \in E : o[1] < count
  PROVE  /\ Counts(E, count) \in Seq(Nat) /\ Len(Counts(E, count)) = count
         /\ \A s \in 0 .. count :
               Sums(Counts(E, count))[s + 1] = Cardinality({o \in E : o[1] < s})
         /\ Sums(Counts(E, count)) \in ValidOffsets(count, Cardinality(E))
<1>. DEFINE c == Counts(E, count)
            Less(s) == {o \in E : o[1] < s}
            Equal(s) == {o \in E : o[1] = s}
            T == {s \in 0 .. count : Sums(c)[s + 1] = Cardinality(Less(s))}
<1>1. \A s : /\ IsFiniteSet(Less(s)) /\ Cardinality(Less(s)) \in Nat
             /\ IsFiniteSet(Equal(s)) /\ Cardinality(Equal(s)) \in Nat
  BY FS_Subset, FS_CardinalityType
<1>2. c \in [1 .. count -> Nat] /\ \A s \in 1 .. count : c[s] = Cardinality(Equal(s - 1))
  <2>. HIDE DEF Equal, Less
  <2>1. c = [s \in 1 .. count |-> Cardinality(Equal(s - 1))]
    BY DEF Counts, Equal
  <2>. HIDE DEF c
  <2>. QED  BY <1>1, <2>1
<1>. HIDE DEF c
<1>3. c \in Seq(Nat) /\ Len(c) = count
  BY <1>2
<1>4. /\ Sums(c)[1] = 0
      /\ \A k \in 1 .. count : Sums(c)[k + 1] = Sums(c)[k] + c[k]
  BY <1>3, SumsAdd
<1>5. 0 \in T
  <2>1. Less(0) = {}
    OBVIOUS
  <2>2. Cardinality(Less(0)) = 0
    BY <2>1, FS_EmptySet
  <2>. HIDE DEF Less
  <2>. QED  BY <1>4, <2>2
<1>6. ASSUME NEW s \in T, s < count PROVE s + 1 \in T
  <2>1. s \in Nat /\ s + 1 \in 1 .. count /\ s + 1 \in 0 .. count /\ (s + 1) - 1 = s
    BY <1>6
  <2>2. Less(s + 1) = Less(s) \cup Equal(s) /\ Less(s) \cap Equal(s) = {}
    <3>1. \A o \in E : o[1] \in Nat
      OBVIOUS
    <3>. QED  BY <2>1, <3>1
  <2>. HIDE DEF Less, Equal
  <2>3. Cardinality(Less(s + 1)) = Cardinality(Less(s)) + Cardinality(Equal(s))
    <3>1. Cardinality(Less(s) \cap Equal(s)) = 0
      BY <2>2, FS_EmptySet
    <3>2. Cardinality(Less(s) \cup Equal(s))
            = Cardinality(Less(s)) + Cardinality(Equal(s)) - Cardinality(Less(s) \cap Equal(s))
      BY <1>1, FS_Union
    <3>3. \A a, b, d \in Nat : d = 0 => a + b - d = a + b
      OBVIOUS
    <3>4. Cardinality(Less(s)) \in Nat /\ Cardinality(Equal(s)) \in Nat /\ 0 \in Nat
      BY <1>1
    <3>5. Cardinality(Less(s)) + Cardinality(Equal(s)) - Cardinality(Less(s) \cap Equal(s))
            = Cardinality(Less(s)) + Cardinality(Equal(s))
      BY <3>1, <3>3, <3>4
    <3>. QED  BY <2>2, <3>2, <3>5
  <2>4. Sums(c)[(s + 1) + 1] = Sums(c)[s + 1] + c[s + 1] /\ c[s + 1] = Cardinality(Equal(s))
    BY <1>2, <1>4, <2>1
  <2>5. Sums(c)[s + 1] = Cardinality(Less(s))
    OBVIOUS
  <2>. QED  BY <2>1, <2>3, <2>4, <2>5
<1>7. T = 0 .. count
  <2>1. T \in SUBSET (0 .. count)
    OBVIOUS
  <2>. HIDE DEF T
  <2>. QED  BY <1>5, <1>6, <2>1, BoundedInduction
<1>8. Less(count) = E
  OBVIOUS
<1>9. \A s \in 0 .. count : Sums(c)[s + 1] = Cardinality(Less(s))
  <2>. HIDE DEF Less
  <2>. QED  BY <1>7
<1>10. Sums(c)[count + 1] = Cardinality(E)
  <2>. HIDE DEF Less
  <2>. QED  BY <1>8, <1>9
<1>11. Sums(c) \in ValidOffsets(count, Cardinality(E))
  <2>1. Sums(c) \in ValidOffsets(Len(c), Sums(c)[Len(c) + 1])
    BY <1>3, SumsAreOffsets
  <2>. QED  BY <1>3, <1>10, <2>1
<1>. QED  BY <1>3, <1>9, <1>11 DEF c

(* In the sorted entries those of the symbols below s come first, up to    *)
(* the offset of the list of s.                                            *)
LEMMA EntriesBySymbol ==
  ASSUME NEW E \in SUBSET (Nat \X Posting), IsFiniteSet(E), NEW n \in Nat, NEW sorted,
         Sorts(E, Earlier(E), sorted, n), NEW s \in Nat
  PROVE  /\ Cardinality({o \in E : o[1] < s}) \in 0 .. n
         /\ \A k \in 1 .. n : sorted[k][1] < s <=> k <= Cardinality({o \in E : o[1] < s})
<1>. DEFINE Less == {o \in E : o[1] < s}
            T == {k \in 1 .. n : sorted[k][1] < s}
            f == [k \in T |-> sorted[k]]
<1>1. /\ sorted \in [1 .. n -> E]
      /\ \A i, j \in 1 .. n : i < j => <<sorted[i], sorted[j]>> \in Earlier(E)
      /\ \A x \in E : \E i \in 1 .. n : sorted[i] = x
  BY DEF Sorts
<1>2. \A o \in E : o[1] \in Nat /\ o[2] \in Posting
  OBVIOUS
<1>3. ASSUME NEW k \in T, NEW j \in 1 .. k PROVE j \in T
  <2>1. j \in 1 .. n /\ k \in 1 .. n /\ (j < k \/ j = k) /\ sorted[k][1] < s
    OBVIOUS
  <2>2. CASE j < k
    <3>1. EntryBefore(sorted[j], sorted[k]) /\ sorted[j] \in E /\ sorted[k] \in E
      BY <1>1, <2>1, <2>2, EntriesAreOrdered
    <3>2. sorted[j][1] <= sorted[k][1] /\ sorted[j][1] \in Nat /\ sorted[k][1] \in Nat
      BY <1>2, <3>1 DEF EntryBefore
    <3>. QED  BY <2>1, <3>2
  <2>. QED  BY <2>1, <2>2
<1>4. T \in SUBSET (1 .. n)
  OBVIOUS
<1>5. /\ IsFiniteSet(T) /\ Cardinality(T) \in 0 .. n
      /\ \A k \in 1 .. n : k \in T <=> k <= Cardinality(T)
  <2>. HIDE DEF T
  <2>. QED  BY <1>3, <1>4, InitialSegment
<1>6. f \in Bijection(T, Less)
  <2>1. f \in [T -> Less]
    BY <1>1
  <2>2. \A i, j \in T : f[i] = f[j] => i = j
    <3>. SUFFICES ASSUME NEW i \in T, NEW j \in T, i < j PROVE sorted[i] # sorted[j]
      OBVIOUS
    <3>1. <<sorted[i], sorted[j]>> \in Earlier(E) /\ sorted[i] \in E
      BY <1>1
    <3>2. <<sorted[i], sorted[i]>> \notin Earlier(E)
      BY <3>1, EntriesAreOrdered DEF StrictOrder
    <3>. QED  BY <3>1, <3>2
  <2>3. \A x \in Less : \E i \in T : f[i] = x
    BY <1>1
  <2>. HIDE DEF f, T, Less
  <2>. QED  BY <2>1, <2>2, <2>3 DEF Bijection, Injection, Surjection, IsInjective
<1>7. Cardinality(Less) = Cardinality(T)
  <2>. HIDE DEF f, T, Less
  <2>. QED  BY <1>5, <1>6, FS_Bijection DEF ExistsBijection
<1>. HIDE DEF Less
<1>8. \A k \in 1 .. n : k \in T <=> sorted[k][1] < s
  OBVIOUS
<1>. HIDE DEF T
<1>. QED  BY <1>5, <1>7, <1>8 DEF Less

(* The lists of the index are, in order, the places the entries give.      *)
LEMMA IndexOfIsExact ==
  ASSUME NEW count \in 0 .. MaxU32, NEW E \in SUBSET ((0 .. (count - 1)) \X Posting),
         IsFiniteSet(E)
  PROVE  LET index == IndexOf(E, count)
         IN  /\ IndexShaped(index, count)
             /\ \A s \in 0 .. (count - 1) :
                   LET list == PostingSlice(index, s)
                   IN  /\ StrictlyOrdered(list)
                       /\ {list[k] : k \in 1 .. Len(list)} = {o[2] : o \in {e \in E : e[1] = s}}
<1>. DEFINE index == IndexOf(E, count)
            sorted == SortedBy(E, EntryBefore)
            n == Cardinality(E)
            Less(s) == Cardinality({o \in E : o[1] < s})
<1>1. /\ count \in Nat /\ n \in Nat
      /\ E \in SUBSET (Nat \X Posting) /\ \A o \in E : o[1] \in Nat /\ o[1] < count /\ o[2] \in Posting
  BY MaxU32Assumption, FS_CardinalityType
<1>2. Sorts(E, Earlier(E), sorted, n)
  BY <1>1, SortedEntries
<1>3. /\ index.postings = [k \in DOMAIN sorted |-> sorted[k][2]]
      /\ index.offsets = Sums(Counts(E, count))
  BY DEF IndexOf, EntryBefore, Counts
<1>. HIDE DEF sorted, index
<1>4. /\ sorted \in [1 .. n -> E]
      /\ \A i, j \in 1 .. n : i < j => <<sorted[i], sorted[j]>> \in Earlier(E)
      /\ \A x \in E : \E i \in 1 .. n : sorted[i] = x
  BY <1>2 DEF Sorts
<1>5. /\ index.postings \in [1 .. n -> Posting]
      /\ \A k \in 1 .. n : index.postings[k] = sorted[k][2]
  <2>. HIDE DEF n
  <2>1. index.postings = [k \in 1 .. n |-> sorted[k][2]]
    BY <1>3, <1>4
  <2>. QED  BY <1>1, <1>4, <2>1
<1>6. index.postings \in Seq(Posting) /\ Len(index.postings) = n
  <2>. HIDE DEF n
  <2>. QED  BY <1>1, <1>5
<1>7. /\ index.offsets \in ValidOffsets(count, n)
      /\ \A s \in 0 .. count : index.offsets[s + 1] = Less(s)
  <2>1. /\ \A s \in 0 .. count : Sums(Counts(E, count))[s + 1] = Less(s)
        /\ Sums(Counts(E, count)) \in ValidOffsets(count, Cardinality(E))
    <3>1. E \in SUBSET (Nat \X Posting) /\ \A o \in E : o[1] < count
      BY <1>1
    <3>. QED  BY <1>1, <3>1, CountsAddUp
  <2>. HIDE DEF Less
  <2>. QED  BY <1>3, <2>1
<1>8. IndexShaped(index, count)
  BY <1>6, <1>7 DEF IndexShaped
<1>9. \A s \in Nat : Less(s) \in 0 .. n /\ \A k \in 1 .. n : sorted[k][1] < s <=> k <= Less(s)
  <2>. HIDE DEF n
  <2>. QED  BY <1>1, <1>2, EntriesBySymbol
<1>. HIDE DEF Less, n
<1>10. ASSUME NEW s \in 0 .. (count - 1)
       PROVE  /\ StrictlyOrdered(PostingSlice(index, s))
              /\ {PostingSlice(index, s)[k] : k \in 1 .. Len(PostingSlice(index, s))}
                   = {o[2] : o \in {e \in E : e[1] = s}}
  <2>. DEFINE list == PostingSlice(index, s)
              a == Less(s)
              b == Less(s + 1)
              Found == {list[k] : k \in 1 .. Len(list)}
              Given == {o[2] : o \in {e \in E : e[1] = s}}
  <2>1. /\ s \in Nat /\ s + 1 \in Nat /\ s \in 0 .. count /\ s + 1 \in 0 .. count
        /\ (s + 1) + 1 = s + 2
    BY <1>1
  <2>2. /\ a \in 0 .. n /\ b \in 0 .. n
        /\ \A k \in 1 .. n : sorted[k][1] < s <=> k <= a
        /\ \A k \in 1 .. n : sorted[k][1] < s + 1 <=> k <= b
    BY <1>9, <2>1
  <2>3. index.offsets[s + 1] = a /\ index.offsets[s + 2] = b
    BY <1>7, <2>1
  <2>4. /\ list \in Seq(Posting) /\ Len(list) = b - a
        /\ \A k \in 1 .. Len(list) : a + k \in 1 .. n /\ list[k] = index.postings[a + k]
    <3>1. /\ list \in Seq(Posting)
          /\ Len(list) = index.offsets[s + 2] - index.offsets[s + 1]
          /\ \A k \in 1 .. Len(list) :
                /\ index.offsets[s + 1] + k \in 1 .. Len(index.postings)
                /\ list[k] = index.postings[index.offsets[s + 1] + k]
      BY <1>8, ListsAreCut
    <3>. HIDE DEF list, a, b
    <3>. QED  BY <1>6, <2>3, <3>1
  <2>. HIDE DEF list, a, b
  <2>5. \A k \in 1 .. n : sorted[k] \in E /\ sorted[k][1] \in Nat
    BY <1>1, <1>4
  <2>6. \A k \in 1 .. n : sorted[k][1] = s <=> a < k /\ k <= b
    <3>. TAKE k \in 1 .. n
    <3>1. /\ sorted[k][1] < s <=> k <= a
          /\ sorted[k][1] < s + 1 <=> k <= b
          /\ sorted[k][1] \in Nat /\ k \in Nat /\ a \in Nat /\ b \in Nat
      BY <2>2, <2>5
    <3>. QED  BY <2>1, <3>1
  <2>7. \A k \in 1 .. Len(list) :
           /\ a + k \in 1 .. n /\ sorted[a + k] \in E /\ sorted[a + k][1] = s
           /\ list[k] = sorted[a + k][2]
    <3>. TAKE k \in 1 .. Len(list)
    <3>1. a + k \in 1 .. n /\ list[k] = index.postings[a + k]
      BY <2>4
    <3>2. a < a + k /\ a + k <= b
      BY <2>2, <2>4
    <3>. QED  BY <1>5, <2>5, <2>6, <3>1, <3>2
  <2>8. StrictlyOrdered(list)
    <3>1. ASSUME NEW k \in 2 .. Len(list) PROVE PostingBefore(list[k - 1], list[k])
      <4>1. /\ k - 1 \in 1 .. Len(list) /\ k \in 1 .. Len(list) /\ a + (k - 1) < a + k
        BY <2>2, <2>4
      <4>. DEFINE x == sorted[a + (k - 1)]
                  y == sorted[a + k]
      <4>2. /\ x \in E /\ x[1] = s /\ list[k - 1] = x[2]
            /\ y \in E /\ y[1] = s /\ list[k] = y[2]
            /\ a + (k - 1) \in 1 .. n /\ a + k \in 1 .. n
        BY <2>7, <4>1
      <4>3. <<x, y>> \in Earlier(E)
        BY <1>4, <4>1, <4>2
      <4>. HIDE DEF x, y
      <4>4. EntryBefore(x, y)
        BY <1>1, <4>2, <4>3, EntriesAreOrdered
      <4>. QED  BY <2>1, <4>2, <4>4 DEF EntryBefore
    <3>. QED  BY <3>1 DEF StrictlyOrdered
  <2>9. Found \in SUBSET Given
    <3>. SUFFICES ASSUME NEW k \in 1 .. Len(list) PROVE list[k] \in Given
      OBVIOUS
    <3>. QED  BY <2>7
  <2>10. Given \in SUBSET Found
    <3>. SUFFICES ASSUME NEW e \in E, e[1] = s PROVE e[2] \in Found
      OBVIOUS
    <3>1. PICK i \in 1 .. n : sorted[i] = e
      BY <1>4
    <3>2. a < i /\ i <= b
      BY <2>6, <3>1
    <3>. DEFINE k == i - a
    <3>3. k \in 1 .. Len(list) /\ a + k = i
      BY <2>2, <2>4, <3>2
    <3>. HIDE DEF k
    <3>4. list[k] = e[2]
      BY <2>7, <3>1, <3>3
    <3>. QED  BY <3>3, <3>4
  <2>11. Found = Given
    <3>. HIDE DEF Found, Given
    <3>. QED  BY <2>9, <2>10
  <2>. QED  BY <2>8, <2>11 DEF list
<1>. QED  BY <1>8, <1>10 DEF index

------------------------------------------------------------------------------
(* Tokens that are all different: a vocabulary, or the unknown ones.       *)
Distinct(list) == \A i, j \in 1 .. Len(list) : list[i] = list[j] => i = j

LEMMA FirstSeenIsExact ==
  ASSUME NEW S, NEW tokens \in Seq(S), NEW ignored
  PROVE  LET seen == FirstSeen(tokens, ignored)
         IN  /\ seen \in Seq(S) /\ Distinct(seen)
             /\ Range(seen) = Range(tokens) \ ignored
<1>. DEFINE n == Len(tokens)
            New(i) == tokens[i] \notin ignored /\ \A j \in 1 .. (i - 1) : tokens[j] # tokens[i]
            F == {i \in DOMAIN tokens : tokens[i] \notin ignored \cup {tokens[j] : j \in 1 .. (i - 1)}}
            firsts == Ascending(F)
            m == Len(firsts)
            seen == FirstSeen(tokens, ignored)
<1>1. n \in Nat /\ DOMAIN tokens = 1 .. n /\ \A i \in 1 .. n : tokens[i] \in S
  OBVIOUS
<1>2. F \in SUBSET (1 .. n) /\ \A i \in 1 .. n : i \in F <=> New(i)
  BY <1>1
<1>3. seen = [k \in DOMAIN firsts |-> tokens[firsts[k]]]
  BY DEF FirstSeen
<1>. HIDE DEF F, seen
<1>4. F \in SUBSET Nat /\ IsFiniteSet(F)
  <2>. HIDE DEF n
  <2>1. IsFiniteSet(1 .. n) /\ F \in SUBSET (1 .. n)
    BY <1>1, <1>2, FS_Interval
  <2>2. IsFiniteSet(F)
    BY <2>1, FS_Subset
  <2>. QED  BY <2>1, <2>2
<1>5. /\ firsts \in Seq(F)
      /\ \A i, j \in 1 .. m : i < j => firsts[i] < firsts[j]
      /\ \A x \in F : \E i \in 1 .. m : firsts[i] = x
  BY <1>4, AscendingIsSorted
<1>. HIDE DEF firsts
<1>6. m \in Nat /\ DOMAIN firsts = 1 .. m /\ \A k \in 1 .. m : firsts[k] \in F
  BY <1>5
<1>. HIDE DEF n, m
<1>7. /\ seen \in [1 .. m -> S]
      /\ \A k \in 1 .. m : seen[k] = tokens[firsts[k]]
  <2>1. seen = [k \in 1 .. m |-> tokens[firsts[k]]]
    BY <1>3, <1>6
  <2>. QED  BY <1>1, <1>2, <1>6, <2>1
<1>8. seen \in Seq(S) /\ Len(seen) = m /\ DOMAIN seen = 1 .. m
  BY <1>6, <1>7
<1>9. Distinct(seen)
  <2>1. ASSUME NEW i \in 1 .. m, NEW j \in 1 .. m, i < j PROVE seen[i] # seen[j]
    <3>0. firsts[i] \in 1 .. n /\ firsts[j] \in 1 .. n /\ firsts[i] < firsts[j]
      BY <1>2, <1>5, <1>6, <2>1
    <3>1. firsts[i] \in 1 .. (firsts[j] - 1) /\ firsts[j] \in 1 .. n
      BY <1>1, <3>0
    <3>2. New(firsts[j])
      BY <1>2, <1>6, <3>1
    <3>. QED  BY <1>7, <3>1, <3>2
  <2>2. ASSUME NEW i \in 1 .. m, NEW j \in 1 .. m, seen[i] = seen[j] PROVE i = j
    <3>1. seen[j] = seen[i] /\ (i < j \/ i = j \/ j < i)
      BY <1>6, <2>2
    <3>. QED  BY <2>1, <2>2, <3>1
  <2>. QED  BY <1>8, <2>2 DEF Distinct
<1>10. Range(seen) \in SUBSET (Range(tokens) \ ignored)
  <2>. SUFFICES ASSUME NEW k \in 1 .. m PROVE seen[k] \in Range(tokens) \ ignored
    BY <1>8 DEF Range
  <2>1. firsts[k] \in 1 .. n /\ New(firsts[k])
    BY <1>2, <1>6
  <2>. QED  BY <1>1, <1>7, <2>1 DEF Range
<1>11. ASSUME NEW i \in 1 .. n, tokens[i] \notin ignored PROVE tokens[i] \in Range(seen)
  <2>. DEFINE Same == {j \in 1 .. n : tokens[j] = tokens[i]}
  <2>1. PICK p \in Same : \A j \in Same : p <= j
    <3>1. Same \in SUBSET Nat /\ i \in Same
      BY <1>1
    <3>. HIDE DEF Same
    <3>. QED  BY <3>1, LeastNatural
  <2>2. p \in 1 .. n /\ tokens[p] = tokens[i]
    OBVIOUS
  <2>3. ASSUME NEW j \in 1 .. (p - 1) PROVE tokens[j] # tokens[p]
    <3>1. j \in 1 .. n /\ ~(p <= j)
      BY <1>1, <2>2
    <3>2. j \notin Same
      <4>. HIDE DEF Same
      <4>. QED  BY <2>1, <3>1
    <3>. QED  BY <2>2, <3>1, <3>2
  <2>4. p \in F
    BY <1>2, <1>11, <2>2, <2>3
  <2>. HIDE DEF Same
  <2>5. PICK k \in 1 .. m : firsts[k] = p
    BY <1>5, <2>4
  <2>. QED  BY <1>7, <1>8, <2>2, <2>5 DEF Range
<1>12. Range(tokens) \ ignored \in SUBSET Range(seen)
  BY <1>1, <1>11 DEF Range
<1>. QED  BY <1>8, <1>9, <1>10, <1>12 DEF seen

(* VocabularyBuilder::build orders the tokens it has seen.                 *)
LEMMA VocabularyIsExact ==
  ASSUME NEW S, NEW tokens \in Seq(S)
  PROVE  LET vocabulary == VocabularyOf(tokens)
         IN  /\ vocabulary \in Seq(S) /\ Distinct(vocabulary)
             /\ Range(vocabulary) = Range(tokens)
<1>. DEFINE seen == FirstSeen(tokens, {})
            D == DOMAIN seen
            f(k) == FrequencyIn(tokens, seen[k])
            Sooner(m, n) == f(m) > f(n) \/ (f(m) = f(n) /\ m < n)
            R == {pair \in D \X D : Sooner(pair[1], pair[2])}
            Chosen(k) == CHOOSE x \in D : Cardinality({y \in D : Sooner(y, x)}) = k - 1
            order == SortedBy(D, Sooner)
            vocabulary == VocabularyOf(tokens)
<1>1. seen \in Seq(S) /\ Distinct(seen) /\ Range(seen) = Range(tokens)
  <2>. HIDE DEF seen
  <2>1. seen \in Seq(S) /\ Distinct(seen) /\ Range(seen) = Range(tokens) \ {}
    BY FirstSeenIsExact DEF seen
  <2>. QED  BY <2>1
<1>2. vocabulary = [k \in DOMAIN order |-> seen[order[k]]]
  BY DEF VocabularyOf
<1>3. \A token : FrequencyIn(tokens, token) \in Nat
  <2>. TAKE token
  <2>1. /\ {i \in DOMAIN tokens : tokens[i] = token} \in SUBSET (1 .. Len(tokens))
        /\ IsFiniteSet(1 .. Len(tokens))
    BY FS_Interval
  <2>. QED  BY <2>1, FS_Subset, FS_CardinalityType DEF FrequencyIn
<1>. HIDE DEF seen
<1>4. /\ D = 1 .. Len(seen) /\ Len(seen) \in Nat /\ D \in SUBSET Nat /\ IsFiniteSet(D)
      /\ \A k \in D : f(k) \in Nat /\ k \in Nat
  <2>1. D = 1 .. Len(seen) /\ Len(seen) \in Nat
    BY <1>1
  <2>2. \A k \in D : f(k) \in Nat
    BY <1>3
  <2>. HIDE DEF D, f
  <2>3. D \in SUBSET Nat /\ IsFiniteSet(D)
    BY <2>1, FS_Interval
  <2>. QED  BY <2>1, <2>2, <2>3
<1>. HIDE DEF D, f
<1>5. \A x, y \in D : <<x, y>> \in R <=> Sooner(x, y)
  OBVIOUS
<1>6. StrictOrder(D, R)
  <2>1. \A x \in D : ~Sooner(x, x)
    BY <1>4
  <2>2. \A x, y, z \in D : Sooner(x, y) /\ Sooner(y, z) => Sooner(x, z)
    BY <1>4
  <2>3. ASSUME NEW x \in D, NEW y \in D, x # y PROVE Sooner(x, y) \/ Sooner(y, x)
    <3>1. f(x) \in Nat /\ f(y) \in Nat /\ x \in Nat /\ y \in Nat
      BY <1>4
    <3>2. \A a, b, i, j \in Nat : i # j => \/ a > b \/ (a = b /\ i < j)
                                           \/ b > a \/ (b = a /\ j < i)
      OBVIOUS
    <3>3. \/ f(x) > f(y) \/ (f(x) = f(y) /\ x < y)
          \/ f(y) > f(x) \/ (f(y) = f(x) /\ y < x)
      BY <2>3, <3>1, <3>2
    <3>. QED  BY <3>3
  <2>. HIDE DEF R, Sooner
  <2>. QED  BY <1>5, <2>1, <2>2, <2>3 DEF StrictOrder
<1>7. \A x \in D : Under(D, R, x) = {y \in D : Sooner(y, x)}
  <2>. HIDE DEF R, Sooner
  <2>. QED  BY <1>5 DEF Under
<1>8. order = [k \in 1 .. Cardinality(D) |-> Chosen(k)]
  BY DEF SortedBy
<1>. HIDE DEF R, order, Sooner
<1>9. ASSUME NEW k \in 1 .. Cardinality(D),
             \E x \in D : Cardinality(Under(D, R, x)) = k - 1
      PROVE  order[k] \in D /\ Cardinality(Under(D, R, order[k])) = k - 1
  <2>1. order[k] = Chosen(k)
    <3>. HIDE DEF Chosen
    <3>. QED  BY <1>8
  <2>2. \E x \in D : Cardinality({y \in D : Sooner(y, x)}) = k - 1
    BY <1>7, <1>9
  <2>3. Chosen(k) \in D /\ Cardinality({y \in D : Sooner(y, Chosen(k))}) = k - 1
    BY <2>2
  <2>. HIDE DEF Chosen
  <2>. QED  BY <1>7, <2>1, <2>3
<1>10. Sorts(D, R, order, Cardinality(D))
  <2>1. order = [k \in 1 .. Cardinality(D) |-> order[k]]
    <3>. HIDE DEF Chosen
    <3>. QED  BY <1>8
  <2>. QED  BY <1>4, <1>6, <1>9, <2>1, ChosenByRank
<1>. DEFINE n == Cardinality(D)
<1>11. /\ n \in Nat /\ order \in [1 .. n -> D] /\ \A x \in D : \E i \in 1 .. n : order[i] = x
       /\ \A i, j \in 1 .. n : i < j => <<order[i], order[j]>> \in R
  BY <1>10 DEF Sorts
<1>. HIDE DEF n, vocabulary
<1>12. /\ vocabulary \in [1 .. n -> S]
       /\ \A k \in 1 .. n : vocabulary[k] = seen[order[k]]
  BY <1>1, <1>2, <1>4, <1>11
<1>13. vocabulary \in Seq(S) /\ Len(vocabulary) = n /\ DOMAIN vocabulary = 1 .. n
  BY <1>11, <1>12
<1>14. Distinct(vocabulary)
  <2>1. ASSUME NEW i \in 1 .. n, NEW j \in 1 .. n, i < j PROVE order[i] # order[j]
    <3>1. <<order[i], order[j]>> \in R /\ order[i] \in D
      BY <1>11, <2>1
    <3>. QED  BY <1>6, <3>1 DEF StrictOrder
  <2>2. ASSUME NEW i \in 1 .. n, NEW j \in 1 .. n, vocabulary[i] = vocabulary[j] PROVE i = j
    <3>1. order[i] = order[j]
      <4>1. order[i] \in D /\ order[j] \in D
        BY <1>11
      <4>2. seen[order[i]] = seen[order[j]]
        BY <1>12, <2>2
      <4>. QED  BY <1>1, <1>4, <4>1, <4>2 DEF Distinct
    <3>2. i < j \/ i = j \/ j < i
      BY <1>11
    <3>. QED  BY <2>1, <3>1, <3>2
  <2>. QED  BY <1>13, <2>2 DEF Distinct
<1>15. Range(vocabulary) = Range(seen)
  <2>1. \A k \in 1 .. n : vocabulary[k] \in Range(seen)
    BY <1>4, <1>11, <1>12 DEF Range, D
  <2>2. \A x \in D : \E k \in 1 .. n : vocabulary[k] = seen[x]
    BY <1>11, <1>12
  <2>. QED  BY <1>13, <2>1, <2>2 DEF Range, D
<1>. QED  BY <1>1, <1>13, <1>14, <1>15 DEF vocabulary

(* Vocabulary::symbol is the inverse of Vocabulary::token.                 *)
LEMMA SymbolsNameTokens ==
  ASSUME NEW S, NEW vocabulary \in Seq(S), Distinct(vocabulary)
  PROVE  /\ \A token \in Range(vocabulary) :
               /\ SymbolOf(vocabulary, token) \in 0 .. (Len(vocabulary) - 1)
               /\ vocabulary[SymbolOf(vocabulary, token) + 1] = token
         /\ \A k \in 1 .. Len(vocabulary) : SymbolOf(vocabulary, vocabulary[k]) = k - 1
<1>. DEFINE n == Len(vocabulary)
<1>1. n \in Nat /\ DOMAIN vocabulary = 1 .. n
  OBVIOUS
<1>2. ASSUME NEW k \in 1 .. n PROVE SymbolOf(vocabulary, vocabulary[k]) = k - 1
  <2>. DEFINE q == CHOOSE i \in DOMAIN vocabulary : vocabulary[i] = vocabulary[k]
  <2>1. q \in 1 .. n /\ vocabulary[q] = vocabulary[k]
    BY <1>1
  <2>2. SymbolOf(vocabulary, vocabulary[k]) = q - 1
    BY <1>1 DEF SymbolOf, Range
  <2>. HIDE DEF q
  <2>3. q = k
    BY <2>1 DEF Distinct
  <2>. QED  BY <2>2, <2>3
<1>3. ASSUME NEW token \in Range(vocabulary)
      PROVE  /\ SymbolOf(vocabulary, token) \in 0 .. (n - 1)
             /\ vocabulary[SymbolOf(vocabulary, token) + 1] = token
  <2>1. PICK k \in 1 .. n : vocabulary[k] = token
    BY <1>1 DEF Range
  <2>2. SymbolOf(vocabulary, token) = k - 1
    BY <1>2, <2>1
  <2>. QED  BY <1>1, <2>1, <2>2
<1>. QED  BY <1>2, <1>3

LEMMA FlattenRange ==
  ASSUME NEW S, NEW ss \in Seq(Seq(S))
  PROVE  \A x : x \in Range(FlattenSeq(ss))
                  <=> \E k \in 1 .. Len(ss) : \E i \in 1 .. Len(ss[k]) : ss[k][i] = x
<1>. DEFINE n == Len(ss)
<1>1. PICK f \in [0 .. n -> Seq(S)] :
         /\ f[0] = <<>>
         /\ \A i \in 1 .. n : f[i] = f[i - 1] \o ss[i]
         /\ FlattenSeq(ss) = f[n]
  BY FlattenDefined
<1>2. n \in Nat /\ \A k \in 1 .. n : ss[k] \in Seq(S)
  OBVIOUS
<1>. DEFINE Upto(x, k) == \E q \in 1 .. k : \E i \in 1 .. Len(ss[q]) : ss[q][i] = x
            T == {k \in 0 .. n : \A x : x \in Range(f[k]) <=> Upto(x, k)}
<1>. HIDE DEF n
<1>3. 0 \in T
  <2>1. \A x : x \notin Range(f[0])
    BY <1>1 DEF Range
  <2>. QED  BY <1>2, <2>1
<1>4. ASSUME NEW k \in T, k < n PROVE k + 1 \in T
  <2>1. /\ k \in 0 .. n /\ k + 1 \in 1 .. n /\ k + 1 \in 0 .. n /\ (k + 1) - 1 = k
        /\ \A x : x \in Range(f[k]) <=> Upto(x, k)
    BY <1>2, <1>4
  <2>. DEFINE a == f[k]
              b == ss[k + 1]
              c == f[k + 1]
  <2>2. a \in Seq(S) /\ b \in Seq(S) /\ c = a \o b
    BY <1>1, <1>2, <2>1
  <2>3. ASSUME NEW x PROVE x \in Range(c) <=> x \in Range(a) \/ \E i \in 1 .. Len(b) : b[i] = x
    <3>. HIDE DEF a, b, c
    <3>1. /\ Len(a) \in Nat /\ Len(b) \in Nat /\ Len(c) = Len(a) + Len(b)
          /\ DOMAIN a = 1 .. Len(a) /\ DOMAIN c = 1 .. Len(c)
          /\ \A i \in 1 .. Len(c) : c[i] = IF i <= Len(a) THEN a[i] ELSE b[i - Len(a)]
      BY <2>2
    <3>2. ASSUME NEW i \in 1 .. Len(c), c[i] = x
          PROVE  x \in Range(a) \/ \E j \in 1 .. Len(b) : b[j] = x
      <4>1. CASE i <= Len(a)
        <5>1. i \in DOMAIN a /\ a[i] = x
          BY <3>1, <3>2, <4>1
        <5>. QED  BY <5>1 DEF Range
      <4>2. CASE ~(i <= Len(a))
        <5>1. i - Len(a) \in 1 .. Len(b) /\ b[i - Len(a)] = x
          BY <3>1, <3>2, <4>2
        <5>. QED  BY <5>1
      <4>. QED  BY <4>1, <4>2
    <3>3. ASSUME NEW i \in 1 .. Len(a), a[i] = x PROVE x \in Range(c)
      <4>1. i \in DOMAIN c /\ c[i] = x
        BY <3>1, <3>3
      <4>. QED  BY <4>1 DEF Range
    <3>4. ASSUME NEW i \in 1 .. Len(b), b[i] = x PROVE x \in Range(c)
      <4>1. /\ Len(a) + i \in DOMAIN c /\ ~(Len(a) + i <= Len(a))
            /\ (Len(a) + i) - Len(a) = i
        BY <3>1
      <4>2. c[Len(a) + i] = x
        BY <3>1, <3>4, <4>1
      <4>. QED  BY <4>1, <4>2 DEF Range
    <3>. QED  BY <3>1, <3>2, <3>3, <3>4 DEF Range
  <2>4. ASSUME NEW x PROVE Upto(x, k + 1) <=> Upto(x, k) \/ \E i \in 1 .. Len(b) : b[i] = x
    <3>1. \A q \in 1 .. (k + 1) : q \in 1 .. k \/ q = k + 1
      BY <2>1
    <3>2. k + 1 \in 1 .. (k + 1) /\ \A q \in 1 .. k : q \in 1 .. (k + 1)
      BY <2>1
    <3>. QED  BY <3>1, <3>2
  <2>. HIDE DEF Upto, b
  <2>. QED  BY <2>1, <2>3, <2>4
<1>5. T = 0 .. n
  <2>1. T \in SUBSET (0 .. n)
    OBVIOUS
  <2>. HIDE DEF T
  <2>. QED  BY <1>2, <1>3, <1>4, <2>1, BoundedInduction
<1>6. n \in T
  <2>. HIDE DEF T
  <2>. QED  BY <1>2, <1>5
<1>. QED  BY <1>1, <1>6 DEF n

(* What build hands to the index builder: the symbol of every place.       *)
EntriesOf(strings) ==
  UNION {{<<strings[k][i], [string |-> k - 1, position |-> i - 1]>> :
            i \in DOMAIN strings[k]} : k \in DOMAIN strings}

LEMMA EntriesAreOccurrences ==
  ASSUME NEW strings \in Seq(Seq(Nat)), NEW store, StoreShaped(store, Len(strings)),
         \A k \in 1 .. Len(strings) : StringOf(store, k - 1) = strings[k],
         NEW count \in Nat,
         \A k \in 1 .. Len(strings) : \A i \in 1 .. Len(strings[k]) : strings[k][i] < count
  PROVE  /\ EntriesOf(strings) \in SUBSET ((0 .. (count - 1)) \X Posting)
         /\ IsFiniteSet(EntriesOf(strings))
         /\ \A s : {o[2] : o \in {e \in EntriesOf(strings) : e[1] = s}} = OccurrencesOf(store, s)
<1>. DEFINE n == Len(strings)
            E == EntriesOf(strings)
            place(k, i) == [string |-> k - 1, position |-> i - 1]
            P == Places(store, n)
            f == [p \in P |-> <<strings[p.string + 1][p.position + 1], p>>]
<1>1. /\ n \in Nat /\ DOMAIN strings = 1 .. n
      /\ \A k \in 1 .. n : /\ strings[k] \in Seq(Nat) /\ DOMAIN strings[k] = 1 .. Len(strings[k])
                           /\ Len(strings[k]) \in Nat
                           /\ \A i \in 1 .. Len(strings[k]) : strings[k][i] \in Nat
  OBVIOUS
<1>2. \A e : e \in E <=> \E k \in 1 .. n : \E i \in 1 .. Len(strings[k]) :
                            e = <<strings[k][i], place(k, i)>>
  <2>1. DOMAIN strings = 1 .. n /\ \A k \in 1 .. n : DOMAIN strings[k] = 1 .. Len(strings[k])
    BY <1>1
  <2>2. \A e : e \in E <=> \E k \in DOMAIN strings : \E i \in DOMAIN strings[k] :
                            e = <<strings[k][i], place(k, i)>>
    BY DEF EntriesOf
  <2>. HIDE DEF n, E, place
  <2>. QED  BY <2>1, <2>2
<1>. HIDE DEF E, n
<1>3. \A k \in 1 .. n : \A i \in 1 .. Len(strings[k]) :
         /\ place(k, i) \in Posting
         /\ place(k, i).string + 1 = k /\ place(k, i).position + 1 = i
         /\ strings[k][i] \in 0 .. (count - 1)
  <2>. TAKE k \in 1 .. n
  <2>. TAKE i \in 1 .. Len(strings[k])
  <2>1. k \in Nat /\ k - 1 \in Nat /\ i \in Nat /\ i - 1 \in Nat /\ (k - 1) + 1 = k /\ (i - 1) + 1 = i
    BY <1>1
  <2>2. strings[k][i] \in Nat /\ strings[k][i] < count
    BY <1>1 DEF n
  <2>3. place(k, i) \in Posting
    BY <2>1 DEF Posting
  <2>. QED  BY <2>1, <2>2, <2>3
<1>4. E \in SUBSET ((0 .. (count - 1)) \X Posting)
  <2>. SUFFICES ASSUME NEW e \in E PROVE e \in (0 .. (count - 1)) \X Posting
    OBVIOUS
  <2>1. PICK k \in 1 .. n : \E i \in 1 .. Len(strings[k]) : e = <<strings[k][i], place(k, i)>>
    BY <1>2
  <2>2. PICK i \in 1 .. Len(strings[k]) : e = <<strings[k][i], place(k, i)>>
    BY <2>1
  <2>3. strings[k][i] \in 0 .. (count - 1) /\ place(k, i) \in Posting
    BY <1>3
  <2>. HIDE DEF place
  <2>. QED  BY <2>2, <2>3
<1>5. Ids(store) = 0 .. (n - 1) /\ \A k \in 1 .. n : StringOf(store, k - 1) = strings[k]
  BY StringsAreCut DEF n
<1>6. \A p \in P : /\ p.string + 1 \in 1 .. n
                   /\ p.position + 1 \in 1 .. Len(strings[p.string + 1])
                   /\ p = place(p.string + 1, p.position + 1)
  <2>. TAKE p \in P
  <2>1. /\ p \in Posting /\ p.string \in 0 .. (n - 1)
        /\ store.offsets[p.string + 1] + p.position < store.offsets[p.string + 2]
    BY DEF Places
  <2>2. /\ p.string \in Nat /\ p.position \in Nat
        /\ p.string + 1 \in 1 .. n /\ (p.string + 1) - 1 = p.string
        /\ (p.position + 1) - 1 = p.position
        /\ p = [string |-> p.string, position |-> p.position]
    <3>1. /\ p.string \in Nat /\ p.position \in Nat
          /\ p = [string |-> p.string, position |-> p.position]
      BY <2>1 DEF Posting
    <3>2. p.string + 1 \in 1 .. n
      BY <1>1, <2>1, <3>1
    <3>3. \A q \in Nat : (q + 1) - 1 = q
      OBVIOUS
    <3>. QED  BY <3>1, <3>2, <3>3
  <2>3. StringOf(store, p.string) = strings[p.string + 1]
    BY <1>5, <2>2
  <2>4. /\ store.offsets[p.string + 1] \in Nat /\ store.offsets[p.string + 2] \in Nat
        /\ Len(StringOf(store, p.string)) = store.offsets[p.string + 2] - store.offsets[p.string + 1]
    BY <2>1, StringsAreCut, SMTT(30) DEF n
  <2>5. p.position + 1 \in 1 .. Len(strings[p.string + 1])
    <3>1. \A a, b, q, l \in Nat : l = b - a /\ a + q < b => q + 1 \in 1 .. l
      OBVIOUS
    <3>2. Len(strings[p.string + 1]) \in Nat
      BY <1>1, <2>2
    <3>. QED  BY <2>1, <2>2, <2>3, <2>4, <3>1, <3>2
  <2>. QED  BY <2>2, <2>5
<1>7. \A k \in 1 .. n : \A i \in 1 .. Len(strings[k]) : place(k, i) \in P
  <2>. TAKE k \in 1 .. n
  <2>. TAKE i \in 1 .. Len(strings[k])
  <2>1. /\ k - 1 \in 0 .. (n - 1) /\ (k - 1) + 1 = k /\ (k - 1) + 2 = k + 1
        /\ i - 1 \in Nat /\ i <= Len(strings[k]) /\ i \in Nat
    BY <1>1
  <2>2. /\ store.offsets[(k - 1) + 1] \in Nat /\ store.offsets[(k - 1) + 2] \in Nat
        /\ Len(StringOf(store, k - 1)) = store.offsets[(k - 1) + 2] - store.offsets[(k - 1) + 1]
    BY <2>1, StringsAreCut DEF n
  <2>3. store.offsets[(k - 1) + 1] + (i - 1) < store.offsets[(k - 1) + 2]
    <3>1. \A a, b, q, l \in Nat : l = b - a /\ q \in 1 .. l => a + (q - 1) < b
      OBVIOUS
    <3>2. StringOf(store, k - 1) = strings[k] /\ Len(strings[k]) \in Nat
      BY <1>1, <1>5
    <3>. QED  BY <2>1, <2>2, <3>1, <3>2
  <2>4. place(k, i) \in Posting /\ place(k, i).string = k - 1 /\ place(k, i).position = i - 1
    BY <1>3
  <2>. HIDE DEF place
  <2>. QED  BY <2>1, <2>3, <2>4 DEF Places
<1>8. IsFiniteSet(E)
  <2>1. IsFiniteSet(P)
    BY PlacesAreNumbered DEF n
  <2>2. \A p \in P : f[p] \in E
    <3>. TAKE p \in P
    <3>. DEFINE k == p.string + 1
                i == p.position + 1
    <3>1. k \in 1 .. n /\ i \in 1 .. Len(strings[k]) /\ p = place(k, i)
      BY <1>6
    <3>2. f[p] = <<strings[k][i], p>>
      OBVIOUS
    <3>. HIDE DEF k, i, f, place
    <3>3. f[p] = <<strings[k][i], place(k, i)>>
      BY <3>1, <3>2
    <3>. QED  BY <1>2, <3>1, <3>3
  <2>3. \A e \in E : \E p \in P : f[p] = e
    <3>. TAKE e \in E
    <3>1. PICK k \in 1 .. n : \E i \in 1 .. Len(strings[k]) : e = <<strings[k][i], place(k, i)>>
      BY <1>2
    <3>2. PICK i \in 1 .. Len(strings[k]) : e = <<strings[k][i], place(k, i)>>
      BY <3>1
    <3>3. place(k, i) \in P /\ place(k, i).string + 1 = k /\ place(k, i).position + 1 = i
      BY <1>3, <1>7
    <3>. HIDE DEF place, P
    <3>4. f[place(k, i)] = e
      BY <3>2, <3>3
    <3>. HIDE DEF f
    <3>. QED  BY <3>3, <3>4
  <2>4. f \in [P -> E]
    BY <2>2
  <2>5. f \in Surjection(P, E)
    <3>. HIDE DEF f, P
    <3>. QED  BY <2>3, <2>4 DEF Surjection
  <2>. HIDE DEF f, P
  <2>. QED  BY <2>1, <2>5, FS_Surjection
<1>9. ASSUME NEW s PROVE {o[2] : o \in {e \in E : e[1] = s}} = OccurrencesOf(store, s)
  <2>. DEFINE Given == {o[2] : o \in {e \in E : e[1] = s}}
              There(p) == \E k \in 1 .. n : \E i \in 1 .. Len(strings[k]) :
                             strings[k][i] = s /\ p = place(k, i)
  <2>1. \A p : p \in Given <=> There(p)
    <3>1. ASSUME NEW p \in Given PROVE There(p)
      <4>1. PICK e \in E : e[1] = s /\ p = e[2]
        OBVIOUS
      <4>2. PICK k \in 1 .. n : \E i \in 1 .. Len(strings[k]) : e = <<strings[k][i], place(k, i)>>
        BY <1>2
      <4>3. PICK i \in 1 .. Len(strings[k]) : e = <<strings[k][i], place(k, i)>>
        BY <4>2
      <4>. HIDE DEF place
      <4>. QED  BY <4>1, <4>3
    <3>2. ASSUME NEW p, There(p) PROVE p \in Given
      <4>1. PICK k \in 1 .. n : \E i \in 1 .. Len(strings[k]) : strings[k][i] = s /\ p = place(k, i)
        BY <3>2
      <4>2. PICK i \in 1 .. Len(strings[k]) : strings[k][i] = s /\ p = place(k, i)
        BY <4>1
      <4>. DEFINE e == <<strings[k][i], place(k, i)>>
      <4>3. e \in E
        BY <1>2
      <4>4. e[1] = s /\ e[2] = p
        BY <4>2
      <4>. HIDE DEF e
      <4>. QED  BY <4>3, <4>4
    <3>. HIDE DEF Given, There
    <3>. QED  BY <3>1, <3>2
  <2>2. \A p : p \in OccurrencesOf(store, s) <=> There(p)
    <3>1. \A id \in Ids(store) : id + 1 \in 1 .. n /\ (id + 1) - 1 = id /\ StringOf(store, id) = strings[id + 1]
      BY <1>1, <1>5, SMTT(30)
    <3>2. \A k \in 1 .. n : k - 1 \in Ids(store) /\ StringOf(store, k - 1) = strings[k]
      BY <1>1, <1>5
    <3>. DEFINE At(id) == {[string |-> id, position |-> q - 1] :
                              q \in {q \in DOMAIN StringOf(store, id) : StringOf(store, id)[q] = s}}
    <3>3. \A p : p \in OccurrencesOf(store, s) <=> \E id \in Ids(store) : p \in At(id)
      BY DEF OccurrencesOf
    <3>4. \A k \in 1 .. n : \A p : p \in At(k - 1)
             <=> \E i \in 1 .. Len(strings[k]) : strings[k][i] = s /\ p = place(k, i)
      BY <1>1, <3>2
    <3>. HIDE DEF At, place
    <3>5. ASSUME NEW p, NEW id \in Ids(store), p \in At(id) PROVE There(p)
      <4>1. id + 1 \in 1 .. n /\ (id + 1) - 1 = id
        BY <3>1
      <4>2. p \in At((id + 1) - 1)
        BY <3>5, <4>1
      <4>. QED  BY <3>4, <4>1, <4>2
    <3>6. ASSUME NEW p, There(p) PROVE \E id \in Ids(store) : p \in At(id)
      BY <3>2, <3>4, <3>6
    <3>. HIDE DEF There
    <3>. QED  BY <3>3, <3>5, <3>6
  <2>. HIDE DEF Given, There
  <2>3. Given = OccurrencesOf(store, s)
    BY <2>1, <2>2
  <2>. QED  BY <2>3 DEF Given
<1>. QED  BY <1>4, <1>8, <1>9 DEF E

------------------------------------------------------------------------------
(* An engine built from sequences: what the rest of the program relies on. *)
StringsOf(seqs, vocabulary) ==
  [k \in DOMAIN seqs |-> [i \in DOMAIN seqs[k] |-> SymbolOf(vocabulary, seqs[k][i])]]

BuiltFrom(built, seqs) ==
  /\ built.vocabulary \in Seq(Tokens)
  /\ Distinct(built.vocabulary)
  /\ Range(built.vocabulary) = Range(FlattenSeq(seqs))
  /\ Len(built.vocabulary) <= MaxU32
  /\ built.store.symbolCount = Len(built.vocabulary)
  /\ StoreShaped(built.store, Len(seqs))
  /\ IndexShaped(built.index, Len(built.vocabulary))
  /\ \A k \in 1 .. Len(seqs) :
        StringOf(built.store, k - 1)
          = [i \in 1 .. Len(seqs[k]) |-> SymbolOf(built.vocabulary, seqs[k][i])]
  /\ StoreVerifies(built.store)
  /\ IsInvertedIndex(built.index, built.store)
  /\ AlphabetOf(built.index) = 0 .. (Len(built.vocabulary) - 1)

LEMMA EngineIsBuilt ==
  ASSUME NEW seqs \in Seq(Seq(Tokens)), Len(seqs) <= MaxU32 + 1, NEW vocabulary,
         vocabulary = VocabularyOf(FlattenSeq(seqs)),
         \A k \in DOMAIN vocabulary : IsSymbol(k - 1),
         NEW index, index = IndexOf(EntriesOf(StringsOf(seqs, vocabulary)), Len(vocabulary)),
         NEW store, store = StoreOf(StringsOf(seqs, vocabulary), Len(vocabulary))
  PROVE  BuiltFrom([status |-> "built", vocabulary |-> vocabulary, index |-> index, store |-> store],
                   seqs)
<1>. DEFINE built == [status |-> "built", vocabulary |-> vocabulary, index |-> index, store |-> store]
            n == Len(seqs)
            c == Len(vocabulary)
            strings == StringsOf(seqs, vocabulary)
<1>1. /\ n \in Nat /\ DOMAIN seqs = 1 .. n
      /\ \A k \in 1 .. n : /\ seqs[k] \in Seq(Tokens) /\ Len(seqs[k]) \in Nat
                           /\ DOMAIN seqs[k] = 1 .. Len(seqs[k])
  OBVIOUS
<1>2. /\ vocabulary \in Seq(Tokens) /\ Distinct(vocabulary)
      /\ Range(vocabulary) = Range(FlattenSeq(seqs))
  BY FlattenType, VocabularyIsExact
<1>3. /\ c \in Nat /\ DOMAIN vocabulary = 1 .. c /\ MaxU32 \in Nat /\ c <= MaxU32
  <2>1. c \in Nat /\ DOMAIN vocabulary = 1 .. c /\ MaxU32 \in Nat
    BY <1>2, MaxU32Assumption
  <2>2. \A k \in 1 .. c : k - 1 <= MaxU32 /\ k - 1 # MaxU32
    BY <2>1 DEF IsSymbol, FitsU32, UNKNOWN
  <2>3. c # 0 => c \in 1 .. c
    BY <2>1
  <2>. QED  BY <2>1, <2>2, <2>3
<1>4. \A k \in 1 .. n : \A i \in 1 .. Len(seqs[k]) :
         SymbolOf(vocabulary, seqs[k][i]) \in 0 .. (c - 1)
  BY <1>2, FlattenRange, SymbolsNameTokens
<1>5. /\ strings = [k \in 1 .. n |-> strings[k]]
      /\ \A k \in 1 .. n : strings[k] = [i \in 1 .. Len(seqs[k]) |-> SymbolOf(vocabulary, seqs[k][i])]
  <2>1. strings = [k \in 1 .. n |-> [i \in DOMAIN seqs[k] |-> SymbolOf(vocabulary, seqs[k][i])]]
    <3>. HIDE DEF n
    <3>. QED  BY <1>1 DEF StringsOf
  <2>2. \A k \in 1 .. n : strings[k] = [i \in DOMAIN seqs[k] |-> SymbolOf(vocabulary, seqs[k][i])]
    <3>. HIDE DEF strings
    <3>. QED  BY <2>1
  <2>3. strings = [k \in 1 .. n |-> strings[k]]
    <3>. HIDE DEF strings
    <3>. QED  BY <2>1
  <2>. HIDE DEF strings
  <2>. QED  BY <1>1, <2>2, <2>3
<1>. HIDE DEF strings, n, c, built
<1>6. \A k \in 1 .. n : /\ strings[k] \in Seq(Nat) /\ Len(strings[k]) = Len(seqs[k])
                        /\ \A i \in 1 .. Len(seqs[k]) :
                              /\ strings[k][i] = SymbolOf(vocabulary, seqs[k][i])
                              /\ strings[k][i] \in 0 .. (c - 1)
  <2>. TAKE k \in 1 .. n
  <2>. DEFINE t == strings[k]
              l == Len(seqs[k])
              g(i) == SymbolOf(vocabulary, seqs[k][i])
  <2>1. l \in Nat /\ t = [i \in 1 .. l |-> g(i)] /\ \A i \in 1 .. l : g(i) \in 0 .. (c - 1)
    BY <1>1, <1>4, <1>5
  <2>. HIDE DEF t, l, g
  <2>2. t \in [1 .. l -> Nat] /\ \A i \in 1 .. l : t[i] = g(i)
    BY <2>1
  <2>3. t \in Seq(Nat) /\ Len(t) = l
    BY <2>1, <2>2
  <2>. QED  BY <2>1, <2>2, <2>3 DEF t, l, g
<1>7. strings \in Seq(Seq(Nat)) /\ Len(strings) = n
  <2>1. strings \in [1 .. n -> Seq(Nat)]
    BY <1>5, <1>6
  <2>2. n \in Nat
    BY <1>1
  <2>. QED  BY <2>1, <2>2
<1>8. /\ StoreShaped(store, n)
      /\ \A k \in 1 .. n : StringOf(store, k - 1) = strings[k]
      /\ store.symbolCount = c
  <2>1. store = StoreOf(strings, c)
    BY DEF strings, c
  <2>2. store.symbolCount = c
    BY <2>1 DEF StoreOf
  <2>. QED  BY <1>7, <2>1, <2>2, StoreOfStrings
<1>. DEFINE E == EntriesOf(strings)
<1>9. /\ E \in SUBSET ((0 .. (c - 1)) \X Posting) /\ IsFiniteSet(E)
      /\ \A s : {o[2] : o \in {e \in E : e[1] = s}} = OccurrencesOf(store, s)
  <2>1. \A k \in 1 .. n : \A i \in 1 .. Len(strings[k]) : strings[k][i] < c
    <3>1. \A s \in 0 .. (c - 1) : s < c
      BY <1>3
    <3>. QED  BY <1>6, <3>1
  <2>2. /\ StoreShaped(store, Len(strings))
        /\ \A k \in 1 .. Len(strings) : StringOf(store, k - 1) = strings[k]
        /\ \A k \in 1 .. Len(strings) : \A i \in 1 .. Len(strings[k]) : strings[k][i] < c
    BY <1>7, <1>8, <2>1
  <2>3. c \in Nat /\ strings \in Seq(Seq(Nat))
    BY <1>3, <1>7
  <2>. QED  BY <2>2, <2>3, EntriesAreOccurrences
<1>10. index = IndexOf(E, c)
  BY DEF strings, c
<1>. HIDE DEF E
<1>11. c \in 0 .. MaxU32
  BY <1>3
<1>12. /\ IndexShaped(index, c)
       /\ \A s \in 0 .. (c - 1) : ListIsExact(index, store, s)
  <2>1. /\ IndexShaped(IndexOf(E, c), c)
        /\ \A s \in 0 .. (c - 1) :
              LET list == PostingSlice(IndexOf(E, c), s)
              IN  /\ StrictlyOrdered(list)
                  /\ {list[k] : k \in 1 .. Len(list)} = {o[2] : o \in {e \in E : e[1] = s}}
    BY <1>9, <1>11, IndexOfIsExact
  <2>2. \A s \in 0 .. (c - 1) :
           /\ StrictlyOrdered(PostingSlice(index, s))
           /\ {PostingSlice(index, s)[k] : k \in 1 .. Len(PostingSlice(index, s))}
                = OccurrencesOf(store, s)
    BY <1>9, <1>10, <2>1
  <2>. QED  BY <1>10, <2>1, <2>2 DEF ListIsExact
<1>13. IsInvertedIndex(index, store)
  BY <1>8, <1>12, InvertedByLists
<1>14. StoreVerifies(store)
  <2>1. Ids(store) = 0 .. (n - 1)
    BY <1>8, StringsAreCut
  <2>2. ASSUME NEW id \in 0 .. (n - 1) PROVE FitsU32(id)
    <3>1. n <= MaxU32 + 1
      BY DEF n
    <3>. QED  BY <1>1, <1>3, <3>1 DEF FitsU32
  <2>3. ASSUME NEW id \in 0 .. (n - 1) PROVE ValidSymbols(store, StringOf(store, id))
    <3>1. id + 1 \in 1 .. n /\ (id + 1) - 1 = id
      BY <1>1 DEF n
    <3>2. StringOf(store, id) = strings[id + 1]
      BY <1>8, <3>1
    <3>3. /\ DOMAIN strings[id + 1] = 1 .. Len(seqs[id + 1])
          /\ \A i \in 1 .. Len(seqs[id + 1]) : strings[id + 1][i] \in 0 .. (c - 1)
      BY <1>6, <3>1
    <3>4. \A s \in 0 .. (c - 1) : s # UNKNOWN /\ s < c
      BY <1>3 DEF UNKNOWN
    <3>. QED  BY <1>8, <3>2, <3>3, <3>4 DEF ValidSymbols
  <2>. QED  BY <2>1, <2>2, <2>3 DEF StoreVerifies
<1>15. AlphabetOf(index) = 0 .. (c - 1)
  <2>1. IndexedSymbols(index) = 0 .. (c - 1)
    BY <1>12, ListsAreCut
  <2>2. ASSUME NEW s \in 0 .. (c - 1) PROVE index.offsets[s + 1] # index.offsets[s + 2]
    <3>. DEFINE list == PostingSlice(index, s)
    <3>1. s + 1 \in 1 .. c /\ s + 1 \in DOMAIN vocabulary
      BY <1>3
    <3>2. vocabulary[s + 1] \in Range(FlattenSeq(seqs))
      BY <1>2, <3>1 DEF Range
    <3>3. PICK k \in 1 .. n : \E i \in 1 .. Len(seqs[k]) : seqs[k][i] = vocabulary[s + 1]
      <4>1. \A x : x \in Range(FlattenSeq(seqs))
                      <=> \E q \in 1 .. n : \E i \in 1 .. Len(seqs[q]) : seqs[q][i] = x
        BY FlattenRange DEF n
      <4>. QED  BY <3>2, <4>1
    <3>4. PICK i \in 1 .. Len(seqs[k]) : seqs[k][i] = vocabulary[s + 1]
      BY <3>3
    <3>5. strings[k][i] = s
      <4>1. SymbolOf(vocabulary, vocabulary[s + 1]) = (s + 1) - 1
        BY <1>2, <3>1, SymbolsNameTokens DEF c
      <4>. QED  BY <1>6, <3>4, <4>1
    <3>. DEFINE place == [string |-> k - 1, position |-> i - 1]
                o == <<strings[k][i], place>>
    <3>6. o \in E
      <4>1. k \in DOMAIN strings /\ i \in DOMAIN strings[k]
        BY <1>6, <1>7
      <4>. QED  BY <4>1 DEF E, EntriesOf
    <3>7. OccurrencesOf(store, s) # {}
      <4>1. o[1] = s /\ o[2] = place
        BY <3>5
      <4>. HIDE DEF o
      <4>2. o[2] \in {x[2] : x \in {e \in E : e[1] = s}}
        BY <3>6, <4>1
      <4>. QED  BY <1>9, <4>2
    <3>8. OccurrencesOf(store, s) = {list[j] : j \in 1 .. Len(list)}
      BY <1>12 DEF ListIsExact
    <3>9. Len(list) # 0
      <4>. HIDE DEF list
      <4>. QED  BY <3>7, <3>8
    <3>10. /\ Len(list) = index.offsets[s + 2] - index.offsets[s + 1]
           /\ list \in Seq(Posting) /\ index.offsets[s + 1] \in Nat
      BY <1>12, ListsAreCut
    <3>. QED  BY <3>9, <3>10
  <2>. QED  BY <2>1, <2>2 DEF AlphabetOf
<1>16. /\ built.vocabulary = vocabulary /\ built.index = index /\ built.store = store
  BY DEF built
<1>17. \A k \in 1 .. n :
          StringOf(store, k - 1) = [i \in 1 .. Len(seqs[k]) |-> SymbolOf(vocabulary, seqs[k][i])]
  BY <1>5, <1>8
<1>18. BuiltFrom(built, seqs)
  BY <1>2, <1>3, <1>8, <1>12, <1>13, <1>14, <1>15, <1>16, <1>17 DEF BuiltFrom, n, c
<1>. QED  BY <1>18 DEF built

------------------------------------------------------------------------------
(***************************************************************************)
(* 5. Queries: known tokens keep their symbols, the others get those after *)
(* the vocabulary, in the order they are first seen.                       *)
(***************************************************************************)

EncodedWith(encoded, vocabulary) ==
  /\ encoded.tokens \in Seq(Tokens)
  /\ encoded.unknown \in Seq(Tokens)
  /\ Distinct(encoded.unknown)
  /\ Range(encoded.unknown) = Range(encoded.tokens) \ Range(vocabulary)
  /\ \A n \in 1 .. Len(encoded.unknown) : IsSymbol(Len(vocabulary) + n - 1)
  /\ encoded.string = [i \in 1 .. Len(encoded.tokens) |->
                         QuerySymbol(encoded.tokens[i], vocabulary, encoded.unknown)]

Decoded(symbol, vocabulary, unknown) ==
  IF HasToken(vocabulary, symbol) THEN vocabulary[symbol + 1]
  ELSE unknown[symbol - Len(vocabulary) + 1]

LEMMA QueriesAreDecoded ==
  ASSUME NEW encoded, NEW vocabulary \in Seq(Tokens), Distinct(vocabulary),
         Len(vocabulary) <= MaxU32, EncodedWith(encoded, vocabulary),
         NEW i \in 1 .. Len(encoded.tokens)
  PROVE  LET symbol == encoded.string[i]
             token  == encoded.tokens[i]
         IN  /\ symbol # UNKNOWN
             /\ Decoded(symbol, vocabulary, encoded.unknown) = token
             /\ symbol \in 0 .. (Len(vocabulary) - 1) <=> token \in Range(vocabulary)
<1>. DEFINE symbol == encoded.string[i]
            token == encoded.tokens[i]
            unknown == encoded.unknown
            c == Len(vocabulary)
            u == Len(unknown)
<1>1. /\ c \in Nat /\ c <= MaxU32 /\ MaxU32 \in Nat /\ DOMAIN vocabulary = 1 .. c
      /\ unknown \in Seq(Tokens) /\ u \in Nat /\ Distinct(unknown) /\ DOMAIN unknown = 1 .. u
  BY MaxU32Assumption DEF EncodedWith
<1>2. symbol = QuerySymbol(token, vocabulary, unknown)
  BY DEF EncodedWith
<1>3. token \notin Range(vocabulary) => token \in Range(unknown)
  <2>1. token \in Range(encoded.tokens)
    BY DEF EncodedWith, Range
  <2>. QED  BY <2>1 DEF EncodedWith
<1>4. \A n \in 1 .. u : c + n - 1 <= MaxU32 /\ c + n - 1 # MaxU32
  BY DEF EncodedWith, IsSymbol, FitsU32, UNKNOWN
<1>. HIDE DEF symbol, token, unknown, c, u
<1>5. CASE token \in Range(vocabulary)
  <2>1. symbol \in 0 .. (c - 1) /\ vocabulary[symbol + 1] = token
    <3>1. symbol = SymbolOf(vocabulary, token)
      BY <1>2, <1>5 DEF QuerySymbol
    <3>. QED  BY <1>5, <3>1, SymbolsNameTokens DEF c
  <2>2. symbol # UNKNOWN /\ symbol + 1 \in DOMAIN vocabulary
    BY <1>1, <2>1 DEF UNKNOWN
  <2>. QED  BY <1>5, <2>1, <2>2 DEF Decoded, HasToken, symbol, token, c
<1>6. CASE token \notin Range(vocabulary)
  <2>. DEFINE n == SymbolOf(unknown, token)
  <2>1. n \in 0 .. (u - 1) /\ unknown[n + 1] = token
    BY <1>1, <1>3, <1>6, SymbolsNameTokens DEF u
  <2>. HIDE DEF n
  <2>2. symbol = c + n
    BY <1>2, <1>6 DEF QuerySymbol, n, c
  <2>3. n + 1 \in 1 .. u /\ c + (n + 1) - 1 = c + n /\ symbol \in Nat /\ symbol >= c
        /\ symbol - c + 1 = n + 1
    BY <1>1, <2>1, <2>2
  <2>4. symbol # MaxU32
    BY <1>4, <2>2, <2>3
  <2>5. symbol + 1 \notin DOMAIN vocabulary /\ symbol \notin 0 .. (c - 1)
    BY <1>1, <2>3
  <2>6. Decoded(symbol, vocabulary, unknown) = unknown[n + 1]
    <3>1. Decoded(symbol, vocabulary, unknown) = unknown[symbol - c + 1]
      BY <2>5 DEF Decoded, HasToken, c
    <3>. QED  BY <2>3, <3>1
  <2>. QED  BY <1>6, <2>1, <2>4, <2>5, <2>6 DEF UNKNOWN, symbol, token, unknown, c
<1>. QED  BY <1>5, <1>6

(* EncodedQuery::new makes such a query. *)
LEMMA QueryIsEncoded ==
  ASSUME NEW tokens \in Seq(Tokens), NEW vocabulary \in Seq(Tokens),
         NEW unknown, unknown = UnknownTokens(tokens, vocabulary),
         \A n \in DOMAIN unknown : IsSymbol(Len(vocabulary) + n - 1),
         NEW string, string = [i \in DOMAIN tokens |-> QuerySymbol(tokens[i], vocabulary, unknown)]
  PROVE  EncodedWith([status |-> "encoded", tokens |-> tokens, unknown |-> unknown,
                      string |-> string], vocabulary)
<1>1. /\ unknown \in Seq(Tokens) /\ Distinct(unknown)
      /\ Range(unknown) = Range(tokens) \ Range(vocabulary)
  BY FirstSeenIsExact DEF UnknownTokens
<1>2. DOMAIN unknown = 1 .. Len(unknown) /\ DOMAIN tokens = 1 .. Len(tokens)
  BY <1>1
<1>. QED  BY <1>1, <1>2 DEF EncodedWith

------------------------------------------------------------------------------
(***************************************************************************)
(* 6. The specification.  An engine is built from the sequences accepted   *)
(* before, or opened with its offsets valid; a verdict is what             *)
(* EngineVerifies says of it, and a search has come as far as it could use *)
(* its candidates.  All three speak of an engine that never changes again. *)
(***************************************************************************)

BuilderInv ==
  /\ sequences \in Seq(Seq(Tokens)) /\ offered \in Seq(Seq(Tokens))
  /\ Len(sequences) <= MaxU32 + 1
  /\ ids \in Seq(Nat) /\ Len(ids) = Len(sequences)
  /\ \A k \in 1 .. Len(ids) : ids[k] = k - 1

Shaped(e) ==
  /\ \E m \in Nat : StoreShaped(e.store, m)
  /\ IndexShaped(e.index, e.store.symbolCount)

InUse(e) == e.status \in {"built", "opened"}

EngineOf(e, seqs) ==
  \/ e = NoEngine
  \/ e.status = "overflow"
  \/ e.status = "built" /\ BuiltFrom(e, seqs)
  \/ e.status = "opened" /\ Shaped(e)

QueryOf(q, e) ==
  \/ q = NoQuery
  \/ e.status = "built" /\ (q.status = "encoded" => EncodedWith(q, e.vocabulary))

VerdictOf(v, e) ==
  /\ v \in {"unknown", "ok", "invalid"}
  /\ v # "unknown" => InUse(e) /\ (v = "ok" <=> EngineVerifies(e))

Usable(e, posting) ==
  /\ IsString(e.store, posting.string)
  /\ ValidSymbols(e.store, StringOf(e.store, posting.string))
  /\ posting.position < Len(StringOf(e.store, posting.string))

SearchOf(s, e) ==
  \/ s = Idle
  \/ LET list == PostingSlice(e.index, s.symbol)
     IN  /\ InUse(e)
         /\ s \in [stage : {"verifying", "done", "failed"}, symbol : 0 .. e.store.symbolCount,
                   next : Nat \ {0}]
         /\ s.next <= Len(list) + 1
         /\ s.stage = "done" => s.next = Len(list) + 1
         /\ s.stage = "failed" => s.next <= Len(list) /\ ~Usable(e, list[s.next])

EngineInv ==
  /\ BuilderInv
  /\ EngineOf(engine, sequences)
  /\ QueryOf(query, engine)
  /\ VerdictOf(verdict, engine)
  /\ SearchOf(search, engine)

LEMMA EnginesAreShaped ==
  ASSUME NEW e, NEW seqs \in Seq(Seq(Tokens)), EngineOf(e, seqs), InUse(e)
  PROVE  Shaped(e)
<1>1. CASE e.status = "opened"
  BY <1>1 DEF EngineOf, NoEngine
<1>2. CASE e.status = "built"
  <2>1. BuiltFrom(e, seqs) /\ Len(seqs) \in Nat
    BY <1>2 DEF EngineOf, NoEngine
  <2>. QED  BY <2>1 DEF BuiltFrom, Shaped
<1>. QED  BY <1>1, <1>2 DEF InUse

LEMMA EngineInitially == Init => EngineInv
<1>. SUFFICES ASSUME Init PROVE EngineInv
  OBVIOUS
<1>1. /\ sequences = <<>> /\ ids = <<>> /\ offered = <<>> /\ engine = NoEngine /\ query = NoQuery
      /\ verdict = "unknown" /\ search = Idle
  BY DEF Init, BuilderInit
<1>2. BuilderInv
  <2>1. Len(sequences) = 0 /\ 0 <= MaxU32 + 1
    BY <1>1, MaxU32Assumption
  <2>. QED  BY <1>1, <2>1 DEF BuilderInv
<1>. QED  BY <1>1, <1>2 DEF EngineInv, EngineOf, QueryOf, VerdictOf, SearchOf

(* What a builder is given is a sequence of tokens.                        *)
LEMMA OffersAreSequences ==
  ASSUME NEW n \in Int, NEW sequence \in SequencesUpTo(n)
  PROVE  sequence \in Seq(Tokens)
<1>1. PICK k \in 0 .. n : sequence \in [1 .. k -> Tokens]
  BY DEF SequencesUpTo
<1>2. k \in Nat
  OBVIOUS
<1>. QED  BY <1>1, <1>2

LEMMA AddKeeps ==
  ASSUME EngineInv, engine = NoEngine, NEW sequence \in Seq(Tokens),
         AcceptSequence(sequence) \/ RejectSequence(sequence), search = Idle, UNCHANGED use
  PROVE  EngineInv'
<1>. USE DEF EngineInv
<1>1. engine' = engine /\ query' = query /\ verdict' = verdict /\ search' = search
  BY DEF AcceptSequence, RejectSequence, use
<1>2. query = NoQuery /\ verdict = "unknown"
  BY DEF QueryOf, VerdictOf, InUse, NoEngine
<1>3. BuilderInv'
  <2>1. offered' \in Seq(Seq(Tokens))
    <3>1. offered \in Seq(Seq(Tokens)) /\ offered' = Append(offered, sequence)
      BY DEF BuilderInv, AcceptSequence, RejectSequence
    <3>2. Append(offered, sequence) \in Seq(Seq(Tokens))
      BY <3>1, AppendProperties
    <3>. QED  BY <3>1, <3>2
  <2>2. CASE AcceptSequence(sequence)
    <3>1. /\ sequences' = Append(sequences, sequence) /\ ids' = Append(ids, Len(sequences))
      BY <2>2 DEF AcceptSequence
    <3>2. /\ sequences' \in Seq(Seq(Tokens)) /\ Len(sequences') = Len(sequences) + 1
          /\ Len(sequences) \in Nat
      BY <3>1 DEF BuilderInv
    <3>3. /\ ids' \in Seq(Nat) /\ Len(ids') = Len(ids) + 1 /\ Len(ids) \in Nat
          /\ \A k \in 1 .. Len(ids) : ids'[k] = ids[k]
          /\ ids'[Len(ids) + 1] = Len(sequences)
      BY <3>1, <3>2 DEF BuilderInv
    <3>4. Len(ids) = Len(sequences) /\ \A k \in 1 .. Len(ids) : ids[k] = k - 1
      BY DEF BuilderInv
    <3>5. ASSUME NEW k \in 1 .. Len(ids') PROVE ids'[k] = k - 1
      <4>1. k \in 1 .. Len(ids) \/ k = Len(ids) + 1
        BY <3>3
      <4>. QED  BY <3>3, <3>4, <4>1
    <3>6. Len(sequences') <= MaxU32 + 1
      <4>1. Len(sequences) <= MaxU32 /\ MaxU32 \in Nat
        BY <2>2, MaxU32Assumption DEF AcceptSequence, FitsU32
      <4>. QED  BY <3>2, <4>1
    <3>. QED  BY <2>1, <3>2, <3>3, <3>4, <3>5, <3>6 DEF BuilderInv
  <2>3. CASE RejectSequence(sequence)
    BY <2>1, <2>3 DEF BuilderInv, RejectSequence
  <2>. QED  BY <2>2, <2>3
<1>. QED  BY <1>1, <1>2, <1>3 DEF EngineOf, QueryOf, VerdictOf, SearchOf

LEMMA BuildKeeps ==
  ASSUME EngineInv, Build, search = Idle, UNCHANGED use
  PROVE  EngineInv'
<1>. USE DEF EngineInv
<1>1. /\ engine = NoEngine /\ sequences' = sequences /\ ids' = ids /\ offered' = offered
      /\ query' = query /\ verdict' = verdict /\ search' = search
  BY DEF Build, use
<1>2. query = NoQuery /\ verdict = "unknown"
  BY <1>1 DEF QueryOf, VerdictOf, InUse, NoEngine
<1>3. BuilderInv'
  BY <1>1 DEF BuilderInv
<1>. DEFINE vocabulary == VocabularyOf(FlattenSeq(sequences))
            index == IndexOf(EntriesOf(StringsOf(sequences, vocabulary)), Len(vocabulary))
            store == StoreOf(StringsOf(sequences, vocabulary), Len(vocabulary))
            built == [status |-> "built", vocabulary |-> vocabulary, index |-> index, store |-> store]
<1>4. engine' = IF \A k \in DOMAIN vocabulary : IsSymbol(k - 1) THEN built
                ELSE [status |-> "overflow"]
  BY DEF Build, EntriesOf, StringsOf
<1>5. sequences \in Seq(Seq(Tokens)) /\ Len(sequences) <= MaxU32 + 1
  BY DEF BuilderInv
<1>6. EngineOf(engine', sequences')
  <2>1. CASE \A k \in DOMAIN vocabulary : IsSymbol(k - 1)
    <3>1. BuiltFrom(built, sequences)
      <4>. HIDE DEF vocabulary
      <4>1. vocabulary = VocabularyOf(FlattenSeq(sequences))
        BY DEF vocabulary
      <4>. HIDE DEF index, store
      <4>2. /\ index = IndexOf(EntriesOf(StringsOf(sequences, vocabulary)), Len(vocabulary))
            /\ store = StoreOf(StringsOf(sequences, vocabulary), Len(vocabulary))
        BY DEF index, store
      <4>. QED  BY <1>5, <2>1, <4>1, <4>2, EngineIsBuilt
    <3>2. built.status = "built"
      OBVIOUS
    <3>. HIDE DEF vocabulary, built
    <3>. QED  BY <1>1, <1>4, <2>1, <3>1, <3>2 DEF EngineOf
  <2>2. CASE ~(\A k \in DOMAIN vocabulary : IsSymbol(k - 1))
    <3>. HIDE DEF vocabulary, built
    <3>. QED  BY <1>4, <2>2 DEF EngineOf
  <2>. QED  BY <2>1, <2>2
<1>. HIDE DEF built, vocabulary
<1>. QED  BY <1>1, <1>2, <1>3, <1>6 DEF QueryOf, VerdictOf, SearchOf

LEMMA EncodeKeeps ==
  ASSUME EngineInv, engine.status = "built", NEW tokens \in Seq(Tokens), EncodeQuery(tokens),
         search = Idle, UNCHANGED use
  PROVE  EngineInv'
<1>. USE DEF EngineInv
<1>1. /\ sequences' = sequences /\ ids' = ids /\ offered' = offered /\ engine' = engine
      /\ verdict' = verdict /\ search' = search
  BY DEF EncodeQuery, use
<1>2. BuilderInv' /\ sequences \in Seq(Seq(Tokens))
  BY <1>1 DEF BuilderInv
<1>. DEFINE vocabulary == engine.vocabulary
            unknown == UnknownTokens(tokens, vocabulary)
            string == [i \in DOMAIN tokens |-> QuerySymbol(tokens[i], vocabulary, unknown)]
            encoded == [status |-> "encoded", tokens |-> tokens, unknown |-> unknown, string |-> string]
<1>3. query' = IF \A n \in DOMAIN unknown : IsSymbol(Len(vocabulary) + n - 1) THEN encoded
               ELSE [status |-> "overflow", tokens |-> tokens]
  BY DEF EncodeQuery
<1>4. vocabulary \in Seq(Tokens)
  BY <1>2 DEF EngineOf, BuiltFrom, NoEngine
<1>5. QueryOf(query', engine')
  <2>1. CASE \A n \in DOMAIN unknown : IsSymbol(Len(vocabulary) + n - 1)
    <3>1. EncodedWith(encoded, vocabulary)
      <4>1. unknown = UnknownTokens(tokens, vocabulary)
        OBVIOUS
      <4>. HIDE DEF unknown, vocabulary
      <4>2. string = [i \in DOMAIN tokens |-> QuerySymbol(tokens[i], vocabulary, unknown)]
        OBVIOUS
      <4>. HIDE DEF string
      <4>. QED  BY <1>4, <2>1, <4>1, <4>2, QueryIsEncoded
    <3>. HIDE DEF encoded, unknown
    <3>. QED  BY <1>1, <1>3, <2>1, <3>1 DEF QueryOf
  <2>2. CASE ~(\A n \in DOMAIN unknown : IsSymbol(Len(vocabulary) + n - 1))
    <3>1. query'.status = "overflow"
      <4>. HIDE DEF encoded, unknown
      <4>. QED  BY <1>3, <2>2
    <3>. HIDE DEF encoded, unknown, vocabulary
    <3>. QED  BY <1>1, <3>1 DEF QueryOf
  <2>. QED  BY <2>1, <2>2
<1>. HIDE DEF vocabulary, encoded, unknown
<1>. QED  BY <1>1, <1>2, <1>5

LEMMA OpenKeeps ==
  ASSUME EngineInv, Open
  PROVE  EngineInv'
<1>. USE DEF EngineInv
<1>1. /\ engine = NoEngine /\ sequences' = sequences /\ ids' = ids /\ offered' = offered
      /\ query' = query /\ verdict' = verdict /\ search' = search
  BY DEF Open, use
<1>2. query = NoQuery /\ verdict = "unknown" /\ search = Idle
  BY <1>1 DEF QueryOf, VerdictOf, SearchOf, InUse, NoEngine
<1>3. BuilderInv'
  BY <1>1 DEF BuilderInv
<1>4. PICK count \in SymbolCounts : \E store \in Stores(count), index \in Indexes(count) :
         engine' = [status |-> "opened", vocabulary |-> SubSeq(SetToSeq(Tokens), 1, count),
                    index |-> index, store |-> store]
  BY DEF Open
<1>5. PICK store \in Stores(count), index \in Indexes(count) :
         engine' = [status |-> "opened", vocabulary |-> SubSeq(SetToSeq(Tokens), 1, count),
                    index |-> index, store |-> store]
  BY <1>4
<1>6. /\ engine'.status = "opened" /\ engine'.index = index /\ engine'.store = store
  BY <1>5
<1>7. /\ store.symbols \in [1 .. CorpusLength -> 0 .. MaxU32]
      /\ store.offsets \in ValidOffsets(CorpusStrings, CorpusLength) /\ store.symbolCount = count
  BY DEF Stores
<1>8. /\ CorpusLength \in Nat /\ CorpusStrings \in Nat /\ MaxU32 \in Nat
      /\ count \in 0 .. MaxU32 /\ MaxPostings \in Nat
  BY SnapshotAssumption, MaxU32Assumption
<1>9. StoreShaped(store, CorpusStrings)
  <2>1. store.symbols \in [1 .. CorpusLength -> Nat]
    BY <1>7, <1>8
  <2>2. store.symbols \in Seq(Nat) /\ Len(store.symbols) = CorpusLength
    BY <1>8, <2>1
  <2>. QED  BY <1>7, <1>8, <2>2 DEF StoreShaped
<1>10. IndexShaped(index, count)
  <2>1. PICK n \in 0 .. MaxPostings :
           index \in [postings : [1 .. n -> AnyPosting], offsets : ValidOffsets(count, n)]
    BY DEF Indexes
  <2>2. AnyPosting \in SUBSET Posting
    BY SnapshotAssumption DEF AnyPosting, Posting
  <2>3. index.postings \in [1 .. n -> Posting] /\ index.offsets \in ValidOffsets(count, n) /\ n \in Nat
    BY <1>8, <2>1, <2>2
  <2>4. index.postings \in Seq(Posting) /\ Len(index.postings) = n
    BY <2>3
  <2>. QED  BY <1>8, <2>3, <2>4 DEF IndexShaped
<1>11. EngineOf(engine', sequences')
  BY <1>6, <1>7, <1>8, <1>9, <1>10 DEF EngineOf, Shaped
<1>. QED  BY <1>1, <1>2, <1>3, <1>11 DEF QueryOf, VerdictOf, SearchOf

LEMMA VerifyKeeps ==
  ASSUME EngineInv, Verify
  PROVE  EngineInv'
<1>. USE DEF EngineInv
<1>1. /\ sequences' = sequences /\ ids' = ids /\ offered' = offered /\ engine' = engine
      /\ query' = query /\ search' = search /\ search = Idle
      /\ engine.status \in {"built", "opened"}
      /\ verdict' = IF EngineVerifies(engine) THEN "ok" ELSE "invalid"
  BY DEF Verify, Ready, building
<1>2. BuilderInv'
  BY <1>1 DEF BuilderInv
<1>3. VerdictOf(verdict', engine')
  BY <1>1 DEF VerdictOf, InUse
<1>. QED  BY <1>1, <1>2, <1>3

LEMMA GenerateKeeps ==
  ASSUME EngineInv, Generate
  PROVE  EngineInv'
<1>. USE DEF EngineInv
<1>1. /\ sequences' = sequences /\ ids' = ids /\ offered' = offered /\ engine' = engine
      /\ query' = query /\ verdict' = verdict
      /\ InUse(engine)
  BY DEF Generate, Ready, building, InUse
<1>2. BuilderInv' /\ sequences \in Seq(Seq(Tokens))
  BY <1>1 DEF BuilderInv
<1>3. PICK symbol \in 0 .. engine.store.symbolCount :
         search' = [stage |-> "verifying", symbol |-> symbol, next |-> 1]
  BY DEF Generate
<1>4. Len(PostingSlice(engine.index, symbol)) \in Nat
  <2>1. IndexShaped(engine.index, engine.store.symbolCount) /\ symbol \in Nat
    BY <1>1, <1>2, <1>3, EnginesAreShaped DEF Shaped
  <2>2. symbol \in 0 .. (engine.store.symbolCount - 1) \/ symbol >= engine.store.symbolCount
    BY <2>1 DEF IndexShaped
  <2>3. CASE symbol \in 0 .. (engine.store.symbolCount - 1)
    <3>1. PostingSlice(engine.index, symbol) \in Seq(Posting)
      BY <2>1, <2>3, ListsAreCut
    <3>. QED  BY <3>1
  <2>4. CASE symbol >= engine.store.symbolCount
    <3>1. PostingSlice(engine.index, symbol) = <<>>
      BY <2>1, <2>4, ListsAreCut
    <3>. QED  BY <3>1
  <2>. QED  BY <2>2, <2>3, <2>4
<1>5. SearchOf(search', engine')
  <2>. DEFINE s == [stage |-> "verifying", symbol |-> symbol, next |-> 1]
  <2>1. /\ s.stage = "verifying" /\ s.symbol = symbol /\ s.next = 1
        /\ s \in [stage : {"verifying", "done", "failed"}, symbol : 0 .. engine.store.symbolCount,
                  next : Nat \ {0}]
    OBVIOUS
  <2>2. search' = s
    BY <1>3
  <2>. HIDE DEF s
  <2>3. SearchOf(s, engine)
    BY <1>1, <1>4, <2>1 DEF SearchOf
  <2>. QED  BY <1>1, <2>2, <2>3
<1>. QED  BY <1>1, <1>2, <1>5

LEMMA CandidateKeeps ==
  ASSUME EngineInv, UseCandidate
  PROVE  EngineInv'
<1>. USE DEF EngineInv
<1>1. /\ sequences' = sequences /\ ids' = ids /\ offered' = offered /\ engine' = engine
      /\ query' = query /\ verdict' = verdict /\ search.stage = "verifying"
  BY DEF UseCandidate, building
<1>2. BuilderInv' /\ sequences \in Seq(Seq(Tokens))
  BY <1>1 DEF BuilderInv
<1>. DEFINE list == PostingSlice(engine.index, search.symbol)
<1>3. /\ InUse(engine)
      /\ search \in [stage : {"verifying", "done", "failed"}, symbol : 0 .. engine.store.symbolCount,
                     next : Nat \ {0}]
      /\ search.next <= Len(list) + 1
  BY <1>1 DEF SearchOf, Idle
<1>4. Len(list) \in Nat
  <2>1. IndexShaped(engine.index, engine.store.symbolCount) /\ search.symbol \in 0 .. engine.store.symbolCount
    BY <1>2, <1>3, EnginesAreShaped DEF Shaped
  <2>2. /\ search.symbol \in Nat
        /\ search.symbol \in 0 .. (engine.store.symbolCount - 1) \/ search.symbol >= engine.store.symbolCount
    BY <2>1 DEF IndexShaped
  <2>3. CASE search.symbol \in 0 .. (engine.store.symbolCount - 1)
    <3>1. list \in Seq(Posting)
      BY <2>1, <2>3, ListsAreCut
    <3>. QED  BY <3>1
  <2>4. CASE search.symbol >= engine.store.symbolCount
    <3>1. list = <<>>
      BY <2>1, <2>2, <2>4, ListsAreCut
    <3>. QED  BY <3>1
  <2>. QED  BY <2>2, <2>3, <2>4
<1>5. search' = IF search.next > Len(list) THEN [search EXCEPT !.stage = "done"]
                ELSE IF Usable(engine, list[search.next]) THEN [search EXCEPT !.next = @ + 1]
                ELSE [search EXCEPT !.stage = "failed"]
  BY DEF UseCandidate, CanUse, Usable
<1>6. SearchOf(search', engine)
  <2>. DEFINE s == search
              States == [stage : {"verifying", "done", "failed"}, symbol : 0 .. engine.store.symbolCount,
                         next : Nat \ {0}]
              Use(k) == Usable(engine, list[k])
  <2>. HIDE DEF list, Use
  <2>1. CASE search.next > Len(list)
    <3>1. /\ search' \in States /\ search'.stage = "done" /\ search'.symbol = search.symbol
          /\ search'.next = search.next
      BY <1>3, <1>5, <2>1
    <3>2. search'.next = Len(list) + 1
      BY <1>3, <1>4, <2>1, <3>1
    <3>. HIDE DEF States
    <3>. QED  BY <1>3, <3>1, <3>2 DEF SearchOf, States, list
  <2>2. CASE ~(search.next > Len(list)) /\ Use(search.next)
    <3>1. /\ search' \in States /\ search'.stage = "verifying" /\ search'.symbol = search.symbol
          /\ search'.next = search.next + 1
      BY <1>1, <1>3, <1>5, <2>2 DEF Use
    <3>2. search'.next <= Len(list) + 1
      BY <1>3, <1>4, <2>2, <3>1
    <3>. HIDE DEF States
    <3>. QED  BY <1>3, <3>1, <3>2 DEF SearchOf, States, list, Use
  <2>3. CASE ~(search.next > Len(list)) /\ ~Use(search.next)
    <3>1. /\ search' \in States /\ search'.stage = "failed" /\ search'.symbol = search.symbol
          /\ search'.next = search.next
      BY <1>3, <1>5, <2>3 DEF Use
    <3>2. search'.next <= Len(list) /\ ~Use(search'.next)
      BY <1>3, <1>4, <2>3, <3>1
    <3>. HIDE DEF States
    <3>. QED  BY <1>3, <3>1, <3>2 DEF SearchOf, States, list, Use
  <2>. QED  BY <2>1, <2>2, <2>3
<1>. QED  BY <1>1, <1>2, <1>6

LEMMA EngineStep == EngineInv /\ [Next]_vars => EngineInv'
<1>. SUFFICES ASSUME EngineInv, [Next]_vars PROVE EngineInv'
  OBVIOUS
<1>1. ASSUME BuilderNext, search = Idle, UNCHANGED use PROVE EngineInv'
  <2>1. ASSUME engine = NoEngine, NEW sequence \in Offers(MaxTokens),
               AcceptSequence(sequence) \/ RejectSequence(sequence)
        PROVE  EngineInv'
    <3>1. Len(FlattenSeq(offered)) \in Nat
      <4>1. FlattenSeq(offered) \in Seq(Tokens)
        BY FlattenType DEF EngineInv, BuilderInv
      <4>. QED  BY <4>1
    <3>2. MaxTokens - Len(FlattenSeq(offered)) \in Int
      BY <3>1, BuilderAssumption
    <3>3. sequence \in Seq(Tokens)
      BY <2>1, <3>2, OffersAreSequences DEF Offers
    <3>. QED  BY <1>1, <2>1, <3>3, AddKeeps
  <2>2. ASSUME engine.status = "built", NEW tokens \in SequencesUpTo(MaxQuery), EncodeQuery(tokens)
        PROVE  EngineInv'
    <3>1. tokens \in Seq(Tokens)
      BY BuilderAssumption, OffersAreSequences
    <3>. QED  BY <1>1, <2>2, <3>1, EncodeKeeps
  <2>. QED  BY <1>1, <2>1, <2>2, BuildKeeps DEF BuilderNext
<1>2. ASSUME UNCHANGED vars PROVE EngineInv'
  <2>1. /\ sequences' = sequences /\ ids' = ids /\ offered' = offered /\ engine' = engine
        /\ query' = query /\ verdict' = verdict /\ search' = search
    BY <1>2 DEF vars, building, use
  <2>. QED  BY <2>1 DEF EngineInv, BuilderInv
<1>. QED  BY <1>1, <1>2, OpenKeeps, VerifyKeeps, GenerateKeeps, CandidateKeeps DEF Next

(* The invariant the theorems below rest on.                               *)
THEOREM EngineIsInvariant == Spec => []EngineInv
BY EngineInitially, EngineStep, PTL DEF Spec

------------------------------------------------------------------------------
(* The runs' invariants follow from it, state by state.                    *)
LEMMA IdentifiersFollow == EngineInv => IdentifiersAreStable
<1>. SUFFICES ASSUME EngineInv PROVE IdentifiersAreStable
  OBVIOUS
<1>1. BuilderInv /\ EngineOf(engine, sequences)
  BY DEF EngineInv
<1>2. /\ sequences \in Seq(Seq(Tokens)) /\ ids \in Seq(Nat) /\ Len(ids) = Len(sequences)
      /\ \A k \in 1 .. Len(ids) : ids[k] = k - 1
  BY <1>1 DEF BuilderInv
<1>3. ASSUME engine.status = "built", NEW k \in DOMAIN ids
      PROVE  [i \in DOMAIN sequences[k] |-> StringOf(engine.store, ids[k])[i] + 1]
               = [i \in DOMAIN sequences[k] |->
                    CHOOSE s \in DOMAIN engine.vocabulary : engine.vocabulary[s] = sequences[k][i]]
  <2>. DEFINE vocabulary == engine.vocabulary
              string == StringOf(engine.store, ids[k])
              t == sequences[k]
              Place(i) == CHOOSE s \in DOMAIN vocabulary : vocabulary[s] = t[i]
  <2>1. BuiltFrom(engine, sequences)
    BY <1>1, <1>3 DEF EngineOf, NoEngine
  <2>2. k \in 1 .. Len(sequences) /\ ids[k] = k - 1 /\ DOMAIN t = 1 .. Len(t)
    BY <1>2
  <2>3. string = [i \in 1 .. Len(t) |-> SymbolOf(vocabulary, t[i])]
    BY <2>1, <2>2 DEF BuiltFrom
  <2>4. ASSUME NEW i \in DOMAIN t PROVE string[i] + 1 = Place(i)
    <3>1. t[i] \in Range(vocabulary)
      <4>1. t[i] \in Range(FlattenSeq(sequences))
        BY <1>2, <2>2, FlattenRange
      <4>. QED  BY <2>1, <4>1 DEF BuiltFrom
    <3>2. string[i] = SymbolOf(vocabulary, t[i])
      <4>. HIDE DEF string, t, vocabulary
      <4>. QED  BY <2>2, <2>3
    <3>3. vocabulary \in Seq(Tokens)
      BY <2>1 DEF BuiltFrom
    <3>. HIDE DEF string, vocabulary, t
    <3>4. Place(i) \in 1 .. Len(vocabulary)
      BY <3>1, <3>3 DEF Range
    <3>5. SymbolOf(vocabulary, t[i]) = Place(i) - 1
      BY <3>1 DEF SymbolOf
    <3>. QED  BY <3>2, <3>4, <3>5
  <2>. HIDE DEF string, Place
  <2>5. [i \in DOMAIN t |-> string[i] + 1] = [i \in DOMAIN t |-> Place(i)]
    BY <2>4
  <2>. QED  BY <2>5 DEF string, Place
<1>. QED  BY <1>2, <1>3 DEF IdentifiersAreStable

LEMMA BuiltEnginesFollow == EngineInv => BuiltEngineIsExact
<1>. SUFFICES ASSUME EngineInv, engine.status = "built"
              PROVE  /\ EngineVerifies(engine)
                     /\ IsInvertedIndex(engine.index, engine.store)
                     /\ AlphabetOf(engine.index) = 0 .. (Len(engine.vocabulary) - 1)
  BY DEF BuiltEngineIsExact
<1>1. BuiltFrom(engine, sequences)
  BY DEF EngineInv, EngineOf, NoEngine
<1>2. /\ StoreShaped(engine.store, Len(sequences)) /\ StoreVerifies(engine.store)
      /\ IndexShaped(engine.index, Len(engine.vocabulary))
      /\ engine.store.symbolCount = Len(engine.vocabulary)
      /\ IsInvertedIndex(engine.index, engine.store)
      /\ AlphabetOf(engine.index) = 0 .. (Len(engine.vocabulary) - 1)
  BY <1>1 DEF BuiltFrom
<1>3. IndexVerifies(engine.index, engine.store)
  BY <1>2, VerifyIsExact
<1>. QED  BY <1>2, <1>3 DEF EngineVerifies

LEMMA QueriesFollow == EngineInv => QueryKeepsItsTokens
<1>. SUFFICES ASSUME EngineInv, query.status = "encoded", NEW i \in DOMAIN query.tokens
              PROVE  /\ query.string[i] # UNKNOWN
                     /\ TokenOf(query.string[i]) = query.tokens[i]
                     /\ query.string[i] \in AlphabetOf(engine.index)
                          <=> query.tokens[i] \in Range(FlattenSeq(sequences))
                     /\ \A j \in DOMAIN query.tokens :
                           query.string[i] = query.string[j] <=> query.tokens[i] = query.tokens[j]
  BY DEF QueryKeepsItsTokens
<1>1. EngineOf(engine, sequences) /\ QueryOf(query, engine)
  BY DEF EngineInv
<1>2. engine.status = "built" /\ EncodedWith(query, engine.vocabulary)
  BY <1>1 DEF QueryOf, NoQuery
<1>3. BuiltFrom(engine, sequences)
  BY <1>1, <1>2 DEF EngineOf, NoEngine
<1>4. /\ engine.vocabulary \in Seq(Tokens) /\ Distinct(engine.vocabulary)
      /\ Len(engine.vocabulary) <= MaxU32
      /\ Range(engine.vocabulary) = Range(FlattenSeq(sequences))
      /\ AlphabetOf(engine.index) = 0 .. (Len(engine.vocabulary) - 1)
  BY <1>3 DEF BuiltFrom
<1>5. DOMAIN query.tokens = 1 .. Len(query.tokens)
  BY <1>2 DEF EncodedWith
<1>6. \A j \in DOMAIN query.tokens :
         /\ query.string[j] # UNKNOWN
         /\ TokenOf(query.string[j]) = query.tokens[j]
         /\ query.string[j] \in 0 .. (Len(engine.vocabulary) - 1)
              <=> query.tokens[j] \in Range(engine.vocabulary)
  BY <1>2, <1>4, <1>5, QueriesAreDecoded DEF TokenOf, Decoded
<1>7. ASSUME NEW j \in DOMAIN query.tokens
      PROVE  query.string[i] = query.string[j] <=> query.tokens[i] = query.tokens[j]
  <2>1. query.string = [k \in 1 .. Len(query.tokens) |->
                          QuerySymbol(query.tokens[k], engine.vocabulary, query.unknown)]
    BY <1>2 DEF EncodedWith
  <2>2. /\ query.string[i] = QuerySymbol(query.tokens[i], engine.vocabulary, query.unknown)
        /\ query.string[j] = QuerySymbol(query.tokens[j], engine.vocabulary, query.unknown)
    BY <1>5, <2>1
  <2>3. query.tokens[i] = query.tokens[j] => query.string[i] = query.string[j]
    BY <2>2
  <2>4. query.string[i] = query.string[j] => query.tokens[i] = query.tokens[j]
    BY <1>6
  <2>. QED  BY <2>3, <2>4
<1>. QED  BY <1>4, <1>6, <1>7

LEMMA VerdictsFollow == EngineInv => VerifiedIsExact
<1>. SUFFICES ASSUME EngineInv PROVE VerifiedIsExact
  OBVIOUS
<1>. DEFINE store == engine.store
            index == engine.index
            count == engine.store.symbolCount
            list == PostingSlice(index, search.symbol)
<1>1. /\ sequences \in Seq(Seq(Tokens)) /\ EngineOf(engine, sequences)
      /\ VerdictOf(verdict, engine) /\ SearchOf(search, engine)
  BY DEF EngineInv, BuilderInv
<1>2. ASSUME InUse(engine)
      PROVE  /\ \E m \in Nat : StoreShaped(store, m)
             /\ IndexShaped(index, count)
  BY <1>1, <1>2, EnginesAreShaped DEF Shaped
<1>3. ASSUME verdict = "ok"
      PROVE  /\ IsInvertedIndex(index, store)
             /\ search.stage # "failed"
             /\ search.stage = "done" =>
                  Used = IF search.symbol < count THEN OccurrencesOf(store, search.symbol) ELSE {}
  <2>1. InUse(engine) /\ StoreVerifies(store) /\ IndexVerifies(index, store)
    BY <1>1, <1>3 DEF VerdictOf, EngineVerifies
  <2>2. PICK m \in Nat : StoreShaped(store, m)
    BY <1>2, <2>1
  <2>3. IndexShaped(index, count)
    BY <1>2, <2>1
  <2>. HIDE DEF store, index, count
  <2>4. count = store.symbolCount
    BY DEF store, count
  <2>5. IsInvertedIndex(index, store) /\ \A s \in 0 .. (count - 1) : ListIsExact(index, store, s)
    BY <2>1, <2>2, <2>3, <2>4, VerifyIsExact, InvertedByLists
  <2>6. SUFFICES ASSUME search # Idle
                 PROVE  /\ search.stage # "failed"
                        /\ search.stage = "done" =>
                             Used = IF search.symbol < count
                                    THEN OccurrencesOf(store, search.symbol) ELSE {}
    <3>1. search = Idle => search.stage = "idle"
      BY DEF Idle
    <3>. QED  BY <2>5, <3>1
  <2>7. /\ search \in [stage : {"verifying", "done", "failed"}, symbol : 0 .. count, next : Nat \ {0}]
        /\ search.stage = "done" => search.next = Len(list) + 1
        /\ search.stage = "failed" => search.next <= Len(list) /\ ~Usable(engine, list[search.next])
    BY <1>1, <2>6 DEF SearchOf, count, index
  <2>8. search.symbol \in 0 .. count /\ search.symbol \in Nat /\ search.next \in Nat \ {0} /\ count \in Nat
    BY <2>3, <2>7 DEF IndexShaped
  <2>9. CASE search.symbol < count
    <3>1. search.symbol \in 0 .. (count - 1)
      BY <2>8, <2>9
    <3>2. list \in Seq(Posting) /\ Len(list) \in Nat
      BY <2>3, <3>1, ListsAreCut
    <3>3. \A k \in 1 .. Len(list) : PostingMatches(store, search.symbol, list[k])
      <4>1. IndexedSymbols(index) = 0 .. (count - 1)
        BY <2>3, ListsAreCut
      <4>2. \A k \in DOMAIN list : PostingMatches(store, search.symbol, list[k])
        BY <2>1, <3>1, <4>1 DEF IndexVerifies
      <4>. HIDE DEF list
      <4>. QED  BY <3>2, <4>2
    <3>. HIDE DEF list
    <3>4. \A k \in 1 .. Len(list) : Usable(engine, list[k])
      <4>. TAKE k \in 1 .. Len(list)
      <4>1. /\ list[k] \in Posting /\ IsString(store, list[k].string)
            /\ list[k].position < Len(StringOf(store, list[k].string))
        BY <3>2, <3>3 DEF PostingMatches
      <4>2. list[k].string \in Ids(store)
        <5>1. list[k].string \in Nat
          BY <4>1 DEF Posting
        <5>. QED  BY <2>2, <4>1, <5>1, StringsAreCut
      <4>. QED  BY <2>1, <4>1, <4>2 DEF StoreVerifies, Usable, store
    <3>5. search.stage # "failed"
      BY <2>7, <2>8, <3>2, <3>4
    <3>6. ASSUME search.stage = "done" PROVE Used = OccurrencesOf(store, search.symbol)
      <4>1. OccurrencesOf(store, search.symbol) = {list[k] : k \in 1 .. Len(list)}
        BY <2>5, <3>1 DEF ListIsExact, list
      <4>2. Used = {list[k] : k \in 1 .. (search.next - 1)}
        BY DEF Used, list, index
      <4>3. search.next - 1 = Len(list)
        BY <2>7, <3>2, <3>6
      <4>. QED  BY <4>1, <4>2, <4>3
    <3>. QED  BY <2>9, <3>5, <3>6
  <2>10. CASE ~(search.symbol < count)
    <3>1. search.symbol >= count
      BY <2>8, <2>10
    <3>2. list = <<>>
      BY <2>3, <2>8, <3>1, ListsAreCut
    <3>. HIDE DEF list
    <3>3. Len(list) = 0
      BY <3>2
    <3>4. search.stage # "failed"
      BY <2>7, <2>8, <3>3
    <3>5. ASSUME search.stage = "done" PROVE Used = {}
      <4>1. Used = {list[k] : k \in 1 .. (search.next - 1)}
        BY DEF Used, list, index
      <4>2. search.next - 1 = 0
        BY <2>7, <3>3, <3>5
      <4>. QED  BY <4>1, <4>2
    <3>. QED  BY <2>10, <3>4, <3>5
  <2>. QED  BY <2>9, <2>10
<1>4. ASSUME verdict = "invalid" PROVE ~IsInvertedIndex(index, store) \/ ~StoreVerifies(store)
  <2>1. InUse(engine) /\ ~(StoreVerifies(store) /\ IndexVerifies(index, store))
    BY <1>1, <1>4 DEF VerdictOf, EngineVerifies
  <2>2. PICK m \in Nat : StoreShaped(store, m)
    BY <1>2, <2>1
  <2>3. IndexShaped(index, count) /\ store.symbolCount = count
    BY <1>2, <2>1
  <2>. HIDE DEF store, index, count
  <2>. QED  BY <2>1, <2>2, <2>3, VerifyIsExact
<1>. QED  BY <1>3, <1>4 DEF VerifiedIsExact

(* SearchEngineBuilder: a sequence keeps the identifier it was given, and  *)
(* refused sequences leave no trace in the engine.                         *)
THEOREM SequencesKeepTheirIds == Spec => []IdentifiersAreStable
BY EngineIsInvariant, IdentifiersFollow, PTL

(* A built engine is what a search takes for granted: its posting lists    *)
(* are the occurrences of its symbols, and it passes its own verification. *)
THEOREM BuildIsExact == Spec => []BuiltEngineIsExact
BY EngineIsInvariant, BuiltEnginesFollow, PTL

(* EncodedQuery and EncodedCosts: the symbols of a query stand for its     *)
(* tokens, one for one, also the tokens the corpus does not have.          *)
THEOREM QueriesKeepTheirTokens == Spec => []QueryKeepsItsTokens
BY EngineIsInvariant, QueriesFollow, PTL

(* SearchEngine::verify accepts the inverted indexes of valid stores and   *)
(* nothing else, and no search on an accepted engine fails.                *)
THEOREM VerifyIsSoundAndComplete == Spec => []VerifiedIsExact
BY EngineIsInvariant, VerdictsFollow, PTL
==============================================================================
