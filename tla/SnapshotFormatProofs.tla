------------------------ MODULE SnapshotFormatProofs -------------------------
(***************************************************************************)
(* Proofs about the format of the snapshot files: what is written is       *)
(* accepted, and what is accepted can be read, whatever the sizes of the   *)
(* header, the table and the words, and whatever the files hold.           *)
(***************************************************************************)
EXTENDS SnapshotFormat, CommonLemmas

(***************************************************************************)
(* 1. Arithmetic of places.                                                *)
(***************************************************************************)

LEMMA Divides ==
  ASSUME NEW a \in Nat \ {0}, NEW v \in Nat
  PROVE  /\ v \div a \in Nat /\ v % a \in Nat /\ v % a < a
         /\ v = a * (v \div a) + (v % a)
OBVIOUS

LEMMA QuotientIsUnique ==
  ASSUME NEW a \in Nat \ {0}, NEW q \in Nat, NEW p \in Nat, NEW r \in Nat, r < a,
         a * q = a * p + r
  PROVE  r = 0
<1>1. CASE q <= p
  <2>1. a * q <= a * p
    BY <1>1
  <2>. QED  BY <2>1
<1>2. CASE q > p
  <2>1. q >= p + 1
    BY <1>2
  <2>2. a * q >= a * (p + 1)
    BY <2>1
  <2>3. a * (p + 1) = a * p + a
    OBVIOUS
  <2>. QED  BY <2>2, <2>3
<1>. QED  BY <1>1, <1>2

LEMMA MultiplesDivide ==
  ASSUME NEW a \in Nat \ {0}, NEW q \in Nat
  PROVE  (a * q) % a = 0
<1>. DEFINE v == a * q
<1>1. v \in Nat
  OBVIOUS
<1>2. /\ v \div a \in Nat /\ v % a \in Nat /\ v % a < a
      /\ v = a * (v \div a) + (v % a)
  BY <1>1, Divides
<1>. DEFINE p == v \div a
            r == v % a
<1>3. p \in Nat /\ r \in Nat /\ r < a /\ a * q = a * p + r
  BY <1>2
<1>. HIDE DEF p, r
<1>4. r = 0
  BY <1>3, QuotientIsUnique
<1>. QED  BY <1>4 DEF r

(* The next multiple of an alignment is one, and does not come before.     *)
LEMMA AlignsUp ==
  ASSUME NEW a \in Nat \ {0}, NEW v \in Nat
  PROVE  AlignUp(v, a) \in Nat /\ v <= AlignUp(v, a) /\ AlignUp(v, a) % a = 0
<1>. DEFINE q == v \div a
            r == v % a
<1>1. q \in Nat /\ r \in Nat /\ r < a /\ v = a * q + r
  BY Divides
<1>2. AlignUp(v, a) = v + ((a - r) % a)
  BY DEF AlignUp
<1>. HIDE DEF q, r
<1>3. CASE r = 0
  <2>1. a - r = a * 1 /\ (a * 1) % a = 0
    BY <1>1, <1>3, MultiplesDivide
  <2>2. AlignUp(v, a) = a * q
    BY <1>1, <1>2, <1>3, <2>1
  <2>. QED  BY <1>1, <1>3, <2>2, MultiplesDivide
<1>4. CASE r # 0
  <2>1. a - r \in 0 .. (a - 1)
    BY <1>1, <1>4
  <2>2. (a - r) % a = a - r
    BY <2>1
  <2>3. AlignUp(v, a) = a * (q + 1)
    BY <1>1, <1>2, <2>2
  <2>4. (a * (q + 1)) % a = 0
    BY <1>1, MultiplesDivide
  <2>5. a * (q + 1) \in Nat /\ v <= a * (q + 1)
    BY <1>1
  <2>. QED  BY <2>3, <2>4, <2>5
<1>. QED  BY <1>3, <1>4

(***************************************************************************)
(* 2. The sections of each kind of file.                                   *)
(***************************************************************************)

KindsOfSections ==
  {"vocabulary offsets", "vocabulary blob", "sequence offsets", "corpus symbols",
   "posting offsets", "postings", "embedding offsets", "embedding blob", "embeddings",
   "cost metadata"}

LEMMA SectionsListed ==
  /\ SectionsOf("engine") =
       <<"vocabulary offsets", "vocabulary blob", "sequence offsets", "corpus symbols",
         "posting offsets", "postings">>
  /\ SectionsOf("embedding store") =
       <<"embedding offsets", "embedding blob", "embeddings", "cost metadata">>
  /\ SectionsOf("levenshtein costs") = <<>>
  /\ SectionsOf("custom costs") = <<"cost metadata">>
  /\ SectionsOf("cosine costs") = <<"cost metadata">>
BY DEF SectionsOf

LEMMA RangesListed ==
  /\ Range(SectionsOf("engine")) =
       {"vocabulary offsets", "vocabulary blob", "sequence offsets", "corpus symbols",
        "posting offsets", "postings"}
  /\ Range(SectionsOf("embedding store")) =
       {"embedding offsets", "embedding blob", "embeddings", "cost metadata"}
  /\ Range(SectionsOf("levenshtein costs")) = {}
  /\ Range(SectionsOf("custom costs")) = {"cost metadata"}
  /\ Range(SectionsOf("cosine costs")) = {"cost metadata"}
<1>1. Range(SectionsOf("engine")) =
       {"vocabulary offsets", "vocabulary blob", "sequence offsets", "corpus symbols",
        "posting offsets", "postings"}
  <2>. DEFINE s == <<"vocabulary offsets", "vocabulary blob", "sequence offsets",
                     "corpus symbols", "posting offsets", "postings">>
  <2>1. DOMAIN s = {1, 2, 3, 4, 5, 6}
    OBVIOUS
  <2>2. /\ s[1] = "vocabulary offsets" /\ s[2] = "vocabulary blob"
        /\ s[3] = "sequence offsets" /\ s[4] = "corpus symbols"
        /\ s[5] = "posting offsets" /\ s[6] = "postings"
    OBVIOUS
  <2>. HIDE DEF s
  <2>3. Range(s) = {s[1], s[2], s[3], s[4], s[5], s[6]}
    BY <2>1 DEF Range
  <2>. QED  BY <2>2, <2>3, SectionsListed DEF s
<1>2. Range(SectionsOf("embedding store")) =
       {"embedding offsets", "embedding blob", "embeddings", "cost metadata"}
  <2>. DEFINE s == <<"embedding offsets", "embedding blob", "embeddings", "cost metadata">>
  <2>1. DOMAIN s = {1, 2, 3, 4}
    OBVIOUS
  <2>2. /\ s[1] = "embedding offsets" /\ s[2] = "embedding blob"
        /\ s[3] = "embeddings" /\ s[4] = "cost metadata"
    OBVIOUS
  <2>. HIDE DEF s
  <2>3. Range(s) = {s[1], s[2], s[3], s[4]}
    BY <2>1 DEF Range
  <2>. QED  BY <2>2, <2>3, SectionsListed DEF s
<1>3. Range(<<>>) = {}
  BY DEF Range
<1>4. Range(<<"cost metadata">>) = {"cost metadata"}
  <2>. DEFINE s == <<"cost metadata">>
  <2>1. DOMAIN s = {1} /\ s[1] = "cost metadata"
    OBVIOUS
  <2>. HIDE DEF s
  <2>2. Range(s) = {s[1]}
    BY <2>1 DEF Range
  <2>3. Range(s) = {"cost metadata"}
    BY <2>1, <2>2
  <2>. QED  BY <2>3 DEF s
<1>5. /\ Range(SectionsOf("levenshtein costs")) = Range(<<>>)
      /\ Range(SectionsOf("custom costs")) = Range(<<"cost metadata">>)
      /\ Range(SectionsOf("cosine costs")) = Range(<<"cost metadata">>)
  BY SectionsListed, ZenonT(30)
<1>6. /\ Range(SectionsOf("levenshtein costs")) = {}
      /\ Range(SectionsOf("custom costs")) = {"cost metadata"}
      /\ Range(SectionsOf("cosine costs")) = {"cost metadata"}
  BY <1>3, <1>4, <1>5
<1>. QED  BY <1>1, <1>2, <1>6

LEMMA SectionKindsListed == SectionKinds = KindsOfSections
<1>1. SectionKinds = UNION {Range(SectionsOf(kind)) : kind \in FileKinds}
  BY DEF SectionKinds
<1>2. \A x : x \in SectionKinds <=>
                \/ x \in Range(SectionsOf("engine")) \/ x \in Range(SectionsOf("embedding store"))
                \/ x \in Range(SectionsOf("levenshtein costs")) \/ x \in Range(SectionsOf("custom costs"))
                \/ x \in Range(SectionsOf("cosine costs"))
  BY <1>1, ZenonT(30) DEF FileKinds
<1>3. \A x : x \in SectionKinds <=> x \in KindsOfSections
  BY <1>2, RangesListed, ZenonT(30) DEF KindsOfSections
<1>. QED  BY <1>3

LEMMA FunctionIsSeq ==
  ASSUME NEW S, NEW n \in Nat, NEW f \in [1 .. n -> S]
  PROVE  f \in Seq(S) /\ Len(f) = n
OBVIOUS

Distinct(s) == \A i, j \in 1 .. Len(s) : s[i] = s[j] => i = j

(* A file has each of its sections once. *)
LEMMA SectionsDiffer ==
  ASSUME NEW kind \in FileKinds
  PROVE  SectionsOf(kind) \in Seq(SectionKinds) /\ Distinct(SectionsOf(kind))
<1>. DEFINE engine == <<"vocabulary offsets", "vocabulary blob", "sequence offsets",
                        "corpus symbols", "posting offsets", "postings">>
            store  == <<"embedding offsets", "embedding blob", "embeddings", "cost metadata">>
            costs  == <<"cost metadata">>
<1>1. engine \in Seq(SectionKinds) /\ Distinct(engine)
  <2>1. engine = [k \in 1 .. 6 |-> engine[k]]
    OBVIOUS
  <2>2. /\ engine[1] = "vocabulary offsets" /\ engine[2] = "vocabulary blob"
        /\ engine[3] = "sequence offsets" /\ engine[4] = "corpus symbols"
        /\ engine[5] = "posting offsets" /\ engine[6] = "postings"
    OBVIOUS
  <2>3. \A k \in 1 .. 6 : k \in {1, 2, 3, 4, 5, 6}
    OBVIOUS
  <2>. HIDE DEF engine
  <2>4. \A k \in 1 .. 6 : engine[k] \in SectionKinds
    BY <2>2, <2>3, SectionKindsListed DEF KindsOfSections
  <2>5. engine \in [1 .. 6 -> SectionKinds]
    BY <2>1, <2>4
  <2>6. engine \in Seq(SectionKinds) /\ Len(engine) = 6
    <3>1. 6 \in Nat
      OBVIOUS
    <3>. QED  BY <2>5, <3>1, FunctionIsSeq, ZenonT(30)
  <2>7. \A i, j \in 1 .. 6 : engine[i] = engine[j] => i = j
    BY <2>2, <2>3
  <2>. QED  BY <2>6, <2>7 DEF Distinct
<1>2. store \in Seq(SectionKinds) /\ Distinct(store)
  <2>1. store = [k \in 1 .. 4 |-> store[k]]
    OBVIOUS
  <2>2. /\ store[1] = "embedding offsets" /\ store[2] = "embedding blob"
        /\ store[3] = "embeddings" /\ store[4] = "cost metadata"
    OBVIOUS
  <2>3. \A k \in 1 .. 4 : k \in {1, 2, 3, 4}
    OBVIOUS
  <2>. HIDE DEF store
  <2>4. \A k \in 1 .. 4 : store[k] \in SectionKinds
    BY <2>2, <2>3, SectionKindsListed DEF KindsOfSections
  <2>5. store \in [1 .. 4 -> SectionKinds]
    BY <2>1, <2>4
  <2>6. store \in Seq(SectionKinds) /\ Len(store) = 4
    <3>1. 4 \in Nat
      OBVIOUS
    <3>. QED  BY <2>5, <3>1, FunctionIsSeq, ZenonT(30)
  <2>7. \A i, j \in 1 .. 4 : store[i] = store[j] => i = j
    BY <2>2, <2>3
  <2>. QED  BY <2>6, <2>7 DEF Distinct
<1>3. costs \in Seq(SectionKinds) /\ Distinct(costs)
  <2>1. costs = [k \in 1 .. 1 |-> costs[k]]
    OBVIOUS
  <2>2. /\ costs[1] = "cost metadata"
    OBVIOUS
  <2>3. \A k \in 1 .. 1 : k \in {1}
    OBVIOUS
  <2>. HIDE DEF costs
  <2>4. \A k \in 1 .. 1 : costs[k] \in SectionKinds
    BY <2>2, <2>3, SectionKindsListed DEF KindsOfSections
  <2>5. costs \in [1 .. 1 -> SectionKinds]
    BY <2>1, <2>4
  <2>6. costs \in Seq(SectionKinds) /\ Len(costs) = 1
    BY <2>5, FunctionIsSeq
  <2>7. \A i, j \in 1 .. 1 : costs[i] = costs[j] => i = j
    BY <2>2, <2>3
  <2>. QED  BY <2>6, <2>7 DEF Distinct
<1>4. <<>> \in Seq(SectionKinds) /\ Distinct(<<>>)
  BY DEF Distinct
<1>5. SectionsOf(kind) \in {engine, store, costs, <<>>}
  BY SectionsListed DEF FileKinds
<1>. HIDE DEF engine, store, costs
<1>. QED  BY <1>1, <1>2, <1>3, <1>4, <1>5

LEMMA SizesAreNaturals ==
  /\ HalfWord \in Nat \ {0} /\ HalfWord <= Word
  /\ Word \in Nat \ {0} /\ HeaderLen \in Nat \ {0} /\ EntryLen \in Nat \ {0}
  /\ \A kind \in FileKinds : (IF HasTokens(kind) THEN CodecLen ELSE NoCodecLen) \in Nat
  /\ \A kind \in SectionKinds : ElementSize(kind) \in Nat \ {0} /\ Alignment(kind) \in Nat \ {0}
<1>1. HalfWord \in Nat \ {0} /\ HalfWord <= Word
  <2>1. Word = 2 * (Word \div 2) + (Word % 2)
    BY SizesAssumption, Divides
  <2>. QED  BY <2>1, SizesAssumption DEF HalfWord
<1>2. /\ Word \in Nat \ {0} /\ HeaderLen \in Nat \ {0} /\ EntryLen \in Nat \ {0}
      /\ \A kind \in FileKinds : (IF HasTokens(kind) THEN CodecLen ELSE NoCodecLen) \in Nat
  BY SizesAssumption
<1>3. \A kind \in SectionKinds : ElementSize(kind) \in Nat \ {0}
  <2>. HIDE DEF HalfWord
  <2>. QED  BY <1>1, <1>2 DEF ElementSize
<1>4. \A kind \in SectionKinds : Alignment(kind) \in Nat \ {0}
  <2>. HIDE DEF HalfWord
  <2>1. \A kind \in SectionKinds : Alignment(kind) \in {1, HalfWord, Word}
    BY DEF Alignment
  <2>. QED  BY <1>1, <1>2, <2>1
<1>. QED  BY <1>1, <1>2, <1>3, <1>4

(***************************************************************************)
(* 3. What is written.  `end[k]` is where the first k sections end.        *)
(***************************************************************************)

CodecLength(c) == IF HasTokens(c.kind) THEN CodecLen ELSE NoCodecLen
TableStart(c)  == AlignUp(HeaderLen + CodecLength(c), Word)
Sections(c)    == SectionsOf(c.kind)

Ends(c, end) ==
  /\ end \in [0 .. Len(Sections(c)) -> Nat]
  /\ end[0] = TableStart(c) + Len(Sections(c)) * EntryLen
  /\ \A k \in 1 .. Len(Sections(c)) :
        end[k] = Place(Sections(c)[k], end[k - 1]) + ByteLen(Sections(c)[k], c)

LaidOut(c, end) ==
  [identity |-> TRUE, kind |-> c.kind, dimension |-> c.dimension,
   codecOffset |-> HeaderLen, codecLen |-> CodecLength(c),
   tableOffset |-> TableStart(c), sectionCount |-> Len(Sections(c)),
   entries |-> [k \in DOMAIN Sections(c) |->
                  [kind |-> Sections(c)[k], offset |-> Place(Sections(c)[k], end[k - 1]),
                   byteLen |-> ByteLen(Sections(c)[k], c), count |-> Count(Sections(c)[k], c)]],
   fileLen |-> end[Len(Sections(c))], length |-> end[Len(Sections(c))]]

Content == [kind : FileKinds, tokens : Nat, bytes : Nat, strings : Nat, symbols : Nat,
            dimension : Nat]

LEMMA CountsAreNaturals ==
  ASSUME NEW c \in Content, NEW kind \in SectionKinds
  PROVE  Count(kind, c) \in Nat /\ MetadataLen(c) \in Nat /\ ByteLen(kind, c) \in Nat
<1>1. /\ c.tokens \in Nat /\ c.bytes \in Nat /\ c.strings \in Nat /\ c.symbols \in Nat
      /\ c.dimension \in Nat
  BY DEF Content
<1>2. \A a, b \in Nat : a * b \in Nat /\ a + b \in Nat
  OBVIOUS
<1>3. Count(kind, c) \in {c.tokens, c.tokens + 1, c.strings + 1, c.tokens * c.dimension, 1,
                          c.symbols}
  BY DEF Count
<1>4. Count(kind, c) \in Nat
  BY <1>1, <1>2, <1>3
<1>5. StoreMetadataLen \in Nat /\ CosineMetadataLen \in Nat /\ CustomHeaderLen \in Nat
  <2>. HIDE DEF HalfWord
  <2>. QED  BY SizesAreNaturals DEF StoreMetadataLen, CosineMetadataLen, CustomHeaderLen
<1>6. MetadataLen(c) \in Nat
  <2>1. MetadataLen(c) \in {StoreMetadataLen, CosineMetadataLen, CustomHeaderLen + c.bytes}
    BY DEF MetadataLen
  <2>. QED  BY <1>1, <1>2, <1>5, <2>1
<1>7. ByteLen(kind, c) \in Nat
  BY <1>1, <1>2, <1>4, <1>6, SizesAreNaturals DEF ByteLen
<1>. QED  BY <1>4, <1>6, <1>7

LEMMA PlacesAligned ==
  ASSUME NEW kind \in SectionKinds, NEW cursor \in Nat
  PROVE  /\ Place(kind, cursor) \in Nat /\ cursor <= Place(kind, cursor)
         /\ Place(kind, cursor) % Alignment(kind) = 0
BY SizesAreNaturals, AlignsUp DEF Place

LEMMA TablesAreAligned ==
  ASSUME NEW c \in Content
  PROVE  /\ CodecLength(c) \in Nat /\ TableStart(c) \in Nat
         /\ HeaderLen + CodecLength(c) <= TableStart(c)
<1>1. CodecLength(c) \in Nat
  BY SizesAreNaturals DEF CodecLength, Content
<1>2. HeaderLen + CodecLength(c) \in Nat
  BY <1>1, SizesAreNaturals
<1>. QED  BY <1>1, <1>2, SizesAreNaturals, AlignsUp DEF TableStart

(* The recursion of write_file's cursor is a function of numbers. *)
LEMMA CursorAdvances ==
  ASSUME NEW c \in Content
  PROVE  \E end : Ends(c, end) /\ Layout(c) = LaidOut(c, end)
<1>. DEFINE s == Sections(c)
            n == Len(s)
            first == TableStart(c) + n * EntryLen
            step(k, d) == Place(s[k], d) + ByteLen(s[k], c)
            next == [k \in 1 .. n |-> [d \in Nat |-> step(k, d)]]
            Recursive(g) == g = [k \in 0 .. n |-> IF k = 0 THEN first ELSE step(k, g[k - 1])]
            end == CHOOSE g : Recursive(g)
<1>1. n \in Nat /\ DOMAIN s = 1 .. n /\ \A k \in 1 .. n : s[k] \in SectionKinds
  BY SectionsDiffer DEF Sections, Content
<1>2. first \in Nat
  BY <1>1, SizesAreNaturals, TablesAreAligned
<1>3. \A k \in 1 .. n, d \in Nat : step(k, d) \in Nat
  <2>. HIDE DEF n, s
  <2>. TAKE k \in 1 .. n, d \in Nat
  <2>1. Place(s[k], d) \in Nat /\ ByteLen(s[k], c) \in Nat
    BY <1>1, CountsAreNaturals, PlacesAligned
  <2>. QED  BY <2>1
<1>4. next \in Advances(n, Nat)
  <2>. HIDE DEF n, step
  <2>. QED  BY <1>3 DEF Advances
<1>5. PICK g \in [0 .. n -> Nat] : g[0] = first /\ \A k \in 1 .. n : g[k] = next[k][g[k - 1]]
  <2>. HIDE DEF next, n, first
  <2>1. Growing(n, Nat, first, next) # {}
    BY <1>1, <1>2, <1>4, RecursionExists
  <2>. QED  BY <2>1 DEF Growing
<1>6. Recursive(g)
  <2>. HIDE DEF n, first, step
  <2>1. \A k \in 1 .. n : g[k - 1] \in Nat /\ k \in 0 .. n
    BY <1>1
  <2>2. \A k \in 1 .. n : g[k] = step(k, g[k - 1])
    BY <1>5, <2>1
  <2>3. \A k \in 0 .. n : g[k] = IF k = 0 THEN first ELSE step(k, g[k - 1])
    BY <1>1, <1>5, <2>2
  <2>. QED  BY <2>3
<1>7. Recursive(end)
  <2>. HIDE DEF Recursive
  <2>. QED  BY <1>6
<1>8. /\ end = [k \in 0 .. n |-> end[k]] /\ end[0] = first
      /\ \A k \in 1 .. n : end[k] = step(k, end[k - 1])
  <2>. HIDE DEF end, n, first, step
  <2>. QED  BY <1>1, <1>7
<1>9. end \in [0 .. n -> Nat]
  <2>1. \A k \in 1 .. n : end[k - 1] \in Nat => end[k] \in Nat
    <3>. HIDE DEF end, n, step
    <3>. QED  BY <1>3, <1>8
  <2>2. n \in Nat /\ end[0] \in Nat /\ end = [k \in 0 .. n |-> end[k]]
    <3>. HIDE DEF end, n, first
    <3>. QED  BY <1>1, <1>2, <1>8
  <2>. HIDE DEF end, n
  <2>. QED  BY <2>1, <2>2, RecursionTyped
<1>10. Layout(c) = LaidOut(c, end)
  BY DEF Layout, LaidOut, TableStart, CodecLength, Sections
<1>11. Ends(c, end)
  <2>. HIDE DEF end
  <2>. QED  BY <1>8, <1>9 DEF Ends
<1>. HIDE DEF end
<1>. QED  BY <1>10, <1>11

(* No section ends before the one that precedes it. *)
LEMMA EndsGrow ==
  ASSUME NEW c \in Content, NEW end, Ends(c, end),
         NEW i \in 0 .. Len(Sections(c)), NEW j \in 0 .. Len(Sections(c)), i <= j
  PROVE  end[i] <= end[j]
<1>. DEFINE n == Len(Sections(c))
            t == [k \in 1 .. (n + 1) |-> k - 1]
            R == {pair \in (0 .. n) \X (0 .. n) : end[pair[1]] <= end[pair[2]]}
<1>1. n \in Nat /\ \A k \in 1 .. n : Sections(c)[k] \in SectionKinds
  BY SectionsDiffer DEF Sections, Content
<1>2. /\ end \in [0 .. n -> Nat]
      /\ \A k \in 1 .. n : end[k] = Place(Sections(c)[k], end[k - 1]) + ByteLen(Sections(c)[k], c)
  BY DEF Ends
<1>. HIDE DEF n
<1>3. \A k \in 1 .. n : k \in 0 .. n /\ k - 1 \in 0 .. n /\ end[k - 1] <= end[k]
  <2>. TAKE k \in 1 .. n
  <2>1. k \in 0 .. n /\ k - 1 \in 0 .. n /\ end[k] \in Nat /\ end[k - 1] \in Nat
    BY <1>1, <1>2
  <2>2. /\ Place(Sections(c)[k], end[k - 1]) \in Nat
        /\ end[k - 1] <= Place(Sections(c)[k], end[k - 1])
        /\ ByteLen(Sections(c)[k], c) \in Nat
    BY <1>1, <2>1, CountsAreNaturals, PlacesAligned
  <2>3. end[k] = Place(Sections(c)[k], end[k - 1]) + ByteLen(Sections(c)[k], c)
    BY <1>2
  <2>. QED  BY <2>1, <2>2, <2>3
<1>4. \A x, y, z \in 0 .. n : <<x, y>> \in R /\ <<y, z>> \in R => <<x, z>> \in R
  BY <1>2
<1>5. t \in [1 .. (n + 1) -> 0 .. n] /\ n + 1 \in Nat
  BY <1>1
<1>6. \A k \in 2 .. (n + 1) : <<t[k - 1], t[k]>> \in R
  <2>. TAKE k \in 2 .. (n + 1)
  <2>1. k - 1 \in 1 .. n /\ t[k - 1] = (k - 1) - 1 /\ t[k] = k - 1
    BY <1>1
  <2>. QED  BY <1>3, <2>1
<1>7. \A x, y \in 1 .. (n + 1) : x < y => <<t[x], t[y]>> \in R
  <2>. HIDE DEF t, R
  <2>. QED  BY <1>4, <1>5, <1>6, NeighborsSuffice
<1>8. i \in 0 .. n /\ j \in 0 .. n
  BY DEF n
<1>9. CASE i = j
  BY <1>2, <1>8, <1>9
<1>10. CASE i # j
  <2>1. i + 1 \in 1 .. (n + 1) /\ j + 1 \in 1 .. (n + 1) /\ i + 1 < j + 1
    BY <1>1, <1>8, <1>10
  <2>2. t[i + 1] = i /\ t[j + 1] = j
    BY <1>8, <2>1
  <2>. QED  BY <1>7, <2>1, <2>2
<1>. QED  BY <1>9, <1>10

EntryType == [kind : SectionKinds \cup {"unknown"}, offset : Nat, byteLen : Nat, count : Nat]

FileType ==
  [identity : BOOLEAN, kind : FileKinds \cup {"unknown"}, dimension : Nat, codecOffset : Nat,
   codecLen : Nat, tableOffset : Nat, sectionCount : Nat, entries : Seq(EntryType),
   fileLen : Nat, length : Nat]

(* What is known of a file that was written. *)
LEMMA LayoutIsKnown ==
  ASSUME NEW c \in Content
  PROVE  \E end :
           /\ Ends(c, end)
           /\ Layout(c) \in FileType
           /\ Layout(c).identity /\ Layout(c).kind = c.kind /\ Layout(c).dimension = c.dimension
           /\ Layout(c).codecOffset = HeaderLen /\ Layout(c).codecLen = CodecLength(c)
           /\ Layout(c).tableOffset = TableStart(c)
           /\ Layout(c).sectionCount = Len(Sections(c))
           /\ Layout(c).fileLen = end[Len(Sections(c))]
           /\ Layout(c).length = end[Len(Sections(c))]
           /\ Len(Layout(c).entries) = Len(Sections(c))
           /\ \A k \in 1 .. Len(Sections(c)) :
                 /\ Layout(c).entries[k].kind = Sections(c)[k]
                 /\ Layout(c).entries[k].offset = Place(Sections(c)[k], end[k - 1])
                 /\ Layout(c).entries[k].byteLen = ByteLen(Sections(c)[k], c)
                 /\ Layout(c).entries[k].count = Count(Sections(c)[k], c)
<1>1. PICK end : Ends(c, end) /\ Layout(c) = LaidOut(c, end)
  BY CursorAdvances
<1>. DEFINE n == Len(Sections(c))
            entry(k) == [kind |-> Sections(c)[k], offset |-> Place(Sections(c)[k], end[k - 1]),
                         byteLen |-> ByteLen(Sections(c)[k], c),
                         count |-> Count(Sections(c)[k], c)]
            entries == [k \in DOMAIN Sections(c) |-> entry(k)]
<1>2. /\ n \in Nat /\ DOMAIN Sections(c) = 1 .. n
      /\ \A k \in 1 .. n : Sections(c)[k] \in SectionKinds
  BY SectionsDiffer DEF Sections, Content
<1>3. end \in [0 .. n -> Nat]
  BY <1>1 DEF Ends
<1>4. \A k \in 1 .. n : entry(k) \in EntryType
  <2>. HIDE DEF n
  <2>. TAKE k \in 1 .. n
  <2>1. k - 1 \in 0 .. n
    BY <1>2
  <2>2. end[k - 1] \in Nat
    BY <1>3, <2>1
  <2>. QED  BY <1>2, <2>2, CountsAreNaturals, PlacesAligned DEF EntryType
<1>5. entries \in Seq(EntryType) /\ Len(entries) = n
  <2>1. entries \in [1 .. n -> EntryType]
    <3>. HIDE DEF n, entry
    <3>. QED  BY <1>2, <1>4
  <2>. HIDE DEF entries, n
  <2>. QED  BY <1>2, <2>1, FunctionIsSeq
<1>6. LaidOut(c, end) =
        [identity |-> TRUE, kind |-> c.kind, dimension |-> c.dimension,
         codecOffset |-> HeaderLen, codecLen |-> CodecLength(c),
         tableOffset |-> TableStart(c), sectionCount |-> n, entries |-> entries,
         fileLen |-> end[n], length |-> end[n]]
  BY DEF LaidOut
<1>7. \A k \in 1 .. n : entries[k] = entry(k)
  BY <1>2
<1>. HIDE DEF entries
<1>8. \A k \in 1 .. n :
        /\ entries[k].kind = Sections(c)[k]
        /\ entries[k].offset = Place(Sections(c)[k], end[k - 1])
        /\ entries[k].byteLen = ByteLen(Sections(c)[k], c)
        /\ entries[k].count = Count(Sections(c)[k], c)
  <2>. HIDE DEF n
  <2>. TAKE k \in 1 .. n
  <2>1. entries[k] = entry(k)
    BY <1>7
  <2>. QED  BY <2>1
<1>. HIDE DEF n, entry
<1>9. end[n] \in Nat /\ c.kind \in FileKinds /\ c.dimension \in Nat
  BY <1>2, <1>3 DEF Content
<1>10. Layout(c) \in FileType
  BY <1>1, <1>2, <1>5, <1>6, <1>9, SizesAreNaturals, TablesAreAligned DEF FileType
<1>11. /\ Layout(c).identity /\ Layout(c).kind = c.kind /\ Layout(c).dimension = c.dimension
       /\ Layout(c).codecOffset = HeaderLen /\ Layout(c).codecLen = CodecLength(c)
       /\ Layout(c).tableOffset = TableStart(c) /\ Layout(c).sectionCount = n
       /\ Layout(c).fileLen = end[n] /\ Layout(c).length = end[n]
       /\ Layout(c).entries = entries
  BY <1>1, <1>6
<1>. QED  BY <1>1, <1>5, <1>8, <1>10, <1>11 DEF n

(***************************************************************************)
(* 4. The invariant: the file differs from what was written only in its    *)
(* damaged fields, and the outcome is what the validation says of it.      *)
(***************************************************************************)

NumberFields == {"codecOffset", "codecLen", "tableOffset", "sectionCount", "fileLen", "length"}
HeaderFields == NumberFields \cup {"identity", "kind"}
PlaceFields  == {"offset", "byteLen", "count"}
EntryFields  == PlaceFields \cup {"kind"}

WrittenOf(w) == \E c \in Contents : w = Layout(c)

DamagedOf(f, w, d) ==
  /\ f \in FileType /\ f.dimension = w.dimension /\ Len(f.entries) = Len(w.entries)
  /\ d \in SUBSET ({<<0, x>> : x \in HeaderFields}
                     \cup {<<k, x>> : k \in 1 .. Len(w.entries), x \in EntryFields})
  /\ IsFiniteSet(d)
  /\ \A x \in HeaderFields : <<0, x>> \notin d => f[x] = w[x]
  /\ \A k \in 1 .. Len(w.entries), x \in EntryFields :
        <<k, x>> \notin d => f.entries[k][x] = w.entries[k][x]

OutcomeOf(o, f, w) ==
  o # Unopened =>
    /\ o.kind \in FileKinds \cap {w.kind, f.kind}
    /\ o.status \in {"accepted", "refused"}
    /\ o.status = "accepted" <=> Opens(o.kind)

FormatInv ==
  /\ WrittenOf(written)
  /\ DamagedOf(file, written, damaged)
  /\ OutcomeOf(outcome, file, written)

LEMMA ContentsTyped == Contents \in SUBSET Content
BY ContentsAssumption DEF Content

LEMMA InitInv == Init => FormatInv
<1>. SUFFICES ASSUME Init PROVE FormatInv
  OBVIOUS
<1>1. PICK c \in Contents : file = Layout(c)
  BY DEF Init
<1>2. c \in Content
  BY ContentsTyped
<1>3. Layout(c) \in FileType
  BY <1>2, LayoutIsKnown
<1>4. written = file /\ damaged = {} /\ outcome = Unopened
  BY DEF Init
<1>. HIDE DEF Init
<1>5. DamagedOf(file, written, damaged)
  BY <1>1, <1>3, <1>4, FS_EmptySet DEF DamagedOf
<1>6. WrittenOf(written)
  BY <1>1, <1>4 DEF WrittenOf
<1>7. OutcomeOf(outcome, file, written)
  BY <1>4 DEF OutcomeOf
<1>. QED  BY <1>5, <1>6, <1>7 DEF FormatInv

(* A field of the header is given another value. *)
LEMMA HeaderDamaged ==
  ASSUME NEW f, NEW w, NEW d, DamagedOf(f, w, d), NEW field \in HeaderFields, NEW n,
         [f EXCEPT ![field] = n] \in FileType
  PROVE  DamagedOf([f EXCEPT ![field] = n], w, d \cup {<<0, field>>})
<1>. DEFINE g == [f EXCEPT ![field] = n]
            e == d \cup {<<0, field>>}
<1>1. f \in FileType /\ f.dimension = w.dimension /\ Len(f.entries) = Len(w.entries)
  BY DEF DamagedOf
<1>2. g.entries = f.entries /\ g.dimension = f.dimension
  BY <1>1 DEF FileType, HeaderFields, NumberFields
<1>3. \A x \in HeaderFields : x # field => g[x] = f[x]
  BY <1>1 DEF FileType, HeaderFields, NumberFields
<1>4. /\ d \in SUBSET ({<<0, x>> : x \in HeaderFields}
                         \cup {<<k, x>> : k \in 1 .. Len(w.entries), x \in EntryFields})
      /\ \A x \in HeaderFields : <<0, x>> \notin d => f[x] = w[x]
      /\ \A k \in 1 .. Len(w.entries), x \in EntryFields :
            <<k, x>> \notin d => f.entries[k][x] = w.entries[k][x]
  BY DEF DamagedOf
<1>. HIDE DEF g
<1>5. \A x \in HeaderFields : <<0, x>> \notin e => g[x] = w[x]
  BY <1>3, <1>4
<1>6. \A k \in 1 .. Len(w.entries), x \in EntryFields :
        <<k, x>> \notin e => g.entries[k][x] = w.entries[k][x]
  BY <1>2, <1>4
<1>7. e \in SUBSET ({<<0, x>> : x \in HeaderFields}
                      \cup {<<k, x>> : k \in 1 .. Len(w.entries), x \in EntryFields})
  BY <1>4
<1>8. g \in FileType
  BY DEF g
<1>9. DamagedOf(g, w, e)
  <2>1. IsFiniteSet(e)
    <3>1. IsFiniteSet(d)
      BY DEF DamagedOf
    <3>. QED  BY <3>1, FS_AddElement, Zenon
  <2>. HIDE DEF e
  <2>. QED  BY <1>1, <1>2, <1>5, <1>6, <1>7, <1>8, <2>1 DEF DamagedOf
<1>. QED  BY <1>9 DEF g

(* A field of an entry is given another value. *)
LEMMA EntryDamaged ==
  ASSUME NEW f, NEW w, NEW d, DamagedOf(f, w, d), NEW k \in DOMAIN f.entries,
         NEW field \in EntryFields, NEW n, [f.entries[k] EXCEPT ![field] = n] \in EntryType
  PROVE  DamagedOf([f EXCEPT !.entries[k][field] = n], w, d \cup {<<k, field>>})
<1>. DEFINE entry == [f.entries[k] EXCEPT ![field] = n]
            entries == [f.entries EXCEPT ![k] = entry]
            g == [f EXCEPT !.entries = entries]
            e == d \cup {<<k, field>>}
            m == Len(w.entries)
<1>1. f \in FileType /\ f.dimension = w.dimension /\ Len(f.entries) = m
  BY DEF DamagedOf
<1>2. f.entries \in Seq(EntryType) /\ k \in 1 .. m
  BY <1>1 DEF FileType
<1>3. /\ entries \in Seq(EntryType) /\ Len(entries) = m
      /\ \A i \in 1 .. m : i # k => entries[i] = f.entries[i]
      /\ entries[k] = entry
  <2>. HIDE DEF entry, m
  <2>. QED  BY <1>1, <1>2 DEF entry
<1>4. f.entries[k] \in EntryType
  BY <1>1, <1>2
<1>5. \A x \in EntryFields : x # field => entry[x] = f.entries[k][x]
  BY <1>4 DEF EntryType, EntryFields, PlaceFields
<1>6. /\ d \in SUBSET ({<<0, x>> : x \in HeaderFields}
                         \cup {<<i, x>> : i \in 1 .. m, x \in EntryFields})
      /\ \A x \in HeaderFields : <<0, x>> \notin d => f[x] = w[x]
      /\ \A i \in 1 .. m, x \in EntryFields :
            <<i, x>> \notin d => f.entries[i][x] = w.entries[i][x]
  BY DEF DamagedOf
<1>. HIDE DEF entry, entries, m
<1>7. /\ g \in FileType /\ g.dimension = f.dimension /\ g.entries = entries
      /\ \A x \in HeaderFields : g[x] = f[x]
  BY <1>1, <1>3 DEF FileType, HeaderFields, NumberFields
<1>. HIDE DEF g
<1>8. \A x \in HeaderFields : <<0, x>> \notin e => g[x] = w[x]
  BY <1>6, <1>7
<1>9. \A i \in 1 .. m, x \in EntryFields : <<i, x>> \notin e => g.entries[i][x] = w.entries[i][x]
  <2>. TAKE i \in 1 .. m, x \in EntryFields
  <2>1. SUFFICES ASSUME <<i, x>> \notin e PROVE entries[i][x] = w.entries[i][x]
    BY <1>7
  <2>2. <<i, x>> \notin d /\ (i # k \/ x # field)
    BY <2>1
  <2>3. f.entries[i][x] = w.entries[i][x]
    BY <1>6, <2>2
  <2>4. CASE i # k
    BY <1>3, <2>3, <2>4
  <2>5. CASE i = k
    BY <1>3, <1>5, <2>2, <2>3, <2>5
  <2>. QED  BY <2>4, <2>5
<1>10. e \in SUBSET ({<<0, x>> : x \in HeaderFields}
                       \cup {<<i, x>> : i \in 1 .. m, x \in EntryFields})
  BY <1>2, <1>6
<1>11. DamagedOf(g, w, e)
  <2>1. IsFiniteSet(e)
    <3>1. IsFiniteSet(d)
      BY DEF DamagedOf
    <3>. QED  BY <3>1, FS_AddElement, Zenon
  <2>. HIDE DEF e
  <2>. QED  BY <1>1, <1>3, <1>7, <1>8, <1>9, <1>10, <2>1 DEF DamagedOf, m
<1>12. [f EXCEPT !.entries[k][field] = n] = g
  BY DEF g, entries, entry
<1>. QED  BY <1>11, <1>12

(* What opening a file finds depends on the file alone. *)
LEMMA OpensKept ==
  ASSUME UNCHANGED <<file, written>>, NEW kind
  PROVE  Opens(kind)' <=> Opens(kind)
<1>1. file' = file /\ written' = written
  OBVIOUS
<1>2. Entries' = Entries
  BY <1>1 DEF Entries
<1>3. Regions' = Regions
  BY <1>1, <1>2 DEF Regions
<1>4. NonOverlapping' <=> NonOverlapping
  BY <1>3 DEF NonOverlapping
<1>5. \A offset, len : InFile(offset, len)' <=> InFile(offset, len)
  BY <1>1 DEF InFile
<1>6. (\A entry \in Range(Entries) : ValidSection(entry))'
        <=> (\A entry \in Range(Entries) : ValidSection(entry))
  BY <1>1, <1>2 DEF ValidSection, InFile
<1>7. CodecAgrees(kind)' <=> CodecAgrees(kind)
  BY <1>1 DEF CodecAgrees, InFile
<1>8. ValidStructure(kind)' <=> ValidStructure(kind)
  <2>1. \A offsets, payload : OffsetsEndWith(offsets, payload)' <=> OffsetsEndWith(offsets, payload)
    BY <1>1, <1>2 DEF OffsetsEndWith
  <2>2. OffsetsAgree(kind)' <=> OffsetsAgree(kind)
    BY <1>1, <1>2 DEF OffsetsAgree, OffsetsEndWith
  <2>3. CountsAgree(kind)' <=> CountsAgree(kind)
    BY <1>2 DEF CountsAgree
  <2>4. RequiredSections(kind)' <=> RequiredSections(kind)
    BY <1>2 DEF RequiredSections
  <2>. QED  BY <2>2, <2>3, <2>4 DEF ValidStructure
<1>9. InFile(file.tableOffset, file.sectionCount * EntryLen)'
        <=> InFile(file.tableOffset, file.sectionCount * EntryLen)
  BY <1>1 DEF InFile
<1>10. Accepts(kind)' <=> Accepts(kind)
  BY <1>1, <1>4, <1>6, <1>7, <1>8, <1>9 DEF Accepts, ValidHeader
<1>11. MetadataInPlace' <=> MetadataInPlace
  BY <1>1, <1>2 DEF MetadataInPlace
<1>12. MetadataReadable(kind)' <=> MetadataReadable(kind)
  BY <1>1, <1>2, <1>11 DEF MetadataReadable
<1>13. ShapeAgrees' <=> ShapeAgrees
  BY <1>1, <1>2, <1>11 DEF ShapeAgrees
<1>. QED  BY <1>10, <1>12, <1>13 DEF Opens

LEMMA DamageKeepsInv == FormatInv /\ Damage => FormatInv'
<1>. SUFFICES ASSUME FormatInv, Damage PROVE FormatInv'
  OBVIOUS
<1>1. /\ WrittenOf(written) /\ DamagedOf(file, written, damaged)
      /\ outcome = Unopened /\ outcome' = outcome /\ written' = written
  BY DEF FormatInv, Damage
<1>2. file \in FileType /\ \A k \in DOMAIN file.entries : file.entries[k] \in EntryType
  <2>1. file \in FileType
    BY <1>1 DEF DamagedOf
  <2>2. file.entries \in Seq(EntryType)
    BY <2>1 DEF FileType
  <2>. QED  BY <2>1, <2>2
<1>3. DamagedOf(file', written, damaged')
  <2>0. MaxU64 \in Nat
    BY SizesAssumption
  <2>1. CASE /\ file' = [file EXCEPT !.identity = FALSE]
             /\ damaged' = damaged \cup {<<0, "identity">>}
    <3>1. "identity" \in HeaderFields /\ [file EXCEPT !["identity"] = FALSE] \in FileType
      BY <1>2 DEF HeaderFields, FileType
    <3>. QED  BY <1>1, <2>1, <3>1, HeaderDamaged
  <2>2. CASE /\ \E kind \in (FileKinds \cup {"unknown"}) \ {file.kind} :
                  file' = [file EXCEPT !.kind = kind]
             /\ damaged' = damaged \cup {<<0, "kind">>}
    <3>1. PICK kind \in FileKinds \cup {"unknown"} : file' = [file EXCEPT !["kind"] = kind]
      BY <2>2
    <3>2. "kind" \in HeaderFields /\ [file EXCEPT !["kind"] = kind] \in FileType
      BY <1>2 DEF HeaderFields, FileType
    <3>. QED  BY <1>1, <2>2, <3>1, <3>2, HeaderDamaged
  <2>3. CASE \E field \in NumberFields :
               /\ \E n \in (0 .. MaxU64) \ {file[field]} : file' = [file EXCEPT ![field] = n]
               /\ damaged' = damaged \cup {<<0, field>>}
    <3>1. PICK field \in NumberFields, n \in 0 .. MaxU64 :
            file' = [file EXCEPT ![field] = n] /\ damaged' = damaged \cup {<<0, field>>}
      BY <2>3
    <3>2. field \in HeaderFields /\ n \in Nat
      BY <2>0 DEF HeaderFields
    <3>3. [file EXCEPT ![field] = n] \in FileType
      BY <1>2, <3>2 DEF FileType, NumberFields
    <3>. QED  BY <1>1, <3>1, <3>2, <3>3, HeaderDamaged
  <2>4. CASE \E k \in DOMAIN file.entries, field \in PlaceFields :
               /\ \E n \in (0 .. MaxU64) \ {file.entries[k][field]} :
                    file' = [file EXCEPT !.entries[k][field] = n]
               /\ damaged' = damaged \cup {<<k, field>>}
    <3>1. PICK k \in DOMAIN file.entries, field \in PlaceFields, n \in 0 .. MaxU64 :
            /\ file' = [file EXCEPT !.entries[k][field] = n]
            /\ damaged' = damaged \cup {<<k, field>>}
      BY <2>4
    <3>2. field \in EntryFields /\ n \in Nat
      BY <2>0 DEF EntryFields
    <3>. DEFINE entry == file.entries[k]
    <3>3. [entry EXCEPT ![field] = n] \in EntryType
      <4>1. entry \in EntryType
        BY <1>2
      <4>. HIDE DEF entry
      <4>. QED  BY <3>2, <4>1 DEF EntryType, PlaceFields
    <3>. QED  BY <1>1, <3>1, <3>2, <3>3, EntryDamaged
  <2>5. CASE \E k \in DOMAIN file.entries :
               /\ \E kind \in (SectionKinds \cup {"unknown"}) \ {file.entries[k].kind} :
                    file' = [file EXCEPT !.entries[k].kind = kind]
               /\ damaged' = damaged \cup {<<k, "kind">>}
    <3>1. PICK k \in DOMAIN file.entries, kind \in SectionKinds \cup {"unknown"} :
            /\ file' = [file EXCEPT !.entries[k]["kind"] = kind]
            /\ damaged' = damaged \cup {<<k, "kind">>}
      BY <2>5
    <3>. DEFINE entry == file.entries[k]
    <3>2. "kind" \in EntryFields /\ [entry EXCEPT !["kind"] = kind] \in EntryType
      <4>1. entry \in EntryType
        BY <1>2
      <4>. HIDE DEF entry
      <4>. QED  BY <4>1 DEF EntryType, EntryFields
    <3>. QED  BY <1>1, <3>1, <3>2, EntryDamaged
  <2>. QED  BY <2>1, <2>2, <2>3, <2>4, <2>5 DEF Damage, NumberFields, PlaceFields
<1>4. OutcomeOf(outcome, file, written)'
  BY <1>1 DEF OutcomeOf
<1>. QED  BY <1>1, <1>3, <1>4 DEF FormatInv

LEMMA OpenKeepsInv ==
  ASSUME FormatInv, NEW kind \in FileKinds, Open(kind)
  PROVE  FormatInv'
<1>1. /\ WrittenOf(written) /\ DamagedOf(file, written, damaged)
      /\ UNCHANGED <<file, written>> /\ damaged' = damaged
      /\ kind \in {written.kind, file.kind}
      /\ outcome' = [status |-> IF Opens(kind) THEN "accepted" ELSE "refused", kind |-> kind]
  BY DEF FormatInv, Open
<1>2. Opens(kind)' <=> Opens(kind)
  BY <1>1, OpensKept
<1>3. outcome'.kind = kind /\ outcome'.status = IF Opens(kind) THEN "accepted" ELSE "refused"
  BY <1>1
<1>4. OutcomeOf(outcome, file, written)'
  BY <1>1, <1>2, <1>3 DEF OutcomeOf
<1>. QED  BY <1>1, <1>4 DEF FormatInv

LEMMA StutterKeepsInv == FormatInv /\ UNCHANGED vars => FormatInv'
<1>. SUFFICES ASSUME FormatInv, UNCHANGED vars PROVE FormatInv'
  OBVIOUS
<1>1. UNCHANGED <<file, written>> /\ damaged' = damaged /\ outcome' = outcome
  BY DEF vars
<1>2. Opens(outcome.kind)' <=> Opens(outcome.kind)
  <2>1. \A kind : Opens(kind)' <=> Opens(kind)
    BY <1>1, OpensKept
  <2>. QED  BY <1>1, <2>1
<1>. QED  BY <1>1, <1>2 DEF FormatInv, OutcomeOf

THEOREM FormatIsInvariant == Spec => []FormatInv
<1>1. FormatInv /\ [Next]_vars => FormatInv'
  BY DamageKeepsInv, OpenKeepsInv, StutterKeepsInv DEF Next
<1>. QED  BY InitInv, <1>1, PTL DEF Spec

(***************************************************************************)
(* 5. What is accepted.                                                    *)
(***************************************************************************)

(* The entries read of an accepted file. *)
LEMMA EntriesRead ==
  ASSUME file \in FileType, file.sectionCount <= Len(file.entries)
  PROVE  /\ Entries \in Seq(EntryType)
         /\ Len(Entries) = file.sectionCount /\ DOMAIN Entries = 1 .. file.sectionCount
         /\ \A k \in 1 .. file.sectionCount : Entries[k] = file.entries[k]
<1>1. file.sectionCount \in Nat /\ file.entries \in Seq(EntryType)
  BY DEF FileType
<1>. DEFINE n == file.sectionCount
            e == file.entries
<1>. HIDE DEF n, e
<1>2. n \in 0 .. Len(e) /\ e \in Seq(EntryType)
  BY <1>1 DEF n, e
<1>3. /\ SubSeq(e, 1, n) \in Seq(EntryType) /\ Len(SubSeq(e, 1, n)) = n
      /\ \A k \in 1 .. n : SubSeq(e, 1, n)[k] = e[k]
  BY <1>2
<1>. QED  BY <1>3 DEF Entries, n, e

LEMMA AcceptedIsTyped ==
  FormatInv /\ outcome.status = "accepted"
    => /\ outcome.kind \in FileKinds /\ file.kind = outcome.kind
       /\ outcome.kind \in {written.kind, file.kind}
       /\ Opens(outcome.kind) /\ Accepts(outcome.kind)
       /\ file \in FileType /\ file.sectionCount <= Len(file.entries)
<1>. SUFFICES ASSUME FormatInv, outcome.status = "accepted"
              PROVE  /\ outcome.kind \in FileKinds /\ file.kind = outcome.kind
                     /\ outcome.kind \in {written.kind, file.kind}
                     /\ Opens(outcome.kind) /\ Accepts(outcome.kind)
                     /\ file \in FileType /\ file.sectionCount <= Len(file.entries)
  OBVIOUS
<1>1. outcome # Unopened
  BY DEF Unopened
<1>2. /\ outcome.kind \in FileKinds /\ Opens(outcome.kind)
      /\ outcome.kind \in {written.kind, file.kind}
  BY <1>1 DEF FormatInv, OutcomeOf
<1>3. Accepts(outcome.kind)
  BY <1>2 DEF Opens
<1>4. file.kind = outcome.kind /\ file.sectionCount <= Len(file.entries)
  BY <1>3 DEF Accepts, ValidHeader
<1>5. file \in FileType
  BY DEF FormatInv, DamagedOf
<1>. QED  BY <1>2, <1>3, <1>4, <1>5

(* Every typed view of an accepted file can be made: MappedSlice::new      *)
(* repeats what validate_section has checked.                              *)
THEOREM ViewsSucceed == Spec => []ViewsNeverFail
<1>1. FormatInv => ViewsNeverFail
  <2>. SUFFICES ASSUME FormatInv, outcome.status = "accepted",
                       NEW entry \in Range(Entries), ~IsBlob(entry.kind)
                PROVE  ViewSucceeds(entry)
    BY DEF ViewsNeverFail
  <2>1. Accepts(outcome.kind)
    BY AcceptedIsTyped
  <2>2. ValidSection(entry)
    BY <2>1 DEF Accepts
  <2>. QED  BY <2>2 DEF ValidSection, TypedAsDescribed, InFile, ViewSucceeds
<1>. QED  BY <1>1, FormatIsInvariant, PTL

(* Regions given by where they start and how long they are. *)
Region == [name : SectionKinds \cup {"unknown", "header", "codec", "table"}, offset : Nat, len : Nat]

(* The order validate_non_overlapping sorts by. *)
Before(regions, S) ==
  {pair \in S \X S : \/ regions[pair[1]].offset < regions[pair[2]].offset
                     \/ regions[pair[1]].offset = regions[pair[2]].offset /\ pair[1] < pair[2]}

Holding(regions) == {k \in DOMAIN regions : regions[k].len # 0}

LEMMA RegionsAreOrdered ==
  ASSUME NEW n \in Nat, NEW place \in [1 .. n -> Nat], NEW S \in SUBSET (1 .. n), NEW R,
         \A x, y \in S : <<x, y>> \in R <=> place[x] < place[y] \/ (place[x] = place[y] /\ x < y)
  PROVE  StrictOrder(S, R)
<1>1. \A x \in S : place[x] \in Nat /\ x \in Nat
  OBVIOUS
<1>2. \A x \in S : <<x, x>> \notin R
  BY <1>1
<1>3. \A x, y, z \in S : <<x, y>> \in R /\ <<y, z>> \in R => <<x, z>> \in R
  <2>. TAKE x, y, z \in S
  <2>. DEFINE a == place[x]
              b == place[y]
              c == place[z]
  <2>1. a \in Nat /\ b \in Nat /\ c \in Nat /\ x \in Nat /\ y \in Nat /\ z \in Nat
    BY <1>1
  <2>2. /\ <<x, y>> \in R <=> a < b \/ (a = b /\ x < y)
        /\ <<y, z>> \in R <=> b < c \/ (b = c /\ y < z)
        /\ <<x, z>> \in R <=> a < c \/ (a = c /\ x < z)
    OBVIOUS
  <2>. HIDE DEF a, b, c
  <2>3. (a < b \/ (a = b /\ x < y)) /\ (b < c \/ (b = c /\ y < z)) => a < c \/ (a = c /\ x < z)
    BY <2>1
  <2>. QED  BY <2>2, <2>3
<1>4. \A x, y \in S : x # y => <<x, y>> \in R \/ <<y, x>> \in R
  BY <1>1
<1>. QED  BY <1>2, <1>3, <1>4 DEF StrictOrder

(* ByOffset goes through the regions that hold bytes, in that order. *)
LEMMA ByOffsetSorts ==
  ASSUME NEW regions, regions \in Seq(Region)
  PROVE  LET S == Holding(regions)
         IN  /\ IsFiniteSet(S) /\ StrictOrder(S, Before(regions, S))
             /\ Len(ByOffset(regions)) = Cardinality(S)
             /\ Sorts(S, Before(regions, S), ByOffset(regions), Cardinality(S))
<1>. DEFINE S == Holding(regions)
            R == Before(regions, S)
            s == ByOffset(regions)
            n == Len(regions)
            place == [k \in 1 .. n |-> regions[k].offset]
            earlier(i, j) == \/ regions[i].offset < regions[j].offset
                             \/ (regions[i].offset = regions[j].offset /\ i < j)
<1>1. n \in Nat /\ DOMAIN regions = 1 .. n /\ \A k \in 1 .. n : regions[k] \in Region
  OBVIOUS
<1>2. S \in SUBSET (1 .. n)
  BY <1>1 DEF Holding
<1>3. \A x, y \in S : <<x, y>> \in R <=> earlier(x, y)
  <2>. HIDE DEF S
  <2>. QED  BY DEF Before
<1>4. StrictOrder(S, R)
  <2>1. place \in [1 .. n -> Nat] /\ \A k \in 1 .. n : place[k] = regions[k].offset
    BY <1>1 DEF Region
  <2>2. \A x, y \in S :
          <<x, y>> \in R <=> place[x] < place[y] \/ (place[x] = place[y] /\ x < y)
    <3>. HIDE DEF S, R, place, n
    <3>. QED  BY <1>2, <1>3, <2>1
  <2>. HIDE DEF S, R, place, n
  <2>. QED  BY <1>1, <1>2, <2>1, <2>2, RegionsAreOrdered
<1>5. IsFiniteSet(S)
  <2>. HIDE DEF S, n
  <2>1. IsFiniteSet(1 .. n)
    BY <1>1, FS_Interval
  <2>. QED  BY <1>2, <2>1, FS_Subset
<1>6. \A x \in S : Under(S, R, x) = {y \in S : earlier(y, x)}
  <2>. HIDE DEF S, R, earlier
  <2>. QED  BY <1>3 DEF Under
<1>7. s = [k \in 1 .. Cardinality(S) |-> s[k]]
  <2>. DEFINE Chosen(k) == CHOOSE x \in S : Cardinality({y \in S : earlier(y, x)}) = k - 1
  <2>1. s = [k \in 1 .. Cardinality(S) |-> Chosen(k)]
    BY DEF ByOffset, SortedBy, Holding
  <2>. HIDE DEF Chosen, s, S, earlier
  <2>. QED  BY <2>1
<1>8. ASSUME NEW k \in 1 .. Cardinality(S),
             \E x \in S : Cardinality(Under(S, R, x)) = k - 1
      PROVE  s[k] \in S /\ Cardinality(Under(S, R, s[k])) = k - 1
  <2>1. s[k] = CHOOSE x \in S : Cardinality({y \in S : earlier(y, x)}) = k - 1
    BY DEF ByOffset, SortedBy, Holding
  <2>. HIDE DEF R, s, S, earlier
  <2>2. \E x \in S : Cardinality({y \in S : earlier(y, x)}) = k - 1
    BY <1>6, <1>8
  <2>3. s[k] \in S /\ Cardinality({y \in S : earlier(y, s[k])}) = k - 1
    BY <2>1, <2>2
  <2>. QED  BY <1>6, <2>3
<1>9. Sorts(S, R, s, Cardinality(S))
  <2>. HIDE DEF R, s, S
  <2>. QED  BY <1>4, <1>5, <1>7, <1>8, ChosenByRank
<1>10. Len(s) = Cardinality(S)
  <2>. HIDE DEF s, S, R
  <2>. QED  BY <1>9 DEF Sorts
<1>. QED  BY <1>4, <1>5, <1>9, <1>10

LastOf(region)    == region.offset + region.len
Apart(regions, a, b) ==
  LastOf(regions[a]) <= regions[b].offset \/ LastOf(regions[b]) <= regions[a].offset

NeighborsApart(regions) ==
  \A k \in 2 .. Len(ByOffset(regions)) :
     LastOf(regions[ByOffset(regions)[k - 1]]) <= regions[ByOffset(regions)[k]].offset

(* It is enough to compare neighbors once the regions are sorted.          *)
LEMMA NeighborsApartSuffice ==
  ASSUME NEW regions, regions \in Seq(Region)
  PROVE  NeighborsApart(regions)
           <=> \A a, b \in Holding(regions) : a # b => Apart(regions, a, b)
<1>. DEFINE S == Holding(regions)
            R == Before(regions, S)
            s == ByOffset(regions)
            m == Cardinality(S)
            start(x) == regions[x].offset
            last(x) == LastOf(regions[x])
<1>1. /\ IsFiniteSet(S) /\ m \in Nat /\ Len(s) = m /\ s \in [1 .. m -> S]
      /\ \A i, j \in 1 .. m : i < j => <<s[i], s[j]>> \in R
      /\ \A x \in S : \E i \in 1 .. m : s[i] = x
      /\ \A x \in S : <<x, x>> \notin R
  BY ByOffsetSorts DEF Sorts, StrictOrder
<1>2. \A x \in S : start(x) \in Nat /\ last(x) \in Nat /\ start(x) < last(x)
  <2>. TAKE x \in S
  <2>1. regions[x] \in Region /\ regions[x].len # 0
    BY DEF Holding
  <2>. QED  BY <2>1 DEF Region, LastOf
<1>3. \A x, y \in S : <<x, y>> \in R => start(x) <= start(y)
  <2>. TAKE x, y \in S
  <2>1. <<x, y>> \in R => start(x) < start(y) \/ start(x) = start(y)
    BY DEF Before
  <2>2. start(x) \in Nat /\ start(y) \in Nat
    BY <1>2
  <2>. HIDE DEF start, R
  <2>. QED  BY <2>1, <2>2
<1>4. NeighborsApart(regions) <=> \A k \in 2 .. m : last(s[k - 1]) <= start(s[k])
  <2>. HIDE DEF S, m
  <2>. QED  BY <1>1 DEF NeighborsApart
<1>5. \A a, b \in S : Apart(regions, a, b) <=> last(a) <= start(b) \/ last(b) <= start(a)
  BY DEF Apart
<1>. HIDE DEF S, R, s, m, start, last
<1>6. ASSUME \A k \in 2 .. m : last(s[k - 1]) <= start(s[k])
      PROVE  \A a, b \in S : a # b => last(a) <= start(b) \/ last(b) <= start(a)
  <2>. DEFINE Q == {pair \in S \X S : last(pair[1]) <= start(pair[2])}
  <2>1. \A x, y \in S : <<x, y>> \in Q <=> last(x) <= start(y)
    OBVIOUS
  <2>2. \A x, y, z \in S : <<x, y>> \in Q /\ <<y, z>> \in Q => <<x, z>> \in Q
    <3>. HIDE DEF Q
    <3>. TAKE x, y, z \in S
    <3>1. /\ start(x) \in Nat /\ last(x) \in Nat /\ start(y) \in Nat /\ last(y) \in Nat
          /\ start(z) \in Nat /\ last(z) \in Nat /\ start(y) < last(y)
      BY <1>2
    <3>. QED  BY <2>1, <3>1
  <2>3. \A k \in 2 .. m : <<s[k - 1], s[k]>> \in Q
    <3>. HIDE DEF Q
    <3>. TAKE k \in 2 .. m
    <3>1. k - 1 \in 1 .. m /\ k \in 1 .. m
      BY <1>1
    <3>2. s[k - 1] \in S /\ s[k] \in S
      BY <1>1, <3>1
    <3>. QED  BY <1>6, <2>1, <3>2
  <2>. HIDE DEF Q
  <2>4. \A i, j \in 1 .. m : i < j => <<s[i], s[j]>> \in Q
    <3>1. m \in Nat /\ s \in [1 .. m -> S]
      BY <1>1
    <3>. QED  BY <2>2, <2>3, <3>1, NeighborsSuffice
  <2>. TAKE a, b \in S
  <2>5. PICK i \in 1 .. m, j \in 1 .. m : s[i] = a /\ s[j] = b
    BY <1>1
  <2>6. i \in Nat /\ j \in Nat
    BY <1>1
  <2>7. a # b => i < j \/ j < i
    BY <2>5, <2>6
  <2>. QED  BY <2>1, <2>4, <2>5, <2>7
<1>7. ASSUME \A a, b \in S : a # b => last(a) <= start(b) \/ last(b) <= start(a)
      PROVE  \A k \in 2 .. m : last(s[k - 1]) <= start(s[k])
  <2>. TAKE k \in 2 .. m
  <2>1. k - 1 \in 1 .. m /\ k \in 1 .. m /\ k - 1 < k
    BY <1>1
  <2>2. s[k - 1] \in S /\ s[k] \in S /\ <<s[k - 1], s[k]>> \in R
    BY <1>1, <2>1
  <2>3. s[k - 1] # s[k]
    BY <1>1, <2>2
  <2>4. \/ last(s[k - 1]) <= start(s[k])
        \/ last(s[k]) <= start(s[k - 1])
    BY <1>7, <2>2, <2>3
  <2>5. start(s[k - 1]) <= start(s[k]) /\ start(s[k]) < last(s[k])
    BY <1>2, <1>3, <2>2
  <2>6. start(s[k - 1]) \in Nat /\ start(s[k]) \in Nat /\ last(s[k]) \in Nat
    BY <1>2, <2>2
  <2>. QED  BY <2>4, <2>5, <2>6
<1>8. NeighborsApart(regions)
        <=> \A a, b \in S : a # b => last(a) <= start(b) \/ last(b) <= start(a)
  BY <1>4, <1>6, <1>7
<1>. QED  BY <1>5, <1>8 DEF S

LEMMA JoinedSeq ==
  ASSUME NEW S, NEW u \in Seq(S), NEW v \in Seq(S)
  PROVE  /\ u \o v \in Seq(S) /\ Len(u \o v) = Len(u) + Len(v)
         /\ \A k \in 1 .. Len(u) : (u \o v)[k] = u[k]
         /\ \A k \in 1 .. Len(v) : (u \o v)[Len(u) + k] = v[k]
<1>1. u \o v \in Seq(S) /\ Len(u \o v) = Len(u) + Len(v)
  BY ConcatProperties
<1>2. \A k \in 1 .. (Len(u) + Len(v)) : (u \o v)[k] = IF k <= Len(u) THEN u[k] ELSE v[k - Len(u)]
  BY ConcatProperties
<1>3. Len(u) \in Nat /\ Len(v) \in Nat
  OBVIOUS
<1>. DEFINE w == u \o v
            m == Len(u)
            n == Len(v)
<1>. HIDE DEF w, m, n
<1>4. /\ \A k \in 1 .. m : w[k] = u[k]
      /\ \A k \in 1 .. n : w[m + k] = v[k]
  <2>1. \A k \in 1 .. (m + n) : w[k] = IF k <= m THEN u[k] ELSE v[k - m]
    BY <1>2 DEF w, m, n
  <2>2. m \in Nat /\ n \in Nat
    BY <1>3 DEF m, n
  <2>3. \A k \in 1 .. n : m + k \in 1 .. (m + n) /\ ~(m + k <= m) /\ (m + k) - m = k
    BY <2>2
  <2>4. \A k \in 1 .. n : w[m + k] = v[k]
    <3>. TAKE k \in 1 .. n
    <3>1. w[m + k] = v[(m + k) - m]
      BY <2>1, <2>3
    <3>. QED  BY <2>3, <3>1
  <2>5. \A k \in 1 .. m : k \in 1 .. (m + n) /\ k <= m
    BY <2>2
  <2>. QED  BY <2>1, <2>4, <2>5
<1>. QED  BY <1>1, <1>4 DEF w, m, n

(* The regions of a file. *)
LEMMA RegionsKnown ==
  ASSUME file \in FileType, file.sectionCount <= Len(file.entries)
  PROVE  /\ Regions \in Seq(Region) /\ Len(Regions) = 3 + file.sectionCount
         /\ Regions[1] = [name |-> "header", offset |-> 0, len |-> HeaderLen]
         /\ Regions[2] = [name |-> "codec", offset |-> file.codecOffset, len |-> file.codecLen]
         /\ Regions[3] = [name |-> "table", offset |-> file.tableOffset,
                          len |-> file.sectionCount * EntryLen]
         /\ \A k \in 1 .. file.sectionCount :
               Regions[3 + k] = [name |-> Entries[k].kind, offset |-> Entries[k].offset,
                                 len |-> Entries[k].byteLen]
<1>. DEFINE n == file.sectionCount
            header == [name |-> "header", offset |-> 0, len |-> HeaderLen]
            codec == [name |-> "codec", offset |-> file.codecOffset, len |-> file.codecLen]
            table == [name |-> "table", offset |-> file.tableOffset, len |-> n * EntryLen]
            first == <<header, codec, table>>
            region(k) == [name |-> Entries[k].kind, offset |-> Entries[k].offset,
                          len |-> Entries[k].byteLen]
            rest == [k \in DOMAIN Entries |-> region(k)]
<1>1. /\ n \in Nat /\ DOMAIN Entries = 1 .. n
      /\ \A k \in 1 .. n : Entries[k] \in EntryType
  <2>1. n \in Nat
    BY DEF FileType
  <2>. QED  BY <2>1, EntriesRead
<1>2. header \in Region /\ codec \in Region /\ table \in Region
  <2>1. file.codecOffset \in Nat /\ file.codecLen \in Nat /\ file.tableOffset \in Nat
    BY DEF FileType
  <2>2. n * EntryLen \in Nat /\ HeaderLen \in Nat
    BY <1>1, SizesAreNaturals
  <2>. HIDE DEF n
  <2>. QED  BY <2>1, <2>2 DEF Region
<1>3. \A k \in 1 .. n : region(k) \in Region
  <2>. HIDE DEF n
  <2>. TAKE k \in 1 .. n
  <2>1. Entries[k] \in EntryType
    BY <1>1
  <2>. QED  BY <2>1 DEF Region, EntryType
<1>4. rest \in Seq(Region) /\ Len(rest) = n /\ \A k \in 1 .. n : rest[k] = region(k)
  <2>1. rest \in [1 .. n -> Region]
    <3>. HIDE DEF n, region
    <3>. QED  BY <1>1, <1>3
  <2>2. \A k \in 1 .. n : rest[k] = region(k)
    <3>. HIDE DEF n, region
    <3>. QED  BY <1>1
  <2>. HIDE DEF n, region, rest
  <2>. QED  BY <1>1, <2>1, <2>2, FunctionIsSeq
<1>5. Regions = first \o rest
  BY DEF Regions
<1>. HIDE DEF n, header, codec, table, rest
<1>6. /\ first \in Seq(Region) /\ Len(first) = 3
      /\ first[1] = header /\ first[2] = codec /\ first[3] = table
  BY <1>2
<1>. HIDE DEF first
<1>7. /\ first \o rest \in Seq(Region) /\ Len(first \o rest) = 3 + n
      /\ \A k \in 1 .. 3 : (first \o rest)[k] = first[k]
      /\ \A k \in 1 .. n : (first \o rest)[3 + k] = rest[k]
  <2>1. /\ first \o rest \in Seq(Region) /\ Len(first \o rest) = Len(first) + Len(rest)
        /\ \A k \in 1 .. Len(first) : (first \o rest)[k] = first[k]
        /\ \A k \in 1 .. Len(rest) : (first \o rest)[Len(first) + k] = rest[k]
    <3>1. \A u, v \in Seq(Region) :
            /\ u \o v \in Seq(Region) /\ Len(u \o v) = Len(u) + Len(v)
            /\ \A k \in 1 .. Len(u) : (u \o v)[k] = u[k]
            /\ \A k \in 1 .. Len(v) : (u \o v)[Len(u) + k] = v[k]
      BY JoinedSeq
    <3>2. first \in Seq(Region) /\ rest \in Seq(Region)
      BY <1>4, <1>6
    <3>. QED  BY <3>1, <3>2, Zenon
  <2>2. Len(first) = 3 /\ Len(rest) = n
    BY <1>4, <1>6
  <2>. QED  BY <2>1, <2>2
<1>. QED  BY <1>4, <1>5, <1>6, <1>7 DEF n, header, codec, table

(* NonOverlapping compares the neighbors. *)
LEMMA NonOverlappingIsApart == NonOverlapping <=> NeighborsApart(Regions)
BY DEF NonOverlapping, NeighborsApart, LastOf

(* Any two regions that hold bytes of an accepted file are apart, and in   *)
(* the file, although only the neighbors in their order are compared.      *)
THEOREM AcceptedRegionsAreApart == Spec => []RegionsAreApart
<1>1. FormatInv => RegionsAreApart
  <2>. SUFFICES ASSUME FormatInv, outcome.status = "accepted"
                PROVE  \A a, b \in {region \in Range(Regions) : region.len # 0} :
                          /\ a.offset + a.len <= file.length
                          /\ a # b => \/ a.offset + a.len <= b.offset
                                      \/ b.offset + b.len <= a.offset
    BY DEF RegionsAreApart
  <2>. DEFINE n == file.sectionCount
              r == Regions
  <2>1. /\ Accepts(outcome.kind) /\ file \in FileType /\ n <= Len(file.entries)
    BY AcceptedIsTyped
  <2>2. /\ HeaderLen <= file.length /\ InFile(file.codecOffset, file.codecLen)
        /\ InFile(file.tableOffset, n * EntryLen) /\ NonOverlapping
        /\ \A entry \in Range(Entries) : ValidSection(entry)
    BY <2>1 DEF Accepts, ValidHeader, CodecAgrees
  <2>3. /\ r \in Seq(Region) /\ Len(r) = 3 + n /\ n \in Nat
        /\ r[1] = [name |-> "header", offset |-> 0, len |-> HeaderLen]
        /\ r[2] = [name |-> "codec", offset |-> file.codecOffset, len |-> file.codecLen]
        /\ r[3] = [name |-> "table", offset |-> file.tableOffset, len |-> n * EntryLen]
        /\ \A k \in 1 .. n :
              r[3 + k] = [name |-> Entries[k].kind, offset |-> Entries[k].offset,
                          len |-> Entries[k].byteLen]
    <3>1. n \in Nat
      BY <2>1 DEF FileType
    <3>. QED  BY <2>1, <3>1, RegionsKnown
  <2>4. \A k \in 1 .. n : InFile(Entries[k].offset, Entries[k].byteLen)
    <3>. TAKE k \in 1 .. n
    <3>1. k \in DOMAIN Entries
      BY <2>1, EntriesRead
    <3>2. Entries[k] \in Range(Entries)
      BY <3>1 DEF Range
    <3>. QED  BY <2>2, <3>2 DEF ValidSection
  <2>5. ASSUME NEW k \in 1 .. Len(r) PROVE r[k].offset + r[k].len <= file.length
    <3>. HIDE DEF n, r
    <3>0. k \in {1, 2, 3} \/ (k - 3 \in 1 .. n /\ k = 3 + (k - 3))
      BY <2>3
    <3>1. CASE k = 1
      <4>1. r[1].offset = 0 /\ r[1].len = HeaderLen
        BY <2>3
      <4>. QED  BY <2>2, <3>1, <4>1, SizesAreNaturals
    <3>2. CASE k = 2
      <4>1. r[2].offset = file.codecOffset /\ r[2].len = file.codecLen
        BY <2>3
      <4>. QED  BY <2>2, <3>2, <4>1 DEF InFile
    <3>3. CASE k = 3
      <4>1. r[3].offset = file.tableOffset /\ r[3].len = n * EntryLen
        BY <2>3
      <4>. QED  BY <2>2, <3>3, <4>1 DEF InFile
    <3>4. CASE k - 3 \in 1 .. n /\ k = 3 + (k - 3)
      <4>. DEFINE i == k - 3
      <4>1. i \in 1 .. n /\ k = 3 + i
        BY <3>4
      <4>. HIDE DEF i
      <4>2. r[3 + i].offset = Entries[i].offset /\ r[3 + i].len = Entries[i].byteLen
        <5>1. r[3 + i] = [name |-> Entries[i].kind, offset |-> Entries[i].offset,
                          len |-> Entries[i].byteLen]
          BY <2>3, <4>1
        <5>. QED  BY <5>1
      <4>3. InFile(Entries[i].offset, Entries[i].byteLen)
        BY <2>4, <4>1
      <4>. QED  BY <4>1, <4>2, <4>3 DEF InFile
    <3>. QED  BY <3>0, <3>1, <3>2, <3>3, <3>4
  <2>6. \A i, j \in Holding(r) : i # j => Apart(r, i, j)
    BY <2>2, <2>3, NonOverlappingIsApart, NeighborsApartSuffice
  <2>. HIDE DEF r, n
  <2>7. DOMAIN r = 1 .. Len(r)
    BY <2>3
  <2>8. SUFFICES ASSUME NEW a \in Range(r), NEW b \in Range(r), a.len # 0, b.len # 0
                 PROVE  /\ a.offset + a.len <= file.length
                        /\ a # b => \/ a.offset + a.len <= b.offset
                                    \/ b.offset + b.len <= a.offset
    BY DEF r
  <2>9. PICK i \in DOMAIN r, j \in DOMAIN r : r[i] = a /\ r[j] = b
    BY DEF Range
  <2>10. i \in Holding(r) /\ j \in Holding(r)
    BY <2>8, <2>9 DEF Holding
  <2>11. a # b => Apart(r, i, j)
    BY <2>6, <2>9, <2>10
  <2>. QED  BY <2>5, <2>7, <2>9, <2>11 DEF Apart, LastOf
<1>. QED  BY <1>1, FormatIsInvariant, PTL

(***************************************************************************)
(* 6. What one damaged field changes.                                      *)
(***************************************************************************)

LEMMA SectionFound ==
  ASSUME NEW s, NEW n \in Nat, Len(s) = n, Distinct(s), NEW entries, DOMAIN entries = 1 .. n,
         \A j \in 1 .. n : entries[j].kind = s[j], NEW k \in 1 .. n
  PROVE  SectionOf(entries, s[k]) = entries[k]
<1>1. \A j \in DOMAIN entries : entries[j].kind = s[k] => j = k
  BY DEF Distinct
<1>2. k \in DOMAIN entries /\ entries[k].kind = s[k]
  OBVIOUS
<1>3. (CHOOSE j \in DOMAIN entries : entries[j].kind = s[k]) = k
  BY <1>1, <1>2
<1>. QED  BY <1>3 DEF SectionOf

LEMMA EntriesEqual ==
  ASSUME NEW a \in EntryType, NEW b \in EntryType,
         a.kind = b.kind, a.offset = b.offset, a.byteLen = b.byteLen, a.count = b.count
  PROVE  a = b
BY DEF EntryType

LEMMA Cancels ==
  ASSUME NEW a \in Nat, NEW b \in Nat, NEW e \in Nat \ {0}, a * e = b * e
  PROVE  a = b
<1>1. CASE a < b
  <2>1. a + 1 <= b
    BY <1>1
  <2>2. (a + 1) * e <= b * e
    BY <2>1
  <2>3. (a + 1) * e = a * e + e
    OBVIOUS
  <2>. QED  BY <2>2, <2>3
<1>2. CASE b < a
  <2>1. b + 1 <= a
    BY <1>2
  <2>2. (b + 1) * e <= a * e
    BY <2>1
  <2>3. (b + 1) * e = b * e + e
    OBVIOUS
  <2>. QED  BY <2>2, <2>3
<1>. QED  BY <1>1, <1>2

(* What is known of the file written: s are its sections, n their number.  *)
WrittenAs(c, s, n) ==
  /\ c \in Content /\ s = SectionsOf(c.kind) /\ n = Len(s) /\ n \in Nat
  /\ s \in Seq(SectionKinds) /\ Distinct(s)
  /\ written \in FileType /\ written.kind = c.kind /\ written.dimension = c.dimension
  /\ written.sectionCount = n /\ Len(written.entries) = n
  /\ \A k \in 1 .. n : /\ written.entries[k] \in EntryType
                       /\ written.entries[k].kind = s[k]
                       /\ written.entries[k].byteLen = ByteLen(s[k], c)
                       /\ written.entries[k].count = Count(s[k], c)

LEMMA WrittenKnown ==
  ASSUME FormatInv
  PROVE  \E c, s, n : WrittenAs(c, s, n)
<1>1. PICK c \in Contents : written = Layout(c)
  BY DEF FormatInv, WrittenOf
<1>2. c \in Content
  BY ContentsTyped
<1>. DEFINE s == SectionsOf(c.kind)
            n == Len(s)
<1>3. c.kind \in FileKinds
  BY <1>2 DEF Content
<1>4. s \in Seq(SectionKinds) /\ Distinct(s) /\ n \in Nat
  BY <1>3, SectionsDiffer
<1>5. /\ written \in FileType /\ written.kind = c.kind /\ written.dimension = c.dimension
      /\ written.sectionCount = n /\ Len(written.entries) = n
      /\ \A k \in 1 .. n : /\ written.entries[k].kind = s[k]
                           /\ written.entries[k].byteLen = ByteLen(s[k], c)
                           /\ written.entries[k].count = Count(s[k], c)
  BY <1>1, <1>2, LayoutIsKnown DEF Sections
<1>6. \A k \in 1 .. n : written.entries[k] \in EntryType
  <2>1. written.entries \in Seq(EntryType)
    BY <1>5 DEF FileType
  <2>. HIDE DEF n
  <2>. QED  BY <1>5, <2>1
<1>7. WrittenAs(c, s, n)
  <2>. HIDE DEF s, n
  <2>. QED  BY <1>2, <1>4, <1>5, <1>6 DEF WrittenAs, s, n
<1>. QED  BY <1>7

(* The kinds of the entries of a file that have not been changed.          *)
KindsOf(entries) == {entry.kind : entry \in Range(entries)}

LEMMA KindsListed ==
  ASSUME NEW n \in Nat, NEW entries, DOMAIN entries = 1 .. n
  PROVE  KindsOf(entries) = {entries[k].kind : k \in 1 .. n}
BY DEF KindsOf, Range

Alike(a, b) ==
  /\ a \in FileKinds /\ b \in FileKinds
  /\ (a = "engine") <=> (b = "engine")
  /\ (a = "embedding store") <=> (b = "embedding store")
  /\ (a \in {"embedding store", "custom costs", "cosine costs"})
       <=> (b \in {"embedding store", "custom costs", "cosine costs"})
  /\ HasTokens(a) <=> HasTokens(b)

LEMMA AlikeIsSame ==
  ASSUME NEW a, NEW b, Alike(a, b)
  PROVE  a = b
<1>. DEFINE p == "engine"
            q == "embedding store"
            r == "levenshtein costs"
            u == "custom costs"
            v == "cosine costs"
<1>1. /\ p # q /\ p # r /\ p # u /\ p # v /\ q # r /\ q # u /\ q # v
      /\ r # u /\ r # v /\ u # v
  BY Zenon
<1>2. /\ a \in {p, q, r, u, v} /\ b \in {p, q, r, u, v}
      /\ (a = p) <=> (b = p)
      /\ (a = q) <=> (b = q)
      /\ (a \in {q, u, v}) <=> (b \in {q, u, v})
      /\ (a \in {p, q, u}) <=> (b \in {p, q, u})
  BY Zenon DEF Alike, FileKinds, HasTokens
<1>. HIDE DEF p, q, r, u, v
<1>. QED  BY <1>1, <1>2, SMT

(* Files with the same sections and the same codec are of the same kind.   *)
LEMMA SectionsTell ==
  ASSUME NEW a \in FileKinds, NEW b \in FileKinds,
         Range(SectionsOf(a)) = Range(SectionsOf(b)), HasTokens(a) <=> HasTokens(b)
  PROVE  a = b
<1>. DEFINE In(section, kind) == section \in Range(SectionsOf(kind))
<1>1. \A kind \in FileKinds :
        /\ In("sequence offsets", kind) <=> kind = "engine"
        /\ In("embeddings", kind) <=> kind = "embedding store"
        /\ In("cost metadata", kind)
             <=> kind \in {"embedding store", "custom costs", "cosine costs"}
  <2>1. In("sequence offsets", "engine") /\ ~In("embeddings", "engine")
        /\ ~In("cost metadata", "engine")
    BY RangesListed
  <2>2. ~In("sequence offsets", "embedding store") /\ In("embeddings", "embedding store")
        /\ In("cost metadata", "embedding store")
    BY RangesListed
  <2>3. \A section : ~In(section, "levenshtein costs")
    BY RangesListed
  <2>4. \A kind \in {"custom costs", "cosine costs"} :
          ~In("sequence offsets", kind) /\ ~In("embeddings", kind) /\ In("cost metadata", kind)
    BY RangesListed
  <2>. HIDE DEF In
  <2>. QED  BY <2>1, <2>2, <2>3, <2>4 DEF FileKinds
<1>2. \A section : In(section, a) <=> In(section, b)
  OBVIOUS
<1>. HIDE DEF In
<1>3. (a = "engine") <=> (b = "engine")
  BY <1>1, <1>2
<1>4. (a = "embedding store") <=> (b = "embedding store")
  BY <1>1, <1>2
<1>5. (a \in {"embedding store", "custom costs", "cosine costs"})
        <=> (b \in {"embedding store", "custom costs", "cosine costs"})
  BY <1>1, <1>2
<1>. QED  BY <1>3, <1>4, <1>5, AlikeIsSame, Zenon DEF Alike

(* A file with one damaged field, of entry i or of the header, that was    *)
(* accepted.                                                               *)
OneDamaged(c, s, n, i, x) ==
  /\ FormatInv /\ WrittenAs(c, s, n) /\ outcome.status = "accepted" /\ damaged = {<<i, x>>}

LEMMA OneDamagedExists ==
  ASSUME FormatInv, outcome.status = "accepted", Cardinality(damaged) = 1
  PROVE  \E c, s, n, i, x : OneDamaged(c, s, n, i, x)
<1>1. PICK c, s, n : WrittenAs(c, s, n)
  BY WrittenKnown
<1>2. IsFiniteSet(damaged)
  BY DEF FormatInv, DamagedOf
<1>3. PICK d : damaged = {d}
  BY <1>2, FS_Singleton
<1>4. d \in {<<0, x>> : x \in HeaderFields}
              \cup {<<k, x>> : k \in 1 .. Len(written.entries), x \in EntryFields}
  BY <1>3 DEF FormatInv, DamagedOf
<1>5. PICK i, x : d = <<i, x>>
  BY <1>4
<1>6. OneDamaged(c, s, n, i, x)
  BY <1>1, <1>3, <1>5 DEF OneDamaged
<1>. QED  BY <1>6

(* All other fields are what they were. *)
LEMMA OthersKept ==
  ASSUME NEW c, NEW s, NEW n, NEW i, NEW x, OneDamaged(c, s, n, i, x)
  PROVE  /\ n \in Nat /\ file \in FileType /\ Len(file.entries) = n
         /\ \A k \in 1 .. n : file.entries[k] \in EntryType
         /\ \A f \in HeaderFields : f # x \/ i # 0 => file[f] = written[f]
         /\ \A k \in 1 .. n, f \in EntryFields :
               f # x \/ k # i => file.entries[k][f] = written.entries[k][f]
<1>1. /\ n \in Nat /\ Len(written.entries) = n /\ damaged = {<<i, x>>}
  BY DEF OneDamaged, WrittenAs
<1>2. /\ file \in FileType /\ Len(file.entries) = n
      /\ \A f \in HeaderFields : <<0, f>> \notin damaged => file[f] = written[f]
      /\ \A k \in 1 .. n, f \in EntryFields :
            <<k, f>> \notin damaged => file.entries[k][f] = written.entries[k][f]
  BY <1>1 DEF OneDamaged, FormatInv, DamagedOf
<1>3. \A k, f : f # x \/ k # i => <<k, f>> \notin damaged
  BY <1>1
<1>4. \A k \in 1 .. n : file.entries[k] \in EntryType
  <2>1. file.entries \in Seq(EntryType)
    BY <1>2 DEF FileType
  <2>. QED  BY <1>2, <2>1
<1>5. \A f \in HeaderFields : f # x \/ i # 0 => file[f] = written[f]
  BY <1>2, <1>3
<1>6. \A k \in 1 .. n, f \in EntryFields :
        f # x \/ k # i => file.entries[k][f] = written.entries[k][f]
  BY <1>2, <1>3
<1>. QED  BY <1>1, <1>2, <1>4, <1>5, <1>6

(* Where the damage is. *)
LEMMA OnePlace ==
  ASSUME NEW c, NEW s, NEW n, NEW i, NEW x, OneDamaged(c, s, n, i, x)
  PROVE  (i = 0 /\ x \in HeaderFields) \/ (i \in 1 .. n /\ x \in EntryFields)
<1>1. /\ n \in Nat /\ Len(written.entries) = n /\ damaged = {<<i, x>>}
  BY DEF OneDamaged, WrittenAs
<1>2. <<i, x>> \in {<<0, y>> : y \in HeaderFields}
                     \cup {<<k, y>> : k \in 1 .. n, y \in EntryFields}
  BY <1>1 DEF OneDamaged, FormatInv, DamagedOf
<1>3. CASE <<i, x>> \in {<<0, y>> : y \in HeaderFields}
  BY <1>3
<1>4. CASE <<i, x>> \in {<<k, y>> : k \in 1 .. n, y \in EntryFields}
  BY <1>4
<1>. QED  BY <1>2, <1>3, <1>4

(* It is read as a file of its kind, section by section. *)
ReadAs(c, s, n) ==
  /\ outcome.kind = c.kind /\ file.sectionCount = n /\ Len(file.entries) = n
  /\ DOMAIN Entries = 1 .. n
  /\ \A k \in 1 .. n : Entries[k] = file.entries[k] /\ Entries[k].kind = s[k]

LEMMA KindIsKept ==
  ASSUME NEW c, NEW s, NEW n, NEW i, NEW x, OneDamaged(c, s, n, i, x)
  PROVE  ReadAs(c, s, n)
<1>1. /\ n \in Nat /\ c \in Content /\ s = SectionsOf(c.kind) /\ n = Len(s)
      /\ s \in Seq(SectionKinds) /\ Distinct(s) /\ written.kind = c.kind
      /\ \A k \in 1 .. n : written.entries[k].kind = s[k]
  BY DEF OneDamaged, WrittenAs
<1>2. /\ outcome.kind \in FileKinds /\ file.kind = outcome.kind /\ Accepts(outcome.kind)
      /\ file \in FileType /\ file.sectionCount <= Len(file.entries)
      /\ outcome.kind \in {written.kind, file.kind}
  BY AcceptedIsTyped DEF OneDamaged
<1>3. /\ file.sectionCount = Len(SectionsOf(outcome.kind)) /\ CodecAgrees(outcome.kind)
      /\ RequiredSections(outcome.kind)
  BY <1>2 DEF Accepts, ValidStructure
<1>4. /\ Len(file.entries) = n
      /\ \A f \in HeaderFields : f # x \/ i # 0 => file[f] = written[f]
      /\ \A k \in 1 .. n, f \in EntryFields :
            f # x \/ k # i => file.entries[k][f] = written.entries[k][f]
  BY OthersKept
<1>5. (i = 0 /\ x \in HeaderFields) \/ (i \in 1 .. n /\ x \in EntryFields)
  BY OnePlace
<1>6. /\ DOMAIN Entries = 1 .. file.sectionCount
      /\ \A k \in 1 .. file.sectionCount : Entries[k] = file.entries[k]
  BY <1>2, EntriesRead
<1>7. c.kind \in FileKinds
  BY <1>1 DEF Content
<1>8. c.kind = outcome.kind
  <2>1. CASE i # 0 \/ x # "kind"
    <3>1. "kind" \in HeaderFields
      BY DEF HeaderFields
    <3>. QED  BY <1>1, <1>2, <1>4, <2>1, <3>1
  <2>2. CASE i = 0 /\ x = "kind"
    <3>1. /\ file.codecOffset = written.codecOffset /\ file.codecLen = written.codecLen
          /\ file.sectionCount = written.sectionCount
      BY <1>4, <2>2 DEF HeaderFields, NumberFields
    <3>2. HasTokens(outcome.kind) <=> HasTokens(c.kind)
      BY <1>1, <1>3, <3>1 DEF CodecAgrees, HasTokens
    <3>3. file.sectionCount = n
      BY <3>1 DEF OneDamaged, WrittenAs
    <3>4. \A k \in 1 .. n : Entries[k].kind = s[k]
      <4>1. 0 \notin 1 .. n /\ "kind" \in EntryFields
        BY <1>1 DEF EntryFields
      <4>. QED  BY <1>1, <1>4, <1>6, <2>2, <3>3, <4>1
    <3>5. KindsOf(Entries) = {s[k] : k \in 1 .. n}
      <4>1. KindsOf(Entries) = {Entries[k].kind : k \in 1 .. n}
        BY <1>1, <1>6, <3>3, KindsListed
      <4>. QED  BY <3>4, <4>1
    <3>6. Range(s) = {s[k] : k \in 1 .. n}
      BY <1>1 DEF Range
    <3>7. KindsOf(Entries) = Range(SectionsOf(outcome.kind))
      BY <1>3 DEF RequiredSections, KindsOf
    <3>. QED  BY <1>1, <1>2, <1>7, <3>2, <3>5, <3>6, <3>7, SectionsTell
  <2>. QED  BY <2>1, <2>2
<1>9. file.sectionCount = n
  BY <1>1, <1>3, <1>8
<1>10. \A k \in 1 .. n : Entries[k].kind = s[k]
  <2>1. "kind" \in EntryFields
    BY DEF EntryFields
  <2>2. \A k \in 1 .. n : x # "kind" \/ k # i => Entries[k].kind = s[k]
    BY <1>1, <1>4, <1>6, <1>9, <2>1
  <2>3. ASSUME i \in 1 .. n, x = "kind" PROVE Entries[i].kind = s[i]
    <3>1. KindsOf(Entries) = {Entries[k].kind : k \in 1 .. n}
      BY <1>1, <1>6, <1>9, KindsListed
    <3>2. s[i] \in Range(s)
      BY <1>1, <2>3 DEF Range
    <3>3. KindsOf(Entries) = Range(s)
      BY <1>1, <1>3, <1>8 DEF RequiredSections, KindsOf
    <3>4. PICK k \in 1 .. n : s[i] = Entries[k].kind
      BY <3>1, <3>2, <3>3
    <3>5. k # i => s[k] = s[i]
      BY <2>2, <3>4
    <3>6. k = i
      BY <1>1, <2>3, <3>5 DEF Distinct
    <3>. QED  BY <3>4, <3>6
  <2>. TAKE k \in 1 .. n
  <2>. QED  BY <2>2, <2>3
<1>. QED  BY <1>4, <1>6, <1>8, <1>9, <1>10 DEF ReadAs

LEMMA SectionsIn ==
  ASSUME NEW kind \in FileKinds
  PROVE  LET sections == Range(SectionsOf(kind))
         IN  /\ "vocabulary blob" \in sections
                  => kind = "engine" /\ "vocabulary offsets" \in sections
             /\ "embedding blob" \in sections
                  => kind = "embedding store" /\ "embedding offsets" \in sections
             /\ "cost metadata" \in sections
                  => kind \in {"embedding store", "custom costs", "cosine costs"}
<1>. DEFINE In(section, k) == section \in Range(SectionsOf(k))
<1>1. CASE kind = "engine"
  BY <1>1, RangesListed, Zenon
<1>2. CASE kind = "embedding store"
  BY <1>2, RangesListed, Zenon
<1>3. CASE kind = "levenshtein costs"
  BY <1>3, RangesListed, Zenon
<1>4. CASE kind = "custom costs"
  BY <1>4, RangesListed, Zenon
<1>5. CASE kind = "cosine costs"
  BY <1>5, RangesListed, Zenon
<1>. QED  BY <1>1, <1>2, <1>3, <1>4, <1>5, Zenon DEF FileKinds

(* How much of section k is read is what was written. *)
Kept(k) ==
  /\ Entries[k].byteLen = written.entries[k].byteLen
  /\ Entries[k].count = written.entries[k].count

(* The facts of a damaged file that the sections need. *)
LEMMA ReadKnown ==
  ASSUME NEW c, NEW s, NEW n, NEW i, NEW x, OneDamaged(c, s, n, i, x)
  PROVE  /\ n \in Nat /\ c \in Content /\ s = SectionsOf(c.kind) /\ n = Len(s) /\ Distinct(s)
         /\ DOMAIN Entries = 1 .. n /\ DOMAIN written.entries = 1 .. n
         /\ \A k \in 1 .. n :
               /\ s[k] \in SectionKinds /\ s[k] \in Range(s)
               /\ Entries[k] \in EntryType /\ written.entries[k] \in EntryType
               /\ Entries[k].kind = s[k] /\ written.entries[k].kind = s[k]
               /\ written.entries[k].byteLen = ByteLen(s[k], c)
               /\ written.entries[k].count = Count(s[k], c)
               /\ SectionOf(Entries, s[k]) = Entries[k]
               /\ SectionOf(written.entries, s[k]) = written.entries[k]
               /\ \A f \in EntryFields :
                     f # x \/ k # i => Entries[k][f] = written.entries[k][f]
         /\ Opens(c.kind)
<1>1. /\ n \in Nat /\ c \in Content /\ s = SectionsOf(c.kind) /\ n = Len(s) /\ Distinct(s)
      /\ s \in Seq(SectionKinds) /\ Len(written.entries) = n /\ written \in FileType
      /\ \A k \in 1 .. n : /\ written.entries[k] \in EntryType
                           /\ written.entries[k].kind = s[k]
                           /\ written.entries[k].byteLen = ByteLen(s[k], c)
                           /\ written.entries[k].count = Count(s[k], c)
  BY DEF OneDamaged, WrittenAs
<1>2. DOMAIN written.entries = 1 .. n
  <2>1. written.entries \in Seq(EntryType)
    BY <1>1 DEF FileType
  <2>. QED  BY <1>1, <2>1
<1>3. \A k \in 1 .. n : s[k] \in SectionKinds /\ s[k] \in Range(s)
  BY <1>1 DEF Range
<1>4. /\ outcome.kind = c.kind /\ DOMAIN Entries = 1 .. n
      /\ \A k \in 1 .. n : Entries[k] = file.entries[k] /\ Entries[k].kind = s[k]
  BY KindIsKept DEF ReadAs
<1>5. /\ \A k \in 1 .. n : file.entries[k] \in EntryType
      /\ \A k \in 1 .. n, f \in EntryFields :
            f # x \/ k # i => file.entries[k][f] = written.entries[k][f]
  BY OthersKept
<1>6. Opens(c.kind)
  BY <1>4, AcceptedIsTyped DEF OneDamaged
<1>7. \A k \in 1 .. n : SectionOf(Entries, s[k]) = Entries[k]
  <2>1. \A k \in 1 .. n : Entries[k].kind = s[k]
    BY <1>4
  <2>. QED  BY <1>1, <1>4, <2>1, SectionFound
<1>8. \A k \in 1 .. n : SectionOf(written.entries, s[k]) = written.entries[k]
  <2>1. \A k \in 1 .. n : written.entries[k].kind = s[k]
    BY <1>1
  <2>. QED  BY <1>1, <1>2, <2>1, SectionFound
<1>9. \A k \in 1 .. n : \A f \in EntryFields :
        f # x \/ k # i => Entries[k][f] = written.entries[k][f]
  BY <1>4, <1>5
<1>10. \A k \in 1 .. n : Entries[k] \in EntryType
  BY <1>4, <1>5
<1>. QED  BY <1>1, <1>2, <1>3, <1>4, <1>6, <1>7, <1>8, <1>9, <1>10

(* A section of elements: its bytes are so many elements. *)
LEMMA ElementsKept ==
  ASSUME NEW c, NEW s, NEW n, NEW i, NEW x, OneDamaged(c, s, n, i, x),
         NEW k \in 1 .. n, ~IsBlob(s[k])
  PROVE  Kept(k)
<1>. DEFINE e == Entries[k]
            w == written.entries[k]
            size == ElementSize(s[k])
<1>1. /\ e \in EntryType /\ w \in EntryType /\ e.kind = s[k] /\ s[k] \in SectionKinds
      /\ w.byteLen = ByteLen(s[k], c) /\ w.count = Count(s[k], c)
      /\ \A f \in EntryFields : f # x \/ k # i => e[f] = w[f]
      /\ k \in DOMAIN Entries /\ Opens(c.kind)
  BY ReadKnown
<1>2. size \in Nat \ {0}
  BY <1>1, SizesAreNaturals
<1>3. e.byteLen = e.count * size
  <2>1. e \in Range(Entries)
    BY <1>1 DEF Range
  <2>2. ValidSection(e)
    BY <1>1, <2>1 DEF Opens, Accepts
  <2>. QED  BY <1>1, <2>2 DEF ValidSection, TypedAsDescribed
<1>4. w.byteLen = w.count * size
  <2>1. s[k] # "cost metadata" /\ s[k] \notin {"vocabulary blob", "embedding blob"}
    BY Zenon DEF IsBlob
  <2>2. ByteLen(s[k], c) = Count(s[k], c) * ElementSize(s[k])
    BY <2>1, Zenon DEF ByteLen
  <2>. QED  BY <1>1, <2>2
<1>5. e.byteLen = w.byteLen \/ e.count = w.count
  BY <1>1 DEF EntryFields, PlaceFields
<1>6. e.count \in Nat /\ w.count \in Nat
  BY <1>1 DEF EntryType
<1>7. e.byteLen = w.byteLen /\ e.count = w.count
  <2>. HIDE DEF e, w, size
  <2>1. CASE e.count = w.count
    BY <1>3, <1>4, <2>1
  <2>2. CASE e.byteLen = w.byteLen
    <3>1. e.count * size = w.count * size
      BY <1>3, <1>4, <2>2
    <3>2. e.count = w.count
      BY <1>2, <1>6, <3>1, Cancels
    <3>. QED  BY <2>2, <3>2
  <2>. QED  BY <1>5, <2>1, <2>2
<1>. QED  BY <1>7 DEF Kept

(* The bytes of tokens: there is an offset more than there are tokens, and *)
(* the last one is the number of bytes.                                    *)
LEMMA BytesKept ==
  ASSUME NEW c, NEW s, NEW n, NEW i, NEW x, OneDamaged(c, s, n, i, x),
         NEW j \in 1 .. n, NEW k \in 1 .. n, j # k, IsBlob(s[k]), OffsetsEndWith(s[j], s[k]),
         Entries[j].count = Entries[k].count + 1, Count(s[j], c) = Count(s[k], c) + 1
  PROVE  Kept(k)
<1>1. /\ Entries[k] \in EntryType /\ written.entries[k] \in EntryType
      /\ Entries[j] \in EntryType /\ written.entries[j] \in EntryType
      /\ written.entries[j].count = Count(s[j], c) /\ written.entries[k].count = Count(s[k], c)
      /\ Entries[j].kind = s[j] /\ written.entries[j].kind = s[j]
      /\ SectionOf(Entries, s[j]) = Entries[j] /\ SectionOf(Entries, s[k]) = Entries[k]
      /\ SectionOf(written.entries, s[k]) = written.entries[k]
      /\ DOMAIN written.entries = 1 .. n
  BY ReadKnown
<1>2. /\ \A f \in EntryFields : f # x \/ k # i => Entries[k][f] = written.entries[k][f]
      /\ \A f \in EntryFields : f # x \/ j # i => Entries[j][f] = written.entries[j][f]
  BY ReadKnown
<1>3. /\ Entries[k].count \in Nat /\ written.entries[k].count \in Nat
      /\ Entries[j].count \in Nat /\ written.entries[j].count \in Nat
  BY <1>1 DEF EntryType
<1>4. Entries[k].count = written.entries[k].count
  <2>1. CASE k # i \/ x # "count"
    BY <1>2, <2>1 DEF EntryFields, PlaceFields
  <2>2. CASE k = i
    <3>1. Entries[j].count = written.entries[j].count
      BY <1>2, <2>2 DEF EntryFields, PlaceFields
    <3>. QED  BY <1>1, <1>3, <3>1
  <2>. QED  BY <2>1, <2>2
<1>5. Entries[k].byteLen = written.entries[k].byteLen
  <2>1. CASE k # i \/ x # "byteLen"
    BY <1>2, <2>1 DEF EntryFields, PlaceFields
  <2>2. CASE k = i
    <3>1. /\ Entries[j].offset = written.entries[j].offset
          /\ Entries[j].byteLen = written.entries[j].byteLen
          /\ Entries[j].count = written.entries[j].count
      BY <1>2, <2>2 DEF EntryFields, PlaceFields
    <3>2. Entries[j] = written.entries[j]
      BY <1>1, <3>1, EntriesEqual
    <3>3. Entries[j] \in Range(written.entries)
      BY <1>1, <3>2 DEF Range
    <3>4. LengthOf(Entries, s[k]) = LengthOf(written.entries, s[k])
      BY <1>1, <3>3 DEF OffsetsEndWith
    <3>. QED  BY <1>1, <3>4 DEF LengthOf
  <2>. QED  BY <2>1, <2>2
<1>. QED  BY <1>4, <1>5 DEF Kept

IsMetadata(kind) == kind = "cost metadata"

(* The metadata of costs: as long as the kind says, or as its rules say.   *)
LEMMA MetadataKept ==
  ASSUME NEW c, NEW s, NEW n, NEW i, NEW x, OneDamaged(c, s, n, i, x),
         NEW k \in 1 .. n, IsMetadata(s[k])
  PROVE  Entries[k].byteLen = written.entries[k].byteLen
<1>. DEFINE name == "cost metadata"
            e == Entries[k]
            w == written.entries[k]
<1>1. /\ e \in EntryType /\ w \in EntryType /\ w.kind = s[k] /\ c \in Content
      /\ SectionOf(Entries, s[k]) = e /\ SectionOf(written.entries, s[k]) = w
      /\ s[k] \in Range(s) /\ s = SectionsOf(c.kind)
      /\ w.byteLen = ByteLen(s[k], c) /\ Opens(c.kind) /\ DOMAIN written.entries = 1 .. n
      /\ \A f \in EntryFields : f # x \/ k # i => e[f] = w[f]
  BY ReadKnown
<1>2. SectionOf(Entries, name) = e /\ SectionOf(written.entries, name) = w /\ w.kind = name
  BY <1>1, Zenon DEF IsMetadata
<1>3. name \in Range(SectionsOf(c.kind))
  BY <1>1, Zenon DEF IsMetadata
<1>4. c.kind \in FileKinds
  BY <1>1 DEF Content
<1>5. c.kind \in {"embedding store", "custom costs", "cosine costs"}
  BY <1>3, <1>4, SectionsIn, Zenon
<1>6. MetadataReadable(c.kind)
  BY <1>1, <1>3, Zenon DEF Opens
<1>7. w.byteLen = MetadataLen(c)
  <2>1. ByteLen(name, c) = MetadataLen(c)
    BY Zenon DEF ByteLen
  <2>. QED  BY <1>1, <2>1, Zenon DEF IsMetadata
<1>. HIDE DEF name, e, w
<1>8. CASE c.kind = "embedding store"
  <2>1. MetadataLen(c) = StoreMetadataLen
    BY <1>8 DEF MetadataLen
  <2>2. e.byteLen = StoreMetadataLen
    BY <1>2, <1>6, <1>8, Zenon DEF MetadataReadable, name
  <2>. QED  BY <1>7, <2>1, <2>2, Zenon DEF e, w
<1>9. CASE c.kind = "cosine costs"
  <2>1. MetadataLen(c) = CosineMetadataLen
    BY <1>9 DEF MetadataLen
  <2>2. e.byteLen = CosineMetadataLen
    BY <1>2, <1>6, <1>9, Zenon DEF MetadataReadable, name
  <2>. QED  BY <1>7, <2>1, <2>2, Zenon DEF e, w
<1>10. CASE c.kind = "custom costs"
  <2>1. MetadataInPlace => e.byteLen = w.byteLen
    BY <1>2, <1>6, <1>10, Zenon DEF MetadataReadable, name
  <2>2. CASE k # i \/ x # "byteLen"
    <3>1. e["byteLen"] = w["byteLen"]
      BY <1>1, <2>2, Zenon DEF EntryFields, PlaceFields
    <3>. QED  BY <3>1, Zenon DEF e, w
  <2>3. CASE k = i /\ x = "byteLen"
    <3>1. e["offset"] = w["offset"]
      BY <1>1, <2>3, Zenon DEF EntryFields, PlaceFields
    <3>2. w \in Range(written.entries)
      BY <1>1, Zenon DEF Range, w
    <3>3. MetadataInPlace
      BY <1>2, <3>1, <3>2, Zenon DEF MetadataInPlace, name
    <3>. QED  BY <2>1, <3>3, Zenon DEF e, w
  <2>. QED  BY <2>2, <2>3, Zenon
<1>. QED  BY <1>5, <1>8, <1>9, <1>10, Zenon

(* No single damaged field makes a file be read as one of another kind, or *)
(* changes how much of a section is read.                                  *)
THEOREM LengthsAreSafe == Spec => []LengthsAreRedundant
<1>1. FormatInv => LengthsAreRedundant
  <2>. SUFFICES ASSUME FormatInv, outcome.status = "accepted", Cardinality(damaged) = 1
                PROVE  /\ outcome.kind = written.kind
                       /\ \A section \in Range(SectionsOf(written.kind)) :
                            LET found == SectionOf(Entries, section)
                                saved == SectionOf(written.entries, section)
                            IN  /\ found.byteLen = saved.byteLen
                                /\ section # "cost metadata" => found.count = saved.count
    BY DEF LengthsAreRedundant
  <2>1. PICK c, s, n, i, x : OneDamaged(c, s, n, i, x)
    BY OneDamagedExists
  <2>2. outcome.kind = c.kind /\ written.kind = c.kind
    BY <2>1, KindIsKept DEF ReadAs, OneDamaged, WrittenAs
  <2>3. /\ n \in Nat /\ s = SectionsOf(c.kind) /\ n = Len(s) /\ s \in Seq(SectionKinds)
        /\ \A k \in 1 .. n : /\ SectionOf(Entries, s[k]) = Entries[k]
                             /\ SectionOf(written.entries, s[k]) = written.entries[k]
                             /\ s[k] \in Range(s)
    <3>1. s \in Seq(SectionKinds)
      BY <2>1 DEF OneDamaged, WrittenAs
    <3>. QED  BY <2>1, <3>1, ReadKnown
  <2>4. c.kind \in FileKinds
    BY <2>1 DEF OneDamaged, WrittenAs, Content
  <2>9. DOMAIN s = 1 .. n
    BY <2>3
  <2>5. Opens(c.kind) => OffsetsAgree(c.kind) /\ CountsAgree(c.kind)
    BY DEF Opens, Accepts, ValidStructure
  <2>6. OffsetsAgree(c.kind) /\ CountsAgree(c.kind)
    BY <2>1, <2>5, ReadKnown
  <2>7. ASSUME NEW k \in 1 .. n
        PROVE  /\ Entries[k].byteLen = written.entries[k].byteLen
               /\ s[k] # "cost metadata" => Entries[k].count = written.entries[k].count
    <3>1. CASE ~IsBlob(s[k])
      BY <2>1, <3>1, ElementsKept DEF Kept
    <3>2. CASE s[k] = "cost metadata"
      <4>1. IsMetadata(s[k])
        BY <3>2 DEF IsMetadata
      <4>2. Entries[k].byteLen = written.entries[k].byteLen
        BY <2>1, <4>1, MetadataKept, Zenon
      <4>. QED  BY <3>2, <4>2, Zenon
    <3>3. CASE s[k] = "vocabulary blob"
      <4>1. c.kind = "engine" /\ "vocabulary offsets" \in Range(s)
        BY <2>3, <2>4, <3>3, SectionsIn, Zenon
      <4>2. PICK j \in 1 .. n : s[j] = "vocabulary offsets"
        BY <2>3, <2>9, <4>1, Zenon DEF Range
      <4>3. OffsetsEndWith("vocabulary offsets", "vocabulary blob")
        BY <2>6, <4>1, Zenon DEF OffsetsAgree
      <4>4. OffsetsEndWith(s[j], s[k])
        BY <3>3, <4>2, <4>3, Zenon
      <4>5. SectionOf(Entries, "vocabulary offsets").count
              = SectionOf(Entries, "vocabulary blob").count + 1
        BY <2>6, <4>1, Zenon DEF CountsAgree
      <4>6. Entries[j].count = Entries[k].count + 1
        BY <2>3, <3>3, <4>2, <4>5, Zenon
      <4>7. Count(s[j], c) = Count(s[k], c) + 1
        <5>1. Count("vocabulary offsets", c) = c.tokens + 1 /\ Count("vocabulary blob", c) = c.tokens
          BY Zenon DEF Count
        <5>. QED  BY <3>3, <4>2, <5>1, Zenon
      <4>8. j # k /\ IsBlob(s[k])
        BY <3>3, <4>2, Zenon DEF IsBlob
      <4>9. Kept(k)
        BY <2>1, <4>4, <4>6, <4>7, <4>8, BytesKept
      <4>. QED  BY <4>9, Zenon DEF Kept
    <3>4. CASE s[k] = "embedding blob"
      <4>1. c.kind = "embedding store" /\ "embedding offsets" \in Range(s)
        BY <2>3, <2>4, <3>4, SectionsIn, Zenon
      <4>2. PICK j \in 1 .. n : s[j] = "embedding offsets"
        BY <2>3, <2>9, <4>1, Zenon DEF Range
      <4>3. OffsetsEndWith("embedding offsets", "embedding blob")
        BY <2>6, <4>1, Zenon DEF OffsetsAgree
      <4>4. OffsetsEndWith(s[j], s[k])
        BY <3>4, <4>2, <4>3, Zenon
      <4>5. SectionOf(Entries, "embedding offsets").count
              = SectionOf(Entries, "embedding blob").count + 1
        BY <2>6, <4>1, Zenon DEF CountsAgree
      <4>6. Entries[j].count = Entries[k].count + 1
        BY <2>3, <3>4, <4>2, <4>5, Zenon
      <4>7. Count(s[j], c) = Count(s[k], c) + 1
        <5>1. Count("embedding offsets", c) = c.tokens + 1 /\ Count("embedding blob", c) = c.tokens
          BY Zenon DEF Count
        <5>. QED  BY <3>4, <4>2, <5>1, Zenon
      <4>8. j # k /\ IsBlob(s[k])
        BY <3>4, <4>2, Zenon DEF IsBlob
      <4>9. Kept(k)
        BY <2>1, <4>4, <4>6, <4>7, <4>8, BytesKept
      <4>. QED  BY <4>9, Zenon DEF Kept
    <3>. QED  BY <3>1, <3>2, <3>3, <3>4, Zenon DEF IsBlob
  <2>8. ASSUME NEW section \in Range(s)
        PROVE  /\ SectionOf(Entries, section).byteLen = SectionOf(written.entries, section).byteLen
               /\ section # "cost metadata"
                    => SectionOf(Entries, section).count = SectionOf(written.entries, section).count
    <3>1. PICK k \in 1 .. n : s[k] = section
      BY <2>3 DEF Range
    <3>. QED  BY <2>3, <2>7, <3>1, Zenon
  <2>. QED  BY <2>2, <2>3, <2>8, Zenon
<1>. QED  BY <1>1, FormatIsInvariant, PTL

(***************************************************************************)
(* 7. What was written is accepted.                                        *)
(***************************************************************************)

LEMMA FilesEqual ==
  ASSUME NEW f \in FileType, NEW g \in FileType, f.identity = g.identity, f.kind = g.kind,
         f.dimension = g.dimension, f.codecOffset = g.codecOffset, f.codecLen = g.codecLen,
         f.tableOffset = g.tableOffset, f.sectionCount = g.sectionCount, f.entries = g.entries,
         f.fileLen = g.fileLen, f.length = g.length
  PROVE  f = g
BY DEF FileType

LEMMA SameSeq ==
  ASSUME NEW S, NEW u \in Seq(S), NEW v \in Seq(S), Len(u) = Len(v),
         \A k \in 1 .. Len(u) : u[k] = v[k]
  PROVE  u = v
OBVIOUS

LEMMA UndamagedIsWritten ==
  ASSUME FormatInv, damaged = {}
  PROVE  file = written
<1>. DEFINE n == Len(written.entries)
<1>1. /\ file \in FileType /\ file.dimension = written.dimension /\ Len(file.entries) = n
      /\ \A x \in HeaderFields : file[x] = written[x]
      /\ \A k \in 1 .. n, x \in EntryFields : file.entries[k][x] = written.entries[k][x]
  BY DEF FormatInv, DamagedOf
<1>2. PICK c \in Contents : written = Layout(c)
  BY DEF FormatInv, WrittenOf
<1>3. written \in FileType
  BY <1>2, ContentsTyped, LayoutIsKnown
<1>4. file.entries \in Seq(EntryType) /\ written.entries \in Seq(EntryType)
  BY <1>1, <1>3 DEF FileType
<1>5. \A k \in 1 .. n : file.entries[k] = written.entries[k]
  <2>. TAKE k \in 1 .. n
  <2>1. file.entries[k] \in EntryType /\ written.entries[k] \in EntryType
    BY <1>1, <1>4
  <2>2. /\ file.entries[k].kind = written.entries[k].kind
        /\ file.entries[k].offset = written.entries[k].offset
        /\ file.entries[k].byteLen = written.entries[k].byteLen
        /\ file.entries[k].count = written.entries[k].count
    <3>. HIDE DEF n
    <3>. QED  BY <1>1 DEF EntryFields, PlaceFields
  <2>. QED  BY <2>1, <2>2, EntriesEqual
<1>6. file.entries = written.entries
  BY <1>1, <1>4, <1>5, SameSeq
<1>7. /\ file.identity = written.identity /\ file.kind = written.kind
      /\ file.codecOffset = written.codecOffset /\ file.codecLen = written.codecLen
      /\ file.tableOffset = written.tableOffset /\ file.sectionCount = written.sectionCount
      /\ file.fileLen = written.fileLen /\ file.length = written.length
  <2>. HIDE DEF n
  <2>. QED  BY <1>1 DEF HeaderFields, NumberFields
<1>. QED  BY <1>1, <1>3, <1>6, <1>7, FilesEqual

(* An undamaged file, as it was laid out. *)
Undamaged(c, s, n, end) ==
  /\ file = written /\ WrittenAs(c, s, n) /\ Ends(c, end)
  /\ file.identity /\ file.codecOffset = HeaderLen /\ file.codecLen = CodecLength(c)
  /\ file.tableOffset = TableStart(c) /\ file.fileLen = end[n] /\ file.length = end[n]
  /\ \A k \in 1 .. n : file.entries[k].offset = Place(s[k], end[k - 1])
  /\ end[n] <= MaxUsize /\ Entries = file.entries /\ DOMAIN file.entries = 1 .. n
  /\ \A k \in 1 .. n : /\ s[k] \in SectionKinds /\ s[k] \in Range(s)
                       /\ SectionOf(file.entries, s[k]) = file.entries[k]

LEMMA UndamagedKnown ==
  ASSUME FormatInv, damaged = {}
  PROVE  \E c, s, n, end : Undamaged(c, s, n, end)
<1>1. file = written
  BY UndamagedIsWritten
<1>2. PICK c \in Contents : written = Layout(c)
  BY DEF FormatInv, WrittenOf
<1>3. c \in Content
  BY ContentsTyped
<1>. DEFINE s == Sections(c)
            n == Len(s)
<1>4. PICK end :
        /\ Ends(c, end) /\ Layout(c) \in FileType
        /\ Layout(c).identity /\ Layout(c).kind = c.kind /\ Layout(c).dimension = c.dimension
        /\ Layout(c).codecOffset = HeaderLen /\ Layout(c).codecLen = CodecLength(c)
        /\ Layout(c).tableOffset = TableStart(c) /\ Layout(c).sectionCount = n
        /\ Layout(c).fileLen = end[n] /\ Layout(c).length = end[n]
        /\ Len(Layout(c).entries) = n
        /\ \A k \in 1 .. n :
              /\ Layout(c).entries[k].kind = s[k]
              /\ Layout(c).entries[k].offset = Place(s[k], end[k - 1])
              /\ Layout(c).entries[k].byteLen = ByteLen(s[k], c)
              /\ Layout(c).entries[k].count = Count(s[k], c)
  BY <1>3, LayoutIsKnown
<1>5. /\ s = SectionsOf(c.kind) /\ s \in Seq(SectionKinds) /\ Distinct(s) /\ n \in Nat
      /\ \A k \in 1 .. n : s[k] \in SectionKinds /\ s[k] \in Range(s)
  <2>1. c.kind \in FileKinds
    BY <1>3 DEF Content
  <2>2. s = SectionsOf(c.kind) /\ s \in Seq(SectionKinds) /\ Distinct(s)
    BY <2>1, SectionsDiffer DEF Sections
  <2>. HIDE DEF s
  <2>. QED  BY <2>2 DEF Range
<1>. HIDE DEF s, n
<1>6. /\ written.entries \in Seq(EntryType) /\ DOMAIN written.entries = 1 .. n
      /\ \A k \in 1 .. n : written.entries[k] \in EntryType /\ written.entries[k].kind = s[k]
  <2>1. written.entries \in Seq(EntryType)
    BY <1>2, <1>4 DEF FileType
  <2>. QED  BY <1>2, <1>4, <2>1
<1>7. WrittenAs(c, s, n)
  BY <1>2, <1>3, <1>4, <1>5, <1>6 DEF WrittenAs, n
<1>8. Entries = file.entries
  <2>1. file \in FileType /\ file.sectionCount = n /\ Len(file.entries) = n
    BY <1>1, <1>2, <1>4
  <2>2. /\ Entries \in Seq(EntryType) /\ Len(Entries) = n
        /\ \A k \in 1 .. n : Entries[k] = file.entries[k]
    BY <1>5, <2>1, EntriesRead
  <2>3. file.entries \in Seq(EntryType)
    BY <2>1 DEF FileType
  <2>. QED  BY <2>1, <2>2, <2>3, SameSeq
<1>9. \A k \in 1 .. n : SectionOf(file.entries, s[k]) = file.entries[k]
  <2>. DEFINE e == file.entries
  <2>1. n = Len(s) /\ n \in Nat /\ Distinct(s)
    BY <1>5 DEF n
  <2>2. DOMAIN e = 1 .. n /\ \A j \in 1 .. n : e[j].kind = s[j]
    BY <1>1, <1>6
  <2>. HIDE DEF e
  <2>3. \A k \in 1 .. n : SectionOf(e, s[k]) = e[k]
    BY <2>1, <2>2, SectionFound
  <2>. QED  BY <2>3 DEF e
<1>10. end[n] <= MaxUsize
  BY <1>2, <1>4, FilesFit
<1>11. Undamaged(c, s, n, end)
  BY <1>1, <1>2, <1>4, <1>5, <1>6, <1>7, <1>8, <1>9, <1>10 DEF Undamaged
<1>. QED  BY <1>3, <1>11

(* Where everything stands in an undamaged file. *)
LEMMA UndamagedPlaces ==
  ASSUME NEW c \in Content, NEW s, NEW n, NEW end, Undamaged(c, s, n, end)
  PROVE  /\ n \in Nat /\ n = Len(s) /\ s = SectionsOf(c.kind) /\ MaxUsize \in 0 .. MaxU64
         /\ CodecLength(c) \in Nat /\ TableStart(c) \in Nat
         /\ HeaderLen + CodecLength(c) <= TableStart(c)
         /\ n * EntryLen \in Nat /\ end[0] = TableStart(c) + n * EntryLen
         /\ \A k \in 0 .. n : end[k] \in Nat /\ end[0] <= end[k] /\ end[k] <= end[n]
         /\ \A i, j \in 0 .. n : i <= j => end[i] <= end[j]
         /\ \A k \in 1 .. n :
               /\ file.entries[k] \in EntryType /\ file.entries[k].kind = s[k]
               /\ s[k] \in SectionKinds /\ file.entries[k].count = Count(s[k], c)
               /\ file.entries[k].byteLen = ByteLen(s[k], c)
               /\ end[k - 1] <= file.entries[k].offset
               /\ file.entries[k].offset + file.entries[k].byteLen = end[k]
               /\ file.entries[k].offset % Alignment(s[k]) = 0
<1>1. /\ n \in Nat /\ n = Len(s) /\ s = SectionsOf(c.kind) /\ file = written
      /\ Ends(c, end) /\ Sections(c) = s
      /\ \A k \in 1 .. n : /\ file.entries[k] \in EntryType /\ file.entries[k].kind = s[k]
                           /\ s[k] \in SectionKinds /\ file.entries[k].count = Count(s[k], c)
                           /\ file.entries[k].byteLen = ByteLen(s[k], c)
                           /\ file.entries[k].offset = Place(s[k], end[k - 1])
  BY DEF Undamaged, WrittenAs, Sections
<1>2. /\ MaxUsize \in 0 .. MaxU64 /\ CodecLength(c) \in Nat /\ TableStart(c) \in Nat
      /\ HeaderLen + CodecLength(c) <= TableStart(c) /\ n * EntryLen \in Nat
  BY <1>1, SizesAssumption, SizesAreNaturals, TablesAreAligned
<1>3. /\ end \in [0 .. n -> Nat] /\ end[0] = TableStart(c) + n * EntryLen
      /\ \A k \in 1 .. n : end[k] = Place(s[k], end[k - 1]) + ByteLen(s[k], c)
  BY <1>1 DEF Ends
<1>4. \A i, j \in 0 .. n : i <= j => end[i] <= end[j]
  BY <1>1, EndsGrow
<1>5. \A k \in 0 .. n : end[k] \in Nat /\ end[0] <= end[k] /\ end[k] <= end[n]
  <2>. TAKE k \in 0 .. n
  <2>1. 0 \in 0 .. n /\ n \in 0 .. n /\ 0 <= k /\ k <= n
    BY <1>1
  <2>. QED  BY <1>3, <1>4, <2>1
<1>6. ASSUME NEW k \in 1 .. n
      PROVE  /\ end[k - 1] <= file.entries[k].offset
             /\ file.entries[k].offset + file.entries[k].byteLen = end[k]
             /\ file.entries[k].offset % Alignment(s[k]) = 0
  <2>1. k - 1 \in 0 .. n
    BY <1>1
  <2>2. end[k - 1] \in Nat /\ s[k] \in SectionKinds
    BY <1>1, <1>3, <2>1
  <2>3. /\ end[k - 1] <= Place(s[k], end[k - 1])
        /\ Place(s[k], end[k - 1]) % Alignment(s[k]) = 0
    BY <2>2, PlacesAligned
  <2>. QED  BY <1>1, <1>3, <2>3
<1>. QED  BY <1>1, <1>2, <1>3, <1>4, <1>5, <1>6

(* No two of its regions overlap. *)
LEMMA UndamagedApart ==
  ASSUME NEW c \in Content, NEW s, NEW n, NEW end, Undamaged(c, s, n, end)
  PROVE  NonOverlapping
<1>. DEFINE r == Regions
<1>1. /\ n \in Nat /\ CodecLength(c) \in Nat /\ TableStart(c) \in Nat
      /\ HeaderLen + CodecLength(c) <= TableStart(c)
      /\ n * EntryLen \in Nat /\ end[0] = TableStart(c) + n * EntryLen
      /\ \A k \in 0 .. n : end[k] \in Nat /\ end[0] <= end[k]
      /\ \A i, j \in 0 .. n : i <= j => end[i] <= end[j]
      /\ \A k \in 1 .. n : /\ file.entries[k] \in EntryType
                           /\ end[k - 1] <= file.entries[k].offset
                           /\ file.entries[k].offset + file.entries[k].byteLen = end[k]
  BY UndamagedPlaces
<1>2. /\ file \in FileType /\ file.sectionCount = n /\ Len(file.entries) = n
      /\ file.codecOffset = HeaderLen /\ file.codecLen = CodecLength(c)
      /\ file.tableOffset = TableStart(c) /\ Entries = file.entries
  BY DEF Undamaged, WrittenAs
<1>3. /\ r \in Seq(Region) /\ Len(r) = 3 + n
      /\ r[1] = [name |-> "header", offset |-> 0, len |-> HeaderLen]
      /\ r[2] = [name |-> "codec", offset |-> HeaderLen, len |-> CodecLength(c)]
      /\ r[3] = [name |-> "table", offset |-> TableStart(c), len |-> n * EntryLen]
      /\ \A k \in 1 .. n :
            r[3 + k] = [name |-> file.entries[k].kind, offset |-> file.entries[k].offset,
                        len |-> file.entries[k].byteLen]
  BY <1>1, <1>2, RegionsKnown
<1>. HIDE DEF r
<1>4. HeaderLen \in Nat
  BY SizesAreNaturals
<1>5. /\ LastOf(r[1]) = HeaderLen /\ r[1].offset = 0
      /\ LastOf(r[2]) = HeaderLen + CodecLength(c) /\ r[2].offset = HeaderLen
      /\ LastOf(r[3]) = end[0] /\ r[3].offset = TableStart(c)
  BY <1>1, <1>3, <1>4 DEF LastOf
<1>6. \A k \in 1 .. n : LastOf(r[3 + k]) = end[k] /\ end[k - 1] <= r[3 + k].offset
  <2>. TAKE k \in 1 .. n
  <2>1. r[3 + k].offset = file.entries[k].offset /\ r[3 + k].len = file.entries[k].byteLen
    <3>1. r[3 + k] = [name |-> file.entries[k].kind, offset |-> file.entries[k].offset,
                      len |-> file.entries[k].byteLen]
      BY <1>3
    <3>. QED  BY <3>1
  <2>. QED  BY <1>1, <2>1 DEF LastOf
<1>7. ASSUME NEW i \in 1 .. (3 + n), NEW j \in 1 .. (3 + n), i < j
      PROVE  LastOf(r[i]) <= r[j].offset
  <2>1. CASE j <= 3
    <3>1. (i = 1 /\ j = 2) \/ (i = 1 /\ j = 3) \/ (i = 2 /\ j = 3)
      BY <1>7, <2>1
    <3>. QED  BY <1>1, <1>4, <1>5, <3>1
  <2>2. CASE j > 3
    <3>. DEFINE q == j - 3
    <3>1. q \in 1 .. n /\ j = 3 + q /\ q - 1 \in 0 .. n
      BY <1>1, <2>2
    <3>. HIDE DEF q
    <3>2. /\ end[q - 1] <= r[j].offset /\ end[q - 1] \in Nat /\ end[0] <= end[q - 1]
          /\ r[j].offset \in Nat
      <4>1. r[3 + q].offset = file.entries[q].offset
        <5>1. r[3 + q] = [name |-> file.entries[q].kind, offset |-> file.entries[q].offset,
                          len |-> file.entries[q].byteLen]
          BY <1>3, <3>1
        <5>. QED  BY <5>1
      <4>2. file.entries[q].offset \in Nat
        BY <1>1, <3>1 DEF EntryType
      <4>. QED  BY <1>1, <1>6, <3>1, <4>1, <4>2
    <3>3. CASE i <= 3
      <4>1. i = 1 \/ i = 2 \/ i = 3
        BY <3>3
      <4>2. LastOf(r[i]) \in Nat /\ LastOf(r[i]) <= end[0]
        <5>1. 0 \in 0 .. n /\ end[0] \in Nat
          BY <1>1
        <5>. QED  BY <1>1, <1>4, <1>5, <4>1, <5>1
      <4>3. end[0] \in Nat
        BY <1>1
      <4>. QED  BY <3>2, <4>2, <4>3
    <3>4. CASE i > 3
      <4>. DEFINE p == i - 3
      <4>1. p \in 1 .. n /\ i = 3 + p /\ p \in 0 .. n /\ p <= q - 1
        BY <1>1, <1>7, <3>1, <3>4
      <4>. HIDE DEF p
      <4>2. LastOf(r[i]) = end[p] /\ end[p] \in Nat /\ end[p] <= end[q - 1]
        BY <1>1, <1>6, <3>1, <4>1
      <4>. QED  BY <3>2, <4>2
    <3>. QED  BY <3>3, <3>4
  <2>. QED  BY <2>1, <2>2
<1>8. \A i, j \in Holding(r) : i # j => Apart(r, i, j)
  <2>. TAKE i, j \in Holding(r)
  <2>1. i \in 1 .. (3 + n) /\ j \in 1 .. (3 + n)
    BY <1>3 DEF Holding
  <2>2. i # j => i < j \/ j < i
    BY <1>1, <2>1
  <2>. QED  BY <1>7, <2>1, <2>2 DEF Apart
<1>. QED  BY <1>3, <1>8, NonOverlappingIsApart, NeighborsApartSuffice DEF r

(* A section of an undamaged file, found by its kind. *)
LEMMA UndamagedSection ==
  ASSUME NEW c \in Content, NEW s, NEW n, NEW end, Undamaged(c, s, n, end),
         NEW section \in Range(s)
  PROVE  /\ Entries = file.entries /\ Entries = written.entries
         /\ SectionOf(Entries, section).count = Count(section, c)
         /\ SectionOf(Entries, section).byteLen = ByteLen(section, c)
         /\ SectionOf(Entries, section) \in Range(written.entries)
         /\ SectionOf(Entries, section).kind = section
<1>1. /\ n \in Nat /\ n = Len(s) /\ s \in Seq(SectionKinds) /\ file = written
      /\ Entries = file.entries /\ DOMAIN file.entries = 1 .. n
      /\ \A k \in 1 .. n : SectionOf(file.entries, s[k]) = file.entries[k]
  BY DEF Undamaged, WrittenAs
<1>2. PICK k \in 1 .. n : s[k] = section
  BY <1>1 DEF Range
<1>3. SectionOf(Entries, section) = file.entries[k]
  BY <1>1, <1>2
<1>4. /\ file.entries[k].kind = section /\ file.entries[k].count = Count(section, c)
      /\ file.entries[k].byteLen = ByteLen(section, c)
  BY <1>2, UndamagedPlaces
<1>5. file.entries[k] \in Range(file.entries)
  BY <1>1 DEF Range
<1>. QED  BY <1>1, <1>3, <1>4, <1>5

(* Its sections are inside the file and as large as their elements.        *)
LEMMA UndamagedSectionsValid ==
  ASSUME NEW c \in Content, NEW s, NEW n, NEW end, Undamaged(c, s, n, end)
  PROVE  \A entry \in Range(Entries) : ValidSection(entry)
<1>1. /\ n \in Nat /\ MaxUsize \in 0 .. MaxU64
      /\ \A k \in 0 .. n : end[k] \in Nat /\ end[k] <= end[n]
      /\ \A k \in 1 .. n :
            /\ file.entries[k] \in EntryType /\ file.entries[k].kind = s[k]
            /\ s[k] \in SectionKinds /\ file.entries[k].count = Count(s[k], c)
            /\ file.entries[k].byteLen = ByteLen(s[k], c)
            /\ file.entries[k].offset + file.entries[k].byteLen = end[k]
            /\ file.entries[k].offset % Alignment(s[k]) = 0
  BY UndamagedPlaces
<1>2. /\ file.length = end[n] /\ end[n] <= MaxUsize /\ Entries = file.entries
      /\ DOMAIN file.entries = 1 .. n
  BY DEF Undamaged
<1>3. MaxU64 \in Nat /\ n \in 0 .. n
  BY <1>1, SizesAssumption
<1>4. ASSUME NEW k \in 1 .. n PROVE ValidSection(file.entries[k])
  <2>. DEFINE e == file.entries[k]
  <2>1. /\ e \in EntryType /\ e.kind = s[k] /\ s[k] \in SectionKinds
        /\ e.count = Count(s[k], c) /\ e.byteLen = ByteLen(s[k], c)
        /\ e.offset + e.byteLen = end[k] /\ e.offset % Alignment(s[k]) = 0
    BY <1>1
  <2>2. end[k] \in Nat /\ end[k] <= end[n] /\ end[n] \in Nat
    BY <1>1, <1>3
  <2>. HIDE DEF e
  <2>3. e.offset \in Nat /\ e.byteLen \in Nat
    BY <2>1 DEF EntryType
  <2>4. /\ end[k] <= MaxUsize /\ end[k] <= MaxU64 /\ end[k] <= file.length
        /\ e.byteLen <= MaxU64
    BY <1>1, <1>2, <1>3, <2>1, <2>2, <2>3
  <2>5. InFile(e.offset, e.byteLen)
    BY <2>1, <2>4 DEF InFile
  <2>6. ~IsBlob(s[k]) => ByteLen(s[k], c) = Count(s[k], c) * ElementSize(s[k])
    BY Zenon DEF ByteLen, IsBlob
  <2>7. ~IsBlob(e.kind) =>
          /\ e.count * ElementSize(e.kind) <= MaxU64
          /\ e.byteLen = e.count * ElementSize(e.kind)
          /\ e.offset % Alignment(e.kind) = 0
    BY <2>1, <2>4, <2>6
  <2>8. ValidSection(e)
    BY <2>1, <2>5, <2>7 DEF ValidSection, TypedAsDescribed
  <2>. QED  BY <2>8 DEF e
<1>. QED  BY <1>2, <1>4 DEF Range

(* It has the sections of its kind. *)
LEMMA UndamagedComplete ==
  ASSUME NEW c \in Content, NEW s, NEW n, NEW end, Undamaged(c, s, n, end)
  PROVE  RequiredSections(c.kind)
<1>1. /\ n \in Nat /\ n = Len(s) /\ s = SectionsOf(c.kind) /\ s \in Seq(SectionKinds)
      /\ Entries = file.entries /\ DOMAIN file.entries = 1 .. n
  BY DEF Undamaged, WrittenAs
<1>2. \A k \in 1 .. n :
         /\ file.entries[k] \in EntryType /\ file.entries[k].kind = s[k]
         /\ s[k] \in SectionKinds
  BY UndamagedPlaces
<1>3. /\ DOMAIN Entries = 1 .. n /\ DOMAIN s = 1 .. n
      /\ \A k \in 1 .. n : Entries[k].kind = s[k]
  BY <1>1, <1>2
<1>4. KindsOf(Entries) = {Entries[k].kind : k \in 1 .. n}
  BY <1>1, <1>3, KindsListed
<1>5. Range(s) = {s[k] : k \in 1 .. n}
  BY <1>3 DEF Range
<1>6. {Entries[k].kind : k \in 1 .. n} = {s[k] : k \in 1 .. n}
  BY <1>3
<1>. QED  BY <1>1, <1>4, <1>5, <1>6 DEF RequiredSections, KindsOf

(* The counts of its sections agree with one another. *)
LEMMA UndamagedCounts ==
  ASSUME NEW c \in Content, NEW s, NEW n, NEW end, Undamaged(c, s, n, end)
  PROVE  ValidStructure(c.kind)
<1>. DEFINE E(section) == SectionOf(Entries, section)
<1>1. /\ s = SectionsOf(c.kind) /\ n \in Nat /\ n = Len(s) /\ c.kind \in FileKinds
      /\ c.tokens \in Nat /\ c.strings \in Nat /\ c.symbols \in Nat /\ s \in Seq(SectionKinds)
  <2>1. s = SectionsOf(c.kind) /\ n \in Nat /\ n = Len(s) /\ s \in Seq(SectionKinds)
    BY DEF Undamaged, WrittenAs
  <2>. QED  BY <2>1 DEF Content
<1>2. \A section \in Range(s) : E(section).count = Count(section, c)
  BY UndamagedSection
<1>3. RequiredSections(c.kind)
  BY UndamagedComplete
<1>4. \A kind : LengthOf(Entries, kind) = LengthOf(written.entries, kind)
  <2>1. Entries = written.entries
    BY DEF Undamaged
  <2>. QED  BY <2>1
<1>. DEFINE Longer(section) == E(section).count \in Nat /\ E(section).count > 0
<1>5. ASSUME c.kind = "engine"
      PROVE  /\ E("vocabulary offsets").count = c.tokens + 1
             /\ E("posting offsets").count = c.tokens + 1
             /\ E("sequence offsets").count = c.strings + 1
             /\ E("vocabulary blob").count = c.tokens
  <2>1. /\ "vocabulary offsets" \in Range(s) /\ "posting offsets" \in Range(s)
        /\ "sequence offsets" \in Range(s) /\ "vocabulary blob" \in Range(s)
    BY <1>1, <1>5, RangesListed, Zenon
  <2>2. /\ Count("vocabulary offsets", c) = c.tokens + 1
        /\ Count("posting offsets", c) = c.tokens + 1
        /\ Count("sequence offsets", c) = c.strings + 1
        /\ Count("vocabulary blob", c) = c.tokens
    BY Zenon DEF Count
  <2>. QED  BY <1>2, <2>1, <2>2, Zenon
<1>6. ASSUME c.kind = "embedding store"
      PROVE  /\ E("embedding offsets").count = c.tokens + 1
             /\ E("embedding blob").count = c.tokens
  <2>1. "embedding offsets" \in Range(s) /\ "embedding blob" \in Range(s)
    BY <1>1, <1>6, RangesListed, Zenon
  <2>2. Count("embedding offsets", c) = c.tokens + 1 /\ Count("embedding blob", c) = c.tokens
    BY Zenon DEF Count
  <2>. QED  BY <1>2, <2>1, <2>2, Zenon
<1>7. c.tokens + 1 > 0 /\ c.strings + 1 > 0
  BY <1>1
<1>. HIDE DEF E
<1>8. OffsetsAgree(c.kind)
  <2>1. \A offsets, payload : E(offsets).count > 0 => OffsetsEndWith(offsets, payload)
    BY <1>4, Zenon DEF OffsetsEndWith, E
  <2>2. ASSUME c.kind = "engine"
        PROVE  /\ OffsetsEndWith("vocabulary offsets", "vocabulary blob")
               /\ OffsetsEndWith("sequence offsets", "corpus symbols")
               /\ OffsetsEndWith("posting offsets", "postings")
    BY <1>5, <1>7, <2>1, <2>2, Zenon
  <2>3. ASSUME c.kind = "embedding store"
        PROVE  OffsetsEndWith("embedding offsets", "embedding blob")
    BY <1>6, <1>7, <2>1, <2>3, Zenon
  <2>. QED  BY <2>2, <2>3, Zenon DEF OffsetsAgree
<1>9. CountsAgree(c.kind)
  BY <1>5, <1>6, Zenon DEF CountsAgree, E
<1>. QED  BY <1>3, <1>8, <1>9, Zenon DEF ValidStructure

(* A file that is not damaged is accepted as one of its kind. *)
LEMMA UndamagedAccepted ==
  ASSUME NEW c \in Content, NEW s, NEW n, NEW end, Undamaged(c, s, n, end)
  PROVE  Accepts(c.kind)
<1>1. /\ n \in Nat /\ n = Len(s) /\ s = SectionsOf(c.kind) /\ MaxUsize \in 0 .. MaxU64
      /\ CodecLength(c) \in Nat /\ TableStart(c) \in Nat
      /\ HeaderLen + CodecLength(c) <= TableStart(c)
      /\ n * EntryLen \in Nat /\ end[0] = TableStart(c) + n * EntryLen
      /\ \A k \in 0 .. n : end[k] \in Nat /\ end[0] <= end[k] /\ end[k] <= end[n]
  BY UndamagedPlaces
<1>2. /\ file = written /\ file.identity /\ file.kind = c.kind
      /\ file.codecOffset = HeaderLen /\ file.codecLen = CodecLength(c)
      /\ file.tableOffset = TableStart(c) /\ file.fileLen = end[n] /\ file.length = end[n]
      /\ end[n] <= MaxUsize /\ file.sectionCount = n /\ Len(file.entries) = n
  BY DEF Undamaged, WrittenAs
<1>3. /\ end[n] \in Nat /\ end[0] \in Nat /\ end[0] <= end[n]
      /\ MaxU64 \in Nat /\ HeaderLen \in Nat
  <2>1. 0 \in 0 .. n /\ n \in 0 .. n
    BY <1>1
  <2>. QED  BY <1>1, <2>1, SizesAssumption
<1>4. ValidHeader(c.kind)
  BY <1>1, <1>2, <1>3 DEF ValidHeader
<1>5. CodecAgrees(c.kind)
  <2>1. InFile(file.codecOffset, file.codecLen)
    BY <1>1, <1>2, <1>3 DEF InFile
  <2>2. file.codecLen = IF HasTokens(c.kind) THEN CodecLen ELSE NoCodecLen
    BY <1>2 DEF CodecLength
  <2>3. HasTokens(c.kind) = HasTokens(written.kind)
    BY <1>2
  <2>. QED  BY <2>1, <2>2, <2>3, Zenon DEF CodecAgrees
<1>6. InFile(file.tableOffset, file.sectionCount * EntryLen)
  BY <1>1, <1>2, <1>3 DEF InFile
<1>7. file.sectionCount = Len(SectionsOf(c.kind)) /\ file.sectionCount <= Len(file.entries)
  BY <1>1, <1>2
<1>8. \A entry \in Range(Entries) : ValidSection(entry)
  BY UndamagedSectionsValid
<1>9. NonOverlapping /\ ValidStructure(c.kind)
  BY UndamagedApart, UndamagedCounts
<1>. QED  BY <1>2, <1>4, <1>5, <1>6, <1>7, <1>8, <1>9, Zenon DEF Accepts

(* Its metadata is as long as its kind needs. *)
LEMMA UndamagedMetadata ==
  ASSUME NEW c \in Content, NEW s, NEW n, NEW end, Undamaged(c, s, n, end),
         NEW section \in Range(s), IsMetadata(section)
  PROVE  MetadataReadable(c.kind) /\ MetadataInPlace
<1>. DEFINE len == SectionOf(Entries, section).byteLen
<1>1. /\ Entries = written.entries /\ SectionOf(Entries, section) \in Range(written.entries)
      /\ SectionOf(Entries, section).kind = section
      /\ len = ByteLen(section, c)
  BY UndamagedSection
<1>2. c.kind \in FileKinds /\ c.bytes \in Nat /\ CustomHeaderLen \in Nat
  <2>. HIDE DEF HalfWord
  <2>. QED  BY SizesAreNaturals DEF Content, CustomHeaderLen
<1>3. len = MetadataLen(c)
  BY <1>1, Zenon DEF ByteLen, IsMetadata
<1>4. /\ c.kind = "embedding store" => len = StoreMetadataLen
      /\ c.kind = "cosine costs" => len = CosineMetadataLen
      /\ c.kind = "custom costs" => len = CustomHeaderLen + c.bytes
  BY <1>3, Zenon DEF MetadataLen
<1>5. c.kind = "custom costs" => len >= CustomHeaderLen
  <2>1. CustomHeaderLen + c.bytes >= CustomHeaderLen
    BY <1>2
  <2>. QED  BY <1>4, <2>1, Zenon
<1>6. len = SectionOf(written.entries, section).byteLen
  BY <1>1, Zenon
<1>7. MetadataReadable(c.kind)
  BY <1>4, <1>5, <1>6, Zenon DEF MetadataReadable, IsMetadata
<1>8. MetadataInPlace
  BY <1>1, Zenon DEF MetadataInPlace, IsMetadata
<1>. QED  BY <1>7, <1>8

LEMMA OneLess == \A m \in Nat : \A k : k = m + 1 => k - 1 = m
OBVIOUS

(* The matrix of embeddings has a row for every token. *)
LEMMA UndamagedShape ==
  ASSUME NEW c \in Content, NEW s, NEW n, NEW end, Undamaged(c, s, n, end),
         c.kind = "embedding store"
  PROVE  ShapeAgrees
<1>. DEFINE rows   == SectionOf(Entries, "embedding offsets").count - 1
            values == SectionOf(Entries, "embeddings").count
<1>1. /\ s = SectionsOf(c.kind) /\ written.dimension = c.dimension
      /\ c.tokens \in Nat /\ c.dimension \in Nat
  BY DEF Undamaged, WrittenAs, Content
<1>2. /\ "embedding offsets" \in Range(s) /\ "embeddings" \in Range(s)
      /\ "cost metadata" \in Range(s)
  BY <1>1, RangesListed, Zenon
<1>3. /\ SectionOf(Entries, "embedding offsets").count = c.tokens + 1
      /\ values = c.tokens * c.dimension
  <2>1. /\ Count("embedding offsets", c) = c.tokens + 1
        /\ Count("embeddings", c) = c.tokens * c.dimension
    BY Zenon DEF Count
  <2>2. \A section \in Range(s) : SectionOf(Entries, section).count = Count(section, c)
    BY UndamagedSection
  <2>. QED  BY <1>2, <2>1, <2>2, Zenon
<1>4. rows = c.tokens
  BY <1>1, <1>3, OneLess, Zenon
<1>5. values = rows * written.dimension
  BY <1>1, <1>3, <1>4, Zenon
<1>6. MetadataInPlace
  BY <1>2, UndamagedMetadata, Zenon DEF IsMetadata
<1>. QED  BY <1>5, <1>6, Zenon DEF ShapeAgrees

(* What write_file writes, open accepts: the empty sections, the sections  *)
(* whose offsets coincide and the largest file that fits the host among    *)
(* them.  The layout satisfies every condition of the validation, because  *)
(* the cursor of write_file never goes back, its alignment is the one of   *)
(* the elements, and the counts come from the same contents.               *)
THEOREM WrittenOpens == Spec => []WrittenIsAccepted
<1>1. FormatInv => WrittenIsAccepted
  <2>. SUFFICES ASSUME FormatInv, damaged = {}, outcome # Unopened
                PROVE  outcome.status # "refused"
    BY DEF WrittenIsAccepted, Unopened
  <2>1. PICK c, s, n, end : Undamaged(c, s, n, end)
    BY UndamagedKnown
  <2>2. c.kind \in FileKinds /\ s = SectionsOf(c.kind) /\ file.kind = c.kind /\ written.kind = c.kind
    BY <2>1 DEF Undamaged, WrittenAs, Content
  <2>3. /\ outcome.kind \in {written.kind, file.kind}
        /\ outcome.status = "accepted" <=> Opens(outcome.kind)
        /\ outcome.status \in {"accepted", "refused"}
    BY DEF FormatInv, OutcomeOf
  <2>4. outcome.kind = c.kind
    BY <2>2, <2>3
  <2>. c \in Content
    BY <2>1 DEF Undamaged, WrittenAs
  <2>5. Accepts(c.kind)
    BY <2>1, UndamagedAccepted
  <2>6. \A section \in Range(s) : IsMetadata(section) => MetadataReadable(c.kind)
    BY <2>1, UndamagedMetadata
  <2>7. "cost metadata" \in Range(SectionsOf(c.kind)) => MetadataReadable(c.kind)
    BY <2>2, <2>6, Zenon DEF IsMetadata
  <2>8. c.kind = "embedding store" => ShapeAgrees
    BY <2>1, UndamagedShape, Zenon
  <2>9. Opens(c.kind)
    BY <2>5, <2>7, <2>8, Zenon DEF Opens
  <2>. QED  BY <2>3, <2>4, <2>9, Zenon
<1>. QED  BY <1>1, FormatIsInvariant, PTL
==============================================================================
