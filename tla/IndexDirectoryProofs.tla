------------------------ MODULE IndexDirectoryProofs -------------------------
(***************************************************************************)
(* The index directory, for any number of runs and searches over texts of  *)
(* any length: first what encoding, slicing and tokenizing do to a text,   *)
(* then the invariant of the directory, then that a search which opened    *)
(* the files of one run locates what it matched.                           *)
(***************************************************************************)
EXTENDS IndexDirectory, CommonLemmas

Letters    == Chars \cup {NewLine}
ByteValues == [char : Letters, byte : {1, 2}]

(* The bytes of a text, character by character.                            *)
Blocks(text) == [i \in DOMAIN text |-> Bytes(text[i])]

LEMMA BytesFacts ==
  ASSUME NEW c \in Letters
  PROVE  /\ Bytes(c) \in Seq(ByteValues)
         /\ Len(Bytes(c)) = Width(c)
         /\ Width(c) \in {1, 2}
         /\ \A n \in 1 .. Width(c) : Bytes(c)[n] = [char |-> c, byte |-> n]
<1>1. Width(c) \in {1, 2}
  BY DEF Width
<1>2. \A n \in 1 .. Width(c) : [char |-> c, byte |-> n] \in ByteValues
  BY <1>1 DEF ByteValues
<1>3. Bytes(c) = [n \in 1 .. Width(c) |-> [char |-> c, byte |-> n]]
  BY DEF Bytes
<1>4. Bytes(c) \in [1 .. Width(c) -> ByteValues] /\ Width(c) \in Nat
  BY <1>1, <1>2, <1>3
<1>5. Bytes(c) \in Seq(ByteValues) /\ Len(Bytes(c)) = Width(c)
  BY <1>4
<1>. QED  BY <1>1, <1>3, <1>5

LEMMA BlocksFacts ==
  ASSUME NEW text \in Seq(Letters)
  PROVE  /\ Blocks(text) \in Seq(Seq(ByteValues))
         /\ Len(Blocks(text)) = Len(text)
         /\ \A i \in 1 .. Len(text) : Blocks(text)[i] = Bytes(text[i])
         /\ Encode(text) = FlattenSeq(Blocks(text))
         /\ Encode(text) \in Seq(ByteValues)
<1>1. DOMAIN text = 1 .. Len(text) /\ Len(text) \in Nat
      /\ \A i \in 1 .. Len(text) : text[i] \in Letters
  OBVIOUS
<1>2. Blocks(text) = [i \in 1 .. Len(text) |-> Bytes(text[i])]
  BY <1>1 DEF Blocks
<1>3. \A i \in 1 .. Len(text) : Bytes(text[i]) \in Seq(ByteValues)
  BY <1>1, BytesFacts
<1>4. Blocks(text) \in [1 .. Len(text) -> Seq(ByteValues)]
  BY <1>2, <1>3
<1>5. Blocks(text) \in Seq(Seq(ByteValues)) /\ Len(Blocks(text)) = Len(text)
  BY <1>1, <1>4
<1>6. Encode(text) = FlattenSeq(Blocks(text))
  BY DEF Encode, Blocks
<1>. QED  BY <1>2, <1>5, <1>6, FlattenType

LEMMA BlocksOfSlice ==
  ASSUME NEW text \in Seq(Letters), NEW a \in 1 .. (Len(text) + 1), NEW b \in 0 .. Len(text)
  PROVE  /\ SubSeq(text, a, b) \in Seq(Letters)
         /\ Blocks(SubSeq(text, a, b)) = SubSeq(Blocks(text), a, b)
<1>. DEFINE part == SubSeq(text, a, b)
            n == IF a <= b THEN b - a + 1 ELSE 0
<1>1. Len(text) \in Nat /\ \A i \in a .. b : i \in 1 .. Len(text) /\ text[i] \in Letters
  OBVIOUS
<1>2. /\ part \in Seq(Letters) /\ Len(part) = n
      /\ \A i \in 1 .. (b - a + 1) : part[i] = text[a + i - 1]
  BY <1>1, SubSeqProperties
<1>3. \A i \in a .. b : Blocks(text)[i] = Bytes(text[i]) /\ Blocks(text)[i] \in Seq(ByteValues)
  BY <1>1, BlocksFacts, BytesFacts, SMTT(30)
<1>. DEFINE slice == SubSeq(Blocks(text), a, b)
<1>4. /\ slice \in Seq(Seq(ByteValues)) /\ Len(slice) = n
      /\ \A i \in 1 .. (b - a + 1) : slice[i] = Blocks(text)[a + i - 1]
  BY <1>1, <1>3, SubSeqProperties
<1>5. \A i \in 1 .. n : i \in 1 .. (b - a + 1) /\ a + i - 1 \in a .. b
  OBVIOUS
<1>. HIDE DEF part, slice
<1>6. \A i \in 1 .. n : slice[i] = Bytes(part[i])
  BY <1>2, <1>3, <1>4, <1>5
<1>7. /\ Blocks(part) \in Seq(Seq(ByteValues)) /\ Len(Blocks(part)) = n
      /\ \A i \in 1 .. n : Blocks(part)[i] = Bytes(part[i])
  BY <1>2, BlocksFacts
<1>8. Blocks(part) = slice
  BY <1>4, <1>6, <1>7, SeqEqual
<1>. QED  BY <1>2, <1>8 DEF part, slice

(* The bytes between two characters of a text are those of the text        *)
(* between them.                                                           *)
LEMMA EncodeSlice ==
  ASSUME NEW text \in Seq(Letters), NEW a \in 1 .. (Len(text) + 1), NEW b \in a .. (Len(text) + 1)
  PROVE  /\ Offset(text, a) \in Nat
         /\ Offset(text, b) = Offset(text, a) + Len(Encode(SubSeq(text, a, b - 1)))
         /\ Offset(text, b) <= Len(Encode(text))
         /\ SubSeq(Encode(text), Offset(text, a) + 1, Offset(text, b))
              = Encode(SubSeq(text, a, b - 1))
<1>. DEFINE ss == Blocks(text)
            F(i, j) == FlattenSeq(SubSeq(ss, i, j))
<1>1. Len(text) \in Nat /\ ss \in Seq(Seq(ByteValues)) /\ Len(ss) = Len(text)
      /\ Encode(text) = FlattenSeq(ss)
  BY BlocksFacts
<1>2. ASSUME NEW i \in 1 .. (Len(text) + 1), NEW j \in 0 .. Len(text)
      PROVE  Encode(SubSeq(text, i, j)) = F(i, j)
  <2>1. SubSeq(text, i, j) \in Seq(Letters) /\ Blocks(SubSeq(text, i, j)) = SubSeq(ss, i, j)
    BY BlocksOfSlice
  <2>. QED  BY <2>1, BlocksFacts
<1>3. /\ a - 1 \in 0 .. Len(ss) /\ b - 1 \in (a - 1) .. Len(ss) /\ (a - 1) + 1 = a
      /\ b - 1 \in 0 .. Len(text) /\ a - 1 \in 0 .. Len(text) /\ 1 \in 1 .. (Len(text) + 1)
  BY <1>1
<1>4. /\ Len(F(1, a - 1)) \in Nat
      /\ Len(F(1, b - 1)) = Len(F(1, a - 1)) + Len(F(a, b - 1))
      /\ Len(F(1, b - 1)) <= Len(FlattenSeq(ss))
      /\ SubSeq(FlattenSeq(ss), Len(F(1, a - 1)) + 1, Len(F(1, b - 1))) = F(a, b - 1)
  <2>1. /\ Len(F(1, a - 1)) \in Nat
        /\ Len(F(1, b - 1)) = Len(F(1, a - 1)) + Len(F((a - 1) + 1, b - 1))
        /\ Len(F(1, b - 1)) <= Len(FlattenSeq(ss))
        /\ SubSeq(FlattenSeq(ss), Len(F(1, a - 1)) + 1, Len(F(1, b - 1))) = F((a - 1) + 1, b - 1)
    <3>. HIDE DEF ss
    <3>. QED  BY <1>1, <1>3, FlattenSlice, ZenonT(30)
  <2>. QED  BY <1>3, <2>1
<1>5. Offset(text, a) = Len(F(1, a - 1)) /\ Offset(text, b) = Len(F(1, b - 1))
  BY <1>2, <1>3 DEF Offset
<1>6. Encode(SubSeq(text, a, b - 1)) = F(a, b - 1)
  BY <1>2, <1>3
<1>. HIDE DEF F
<1>. QED  BY <1>1, <1>4, <1>5, <1>6

(* Where the bytes of each character are.                                  *)
LEMMA OffsetFacts ==
  ASSUME NEW text \in Seq(Letters)
  PROVE  /\ Offset(text, 1) = 0
         /\ Offset(text, Len(text) + 1) = Len(Encode(text))
         /\ \A i \in 1 .. (Len(text) + 1) : Offset(text, i) \in Nat
         /\ \A i \in 1 .. Len(text) :
               /\ Offset(text, i + 1) = Offset(text, i) + Width(text[i])
               /\ \A m \in 1 .. Width(text[i]) :
                     Encode(text)[Offset(text, i) + m] = [char |-> text[i], byte |-> m]
<1>1. Len(text) \in Nat /\ Encode(text) \in Seq(ByteValues)
  BY BlocksFacts
<1>2. Offset(text, 1) = 0
  <2>1. SubSeq(text, 1, 1 - 1) = <<>>
    OBVIOUS
  <2>2. Encode(<<>>) = <<>>
    BY FlattenEmpty DEF Encode
  <2>3. Offset(text, 1) = Len(Encode(SubSeq(text, 1, 1 - 1)))
    BY DEF Offset
  <2>4. Len(<<>>) = 0
    OBVIOUS
  <2>. HIDE DEF Encode
  <2>. QED  BY <2>1, <2>2, <2>3, <2>4
<1>3. Offset(text, Len(text) + 1) = Len(Encode(text))
  <2>1. SubSeq(text, 1, (Len(text) + 1) - 1) = text
    BY <1>1
  <2>. QED  BY <2>1 DEF Offset
<1>4. \A i \in 1 .. (Len(text) + 1) : Offset(text, i) \in Nat
  BY <1>1, EncodeSlice
<1>5. ASSUME NEW i \in 1 .. Len(text)
      PROVE  /\ Offset(text, i + 1) = Offset(text, i) + Width(text[i])
             /\ \A m \in 1 .. Width(text[i]) :
                   Encode(text)[Offset(text, i) + m] = [char |-> text[i], byte |-> m]
  <2>. DEFINE c == text[i]
              x == Offset(text, i)
              y == Offset(text, i + 1)
  <2>1. c \in Letters /\ i \in 1 .. (Len(text) + 1) /\ i + 1 \in i .. (Len(text) + 1)
        /\ (i + 1) - 1 = i
    BY <1>1
  <2>2. Encode(SubSeq(text, i, i)) = Bytes(c)
    <3>1. SubSeq(text, i, i) = <<c>>
      <4>1. \A k \in i .. i : text[k] \in Letters
        OBVIOUS
      <4>2. /\ SubSeq(text, i, i) \in Seq(Letters) /\ Len(SubSeq(text, i, i)) = 1
            /\ SubSeq(text, i, i)[1] = c
        BY <2>1, <4>1, SubSeqProperties
      <4>3. <<c>> \in Seq(Letters) /\ Len(<<c>>) = 1 /\ <<c>>[1] = c
        BY <2>1
      <4>4. \A k \in 1 .. 1 : k = 1
        OBVIOUS
      <4>. HIDE DEF c
      <4>. QED  BY <4>2, <4>3, <4>4, SeqEqual
    <3>2. <<c>> \in Seq(Letters) /\ Blocks(<<c>>) = <<Bytes(c)>>
      BY <2>1 DEF Blocks
    <3>3. Bytes(c) \in Seq(ByteValues)
      BY <2>1, BytesFacts
    <3>4. Encode(<<c>>) = FlattenSeq(<<Bytes(c)>>)
      BY <3>2, BlocksFacts
    <3>. DEFINE b == Bytes(c)
    <3>. HIDE DEF b, c
    <3>5. FlattenSeq(<<b>>) = b
      BY <3>3, FlattenOne DEF b
    <3>. QED  BY <3>1, <3>4, <3>5 DEF b
  <2>3. /\ x \in Nat
        /\ y = x + Len(Encode(SubSeq(text, i, (i + 1) - 1)))
        /\ y <= Len(Encode(text))
        /\ SubSeq(Encode(text), x + 1, y) = Encode(SubSeq(text, i, (i + 1) - 1))
    BY <2>1, EncodeSlice
  <2>4. Len(Bytes(c)) = Width(c) /\ Width(c) \in {1, 2}
        /\ \A m \in 1 .. Width(c) : Bytes(c)[m] = [char |-> c, byte |-> m]
    BY <2>1, BytesFacts
  <2>5. y = x + Width(c) /\ SubSeq(Encode(text), x + 1, y) = Bytes(c)
    BY <2>1, <2>2, <2>3, <2>4
  <2>6. \A m \in 1 .. Width(c) : SubSeq(Encode(text), x + 1, y)[m] = Encode(text)[x + m]
    <3>. HIDE DEF x, y, c
    <3>1. Len(Encode(text)) \in Nat /\ \A n \in 1 .. Len(Encode(text)) : Encode(text)[n] \in ByteValues
      BY <1>1
    <3>2. \A n \in (x + 1) .. y : Encode(text)[n] \in ByteValues
      BY <2>3, <2>4, <2>5, <3>1
    <3>3. \A m \in 1 .. (y - (x + 1) + 1) :
             SubSeq(Encode(text), x + 1, y)[m] = Encode(text)[(x + 1) + m - 1]
      BY <2>3, <2>4, <2>5, <3>2, SubSeqProperties
    <3>4. \A m \in 1 .. Width(c) : m \in 1 .. (y - (x + 1) + 1) /\ (x + 1) + m - 1 = x + m
      BY <2>3, <2>4, <2>5
    <3>. QED  BY <3>3, <3>4
  <2>. QED  BY <2>4, <2>5, <2>6
<1>. QED  BY <1>2, <1>3, <1>4, <1>5

LEMMA OffsetsIncrease ==
  ASSUME NEW text \in Seq(Letters), NEW i \in 1 .. Len(text), NEW j \in (i + 1) .. (Len(text) + 1)
  PROVE  Offset(text, i) < Offset(text, j)
<1>1. Len(text) \in Nat /\ i + 1 \in 1 .. (Len(text) + 1)
  OBVIOUS
<1>2. Offset(text, i + 1) = Offset(text, i) + Width(text[i]) /\ Offset(text, i) \in Nat
  BY <1>1, OffsetFacts
<1>3. Width(text[i]) \in {1, 2}
  BY DEF Width
<1>4. SubSeq(text, i + 1, j - 1) \in Seq(Letters)
  BY <1>1, BlocksOfSlice
<1>5. Len(Encode(SubSeq(text, i + 1, j - 1))) \in Nat
  BY <1>4, BlocksFacts
<1>6. Offset(text, j) = Offset(text, i + 1) + Len(Encode(SubSeq(text, i + 1, j - 1)))
  BY <1>1, EncodeSlice
<1>. QED  BY <1>2, <1>3, <1>5, <1>6

(* Every byte belongs to a character.                                      *)
LEMMA BytesOfCharacters ==
  ASSUME NEW text \in Seq(Letters), NEW p \in 1 .. Len(Encode(text))
  PROVE  \E i \in 1 .. Len(text) : \E m \in 1 .. Width(text[i]) : p = Offset(text, i) + m
<1>. DEFINE T == {i \in 1 .. (Len(text) + 1) : p <= Offset(text, i)}
<1>1. Len(text) \in Nat /\ Len(Encode(text)) \in Nat
  BY BlocksFacts
<1>2. Len(text) + 1 \in T
  BY <1>1, OffsetFacts
<1>3. PICK i \in T : \A j \in T : i <= j
  <2>1. T \in SUBSET Nat /\ T # {}
    BY <1>2
  <2>. HIDE DEF T
  <2>. QED  BY <2>1, LeastNatural
<1>4. i # 1
  <2>1. Offset(text, 1) = 0
    BY OffsetFacts
  <2>. QED  BY <1>1, <2>1
<1>5. i - 1 \in 1 .. Len(text) /\ i - 1 \notin T /\ (i - 1) + 1 = i
  BY <1>1, <1>3, <1>4
<1>6. Offset(text, i) = Offset(text, i - 1) + Width(text[i - 1]) /\ Offset(text, i - 1) \in Nat
  BY <1>1, <1>5, OffsetFacts
<1>7. Width(text[i - 1]) \in {1, 2}
  BY DEF Width
<1>8. ~(p <= Offset(text, i - 1)) /\ p <= Offset(text, i)
  BY <1>1, <1>5
<1>9. p - Offset(text, i - 1) \in 1 .. Width(text[i - 1])
  BY <1>1, <1>6, <1>7, <1>8
<1>10. p = Offset(text, i - 1) + (p - Offset(text, i - 1))
  BY <1>1, <1>6
<1>. QED  BY <1>5, <1>9, <1>10

(* Decoding is the inverse of encoding.                                    *)
LEMMA DecodeEncoded ==
  ASSUME NEW text \in Seq(Letters)
  PROVE  Decode(Encode(text)) = text /\ IsText(Encode(text))
<1>. DEFINE n == Len(text)
            bytes == Encode(text)
            s == [i \in 1 .. n |-> Offset(text, i) + 1]
            leading == {p \in DOMAIN bytes : bytes[p].byte = 1}
<1>1. n \in Nat /\ bytes \in Seq(ByteValues) /\ DOMAIN bytes = 1 .. Len(bytes) /\ Len(bytes) \in Nat
  BY BlocksFacts
<1>2. s \in [1 .. n -> Nat] /\ \A i, j \in 1 .. n : i < j => s[i] < s[j]
  <2>1. \A i \in 1 .. n : Offset(text, i) \in Nat
    BY <1>1, OffsetFacts
  <2>2. ASSUME NEW i \in 1 .. n, NEW j \in 1 .. n, i < j PROVE Offset(text, i) < Offset(text, j)
    <3>1. j \in (i + 1) .. (Len(text) + 1)
      BY <1>1, <2>2
    <3>. QED  BY <3>1, OffsetsIncrease
  <2>. QED  BY <2>1, <2>2
<1>3. \A i \in 1 .. n : s[i] \in DOMAIN bytes /\ bytes[s[i]] = [char |-> text[i], byte |-> 1]
  <2>. TAKE i \in 1 .. n
  <2>1. 1 \in 1 .. Width(text[i])
    BY DEF Width
  <2>2. bytes[s[i]] = [char |-> text[i], byte |-> 1]
    BY <2>1, OffsetFacts
  <2>3. Offset(text, i) < Offset(text, n + 1) /\ Offset(text, n + 1) = Len(bytes)
        /\ Offset(text, i) \in Nat
    <3>1. n + 1 \in (i + 1) .. (Len(text) + 1)
      BY <1>1
    <3>. QED  BY <1>1, <3>1, OffsetsIncrease, OffsetFacts
  <2>. QED  BY <1>1, <2>2, <2>3
<1>3a. \A i \in 1 .. n : bytes[s[i]].char = text[i] /\ bytes[s[i]].byte = 1
  <2>. TAKE i \in 1 .. n
  <2>4. bytes[s[i]] = [char |-> text[i], byte |-> 1]
    BY <1>3
  <2>. HIDE DEF bytes, s
  <2>. QED  BY <2>4
<1>4. leading = {s[i] : i \in 1 .. n}
  <2>1. \A i \in 1 .. n : s[i] \in leading
    <3>. HIDE DEF s, bytes, n
    <3>. QED  BY <1>3, <1>3a
  <2>2. ASSUME NEW p \in leading PROVE \E i \in 1 .. n : p = s[i]
    <3>1. p \in 1 .. Len(Encode(text)) /\ bytes[p].byte = 1
      BY <1>1
    <3>2. PICK i \in 1 .. n : \E m \in 1 .. Width(text[i]) : p = Offset(text, i) + m
      BY <3>1, BytesOfCharacters
    <3>3. PICK m \in 1 .. Width(text[i]) : p = Offset(text, i) + m
      BY <3>2
    <3>4. bytes[p] = [char |-> text[i], byte |-> m]
      BY <3>3, OffsetFacts
    <3>5. m = 1
      BY <3>1, <3>4
    <3>. QED  BY <3>3, <3>5
  <2>. HIDE DEF leading, s
  <2>3. \A p \in leading : \E i \in 1 .. n : p = s[i]
    BY <2>2
  <2>. QED  BY <2>1, <2>3
<1>5. Ascending(leading) = s
  <2>. HIDE DEF leading, s, n
  <2>. QED  BY <1>1, <1>2, <1>4, AscendingIsUnique
<1>6. Decode(bytes) = [i \in 1 .. n |-> text[i]]
  <2>1. Decode(bytes) = [i \in DOMAIN Ascending(leading) |-> bytes[Ascending(leading)[i]].char]
    BY DEF Decode
  <2>2. DOMAIN s = 1 .. n
    OBVIOUS
  <2>3. \A i \in 1 .. n : bytes[s[i]].char = text[i]
    <3>. HIDE DEF s, bytes, n
    <3>. QED  BY <1>3a
  <2>. HIDE DEF leading, s, bytes, n
  <2>. QED  BY <1>5, <2>1, <2>2, <2>3
<1>7. Decode(bytes) = text
  BY <1>1, <1>6
<1>. QED  BY <1>7 DEF IsText

------------------------------------------------------------------------------
(* The source texts of a run: every line with the end of line after it.    *)
Source(line) == Encode(Append(line, NewLine))
Sources(k)   == [i \in DOMAIN Runs[k].lines |-> Source(Runs[k].lines[i])]

LEMMA RunFacts ==
  ASSUME NEW k \in DOMAIN Runs
  PROVE  /\ Runs[k].lines \in Seq(Seq(Chars))
         /\ Runs[k].tokenizer \in {"character", "whitespace"}
         /\ k \in Nat \ {0}
<1>1. k \in 1 .. Len(Runs) /\ Len(Runs) \in Nat
  BY RunsAssumption
<1>2. Runs[k] \in [tokenizer : {"character", "whitespace"}, lines : Seq(Seq(Chars))]
  <2>. DEFINE R == [tokenizer : {"character", "whitespace"}, lines : Seq(Seq(Chars))]
  <2>1. Runs \in Seq(R)
    BY RunsAssumption
  <2>. HIDE DEF R
  <2>2. Runs[k] \in R
    BY <1>1, <2>1, ElementOfSeq
  <2>. QED  BY <2>2 DEF R
<1>. QED  BY <1>1, <1>2

LEMMA SourceFacts ==
  ASSUME NEW line \in Seq(Chars)
  PROVE  /\ line \in Seq(Letters)
         /\ Source(line) \in Seq(ByteValues)
         /\ Len(Source(line)) = Len(Encode(line)) + 1
         /\ Len(Encode(line)) \in Nat
         /\ \A p \in 1 .. Len(Encode(line)) : Source(line)[p] = Encode(line)[p]
<1>. DEFINE u == Encode(line)
            e == Bytes(NewLine)
            whole == Append(line, NewLine)
<1>1. line \in Seq(Letters)
  <2>1. Chars \subseteq Letters
    BY DEF Letters
  <2>. QED  BY <2>1, SeqMonotonic
<1>2. NewLine \in Letters /\ Width(NewLine) = 1
  BY RunsAssumption DEF Letters, Width
<1>3. /\ whole \in Seq(Letters) /\ Len(whole) = Len(line) + 1
      /\ \A i \in 1 .. Len(line) : whole[i] = line[i]
      /\ whole[Len(line) + 1] = NewLine
  BY <1>1, <1>2, AppendProperties
<1>4. e \in Seq(ByteValues) /\ Len(e) = 1
  BY <1>2, BytesFacts
<1>5. /\ Blocks(line) \in Seq(Seq(ByteValues)) /\ Len(Blocks(line)) = Len(line)
      /\ \A i \in 1 .. Len(line) : Blocks(line)[i] = Bytes(line[i])
      /\ u = FlattenSeq(Blocks(line)) /\ u \in Seq(ByteValues)
  BY <1>1, BlocksFacts
<1>6. Blocks(whole) = Append(Blocks(line), e)
  <2>1. /\ Blocks(whole) \in Seq(Seq(ByteValues)) /\ Len(Blocks(whole)) = Len(line) + 1
        /\ \A i \in 1 .. (Len(line) + 1) : Blocks(whole)[i] = Bytes(whole[i])
    BY <1>3, BlocksFacts
  <2>2. /\ Append(Blocks(line), e) \in Seq(Seq(ByteValues))
        /\ Len(Append(Blocks(line), e)) = Len(line) + 1
        /\ \A i \in 1 .. Len(line) : Append(Blocks(line), e)[i] = Blocks(line)[i]
        /\ Append(Blocks(line), e)[Len(line) + 1] = e
    <3>. HIDE DEF e
    <3>. QED  BY <1>4, <1>5, AppendProperties
  <2>3. \A i \in 1 .. (Len(line) + 1) : Blocks(whole)[i] = Append(Blocks(line), e)[i]
    <3>. TAKE i \in 1 .. (Len(line) + 1)
    <3>1. CASE i = Len(line) + 1
      <4>. HIDE DEF whole
      <4>. QED  BY <1>3, <2>1, <2>2, <3>1
    <3>2. CASE i # Len(line) + 1
      <4>1. i \in 1 .. Len(line)
        BY <1>1, <3>2
      <4>. HIDE DEF whole, e
      <4>. QED  BY <1>3, <1>5, <2>1, <2>2, <4>1
    <3>. QED  BY <3>1, <3>2
  <2>. DEFINE v == Append(Blocks(line), e)
  <2>. HIDE DEF v
  <2>4. Len(Blocks(whole)) = Len(v) /\ v \in Seq(Seq(ByteValues))
        /\ \A i \in 1 .. Len(Blocks(whole)) : Blocks(whole)[i] = v[i]
    BY <2>1, <2>2, <2>3 DEF v
  <2>5. Blocks(whole) = v
    BY <2>1, <2>4, SeqEqual
  <2>. QED  BY <2>5 DEF v
<1>7. Source(line) = u \o e
  <2>1. Source(line) = FlattenSeq(Blocks(whole))
    BY <1>3, BlocksFacts DEF Source
  <2>. HIDE DEF whole, u, e
  <2>. QED  BY <1>4, <1>5, <1>6, <2>1, FlattenAppend
<1>. HIDE DEF u, e
<1>8. /\ Source(line) \in Seq(ByteValues) /\ Len(Source(line)) = Len(u) + 1 /\ Len(u) \in Nat
      /\ \A p \in 1 .. Len(u) : Source(line)[p] = u[p]
  <2>1. /\ u \o e \in Seq(ByteValues) /\ Len(u \o e) = Len(u) + 1 /\ Len(u) \in Nat
        /\ \A p \in 1 .. (Len(u) + Len(e)) : (u \o e)[p] = IF p <= Len(u) THEN u[p] ELSE e[p - Len(u)]
    <3>1. u \in Seq(ByteValues) /\ e \in Seq(ByteValues)
      BY <1>4, <1>5
    <3>2. /\ u \o e \in Seq(ByteValues) /\ Len(u \o e) = Len(u) + Len(e)
          /\ \A p \in 1 .. (Len(u) + Len(e)) :
                (u \o e)[p] = IF p <= Len(u) THEN u[p] ELSE e[p - Len(u)]
      BY <3>1, ConcatProperties
    <3>. QED  BY <1>4, <3>1, <3>2
  <2>2. \A p \in 1 .. Len(u) : p \in 1 .. (Len(u) + Len(e)) /\ p <= Len(u)
    BY <1>4, <2>1
  <2>. QED  BY <1>7, <2>1, <2>2
<1>. QED  BY <1>1, <1>8 DEF u

LEMMA SourcesFacts ==
  ASSUME NEW k \in DOMAIN Runs
  PROVE  /\ Sources(k) \in Seq(Seq(ByteValues))
         /\ Len(Sources(k)) = Len(Runs[k].lines)
         /\ \A i \in 1 .. Len(Runs[k].lines) : Sources(k)[i] = Source(Runs[k].lines[i])
         /\ TextsOf(k) = FlattenSeq(Sources(k))
         /\ DOMAIN OffsetsOf(k) = 1 .. (Len(Runs[k].lines) + 1)
         /\ OffsetsOf(k) = [n \in 1 .. (Len(Runs[k].lines) + 1) |-> OffsetsOf(k)[n]]
         /\ \A n \in 1 .. (Len(Runs[k].lines) + 1) :
               OffsetsOf(k)[n] = Len(FlattenSeq(SubSeq(Sources(k), 1, n - 1)))
<1>. DEFINE lines == Runs[k].lines
<1>1. lines \in Seq(Seq(Chars)) /\ Len(lines) \in Nat /\ DOMAIN lines = 1 .. Len(lines)
      /\ \A i \in 1 .. Len(lines) : lines[i] \in Seq(Chars)
  BY RunFacts
<1>2. Sources(k) = [i \in 1 .. Len(lines) |-> Source(lines[i])]
  BY <1>1 DEF Sources
<1>. HIDE DEF lines
<1>3. \A i \in 1 .. Len(lines) : Source(lines[i]) \in Seq(ByteValues)
  BY <1>1, SourceFacts
<1>4. Sources(k) \in [1 .. Len(lines) -> Seq(ByteValues)]
  BY <1>2, <1>3
<1>5. Sources(k) \in Seq(Seq(ByteValues)) /\ Len(Sources(k)) = Len(lines)
  <2>. DEFINE n == Len(lines)
  <2>. HIDE DEF n
  <2>1. n \in Nat /\ Sources(k) \in [1 .. n -> Seq(ByteValues)]
    BY <1>1, <1>4 DEF n
  <2>2. Sources(k) \in Seq(Seq(ByteValues)) /\ Len(Sources(k)) = n
    BY <2>1
  <2>. QED  BY <2>2 DEF n
<1>6. TextsOf(k) = FlattenSeq(Sources(k))
  BY DEF TextsOf, Sources, Source
<1>7. ASSUME NEW n \in 1 .. (Len(lines) + 1)
      PROVE  [i \in 1 .. (n - 1) |-> Source(lines[i])] = SubSeq(Sources(k), 1, n - 1)
  <2>. DEFINE s == [i \in 1 .. (n - 1) |-> Source(lines[i])]
              t == SubSeq(Sources(k), 1, n - 1)
  <2>1. n - 1 \in Nat /\ \A i \in 1 .. (n - 1) : i \in 1 .. Len(lines)
    BY <1>1
  <2>2. s \in [1 .. (n - 1) -> Seq(ByteValues)]
    BY <1>3, <2>1
  <2>3. s \in Seq(Seq(ByteValues)) /\ Len(s) = n - 1
    BY <2>1, <2>2
  <2>4. \A i \in 1 .. (n - 1) : Sources(k)[i] \in Seq(ByteValues)
    BY <1>4, <2>1
  <2>5. /\ t \in Seq(Seq(ByteValues)) /\ Len(t) = n - 1
        /\ \A i \in 1 .. (n - 1) : t[i] = Sources(k)[i]
    <3>1. /\ t \in Seq(Seq(ByteValues))
          /\ Len(t) = IF 1 <= n - 1 THEN (n - 1) - 1 + 1 ELSE 0
          /\ \A i \in 1 .. ((n - 1) - 1 + 1) : t[i] = Sources(k)[1 + i - 1]
      BY <2>1, <2>4, SubSeqProperties
    <3>2. (n - 1) - 1 + 1 = n - 1 /\ \A i \in 1 .. (n - 1) : 1 + i - 1 = i
      OBVIOUS
    <3>. HIDE DEF t
    <3>. QED  BY <2>1, <3>1, <3>2
  <2>6. \A i \in 1 .. (n - 1) : s[i] = t[i]
    BY <1>2, <2>1, <2>5
  <2>. HIDE DEF s, t
  <2>7. s = t
    BY <2>3, <2>5, <2>6, SeqEqual
  <2>. QED  BY <2>7 DEF s, t
<1>8. OffsetsOf(k) = [n \in 1 .. (Len(lines) + 1) |->
                        Len(FlattenSeq([i \in 1 .. (n - 1) |-> Source(lines[i])]))]
  BY DEF OffsetsOf, Source, lines
<1>9. OffsetsOf(k) = [n \in 1 .. (Len(lines) + 1) |-> Len(FlattenSeq(SubSeq(Sources(k), 1, n - 1)))]
  BY <1>7, <1>8
<1>10. /\ DOMAIN OffsetsOf(k) = 1 .. (Len(lines) + 1)
       /\ OffsetsOf(k) = [n \in 1 .. (Len(lines) + 1) |-> OffsetsOf(k)[n]]
       /\ \A n \in 1 .. (Len(lines) + 1) :
             OffsetsOf(k)[n] = Len(FlattenSeq(SubSeq(Sources(k), 1, n - 1)))
  BY <1>9
<1>11. \A i \in 1 .. Len(lines) : Sources(k)[i] = Source(lines[i])
  BY <1>2
<1>. QED  BY <1>5, <1>6, <1>10, <1>11 DEF lines

LEMMA OneSource ==
  ASSUME NEW k \in DOMAIN Runs, NEW id \in 1 .. Len(Runs[k].lines)
  PROVE  FlattenSeq(SubSeq(Sources(k), id, id)) = Source(Runs[k].lines[id])
<1>. DEFINE ss == Sources(k)
            line == Runs[k].lines[id]
<1>1. Source(line) \in Seq(ByteValues)
  BY RunFacts, SourceFacts, SMTT(30)
<1>2. ss \in Seq(Seq(ByteValues)) /\ id \in 1 .. Len(ss) /\ ss[id] = Source(line)
  BY SourcesFacts
<1>. HIDE DEF ss, line
<1>3. /\ SubSeq(ss, id, id) \in Seq(Seq(ByteValues)) /\ Len(SubSeq(ss, id, id)) = 1
      /\ SubSeq(ss, id, id)[1] = ss[id]
  <2>1. \A i \in id .. id : ss[i] \in Seq(ByteValues)
    BY <1>1, <1>2
  <2>. QED  BY <2>1, SubSeqProperties
<1>4. <<ss[id]>> \in Seq(Seq(ByteValues)) /\ Len(<<ss[id]>>) = 1 /\ <<ss[id]>>[1] = ss[id]
  BY <1>1, <1>2
<1>5. SubSeq(ss, id, id) = <<ss[id]>>
  <2>1. \A i \in 1 .. 1 : i = 1
    OBVIOUS
  <2>. QED  BY <1>3, <1>4, <2>1, SeqEqual
<1>6. FlattenSeq(SubSeq(ss, id, id)) = Source(line)
  BY <1>1, <1>2, <1>5, FlattenOne
<1>. QED  BY <1>6 DEF ss, line

(* Between two neighboring offsets the texts hold the line and its end.    *)
LEMMA LineOfTexts ==
  ASSUME NEW k \in DOMAIN Runs, NEW id \in 1 .. Len(Runs[k].lines)
  PROVE  LET table == OffsetsOf(k)
             texts == TextsOf(k)
         IN  /\ id + 1 \in DOMAIN table
             /\ table[id] < table[id + 1] /\ table[id + 1] <= Len(texts)
             /\ SubSeq(texts, table[id] + 1, table[id + 1] - 1) = Encode(Runs[k].lines[id])
<1>. DEFINE ss == Sources(k)
            texts == TextsOf(k)
            line == Runs[k].lines[id]
            u == Encode(line)
            x == OffsetsOf(k)[id]
            y == OffsetsOf(k)[id + 1]
<1>1. Runs[k].lines \in Seq(Seq(Chars)) /\ Len(Runs[k].lines) \in Nat /\ line \in Seq(Chars)
  BY RunFacts
<1>2. /\ ss \in Seq(Seq(ByteValues)) /\ Len(ss) = Len(Runs[k].lines)
      /\ ss[id] = Source(line) /\ texts = FlattenSeq(ss)
      /\ x = Len(FlattenSeq(SubSeq(ss, 1, id - 1)))
      /\ y = Len(FlattenSeq(SubSeq(ss, 1, id)))
      /\ id + 1 \in DOMAIN OffsetsOf(k)
  <2>1. id \in 1 .. (Len(Runs[k].lines) + 1) /\ id + 1 \in 1 .. (Len(Runs[k].lines) + 1)
        /\ (id + 1) - 1 = id
    BY <1>1
  <2>. QED  BY <2>1, SourcesFacts
<1>3. /\ Source(line) \in Seq(ByteValues) /\ Len(Source(line)) = Len(u) + 1 /\ Len(u) \in Nat
      /\ \A p \in 1 .. Len(u) : Source(line)[p] = u[p]
      /\ u \in Seq(ByteValues)
  BY <1>1, SourceFacts, BlocksFacts
<1>4. FlattenSeq(SubSeq(ss, id, id)) = Source(line)
  BY OneSource
<1>5. /\ x \in Nat /\ y = x + Len(Source(line)) /\ y <= Len(texts)
      /\ SubSeq(texts, x + 1, y) = Source(line)
  <2>1. id - 1 \in 0 .. Len(ss) /\ id \in (id - 1) .. Len(ss) /\ (id - 1) + 1 = id
    BY <1>1, <1>2
  <2>2. /\ Len(FlattenSeq(SubSeq(ss, 1, id - 1))) \in Nat
        /\ Len(FlattenSeq(SubSeq(ss, 1, id)))
             = Len(FlattenSeq(SubSeq(ss, 1, id - 1))) + Len(FlattenSeq(SubSeq(ss, (id - 1) + 1, id)))
        /\ Len(FlattenSeq(SubSeq(ss, 1, id))) <= Len(FlattenSeq(ss))
        /\ SubSeq(FlattenSeq(ss), Len(FlattenSeq(SubSeq(ss, 1, id - 1))) + 1,
                  Len(FlattenSeq(SubSeq(ss, 1, id)))) = FlattenSeq(SubSeq(ss, (id - 1) + 1, id))
    <3>. HIDE DEF ss
    <3>. QED  BY <1>2, <2>1, FlattenSlice, ZenonT(30)
  <2>. HIDE DEF ss, texts, x, y
  <2>. QED  BY <1>2, <1>4, <2>1, <2>2
<1>6. texts \in Seq(ByteValues)
  BY <1>2, FlattenType
<1>7. SubSeq(texts, x + 1, y - 1) = u
  <2>. HIDE DEF texts, x, y, u, line
  <2>1. y = x + Len(u) + 1 /\ Len(texts) \in Nat
    BY <1>3, <1>5, <1>6
  <2>2. /\ \A p \in (x + 1) .. y : texts[p] \in ByteValues
        /\ \A p \in (x + 1) .. (y - 1) : texts[p] \in ByteValues
    BY <1>3, <1>5, <1>6, <2>1
  <2>. DEFINE long == SubSeq(texts, x + 1, y)
              short == SubSeq(texts, x + 1, y - 1)
  <2>3. \A i \in 1 .. (y - (x + 1) + 1) : long[i] = texts[(x + 1) + i - 1]
    BY <1>3, <1>5, <2>1, <2>2, SubSeqProperties
  <2>4. /\ short \in Seq(ByteValues)
        /\ Len(short) = IF x + 1 <= y - 1 THEN (y - 1) - (x + 1) + 1 ELSE 0
        /\ \A i \in 1 .. ((y - 1) - (x + 1) + 1) : short[i] = texts[(x + 1) + i - 1]
    BY <1>3, <1>5, <2>1, <2>2, SubSeqProperties
  <2>. HIDE DEF long, short
  <2>5. (y - 1) - (x + 1) + 1 = Len(u) /\ y - (x + 1) + 1 = Len(u) + 1
    BY <1>3, <1>5, <2>1
  <2>6. Len(short) = Len(u)
    BY <1>3, <1>5, <2>1, <2>4
  <2>7. \A i \in 1 .. Len(u) : short[i] = u[i]
    <3>. TAKE i \in 1 .. Len(u)
    <3>1. i \in 1 .. (Len(u) + 1)
      BY <1>3
    <3>2. short[i] = long[i]
      BY <2>3, <2>4, <2>5, <3>1
    <3>3. long[i] = Source(line)[i]
      BY <1>5 DEF long
    <3>. QED  BY <1>3, <3>2, <3>3
  <2>8. short = u
    BY <1>3, <2>4, <2>6, <2>7, SeqEqual
  <2>. QED  BY <2>8 DEF short
<1>8. x < y
  <2>. HIDE DEF x, y, u, line
  <2>. QED  BY <1>3, <1>5
<1>. QED  BY <1>2, <1>5, <1>7, <1>8

(* The texts of the first lines, as one line is added to them.             *)
Joined(k, count) == FlattenSeq(SubSeq(Sources(k), 1, count))

LEMMA JoinedFacts ==
  ASSUME NEW k \in DOMAIN Runs
  PROVE  LET lines == Runs[k].lines
         IN  /\ Joined(k, 0) = <<>> /\ Joined(k, Len(lines)) = TextsOf(k)
             /\ \A n \in 0 .. Len(lines) : /\ Joined(k, n) \in Seq(ByteValues)
                                          /\ OffsetsOf(k)[n + 1] = Len(Joined(k, n))
                                          /\ OffsetsOf(k)[n + 1] \in Nat
             /\ \A n \in 1 .. Len(lines) :
                   /\ Joined(k, n) = Joined(k, n - 1) \o Source(lines[n])
                   /\ OffsetsOf(k)[n + 1] = OffsetsOf(k)[n] + Len(Encode(lines[n])) + 1
<1>. DEFINE lines == Runs[k].lines
            ss == Sources(k)
<1>1. Len(lines) \in Nat /\ \A n \in 1 .. Len(lines) : lines[n] \in Seq(Chars)
  BY RunFacts
<1>2. ss \in Seq(Seq(ByteValues)) /\ Len(ss) = Len(lines) /\ TextsOf(k) = FlattenSeq(ss)
  BY SourcesFacts
<1>. HIDE DEF ss, lines
<1>3. Joined(k, 0) = <<>> /\ Joined(k, Len(lines)) = TextsOf(k)
  <2>1. SubSeq(ss, 1, 0) = <<>>
    BY SubSeqEmpty
  <2>2. SubSeq(ss, 1, Len(ss)) = ss
    BY <1>2, SubSeqFull
  <2>. QED  BY <1>2, <2>1, <2>2, FlattenEmpty DEF Joined, ss
<1>4. ASSUME NEW n \in 0 .. Len(lines)
      PROVE  /\ Joined(k, n) \in Seq(ByteValues)
             /\ OffsetsOf(k)[n + 1] = Len(Joined(k, n)) /\ OffsetsOf(k)[n + 1] \in Nat
  <2>1. SubSeq(ss, 1, n) \in Seq(Seq(ByteValues))
    <3>1. \A i \in 1 .. n : ss[i] \in Seq(ByteValues)
      BY <1>1, <1>2
    <3>2. n \in Int
      BY <1>1
    <3>. QED  BY <3>1, <3>2, SubSeqProperties
  <2>2. Joined(k, n) \in Seq(ByteValues)
    BY <2>1, FlattenType DEF Joined, ss
  <2>3. OffsetsOf(k)[n + 1] = Len(Joined(k, n))
    <3>1. n + 1 \in 1 .. (Len(lines) + 1) /\ (n + 1) - 1 = n
      BY <1>1
    <3>2. \A m \in 1 .. (Len(lines) + 1) :
             OffsetsOf(k)[m] = Len(FlattenSeq(SubSeq(Sources(k), 1, m - 1)))
      BY SourcesFacts DEF lines
    <3>3. OffsetsOf(k)[n + 1] = Len(FlattenSeq(SubSeq(Sources(k), 1, (n + 1) - 1)))
      BY <3>1, <3>2
    <3>. QED  BY <3>1, <3>3 DEF Joined
  <2>. QED  BY <2>2, <2>3
<1>5. ASSUME NEW n \in 1 .. Len(lines)
      PROVE  /\ Joined(k, n) = Joined(k, n - 1) \o Source(lines[n])
             /\ OffsetsOf(k)[n + 1] = OffsetsOf(k)[n] + Len(Encode(lines[n])) + 1
  <2>1. n - 1 \in 0 .. Len(lines) /\ n \in 0 .. Len(lines) /\ n \in (n - 1) .. Len(lines)
        /\ (n - 1) + 1 = n
    BY <1>1
  <2>2. FlattenSeq(SubSeq(ss, 1, n))
          = FlattenSeq(SubSeq(ss, 1, n - 1)) \o FlattenSeq(SubSeq(ss, (n - 1) + 1, n))
    BY <1>2, <2>1, FlattenSplit
  <2>3. FlattenSeq(SubSeq(ss, n, n)) = Source(lines[n])
    BY OneSource DEF ss, lines
  <2>4. Joined(k, n) = Joined(k, n - 1) \o Source(lines[n])
    BY <2>1, <2>2, <2>3 DEF Joined, ss
  <2>5. /\ Source(lines[n]) \in Seq(ByteValues)
        /\ Len(Source(lines[n])) = Len(Encode(lines[n])) + 1 /\ Len(Encode(lines[n])) \in Nat
    BY <1>1, SourceFacts
  <2>6. Joined(k, n - 1) \in Seq(ByteValues) /\ OffsetsOf(k)[n + 1] = Len(Joined(k, n))
        /\ OffsetsOf(k)[(n - 1) + 1] = Len(Joined(k, n - 1))
    BY <1>4, <2>1
  <2>7. Len(Joined(k, n)) = Len(Joined(k, n - 1)) + Len(Source(lines[n]))
    <3>1. \A u, v \in Seq(ByteValues) : Len(u \o v) = Len(u) + Len(v)
      BY ConcatProperties
    <3>. QED  BY <2>4, <2>5, <2>6, <3>1
  <2>8. Len(Joined(k, n - 1)) \in Nat
    BY <2>6
  <2>. QED  BY <2>1, <2>4, <2>5, <2>6, <2>7, <2>8
<1>. QED  BY <1>3, <1>4, <1>5 DEF lines

------------------------------------------------------------------------------
(* The runs of characters that are not white space: where they start, and  *)
(* where each ends.                                                        *)
Word(text, i)     == i \in DOMAIN text /\ text[i] \notin Space
Starts(text)      == {i \in DOMAIN text : Word(text, i) /\ ~Word(text, i - 1)}
IsEnd(text, i, j) == ~Word(text, j) /\ \A k \in i .. (j - 1) : Word(text, k)
End(text, i)      == CHOOSE j \in (i + 1) .. (Len(text) + 1) : IsEnd(text, i, j)

LEMMA WhitespaceRanges ==
  ASSUME NEW text
  PROVE  WhitespaceTokens(text)
           = [n \in DOMAIN Ascending(Starts(text)) |->
                <<Ascending(Starts(text))[n], End(text, Ascending(Starts(text))[n])>>]
BY DEF WhitespaceTokens, Starts, End, IsEnd, Word

LEMMA EndFacts ==
  ASSUME NEW text \in Seq(Letters), NEW i \in Starts(text)
  PROVE  /\ End(text, i) \in (i + 1) .. (Len(text) + 1)
         /\ IsEnd(text, i, End(text, i))
         /\ \A j \in (i + 1) .. (Len(text) + 1) : IsEnd(text, i, j) => j = End(text, i)
<1>1. Len(text) \in Nat /\ DOMAIN text = 1 .. Len(text)
  OBVIOUS
<1>2. i \in 1 .. Len(text) /\ Word(text, i)
  BY <1>1 DEF Starts
<1>. DEFINE T == {j \in (i + 1) .. (Len(text) + 1) : ~Word(text, j)}
<1>3. Len(text) + 1 \in T
  BY <1>1, <1>2 DEF Word
<1>4. PICK j \in T : \A k \in T : j <= k
  <2>1. T \in SUBSET Nat /\ T # {}
    BY <1>1, <1>2, <1>3
  <2>. HIDE DEF T
  <2>. QED  BY <2>1, LeastNatural
<1>5. \A k \in i .. (j - 1) : Word(text, k)
  <2>. SUFFICES ASSUME NEW k \in i .. (j - 1), k # i PROVE Word(text, k)
    BY <1>2
  <2>1. k \in (i + 1) .. (Len(text) + 1) /\ ~(j <= k)
    BY <1>1, <1>2, <1>4
  <2>. QED  BY <1>4, <2>1
<1>6. j \in (i + 1) .. (Len(text) + 1) /\ IsEnd(text, i, j)
  BY <1>4, <1>5 DEF IsEnd
<1>7. End(text, i) \in (i + 1) .. (Len(text) + 1) /\ IsEnd(text, i, End(text, i))
  BY <1>6 DEF End
<1>8. ASSUME NEW k \in (i + 1) .. (Len(text) + 1), NEW m \in (i + 1) .. (Len(text) + 1),
             IsEnd(text, i, k), IsEnd(text, i, m), k < m
      PROVE  FALSE
  <2>1. k \in i .. (m - 1)
    BY <1>1, <1>2, <1>8
  <2>. QED  BY <1>8, <2>1 DEF IsEnd
<1>9. \A k \in (i + 1) .. (Len(text) + 1) : IsEnd(text, i, k) => k = End(text, i)
  <2>. SUFFICES ASSUME NEW k \in (i + 1) .. (Len(text) + 1), IsEnd(text, i, k)
                PROVE  k = End(text, i)
    OBVIOUS
  <2>1. ~(k < End(text, i)) /\ ~(End(text, i) < k)
    BY <1>7, <1>8
  <2>. QED  BY <1>1, <1>2, <1>7, <2>1
<1>. QED  BY <1>7, <1>9

LEMMA RunsAreApart ==
  ASSUME NEW text \in Seq(Letters), NEW i \in Starts(text), NEW k \in Starts(text), i < k
  PROVE  End(text, i) < k
<1>1. Len(text) \in Nat /\ i \in 1 .. Len(text) /\ k \in 1 .. Len(text)
      /\ Word(text, i) /\ ~Word(text, k - 1)
  BY DEF Starts
<1>2. End(text, i) \in (i + 1) .. (Len(text) + 1)
      /\ \A m \in i .. (End(text, i) - 1) : Word(text, m)
  BY EndFacts DEF IsEnd
<1>3. k - 1 \in i .. Len(text)
  BY <1>1
<1>. QED  BY <1>1, <1>2, <1>3

LEMMA SortedStarts ==
  ASSUME NEW text \in Seq(Letters)
  PROVE  LET sorted == Ascending(Starts(text))
         IN  /\ Len(sorted) \in Nat /\ DOMAIN sorted = 1 .. Len(sorted)
             /\ \A n \in 1 .. Len(sorted) : sorted[n] \in Starts(text)
             /\ \A n, m \in 1 .. Len(sorted) : n < m => sorted[n] < sorted[m]
             /\ \A i \in Starts(text) : \E n \in 1 .. Len(sorted) : sorted[n] = i
<1>1. Starts(text) \in SUBSET (1 .. Len(text)) /\ Len(text) \in Nat
  BY DEF Starts
<1>2. IsFiniteSet(1 .. Len(text))
  BY <1>1, FS_Interval
<1>3. Starts(text) \in SUBSET Nat /\ IsFiniteSet(Starts(text))
  BY <1>1, <1>2, FS_Subset
<1>. QED  BY <1>3, AscendingIsSorted

(* A part of a text from the start of one run to the end of another.       *)
LEMMA RunsOfPart ==
  ASSUME NEW text \in Seq(Letters),
         NEW first \in DOMAIN WhitespaceTokens(text), NEW last \in DOMAIN WhitespaceTokens(text),
         first <= last
  PROVE  LET ranges == WhitespaceTokens(text)
             a      == ranges[first][1]
             b      == ranges[last][2]
             part   == SubSeq(text, a, b - 1)
             n      == last - first + 1
         IN  /\ a \in 1 .. Len(text) /\ b \in (a + 1) .. (Len(text) + 1)
             /\ n \in Nat /\ \A k \in 1 .. n : first + k - 1 \in first .. last
             /\ first \in Nat /\ last \in Nat /\ \A k \in first .. last : k \in DOMAIN ranges
             /\ WhitespaceTokens(part)
                  = [k \in 1 .. n |-> <<ranges[first + k - 1][1] - (a - 1),
                                        ranges[first + k - 1][2] - (a - 1)>>]
             /\ \A k \in first .. last :
                   /\ ranges[k][1] \in a .. (b - 1)
                   /\ ranges[k][2] \in (ranges[k][1] + 1) .. b
<1>. DEFINE ranges == WhitespaceTokens(text)
            sorted == Ascending(Starts(text))
            count == Len(sorted)
            a == sorted[first]
            b == End(text, sorted[last])
            part == SubSeq(text, a, b - 1)
            n == last - first + 1
            s == [k \in 1 .. n |-> sorted[first + k - 1] - (a - 1)]
<1>1. /\ count \in Nat /\ DOMAIN sorted = 1 .. count
      /\ \A k \in 1 .. count : sorted[k] \in Starts(text)
      /\ \A k, m \in 1 .. count : k < m => sorted[k] < sorted[m]
      /\ \A i \in Starts(text) : \E k \in 1 .. count : sorted[k] = i
  BY SortedStarts
<1>2. /\ DOMAIN ranges = 1 .. count
      /\ \A k \in 1 .. count : ranges[k] = <<sorted[k], End(text, sorted[k])>>
  <2>1. ranges = [k \in 1 .. count |-> <<sorted[k], End(text, sorted[k])>>]
    BY <1>1, WhitespaceRanges
  <2>. HIDE DEF ranges, sorted, count
  <2>. QED  BY <2>1
<1>3. first \in 1 .. count /\ last \in 1 .. count /\ n \in Nat /\ n >= 1
  BY <1>1, <1>2
<1>4. \A i \in Starts(text) : /\ i \in 1 .. Len(text) /\ Word(text, i) /\ ~Word(text, i - 1)
                              /\ End(text, i) \in (i + 1) .. (Len(text) + 1)
                              /\ IsEnd(text, i, End(text, i))
  BY EndFacts DEF Starts
<1>5. Len(text) \in Nat /\ DOMAIN text = 1 .. Len(text)
      /\ \A i \in 1 .. Len(text) : text[i] \in Letters
  OBVIOUS
<1>. HIDE DEF sorted, count, ranges
<1>6. \A k \in first .. last :
         /\ sorted[k] \in a .. (b - 1)
         /\ End(text, sorted[k]) \in (sorted[k] + 1) .. b
  <2>. TAKE k \in first .. last
  <2>1. k \in 1 .. count
    BY <1>1, <1>3
  <2>2. sorted[k] \in Starts(text) /\ a \in Starts(text) /\ sorted[last] \in Starts(text)
    BY <1>1, <1>3, <2>1
  <2>3. a <= sorted[k] /\ sorted[k] <= sorted[last]
    <3>1. sorted[k] \in Nat /\ a \in Nat /\ sorted[last] \in Nat
      <4>1. \A i \in Starts(text) : i \in 1 .. Len(text)
        BY <1>4
      <4>2. \A i \in Starts(text) : i \in Nat
        BY <1>5, <4>1
      <4>. HIDE DEF a
      <4>. QED  BY <2>2, <4>2
    <3>2. (first < k => a < sorted[k]) /\ (k < last => sorted[k] < sorted[last])
      BY <1>1, <1>3, <2>1
    <3>3. (first = k => a = sorted[k]) /\ (k = last => sorted[k] = sorted[last])
      OBVIOUS
    <3>4. (first < k \/ first = k) /\ (k < last \/ k = last)
      BY <1>1, <1>3, <2>1
    <3>. QED  BY <3>1, <3>2, <3>3, <3>4
  <2>4. End(text, sorted[k]) <= b
    <3>1. CASE k = last
      BY <1>4, <2>2, <3>1
    <3>2. CASE k # last
      <4>1. sorted[k] < sorted[last]
        BY <1>1, <1>3, <2>1, <3>2
      <4>2. End(text, sorted[k]) < sorted[last]
        BY <2>2, <4>1, RunsAreApart
      <4>. QED  BY <1>4, <2>2, <4>2
    <3>. QED  BY <3>1, <3>2
  <2>. QED  BY <1>4, <1>5, <2>2, <2>3, <2>4, SMTT(30)
<1>7. a \in 1 .. Len(text) /\ b \in (a + 1) .. (Len(text) + 1) /\ a \in Starts(text)
      /\ sorted[last] \in Starts(text)
  <2>1. a \in Starts(text) /\ sorted[last] \in Starts(text)
    BY <1>1, <1>3
  <2>2. a \in 1 .. Len(text) /\ b \in 1 .. (Len(text) + 1)
    BY <1>4, <1>5, <2>1
  <2>3. a \in a .. (b - 1)
    BY <1>3, <1>6
  <2>. QED  BY <1>5, <2>1, <2>2, <2>3
<1>8. /\ part \in Seq(Letters) /\ Len(part) = b - a
      /\ \A i \in 1 .. (b - a) : part[i] = text[a + i - 1]
  <2>1. \A i \in a .. (b - 1) : text[i] \in Letters
    BY <1>5, <1>7
  <2>. HIDE DEF a, b
  <2>. QED  BY <1>5, <1>7, <2>1, SubSeqProperties
<1>. HIDE DEF part, a, b
<1>9. \A i \in Int : Word(part, i) <=> i \in 1 .. (b - a) /\ Word(text, a + i - 1)
  <2>. TAKE i \in Int
  <2>1. DOMAIN part = 1 .. (b - a)
    BY <1>8
  <2>2. i \in 1 .. (b - a) => a + i - 1 \in 1 .. Len(text) /\ part[i] = text[a + i - 1]
    BY <1>5, <1>7, <1>8
  <2>. QED  BY <1>5, <2>1, <2>2 DEF Word
<1>10. Starts(part) = {s[k] : k \in 1 .. n}
  <2>1. ASSUME NEW k \in 1 .. n PROVE s[k] \in Starts(part)
    <3>. DEFINE x == sorted[first + k - 1]
    <3>1. first + k - 1 \in first .. last /\ first + k - 1 \in 1 .. count
      BY <1>1, <1>3
    <3>2. x \in Starts(text) /\ x \in a .. (b - 1)
      BY <1>1, <1>6, <3>1
    <3>3. Word(text, x) /\ ~Word(text, x - 1) /\ s[k] = x - (a - 1)
      BY <1>4, <3>2
    <3>. HIDE DEF x, s
    <3>4. s[k] \in 1 .. (b - a) /\ a + s[k] - 1 = x /\ a + (s[k] - 1) - 1 = x - 1
          /\ s[k] \in Int /\ s[k] - 1 \in Int
      BY <1>7, <3>2, <3>3
    <3>5. Word(part, s[k]) /\ ~Word(part, s[k] - 1)
      BY <1>9, <3>3, <3>4
    <3>. QED  BY <3>5 DEF Starts, Word
  <2>2. ASSUME NEW i \in Starts(part) PROVE \E k \in 1 .. n : i = s[k]
    <3>. DEFINE x == a + i - 1
    <3>1. i \in 1 .. (b - a) /\ i \in Int /\ i - 1 \in Int /\ Word(part, i) /\ ~Word(part, i - 1)
      BY <1>8 DEF Starts
    <3>2. Word(text, x) /\ x \in a .. (b - 1)
      BY <1>7, <1>9, <3>1
    <3>3. ~Word(text, x - 1)
      <4>1. CASE i = 1
        <5>1. x = a
          BY <1>7, <4>1
        <5>. QED  BY <1>4, <1>7, <5>1
      <4>2. CASE i # 1
        <5>1. i - 1 \in 1 .. (b - a) /\ a + (i - 1) - 1 = x - 1
          BY <1>7, <3>1, <4>2
        <5>. QED  BY <1>9, <3>1, <5>1
      <4>. QED  BY <4>1, <4>2
    <3>4. x \in Starts(text)
      BY <3>2, <3>3 DEF Starts, Word
    <3>5. PICK m \in 1 .. count : sorted[m] = x
      BY <1>1, <3>4
    <3>. HIDE DEF x
    <3>6. ~(m < first)
      <4>. SUFFICES ASSUME m < first PROVE FALSE
        OBVIOUS
      <4>1. sorted[m] < a
        BY <1>1, <1>3 DEF a
      <4>. QED  BY <1>7, <3>2, <3>5, <4>1
    <3>7. ~(last < m)
      <4>. SUFFICES ASSUME last < m PROVE FALSE
        OBVIOUS
      <4>1. sorted[last] < x
        BY <1>1, <1>3, <3>5
      <4>2. b < x
        BY <1>7, <3>4, <4>1, RunsAreApart DEF b
      <4>. QED  BY <1>7, <3>2, <4>2
    <3>8. m - first + 1 \in 1 .. n /\ first + (m - first + 1) - 1 = m
      BY <1>3, <3>6, <3>7
    <3>9. s[m - first + 1] = x - (a - 1)
      BY <3>5, <3>8
    <3>10. x - (a - 1) = i
      BY <1>7, <3>1 DEF x
    <3>. QED  BY <3>8, <3>9, <3>10
  <2>. HIDE DEF s, n
  <2>3. \A i \in Starts(part) : \E k \in 1 .. n : i = s[k]
    BY <2>2
  <2>. QED  BY <2>1, <2>3
<1>11. s \in [1 .. n -> Nat] /\ \A k, m \in 1 .. n : k < m => s[k] < s[m]
  <2>1. \A k \in 1 .. n : first + k - 1 \in 1 .. count /\ first + k - 1 \in first .. last
    BY <1>1, <1>3
  <2>2. \A k \in 1 .. n : sorted[first + k - 1] - (a - 1) \in Nat /\ sorted[first + k - 1] \in Nat
    BY <1>6, <1>7, <2>1
  <2>3. \A k, m \in 1 .. n : k < m => sorted[first + k - 1] < sorted[first + m - 1]
    BY <1>1, <1>3, <2>1
  <2>. QED  BY <1>7, <2>2, <2>3, SMTT(30)
<1>12. Ascending(Starts(part)) = s
  <2>. HIDE DEF s, n
  <2>. QED  BY <1>3, <1>10, <1>11, AscendingIsUnique
<1>13. ASSUME NEW k \in 1 .. n
       PROVE  End(part, s[k]) = End(text, sorted[first + k - 1]) - (a - 1)
  <2>. DEFINE x == sorted[first + k - 1]
              y == End(text, x)
              j == y - (a - 1)
  <2>1. first + k - 1 \in first .. last /\ first + k - 1 \in 1 .. count
    BY <1>1, <1>3
  <2>2. x \in Starts(text) /\ x \in a .. (b - 1) /\ y \in (x + 1) .. b /\ s[k] = x - (a - 1)
    BY <1>1, <1>6, <2>1
  <2>3. ~Word(text, y) /\ \A m \in x .. (y - 1) : Word(text, m)
    BY <1>4, <2>2 DEF IsEnd
  <2>4. s[k] \in Starts(part)
    <3>. HIDE DEF s
    <3>. QED  BY <1>10
  <2>. HIDE DEF x, y, s
  <2>5. j \in (s[k] + 1) .. (Len(part) + 1) /\ s[k] \in 1 .. (b - a) /\ j \in Int
    BY <1>7, <1>8, <2>2
  <2>6. a + j - 1 = y
    BY <1>7, <2>2
  <2>7. ~Word(part, j)
    BY <1>9, <2>3, <2>5, <2>6
  <2>8. \A m \in s[k] .. (j - 1) : Word(part, m)
    <3>. TAKE m \in s[k] .. (j - 1)
    <3>1. m \in 1 .. (b - a) /\ m \in Int /\ a + m - 1 \in x .. (y - 1)
      BY <1>7, <2>2, <2>5
    <3>. QED  BY <1>9, <2>3, <3>1
  <2>9. IsEnd(part, s[k], j)
    BY <2>7, <2>8 DEF IsEnd
  <2>. HIDE DEF j
  <2>10. j = End(part, s[k])
    BY <1>8, <2>4, <2>5, <2>9, EndFacts
  <2>. QED  BY <2>10 DEF j, y, x
<1>14. WhitespaceTokens(part) = [k \in 1 .. n |-> <<s[k], End(part, s[k])>>]
  <2>1. DOMAIN s = 1 .. n
    OBVIOUS
  <2>. HIDE DEF s, n
  <2>. QED  BY <1>12, <2>1, WhitespaceRanges
<1>15. \A k \in 1 .. n : first + k - 1 \in 1 .. count
  BY <1>1, <1>3
<1>16. WhitespaceTokens(part)
         = [k \in 1 .. n |-> <<ranges[first + k - 1][1] - (a - 1),
                               ranges[first + k - 1][2] - (a - 1)>>]
  <2>1. \A k \in 1 .. n : /\ s[k] = ranges[first + k - 1][1] - (a - 1)
                          /\ End(part, s[k]) = ranges[first + k - 1][2] - (a - 1)
    <3>. TAKE k \in 1 .. n
    <3>1. ranges[first + k - 1] = <<sorted[first + k - 1], End(text, sorted[first + k - 1])>>
      BY <1>2, <1>15
    <3>. QED  BY <1>13, <3>1
  <2>. HIDE DEF s, n
  <2>. QED  BY <1>14, <2>1
<1>17. ranges[first][1] = a /\ ranges[last][2] = b
  BY <1>2, <1>3 DEF a, b
<1>18. \A k \in first .. last : /\ ranges[k][1] \in a .. (b - 1)
                                /\ ranges[k][2] \in (ranges[k][1] + 1) .. b
  <2>. TAKE k \in first .. last
  <2>1. k \in 1 .. count
    BY <1>1, <1>3
  <2>2. ranges[k][1] = sorted[k] /\ ranges[k][2] = End(text, sorted[k])
    BY <1>2, <2>1
  <2>. QED  BY <1>6, <2>2
<1>19. /\ \A k \in 1 .. n : first + k - 1 \in first .. last
       /\ first \in Nat /\ last \in Nat /\ \A k \in first .. last : k \in DOMAIN ranges
  BY <1>1, <1>2, <1>3
<1>. QED  BY <1>3, <1>7, <1>16, <1>17, <1>18, <1>19 DEF part, ranges

TokenRanges(kind, text) ==
  IF kind = "character" THEN CharacterTokens(text) ELSE WhitespaceTokens(text)

(* Either tokenizer finds the same tokens in the part of a text from the   *)
(* start of a token to the end of another, at places shifted by its start. *)
LEMMA RangesOfPart ==
  ASSUME NEW text \in Seq(Letters), NEW kind,
         NEW first \in DOMAIN TokenRanges(kind, text), NEW last \in DOMAIN TokenRanges(kind, text),
         first <= last
  PROVE  LET ranges == TokenRanges(kind, text)
             a      == ranges[first][1]
             b      == ranges[last][2]
             part   == SubSeq(text, a, b - 1)
             n      == last - first + 1
         IN  /\ a \in 1 .. Len(text) /\ b \in (a + 1) .. (Len(text) + 1)
             /\ n \in Nat /\ \A k \in 1 .. n : first + k - 1 \in first .. last
             /\ first \in Nat /\ last \in Nat /\ \A k \in first .. last : k \in DOMAIN ranges
             /\ TokenRanges(kind, part)
                  = [k \in 1 .. n |-> <<ranges[first + k - 1][1] - (a - 1),
                                        ranges[first + k - 1][2] - (a - 1)>>]
             /\ \A k \in first .. last :
                   /\ ranges[k][1] \in a .. (b - 1)
                   /\ ranges[k][2] \in (ranges[k][1] + 1) .. b
<1>1. CASE kind # "character"
  BY <1>1, RunsOfPart DEF TokenRanges
<1>2. CASE kind = "character"
  <2>. DEFINE ranges == TokenRanges(kind, text)
              part == SubSeq(text, first, last)
              n == last - first + 1
  <2>1. ranges = [i \in 1 .. Len(text) |-> <<i, i + 1>>] /\ Len(text) \in Nat
    BY <1>2 DEF TokenRanges, CharacterTokens
  <2>2. first \in 1 .. Len(text) /\ last \in 1 .. Len(text) /\ n \in Nat
    BY <2>1
  <2>3. ranges[first][1] = first /\ ranges[last][2] = last + 1 /\ (last + 1) - 1 = last
    BY <2>1, <2>2
  <2>4. part \in Seq(Letters) /\ Len(part) = n
    <3>1. \A i \in first .. last : text[i] \in Letters
      BY <2>1, <2>2
    <3>. QED  BY <2>2, <3>1, SubSeqProperties
  <2>5. DOMAIN part = 1 .. n
    BY <2>4
  <2>6. TokenRanges(kind, part) = [k \in 1 .. n |-> <<k, k + 1>>]
    <3>. HIDE DEF part, n
    <3>. QED  BY <1>2, <2>5 DEF TokenRanges, CharacterTokens
  <2>7. \A k \in 1 .. n : first + k - 1 \in first .. last /\ first + k - 1 \in 1 .. Len(text)
    BY <2>1, <2>2
  <2>8. \A k \in 1 .. n : /\ ranges[first + k - 1][1] - (first - 1) = k
                          /\ ranges[first + k - 1][2] - (first - 1) = k + 1
    <3>. TAKE k \in 1 .. n
    <3>1. ranges[first + k - 1] = <<first + k - 1, (first + k - 1) + 1>>
      BY <2>1, <2>7
    <3>2. ranges[first + k - 1][1] = first + k - 1 /\ ranges[first + k - 1][2] = (first + k - 1) + 1
      <4>. HIDE DEF ranges
      <4>. QED  BY <3>1
    <3>. HIDE DEF ranges
    <3>. QED  BY <2>2, <3>2
  <2>9. TokenRanges(kind, part)
          = [k \in 1 .. n |-> <<ranges[first + k - 1][1] - (first - 1),
                                ranges[first + k - 1][2] - (first - 1)>>]
    <3>. HIDE DEF part, n, ranges
    <3>. QED  BY <2>6, <2>8
  <2>10. \A k \in first .. last : ranges[k][1] = k /\ ranges[k][2] = k + 1
    BY <2>1, <2>2
  <2>11. first \in 1 .. Len(text) /\ last + 1 \in (first + 1) .. (Len(text) + 1)
         /\ \A k \in first .. last :
               ranges[k][1] \in first .. last /\ ranges[k][2] \in (ranges[k][1] + 1) .. (last + 1)
    <3>. HIDE DEF ranges
    <3>. QED  BY <2>1, <2>2, <2>10
  <2>12. first \in Nat /\ last \in Nat /\ \A k \in first .. last : k \in DOMAIN ranges
    BY <2>1, <2>2
  <2>. HIDE DEF ranges, n
  <2>. QED  BY <2>2, <2>3, <2>7, <2>9, <2>11, <2>12 DEF ranges, n
<1>. QED  BY <1>1, <1>2

LEMMA TokenizeFacts ==
  ASSUME NEW kind, NEW text
  PROVE  /\ Tokenize(kind, text) =
              [n \in DOMAIN TokenRanges(kind, text) |->
                 [value |-> SubSeq(text, TokenRanges(kind, text)[n][1],
                                         TokenRanges(kind, text)[n][2] - 1),
                  start |-> Offset(text, TokenRanges(kind, text)[n][1]),
                  end   |-> Offset(text, TokenRanges(kind, text)[n][2])]]
         /\ TokenValues(kind, text) =
              [n \in DOMAIN TokenRanges(kind, text) |->
                 SubSeq(text, TokenRanges(kind, text)[n][1], TokenRanges(kind, text)[n][2] - 1)]
<1>1. Tokenize(kind, text) =
        [n \in DOMAIN TokenRanges(kind, text) |->
           [value |-> SubSeq(text, TokenRanges(kind, text)[n][1],
                                   TokenRanges(kind, text)[n][2] - 1),
            start |-> Offset(text, TokenRanges(kind, text)[n][1]),
            end   |-> Offset(text, TokenRanges(kind, text)[n][2])]]
  BY DEF Tokenize, TokenRanges
<1>. DEFINE tokens == Tokenize(kind, text)
<1>2. TokenValues(kind, text) = [n \in DOMAIN tokens |-> tokens[n].value]
  BY DEF TokenValues
<1>. HIDE DEF tokens
<1>3. DOMAIN tokens = DOMAIN TokenRanges(kind, text)
      /\ \A n \in DOMAIN TokenRanges(kind, text) :
            tokens[n].value = SubSeq(text, TokenRanges(kind, text)[n][1],
                                           TokenRanges(kind, text)[n][2] - 1)
  BY <1>1 DEF tokens
<1>. QED  BY <1>1, <1>2, <1>3

LEMMA ValuesOfPart ==
  ASSUME NEW text \in Seq(Letters), NEW kind,
         NEW first \in DOMAIN TokenRanges(kind, text), NEW last \in DOMAIN TokenRanges(kind, text),
         first <= last
  PROVE  LET ranges == TokenRanges(kind, text)
             part   == SubSeq(text, ranges[first][1], ranges[last][2] - 1)
         IN  TokenValues(kind, part) = SubSeq(TokenValues(kind, text), first, last)
<1>. DEFINE ranges == TokenRanges(kind, text)
            a == ranges[first][1]
            b == ranges[last][2]
            part == SubSeq(text, a, b - 1)
            n == last - first + 1
            values == TokenValues(kind, text)
<1>1. /\ a \in 1 .. Len(text) /\ b \in (a + 1) .. (Len(text) + 1)
      /\ n \in Nat /\ \A k \in 1 .. n : first + k - 1 \in first .. last
      /\ first \in Nat /\ last \in Nat /\ \A k \in first .. last : k \in DOMAIN ranges
      /\ TokenRanges(kind, part)
           = [k \in 1 .. n |-> <<ranges[first + k - 1][1] - (a - 1),
                                 ranges[first + k - 1][2] - (a - 1)>>]
      /\ \A k \in first .. last :
            /\ ranges[k][1] \in a .. (b - 1)
            /\ ranges[k][2] \in (ranges[k][1] + 1) .. b
  BY RangesOfPart
<1>2. values = [k \in DOMAIN ranges |-> SubSeq(text, ranges[k][1], ranges[k][2] - 1)]
  BY TokenizeFacts
<1>3. \A k \in first .. last : values[k] = SubSeq(text, ranges[k][1], ranges[k][2] - 1)
  <2>. HIDE DEF values, ranges
  <2>. QED  BY <1>1, <1>2
<1>4. ASSUME NEW k \in first .. last
      PROVE  SubSeq(part, ranges[k][1] - (a - 1), ranges[k][2] - (a - 1) - 1) = values[k]
  <2>. DEFINE p == ranges[k][1]
              q == ranges[k][2]
  <2>1. p \in a .. (b - 1) /\ q \in (p + 1) .. b
    BY <1>1
  <2>2. values[k] = SubSeq(text, p, q - 1)
    BY <1>3
  <2>. HIDE DEF p, q, a, b, values
  <2>3. /\ a \in 1 .. Len(text) /\ b - 1 \in 1 .. Len(text)
        /\ p - (a - 1) \in 1 .. (b - 1) - a + 1 /\ q - (a - 1) - 1 \in 1 .. (b - 1) - a + 1
        /\ a + (p - (a - 1)) - 1 = p /\ a + (q - (a - 1) - 1) - 1 = q - 1
    BY <1>1, <2>1
  <2>4. SubSeq(SubSeq(text, a, b - 1), p - (a - 1), q - (a - 1) - 1)
          = SubSeq(text, a + (p - (a - 1)) - 1, a + (q - (a - 1) - 1) - 1)
    <3>1. \A i, j \in 1 .. Len(text) : \A m, k1 \in 1 .. j - i + 1 :
             SubSeq(SubSeq(text, i, j), m, k1) = SubSeq(text, i + m - 1, i + k1 - 1)
      BY SubSeqOfSubSeq
    <3>. QED  BY <2>3, <3>1
  <2>5. SubSeq(part, p - (a - 1), q - (a - 1) - 1) = values[k]
    BY <2>2, <2>3, <2>4
  <2>. QED  BY <2>5 DEF p, q
<1>5. TokenValues(kind, part) = [k \in 1 .. n |-> values[first + k - 1]]
  <2>. DEFINE inner == TokenRanges(kind, part)
  <2>1. TokenValues(kind, part)
          = [k \in DOMAIN inner |-> SubSeq(part, inner[k][1], inner[k][2] - 1)]
    <3>. HIDE DEF part
    <3>. QED  BY TokenizeFacts DEF inner
  <2>2. /\ DOMAIN inner = 1 .. n
        /\ \A k \in 1 .. n : inner[k][1] = ranges[first + k - 1][1] - (a - 1)
                             /\ inner[k][2] = ranges[first + k - 1][2] - (a - 1)
    <3>. HIDE DEF inner, ranges, a, n
    <3>1. inner = [k \in 1 .. n |-> <<ranges[first + k - 1][1] - (a - 1),
                                      ranges[first + k - 1][2] - (a - 1)>>]
      BY <1>1 DEF inner
    <3>. QED  BY <3>1
  <2>3. \A k \in 1 .. n : SubSeq(part, inner[k][1], inner[k][2] - 1) = values[first + k - 1]
    <3>. HIDE DEF inner, ranges, a, n, part, values
    <3>. QED  BY <1>1, <1>4, <2>2
  <2>. HIDE DEF inner, ranges, a, n, part, values
  <2>. QED  BY <2>1, <2>2, <2>3
<1>6. SubSeq(values, first, last) = [k \in 1 .. n |-> values[first + k - 1]]
  <2>. DEFINE S == {values[k] : k \in first .. last}
              slice == SubSeq(values, first, last)
              s == [k \in 1 .. n |-> values[first + k - 1]]
  <2>. HIDE DEF values, ranges
  <2>1. \A k \in first .. last : values[k] \in S
    OBVIOUS
  <2>2. /\ slice \in Seq(S) /\ Len(slice) = n
        /\ \A k \in 1 .. n : slice[k] = values[first + k - 1]
    <3>. HIDE DEF S
    <3>. QED  BY <1>1, <2>1, SubSeqProperties
  <2>3. s \in Seq(S) /\ Len(s) = n
    <3>1. \A k \in 1 .. n : values[first + k - 1] \in S
      BY <1>1, <2>1
    <3>. HIDE DEF S, n
    <3>2. s \in [1 .. n -> S] /\ n \in Nat
      BY <1>1, <3>1
    <3>. HIDE DEF s
    <3>. QED  BY <3>2
  <2>4. \A k \in 1 .. n : s[k] = slice[k]
    BY <2>2
  <2>. HIDE DEF s, slice, S, n
  <2>5. s = slice
    BY <2>2, <2>3, <2>4, SeqEqual
  <2>. QED  BY <2>5 DEF s, slice
<1>. QED  BY <1>5, <1>6

(* Locating a match in the bytes of the line it was found in.              *)
LEMMA LocatedText ==
  ASSUME NEW line \in Seq(Letters), NEW kind,
         NEW first \in DOMAIN TokenRanges(kind, line), NEW last \in DOMAIN TokenRanges(kind, line),
         first <= last
  PROVE  LET bytes   == Encode(line)
             tokens  == Tokenize(kind, Decode(bytes))
             matched == SubSeq(bytes, tokens[first].start + 1, tokens[last].end)
         IN  /\ DOMAIN tokens = DOMAIN TokenRanges(kind, line)
             /\ IsText(matched)
             /\ TokenValues(kind, Decode(matched)) = SubSeq(TokenValues(kind, line), first, last)
<1>. DEFINE bytes   == Encode(line)
            ranges  == TokenRanges(kind, line)
            tokens  == Tokenize(kind, line)
            a       == ranges[first][1]
            b       == ranges[last][2]
            part    == SubSeq(line, a, b - 1)
<1>1. Decode(bytes) = line
  BY DecodeEncoded
<1>2. /\ DOMAIN tokens = DOMAIN ranges
      /\ tokens[first].start = Offset(line, a)
      /\ tokens[last].end = Offset(line, b)
  <2>1. tokens = [n \in DOMAIN ranges |-> [value |-> SubSeq(line, ranges[n][1], ranges[n][2] - 1),
                                           start |-> Offset(line, ranges[n][1]),
                                           end   |-> Offset(line, ranges[n][2])]]
    BY TokenizeFacts
  <2>2. first \in DOMAIN ranges /\ last \in DOMAIN ranges
    OBVIOUS
  <2>. HIDE DEF tokens, ranges
  <2>. QED  BY <2>1, <2>2
<1>3. a \in 1 .. Len(line) /\ b \in (a + 1) .. (Len(line) + 1) /\ Len(line) \in Nat
  <2>1. a \in 1 .. Len(line) /\ b \in (a + 1) .. (Len(line) + 1)
    BY RangesOfPart
  <2>. HIDE DEF a, b
  <2>. QED  BY <2>1
<1>. HIDE DEF ranges, a, b
<1>4. a \in 1 .. (Len(line) + 1) /\ b \in a .. (Len(line) + 1)
      /\ b - 1 \in 0 .. Len(line)
  BY <1>3
<1>5. SubSeq(bytes, Offset(line, a) + 1, Offset(line, b)) = Encode(part)
  BY <1>4, EncodeSlice
<1>6. part \in Seq(Letters)
  BY <1>4, BlocksOfSlice
<1>7. IsText(Encode(part)) /\ Decode(Encode(part)) = part
  BY <1>6, DecodeEncoded
<1>8. TokenValues(kind, part) = SubSeq(TokenValues(kind, line), first, last)
  BY ValuesOfPart DEF ranges, a, b
<1>. HIDE DEF part, tokens
<1>9. SubSeq(bytes, tokens[first].start + 1, tokens[last].end) = Encode(part)
  BY <1>2, <1>5
<1>. QED  BY <1>1, <1>2, <1>7, <1>8, <1>9 DEF tokens, ranges

------------------------------------------------------------------------------
(* The states of runs and searches, and which files names refer to: files  *)
(* of their own kind that a run up to the current one has created, and     *)
(* never the same one under a temporary name and another name or in a      *)
(* search that has it open.                                                *)
Stages == {"none", "texts created", "reading", "ok", "failed"} \cup Publishing
Fields == {"stage", "metadata", "engine", "texts", "length", "offsets", "id", "first", "last",
           "matched"}

KindOf(name) ==
  CASE name \in {"texts", "texts.tmp"}     -> "texts"
    [] name \in {"offsets", "offsets.tmp"} -> "offsets"
    [] name = "engine"                     -> "engine"
    [] name = "metadata"                   -> "metadata"

FilesUpTo(run, kind) == {file \in Files : file[1] <= run /\ file[2] = kind}

StatesOK ==
  /\ build \in [run : 0 .. Len(Runs), stage : Stages, texts : Seq(ByteValues),
                offsets : Seq(Nat), count : Nat, previous : BOOLEAN]
  /\ build.stage # "none" => build.run \in DOMAIN Runs
  /\ contents = [file \in Files |-> contents[file]]
  /\ search = [s \in Searches |-> search[s]]
  /\ \A s \in Searches : search[s] = [field \in Fields |-> search[s][field]]

NamesOK ==
  /\ entry \in [Names -> Files \cup {None}]
  /\ \A name \in Names : entry[name] \in FilesUpTo(build.run, KindOf(name)) \cup {None}
  /\ entry["texts.tmp"] # None => entry["texts.tmp"] # entry["texts"]
  /\ entry["offsets.tmp"] # None => entry["offsets.tmp"] # entry["offsets"]
  /\ build.stage = "texts created" =>
        \A name \in Names : entry[name] # <<build.run, "offsets">>

OpenOK ==
  \A s \in Searches :
     /\ search[s].texts \in FilesUpTo(build.run, "texts") \cup {None}
     /\ search[s].offsets \in FilesUpTo(build.run, "offsets") \cup {None}
     /\ search[s].texts # None => search[s].texts # entry["texts.tmp"]
     /\ search[s].offsets # None => search[s].offsets # entry["offsets.tmp"]
     /\ build.stage = "texts created" => search[s].offsets # <<build.run, "offsets">>

(* What a run has read and written at each of its stages.                  *)
Progress ==
  /\ build.stage = "texts created" => build.count = 0 /\ build.texts = <<>>
  /\ build.stage \in {"reading"} \cup Publishing =>
        /\ build.count <= Len(Lines)
        /\ build.texts = Joined(build.run, build.count)
        /\ build.offsets = [n \in 1 .. (build.count + 1) |-> OffsetsOf(build.run)[n]]
  /\ build.stage \in Publishing => build.count = Len(Lines)
  /\ build.stage \in {"texts created", "reading"} => entry["texts.tmp"] # None
  /\ build.stage = "reading" => entry["offsets.tmp"] # None
  /\ build.stage \in {"finished", "saved"} => Holds("texts.tmp", TextsOf(build.run))
  /\ build.stage \in {"finished", "saved", "texts published"} =>
        Holds("offsets.tmp", OffsetsOf(build.run))
  /\ build.stage \in Publishing \ {"finished"} => Holds("engine", EngineOf(build.run))
  /\ build.stage \in {"texts published", "offsets published", "metadata truncated"} =>
        Holds("texts", TextsOf(build.run))
  /\ build.stage \in {"offsets published", "metadata truncated"} =>
        Holds("offsets", OffsetsOf(build.run))
  /\ build.stage = "metadata truncated" => entry["metadata"] # None

(* What a search has opened at each of its stages.                         *)
Opened ==
  \A s \in Searches :
     /\ search[s].stage \in {"idle", "described", "mapped", "texts open"} =>
           search[s].offsets = None
     /\ search[s].stage \in {"texts open", "open"} =>
           search[s].texts # None /\ search[s].length = Len(contents[search[s].texts])
     /\ search[s].stage = "open" => search[s].offsets # None

DirectoryInv ==
  /\ StatesOK
  /\ NamesOK
  /\ OpenOK
  /\ Progress
  /\ Opened
  /\ SuccessIsUsable
  /\ LocatesWhatMatched

LEMMA InitialDirectory == Init => DirectoryInv
<1>. SUFFICES ASSUME Init PROVE DirectoryInv
  OBVIOUS
<1>1. /\ entry = [name \in Names |-> None] /\ contents = [file \in Files |-> <<>>]
      /\ build = [run |-> 0, stage |-> "none", texts |-> <<>>, offsets |-> <<>>, count |-> 0,
                  previous |-> FALSE]
      /\ search = [s \in Searches |-> Idle]
  BY DEF Init
<1>2. \A s \in Searches : search[s] = Idle
  BY <1>1
<1>3. /\ Idle = [field \in Fields |-> Idle[field]]
      /\ Idle.stage = "idle" /\ Idle.texts = None /\ Idle.offsets = None
  BY DEF Idle, Fields
<1>4. StatesOK
  <2>1. build \in [run : 0 .. Len(Runs), stage : Stages, texts : Seq(ByteValues),
                   offsets : Seq(Nat), count : Nat, previous : BOOLEAN]
    <3>1. Len(Runs) \in Nat
      BY RunsAssumption
    <3>. QED  BY <1>1, <3>1 DEF Stages
  <2>2. build.stage = "none" /\ contents = [file \in Files |-> contents[file]]
        /\ search = [s \in Searches |-> search[s]]
    BY <1>1
  <2>3. \A s \in Searches : search[s] = [field \in Fields |-> search[s][field]]
    BY <1>2, <1>3
  <2>. QED  BY <2>1, <2>2, <2>3 DEF StatesOK
<1>5. NamesOK
  <2>1. entry \in [Names -> Files \cup {None}] /\ \A name \in Names : entry[name] = None
    BY <1>1
  <2>2. build.stage = "none" /\ "texts.tmp" \in Names /\ "offsets.tmp" \in Names
    BY <1>1 DEF Names
  <2>. QED  BY <2>1, <2>2 DEF NamesOK
<1>6. OpenOK /\ Opened
  <2>1. build.stage = "none"
    BY <1>1
  <2>. QED  BY <1>2, <1>3, <2>1 DEF OpenOK, Opened
<1>7. Progress /\ SuccessIsUsable
  BY <1>1 DEF Progress, SuccessIsUsable, Publishing
<1>8. LocatesWhatMatched
  BY <1>2, <1>3 DEF LocatesWhatMatched, OpensOneRun
<1>. QED  BY <1>4, <1>5, <1>6, <1>7, <1>8 DEF DirectoryInv

------------------------------------------------------------------------------
(* Steps of a run.                                                         *)
OpenFilesKept ==
  \A s \in Searches : \A file \in {search[s].texts, search[s].offsets} \ {None} :
     contents'[file] = contents[file]

BuildStates == [run : 0 .. Len(Runs), stage : Stages, texts : Seq(ByteValues),
                offsets : Seq(Nat), count : Nat, previous : BOOLEAN]

LEMMA SearchesKept ==
  ASSUME DirectoryInv, UNCHANGED search, OpenFilesKept
  PROVE  Opened' /\ LocatesWhatMatched'
<1>1. \A s \in Searches :
         /\ search[s].texts # None => contents'[search[s].texts] = contents[search[s].texts]
         /\ search[s].offsets # None => contents'[search[s].offsets] = contents[search[s].offsets]
  BY DEF OpenFilesKept
<1>2. Opened'
  BY <1>1 DEF DirectoryInv, Opened
<1>3. \A s \in Searches : OpensOneRun(s)' => OpensOneRun(s)
  BY <1>1 DEF OpensOneRun
<1>4. LocatesWhatMatched'
  BY <1>3 DEF DirectoryInv, LocatesWhatMatched
<1>. QED  BY <1>2, <1>4

IndexKept == IndexIsUsable => IndexIsUsable' \/ build.stage \in Publishing

LEMMA PublishedKept ==
  ASSUME \A name \in Kinds :
            /\ entry'[name] = entry[name]
            /\ entry[name] # None => contents'[entry[name]] = contents[entry[name]]
  PROVE  IndexKept
BY DEF IndexKept, IndexIsUsable, IndexIsOf, Holds, Kinds

LEMMA BuildStep ==
  ASSUME DirectoryInv, UNCHANGED search, OpenFilesKept,
         build' \in BuildStates, build'.stage # "none" => build'.run \in DOMAIN Runs,
         contents' = [file \in Files |-> contents'[file]],
         NamesOK', OpenOK', Progress', SuccessIsUsable'
  PROVE  DirectoryInv'
<1>1. StatesOK'
  BY DEF DirectoryInv, StatesOK, BuildStates
<1>. QED  BY <1>1, SearchesKept DEF DirectoryInv

LEMMA FileFacts ==
  ASSUME NEW file
  PROVE  /\ \A run, kind : file \in FilesUpTo(run, kind) =>
                              file \in Files /\ file[1] <= run /\ file[2] = kind /\ file # None
         /\ \A run \in DOMAIN Runs, kind \in Kinds :
               file = <<run, kind>> => file \in FilesUpTo(run, kind)
<1>1. \A run, kind : file \in FilesUpTo(run, kind) =>
                        file \in Files /\ file[1] <= run /\ file[2] = kind /\ file # None
  BY NoneAssumption DEF FilesUpTo
<1>2. \A run \in DOMAIN Runs, kind \in Kinds : file = <<run, kind>> => file \in FilesUpTo(run, kind)
  <2>. SUFFICES ASSUME NEW run \in DOMAIN Runs, NEW kind \in Kinds, file = <<run, kind>>
                PROVE  file \in FilesUpTo(run, kind)
    OBVIOUS
  <2>1. run \in Nat
    BY RunFacts
  <2>2. file[1] = run /\ file[2] = kind /\ file \in Files
    BY DEF Files
  <2>3. file[1] <= run
    BY <2>1, <2>2
  <2>. QED  BY <2>2, <2>3 DEF FilesUpTo
<1>. QED  BY <1>1, <1>2

(* The files of a state are not those of a run still to come.              *)
LEMMA FilesGrow ==
  ASSUME DirectoryInv, NEW run \in Nat, build.run <= run
  PROVE  /\ \A kind : FilesUpTo(build.run, kind) \subseteq FilesUpTo(run, kind)
         /\ build.run < run => \A kind, other : <<run, kind>> \notin FilesUpTo(build.run, other)
<1>1. build.run \in Nat
  <2>1. build.run \in 0 .. Len(Runs) /\ Len(Runs) \in Nat
    BY RunsAssumption DEF DirectoryInv, StatesOK
  <2>. QED  BY <2>1
<1>2. \A file \in Files : file[1] \in Nat
  <2>1. \A file \in Files : file[1] \in DOMAIN Runs
    BY DEF Files
  <2>. QED  BY <2>1, RunFacts
<1>3. \A kind : FilesUpTo(build.run, kind) \subseteq FilesUpTo(run, kind)
  <2>1. \A x \in Nat : x <= build.run => x <= run
    BY <1>1
  <2>. QED  BY <1>2, <2>1 DEF FilesUpTo
<1>4. ASSUME build.run < run, NEW kind, NEW other PROVE <<run, kind>> \notin FilesUpTo(build.run, other)
  <2>1. <<run, kind>>[1] = run /\ ~(run <= build.run)
    BY <1>1, <1>4
  <2>. QED  BY <2>1 DEF FilesUpTo
<1>. QED  BY <1>3, <1>4

LEMMA CreateFileFacts ==
  ASSUME DirectoryInv, NEW name \in Names, build'.run \in DOMAIN Runs, build.run <= build'.run,
         CreateFile(name, KindOf(name))
  PROVE  \E file \in FilesUpTo(build'.run, KindOf(name)) :
            /\ file = IF entry[name] = None THEN <<build'.run, KindOf(name)>> ELSE entry[name]
            /\ entry' \in [Names -> Files \cup {None}]
            /\ \A n \in Names : entry'[n] = IF n = name THEN file ELSE entry[n]
            /\ contents' = [g \in Files |-> contents'[g]]
            /\ \A g \in Files : contents'[g] = IF g = file THEN <<>> ELSE contents[g]
<1>. DEFINE file == IF entry[name] = None THEN <<build'.run, KindOf(name)>> ELSE entry[name]
<1>1. entry' = [entry EXCEPT ![name] = file] /\ contents' = [contents EXCEPT ![file] = <<>>]
  BY DEF CreateFile
<1>2. file \in FilesUpTo(build'.run, KindOf(name))
  <2>1. CASE entry[name] = None
    <3>1. KindOf(name) \in Kinds
      BY DEF KindOf, Kinds, Names
    <3>. QED  BY <2>1, <3>1, FileFacts
  <2>2. CASE entry[name] # None
    <3>1. entry[name] \in FilesUpTo(build.run, KindOf(name))
      BY <2>2 DEF DirectoryInv, NamesOK
    <3>2. build'.run \in Nat
      BY RunFacts
    <3>. QED  BY <2>2, <3>1, <3>2, FilesGrow
  <2>. QED  BY <2>1, <2>2
<1>3. file \in Files
  BY <1>2, FileFacts
<1>4. contents = [g \in Files |-> contents[g]] /\ entry \in [Names -> Files \cup {None}]
  BY DEF DirectoryInv, StatesOK, NamesOK
<1>. HIDE DEF file
<1>5. /\ entry' \in [Names -> Files \cup {None}]
      /\ \A n \in Names : entry'[n] = IF n = name THEN file ELSE entry[n]
  BY <1>1, <1>3, <1>4
<1>6. /\ contents' = [g \in Files |-> contents'[g]]
      /\ \A g \in Files : contents'[g] = IF g = file THEN <<>> ELSE contents[g]
  BY <1>1, <1>3, <1>4
<1>. QED  BY <1>2, <1>5, <1>6 DEF file

LEMMA Kind ==
  /\ KindOf("texts") = "texts" /\ KindOf("texts.tmp") = "texts"
  /\ KindOf("offsets") = "offsets" /\ KindOf("offsets.tmp") = "offsets"
  /\ KindOf("engine") = "engine" /\ KindOf("metadata") = "metadata"
  /\ {"texts", "texts.tmp", "offsets", "offsets.tmp", "engine", "metadata"} \subseteq Names
BY DEF KindOf, Names, Kinds

LEMMA StateFacts ==
  ASSUME DirectoryInv
  PROVE  /\ build \in BuildStates
         /\ build.run \in 0 .. Len(Runs) /\ build.run \in Nat
         /\ build.run + 1 \in DOMAIN Runs => build.run + 1 \in 0 .. Len(Runs)
         /\ \A name \in Names : entry[name] \in FilesUpTo(build.run, KindOf(name)) \cup {None}
         /\ \A name \in Names : entry[name] # None => entry[name] \in Files
         /\ entry \in [Names -> Files \cup {None}]
         /\ contents = [file \in Files |-> contents[file]]
<1>1. build \in BuildStates /\ Len(Runs) \in Nat
  BY RunsAssumption DEF DirectoryInv, StatesOK, BuildStates
<1>2. build.run \in 0 .. Len(Runs) /\ build.run \in Nat
  BY <1>1 DEF BuildStates
<1>3. build.run + 1 \in DOMAIN Runs => build.run + 1 \in 0 .. Len(Runs)
  <2>1. DOMAIN Runs = 1 .. Len(Runs)
    BY RunsAssumption
  <2>. QED  BY <1>1, <1>2, <2>1
<1>. QED  BY <1>1, <1>2, <1>3 DEF DirectoryInv, StatesOK, NamesOK

LEMMA CreateTextsStep ==
  ASSUME DirectoryInv, CreateTexts
  PROVE  DirectoryInv' /\ OpenFilesKept /\ IndexKept
<1>1. /\ build.run + 1 \in DOMAIN Runs
      /\ build' = [run |-> build.run + 1, stage |-> "texts created", texts |-> <<>>,
                   offsets |-> <<>>, count |-> 0, previous |-> IndexIsUsable]
      /\ CreateFile("texts.tmp", "texts")
      /\ UNCHANGED search
  BY DEF CreateTexts
<1>2. build.run \in Nat /\ build'.run = build.run + 1 /\ build'.stage = "texts created"
  BY <1>1, StateFacts
<1>3. build'.run \in Nat /\ build.run <= build'.run /\ build.run < build'.run
  <2>1. \A x, y : x \in Nat /\ y = x + 1 => y \in Nat /\ x <= y /\ x < y
    OBVIOUS
  <2>. QED  BY <1>2, <2>1
<1>4. build' \in BuildStates
  <2>1. build.run + 1 \in 0 .. Len(Runs)
    BY <1>1, StateFacts
  <2>2. IndexIsUsable \in BOOLEAN
    BY DEF IndexIsUsable
  <2>3. "texts created" \in Stages /\ <<>> \in Seq(ByteValues) /\ <<>> \in Seq(Nat) /\ 0 \in Nat
    BY DEF Stages
  <2>. HIDE DEF IndexIsUsable
  <2>. QED  BY <1>1, <2>1, <2>2, <2>3 DEF BuildStates
<1>5. PICK file \in FilesUpTo(build'.run, "texts") :
        /\ file = IF entry["texts.tmp"] = None THEN <<build'.run, "texts">> ELSE entry["texts.tmp"]
        /\ entry' \in [Names -> Files \cup {None}]
        /\ \A n \in Names : entry'[n] = IF n = "texts.tmp" THEN file ELSE entry[n]
        /\ contents' = [g \in Files |-> contents'[g]]
        /\ \A g \in Files : contents'[g] = IF g = file THEN <<>> ELSE contents[g]
  <2>. DEFINE name == "texts.tmp"
  <2>1. name \in Names /\ KindOf(name) = "texts"
    BY Kind
  <2>2. build'.run \in DOMAIN Runs /\ build.run <= build'.run
    BY <1>1, <1>2, <1>3
  <2>3. CreateFile(name, KindOf(name))
    BY <1>1, <2>1
  <2>. HIDE DEF name
  <2>4. \E file \in FilesUpTo(build'.run, KindOf(name)) :
          /\ file = IF entry[name] = None THEN <<build'.run, KindOf(name)>> ELSE entry[name]
          /\ entry' \in [Names -> Files \cup {None}]
          /\ \A n \in Names : entry'[n] = IF n = name THEN file ELSE entry[n]
          /\ contents' = [g \in Files |-> contents'[g]]
          /\ \A g \in Files : contents'[g] = IF g = file THEN <<>> ELSE contents[g]
    BY <2>1, <2>2, <2>3, CreateFileFacts
  <2>. QED  BY <2>1, <2>4 DEF name
<1>6. /\ \A kind : FilesUpTo(build.run, kind) \subseteq FilesUpTo(build'.run, kind)
      /\ \A kind, other : <<build'.run, kind>> \notin FilesUpTo(build.run, other)
  <2>. DEFINE run == build'.run
  <2>1. run \in Nat /\ build.run <= run /\ build.run < run
    BY <1>3
  <2>. HIDE DEF run
  <2>2. /\ \A kind : FilesUpTo(build.run, kind) \subseteq FilesUpTo(run, kind)
        /\ \A kind, other : <<run, kind>> \notin FilesUpTo(build.run, other)
    BY <2>1, FilesGrow
  <2>. QED  BY <2>2 DEF run
<1>7. \A name \in Names : entry[name] \in FilesUpTo(build.run, KindOf(name)) \cup {None}
  BY StateFacts
<1>8. file \in Files /\ file # None /\ file[2] = "texts"
  BY <1>5, FileFacts
<1>9. <<build'.run, "offsets">> # None
  <2>1. build'.run \in DOMAIN Runs /\ "offsets" \in Kinds
    BY <1>1, <1>2 DEF Kinds
  <2>. HIDE DEF Kinds
  <2>2. <<build'.run, "offsets">> \in Files
    BY <2>1 DEF Files
  <2>. QED  BY <2>2, NoneAssumption
<1>10. NamesOK'
  <2>1. \A name \in Names : entry'[name] \in FilesUpTo(build'.run, KindOf(name)) \cup {None}
    BY <1>5, <1>6, <1>7, Kind
  <2>2. file # entry["texts"]
    <3>1. entry["texts"] \in FilesUpTo(build.run, "texts") \cup {None}
      BY <1>7, Kind
    <3>2. CASE entry["texts.tmp"] = None
      BY <1>5, <1>6, <1>8, <3>1, <3>2
    <3>3. CASE entry["texts.tmp"] # None
      BY <1>5, <3>3 DEF DirectoryInv, NamesOK
    <3>. QED  BY <3>2, <3>3
  <2>3. /\ entry'["texts.tmp"] = file /\ entry'["texts"] = entry["texts"]
        /\ entry'["offsets.tmp"] = entry["offsets.tmp"] /\ entry'["offsets"] = entry["offsets"]
    BY <1>5, Kind
  <2>4. entry'["offsets.tmp"] # None => entry'["offsets.tmp"] # entry'["offsets"]
    BY <2>3 DEF DirectoryInv, NamesOK
  <2>5. \A name \in Names : entry'[name] # <<build'.run, "offsets">>
    <3>. TAKE name \in Names
    <3>1. <<build'.run, "offsets">> # None
      BY <1>9
    <3>2. CASE name = "texts.tmp"
      BY <1>5, <1>8, <3>2
    <3>3. CASE name # "texts.tmp"
      BY <1>5, <1>6, <1>7, <3>1, <3>3
    <3>. QED  BY <3>2, <3>3
  <2>. QED  BY <1>5, <2>1, <2>2, <2>3, <2>4, <2>5 DEF NamesOK
<1>11. \A s \in Searches : /\ search[s].texts \in FilesUpTo(build.run, "texts") \cup {None}
                           /\ search[s].offsets \in FilesUpTo(build.run, "offsets") \cup {None}
                           /\ search[s].texts # None => search[s].texts # file
                           /\ search[s].offsets # None => search[s].offsets # file
  <2>. TAKE s \in Searches
  <2>1. /\ search[s].texts \in FilesUpTo(build.run, "texts") \cup {None}
        /\ search[s].offsets \in FilesUpTo(build.run, "offsets") \cup {None}
        /\ search[s].texts # None => search[s].texts # entry["texts.tmp"]
    BY DEF DirectoryInv, OpenOK
  <2>2. search[s].texts # None => search[s].texts # file
    BY <1>5, <1>6, <2>1
  <2>3. search[s].offsets # None => search[s].offsets # file
    BY <1>8, <2>1, FileFacts
  <2>. QED  BY <2>1, <2>2, <2>3
<1>12. OpenOK'
  <2>1. entry'["texts.tmp"] = file /\ entry'["offsets.tmp"] = entry["offsets.tmp"]
    BY <1>5, Kind
  <2>2. \A s \in Searches : search[s].offsets # <<build'.run, "offsets">>
    BY <1>6, <1>11, <1>9
  <2>3. \A s \in Searches : search[s].offsets # None => search[s].offsets # entry["offsets.tmp"]
    BY DEF DirectoryInv, OpenOK
  <2>. QED  BY <1>1, <1>6, <1>11, <2>1, <2>2, <2>3 DEF OpenOK
<1>13. OpenFilesKept
  <2>1. \A s \in Searches : /\ search[s].texts # None => search[s].texts \in Files
                            /\ search[s].offsets # None => search[s].offsets \in Files
    BY <1>11, FileFacts
  <2>. QED  BY <1>5, <1>11, <2>1 DEF OpenFilesKept
<1>14. Progress' /\ SuccessIsUsable'
  <2>1. entry'["texts.tmp"] # None
    BY <1>5, <1>8, Kind
  <2>2. build'.count = 0 /\ build'.texts = <<>>
    BY <1>1
  <2>. QED  BY <1>2, <2>1, <2>2 DEF Progress, SuccessIsUsable, Publishing
<1>15. build'.stage # "none" => build'.run \in DOMAIN Runs
  BY <1>1, <1>2
<1>16. IndexKept
  <2>. SUFFICES ASSUME NEW name \in Kinds
                PROVE  /\ entry'[name] = entry[name]
                       /\ entry[name] # None => contents'[entry[name]] = contents[entry[name]]
    BY PublishedKept
  <2>1. name \in Names /\ name # "texts.tmp"
    BY DEF Kinds, Names
  <2>2. entry[name] # None => entry[name] # file /\ entry[name] \in Files
    <3>1. entry[name] \in FilesUpTo(build.run, KindOf(name)) \cup {None}
      BY <1>7, <2>1
    <3>2. CASE name = "texts"
      <4>1. entry'["texts.tmp"] = file /\ entry'["texts"] = entry["texts"]
        BY <1>5, Kind
      <4>. QED  BY <1>8, <1>10, <3>1, <3>2, <4>1, FileFacts DEF NamesOK
    <3>3. CASE name # "texts"
      <4>1. KindOf(name) # "texts"
        BY <3>3 DEF KindOf, Kinds
      <4>. QED  BY <1>8, <3>1, <4>1, FileFacts
    <3>. QED  BY <3>2, <3>3
  <2>. QED  BY <1>5, <2>1, <2>2
<1>. QED  BY <1>1, <1>4, <1>5, <1>10, <1>12, <1>13, <1>14, <1>15, <1>16, BuildStep

LEMMA CreateOffsetsStep ==
  ASSUME DirectoryInv, CreateOffsets
  PROVE  DirectoryInv' /\ OpenFilesKept /\ IndexKept
<1>1. /\ build.stage = "texts created"
      /\ build' = [build EXCEPT !.stage = "reading", !.offsets = <<0>>]
      /\ CreateFile("offsets.tmp", "offsets")
      /\ UNCHANGED search
  BY DEF CreateOffsets
<1>2. build \in BuildStates /\ build.run \in DOMAIN Runs /\ build.run \in Nat
  BY <1>1, StateFacts DEF DirectoryInv, StatesOK
<1>3. /\ build'.run = build.run /\ build'.stage = "reading" /\ build'.count = build.count
      /\ build'.texts = build.texts /\ build'.offsets = <<0>>
  BY <1>1, <1>2 DEF BuildStates
<1>4. build' \in BuildStates
  <2>1. "reading" \in Stages /\ <<0>> \in Seq(Nat)
    BY DEF Stages
  <2>. HIDE DEF Stages
  <2>. QED  BY <1>1, <1>2, <2>1 DEF BuildStates
<1>5. PICK file \in FilesUpTo(build.run, "offsets") :
        /\ file = IF entry["offsets.tmp"] = None THEN <<build.run, "offsets">>
                                                ELSE entry["offsets.tmp"]
        /\ entry' \in [Names -> Files \cup {None}]
        /\ \A n \in Names : entry'[n] = IF n = "offsets.tmp" THEN file ELSE entry[n]
        /\ contents' = [g \in Files |-> contents'[g]]
        /\ \A g \in Files : contents'[g] = IF g = file THEN <<>> ELSE contents[g]
  <2>. DEFINE name == "offsets.tmp"
  <2>1. name \in Names /\ KindOf(name) = "offsets"
    BY Kind
  <2>2. build'.run \in DOMAIN Runs /\ build.run <= build'.run
    BY <1>2, <1>3
  <2>3. CreateFile(name, KindOf(name))
    BY <1>1, <2>1
  <2>. HIDE DEF name
  <2>4. \E file \in FilesUpTo(build'.run, KindOf(name)) :
          /\ file = IF entry[name] = None THEN <<build'.run, KindOf(name)>> ELSE entry[name]
          /\ entry' \in [Names -> Files \cup {None}]
          /\ \A n \in Names : entry'[n] = IF n = name THEN file ELSE entry[n]
          /\ contents' = [g \in Files |-> contents'[g]]
          /\ \A g \in Files : contents'[g] = IF g = file THEN <<>> ELSE contents[g]
    BY <2>1, <2>2, <2>3, CreateFileFacts
  <2>. QED  BY <1>3, <2>1, <2>4 DEF name
<1>6. file \in Files /\ file # None /\ file[2] = "offsets"
  BY <1>5, FileFacts
<1>7. \A name \in Names : entry[name] \in FilesUpTo(build.run, KindOf(name)) \cup {None}
  BY StateFacts
<1>8. /\ entry'["texts.tmp"] = entry["texts.tmp"] /\ entry'["texts"] = entry["texts"]
      /\ entry'["offsets.tmp"] = file /\ entry'["offsets"] = entry["offsets"]
  BY <1>5, Kind
<1>9. file # entry["offsets"]
  <2>1. "offsets" \in Names
    BY Kind
  <2>2. CASE entry["offsets.tmp"] = None
    BY <1>1, <1>5, <2>1, <2>2 DEF DirectoryInv, NamesOK
  <2>3. CASE entry["offsets.tmp"] # None
    BY <1>5, <2>3 DEF DirectoryInv, NamesOK
  <2>. QED  BY <2>2, <2>3
<1>10. NamesOK'
  <2>1. \A name \in Names : entry'[name] \in FilesUpTo(build.run, KindOf(name)) \cup {None}
    BY <1>5, <1>7, Kind
  <2>2. entry'["texts.tmp"] # None => entry'["texts.tmp"] # entry'["texts"]
    BY <1>8 DEF DirectoryInv, NamesOK
  <2>. QED  BY <1>3, <1>5, <1>8, <1>9, <2>1, <2>2 DEF NamesOK
<1>11. \A s \in Searches : /\ search[s].texts \in FilesUpTo(build.run, "texts") \cup {None}
                           /\ search[s].offsets \in FilesUpTo(build.run, "offsets") \cup {None}
                           /\ search[s].texts # None => search[s].texts # entry["texts.tmp"]
                           /\ search[s].offsets # None => search[s].offsets # entry["offsets.tmp"]
                           /\ search[s].offsets # <<build.run, "offsets">>
  BY <1>1 DEF DirectoryInv, OpenOK
<1>12. OpenOK'
  <2>1. \A s \in Searches : search[s].offsets # None => search[s].offsets # file
    BY <1>5, <1>11
  <2>. QED  BY <1>1, <1>3, <1>8, <1>11, <2>1 DEF OpenOK
<1>13. OpenFilesKept
  <2>1. \A s \in Searches : /\ search[s].texts # None => search[s].texts \in Files
                            /\ search[s].offsets # None => search[s].offsets \in Files
                            /\ search[s].texts # None => search[s].texts # file
                            /\ search[s].offsets # None => search[s].offsets # file
    BY <1>5, <1>6, <1>11, FileFacts
  <2>. QED  BY <1>5, <2>1 DEF OpenFilesKept
<1>14. IndexKept
  <2>. SUFFICES ASSUME NEW name \in Kinds
                PROVE  /\ entry'[name] = entry[name]
                       /\ entry[name] # None => contents'[entry[name]] = contents[entry[name]]
    BY PublishedKept
  <2>1. name \in Names /\ name # "offsets.tmp"
    BY DEF Kinds, Names
  <2>2. entry[name] # None => entry[name] # file /\ entry[name] \in Files
    <3>1. entry[name] \in FilesUpTo(build.run, KindOf(name)) \cup {None}
      BY <1>7, <2>1
    <3>2. CASE name = "offsets"
      BY <1>9, <3>1, <3>2, FileFacts
    <3>3. CASE name # "offsets"
      <4>1. KindOf(name) # "offsets"
        BY <3>3 DEF KindOf, Kinds
      <4>. QED  BY <1>6, <3>1, <4>1, FileFacts
    <3>. QED  BY <3>2, <3>3
  <2>. QED  BY <1>5, <2>1, <2>2
<1>15. Progress' /\ SuccessIsUsable'
  <2>. DEFINE run == build.run
  <2>1. build.count = 0 /\ build.texts = <<>> /\ entry["texts.tmp"] # None
    BY <1>1 DEF DirectoryInv, Progress
  <2>2. Len(Runs[run].lines) \in Nat
    BY <1>2, RunFacts
  <2>3. Joined(run, 0) = <<>> /\ OffsetsOf(run)[1] = 0
    <3>1. 0 \in 0 .. Len(Runs[run].lines)
      BY <2>2
    <3>2. Joined(run, 0) = <<>> /\ OffsetsOf(run)[0 + 1] = Len(Joined(run, 0))
      BY <1>2, <3>1, JoinedFacts
    <3>. QED  BY <3>2
  <2>4. <<0>> = [n \in 1 .. (0 + 1) |-> OffsetsOf(run)[n]]
    <3>. DEFINE f == OffsetsOf(run)
    <3>. HIDE DEF f
    <3>1. f[1] = 0 => <<0>> = [n \in 1 .. (0 + 1) |-> f[n]]
      <4>1. 1 .. (0 + 1) = {1}
        OBVIOUS
      <4>. QED  BY <4>1
    <3>. QED  BY <2>3, <3>1 DEF f
  <2>5. 0 <= Len(Runs[run].lines)
    BY <2>2
  <2>. HIDE DEF run
  <2>6. /\ build'.run = run /\ build'.count = 0 /\ build'.texts = Joined(run, 0)
        /\ build'.offsets = [n \in 1 .. (0 + 1) |-> OffsetsOf(run)[n]]
    BY <1>3, <2>1, <2>3, <2>4 DEF run
  <2>. QED  BY <1>3, <1>6, <1>8, <2>1, <2>5, <2>6
            DEF Progress, SuccessIsUsable, Publishing, Lines
<1>. QED  BY <1>1, <1>2, <1>3, <1>4, <1>5, <1>10, <1>12, <1>13, <1>14, <1>15, BuildStep

(* A step of a run that leaves the directory alone.                        *)
LEMMA NamesStay ==
  ASSUME DirectoryInv, UNCHANGED <<entry, search>>, build'.run = build.run,
         build'.stage # "texts created"
  PROVE  NamesOK' /\ OpenOK'
BY DEF DirectoryInv, NamesOK, OpenOK

LEMMA ContentsStay ==
  ASSUME DirectoryInv, UNCHANGED <<entry, contents, search>>
  PROVE  OpenFilesKept /\ IndexKept /\ contents' = [file \in Files |-> contents'[file]]
<1>1. entry' = entry /\ contents' = contents
  OBVIOUS
<1>2. contents = [file \in Files |-> contents[file]]
  BY DEF DirectoryInv, StatesOK
<1>. QED  BY <1>1, <1>2, PublishedKept DEF OpenFilesKept

LEMMA PushLineStep ==
  ASSUME DirectoryInv, PushLine
  PROVE  DirectoryInv' /\ OpenFilesKept /\ IndexKept
<1>. DEFINE run == build.run
            n == build.count
            line == Runs[run].lines[n + 1]
<1>1. /\ build.stage = "reading" /\ n < Len(Runs[run].lines)
      /\ build' = [build EXCEPT !.texts = build.texts \o Source(line),
                               !.offsets = Append(build.offsets, EndAfter(line)),
                               !.count = n + 1]
      /\ UNCHANGED <<entry, contents, search>>
  BY DEF PushLine, Lines, Source
<1>2. build \in BuildStates /\ run \in DOMAIN Runs
  BY <1>1, StateFacts DEF DirectoryInv, StatesOK
<1>3. n \in Nat /\ build.texts \in Seq(ByteValues) /\ build.offsets \in Seq(Nat)
  BY <1>2 DEF BuildStates
<1>4. /\ n \in 0 .. Len(Runs[run].lines) /\ n + 1 \in 1 .. Len(Runs[run].lines)
      /\ n + 1 \in 0 .. Len(Runs[run].lines) /\ n + 1 <= Len(Runs[run].lines)
      /\ Len(Runs[run].lines) \in Nat /\ line \in Seq(Chars)
  <2>1. Runs[run].lines \in Seq(Seq(Chars)) /\ Len(Runs[run].lines) \in Nat
    BY <1>2, RunFacts
  <2>2. n + 1 \in 1 .. Len(Runs[run].lines)
    BY <1>1, <1>3, <2>1
  <2>. QED  BY <1>1, <1>3, <2>1, <2>2
<1>5. build.texts = Joined(run, n) /\ build.offsets = [m \in 1 .. (n + 1) |-> OffsetsOf(run)[m]]
  BY <1>1 DEF DirectoryInv, Progress
<1>6. /\ Joined(run, n + 1) = Joined(run, n) \o Source(line)
      /\ Joined(run, n + 1) \in Seq(ByteValues)
      /\ OffsetsOf(run)[n + 2] = OffsetsOf(run)[n + 1] + Len(Encode(line)) + 1
      /\ OffsetsOf(run)[n + 2] \in Nat
  <2>1. (n + 1) - 1 = n /\ (n + 1) + 1 = n + 2
    BY <1>3
  <2>2. /\ Joined(run, n + 1) = Joined(run, (n + 1) - 1) \o Source(line)
        /\ Joined(run, n + 1) \in Seq(ByteValues)
        /\ OffsetsOf(run)[(n + 1) + 1] = OffsetsOf(run)[n + 1] + Len(Encode(line)) + 1
        /\ OffsetsOf(run)[(n + 1) + 1] \in Nat
    BY <1>2, <1>4, JoinedFacts
  <2>. QED  BY <2>1, <2>2
<1>. HIDE DEF line
<1>7. /\ EndAfter(line) = OffsetsOf(run)[n + 2]
      /\ Append(build.offsets, EndAfter(line)) = [m \in 1 .. (n + 2) |-> OffsetsOf(run)[m]]
      /\ Append(build.offsets, EndAfter(line)) \in Seq(Nat)
  <2>. DEFINE f == OffsetsOf(run)
              offsets == build.offsets
              x == EndAfter(line)
  <2>. HIDE DEF f, offsets, run, n
  <2>1. Len(offsets) = n + 1 /\ \A m \in 1 .. (n + 1) : offsets[m] = f[m]
    <3>1. DOMAIN offsets = 1 .. (n + 1) /\ \A m \in 1 .. (n + 1) : offsets[m] = f[m]
      BY <1>5 DEF f, offsets
    <3>. QED  BY <1>3, <3>1 DEF offsets
  <2>2. x = f[n + 2]
    <3>1. Last(offsets) = offsets[Len(offsets)]
      BY DEF Last
    <3>2. n + 1 \in 1 .. (n + 1)
      BY <1>3
    <3>. QED  BY <1>6, <2>1, <3>1, <3>2 DEF EndAfter, f, offsets
  <2>3. x \in Nat
    BY <1>6, <2>2 DEF f
  <2>. HIDE DEF x
  <2>4. /\ Append(offsets, x) \in Seq(Nat) /\ Len(Append(offsets, x)) = n + 2
        /\ \A m \in 1 .. (n + 1) : Append(offsets, x)[m] = f[m]
        /\ Append(offsets, x)[n + 2] = f[n + 2]
    BY <1>3, <2>1, <2>2, <2>3, AppendProperties DEF offsets
  <2>5. \A m \in 1 .. (n + 2) : Append(offsets, x)[m] = f[m]
    <3>1. \A m \in 1 .. (n + 2) : m \in 1 .. (n + 1) \/ m = n + 2
      BY <1>3
    <3>. QED  BY <2>4, <3>1
  <2>6. Append(offsets, x) = [m \in 1 .. (n + 2) |-> f[m]]
    <3>. DEFINE s == Append(offsets, x)
    <3>1. s \in Seq(Nat) /\ Len(s) = n + 2 /\ \A m \in 1 .. (n + 2) : s[m] = f[m]
      BY <2>4, <2>5
    <3>. HIDE DEF s
    <3>2. s = [m \in 1 .. (n + 2) |-> s[m]]
      BY <1>3, <3>1
    <3>. QED  BY <3>1, <3>2 DEF s
  <2>. QED  BY <2>2, <2>4, <2>6 DEF f, offsets, x
<1>8. build.texts \o Source(line) = Joined(run, n + 1)
  BY <1>5, <1>6
<1>. HIDE DEF n
<1>9. /\ build'.run = run /\ build'.stage = "reading" /\ build'.count = n + 1
      /\ build'.texts = Joined(run, n + 1)
      /\ build'.offsets = [m \in 1 .. (n + 2) |-> OffsetsOf(run)[m]]
  BY <1>1, <1>2, <1>7, <1>8 DEF BuildStates
<1>10. build' \in BuildStates
  <2>1. build.texts \o Source(line) \in Seq(ByteValues) /\ n + 1 \in Nat
    BY <1>3, <1>6, <1>8
  <2>. QED  BY <1>1, <1>2, <1>7, <2>1 DEF BuildStates
<1>11. Progress' /\ SuccessIsUsable'
  <2>1. entry["texts.tmp"] # None /\ entry["offsets.tmp"] # None
    BY <1>1 DEF DirectoryInv, Progress
  <2>2. (n + 1) + 1 = n + 2
    BY <1>3
  <2>3. /\ build'.count <= Len(Runs[build'.run].lines)
        /\ build'.texts = Joined(build'.run, build'.count)
        /\ build'.offsets = [m \in 1 .. (build'.count + 1) |-> OffsetsOf(build'.run)[m]]
    BY <1>4, <1>9, <2>2
  <2>. QED  BY <1>1, <1>9, <2>1, <2>3 DEF Progress, SuccessIsUsable, Publishing, Lines
<1>12. NamesOK' /\ OpenOK'
  BY <1>1, <1>9, NamesStay
<1>13. OpenFilesKept /\ IndexKept /\ contents' = [file \in Files |-> contents'[file]]
  BY <1>1, ContentsStay
<1>. QED  BY <1>1, <1>2, <1>9, <1>10, <1>11, <1>12, <1>13, BuildStep

LEMMA FailStep ==
  ASSUME DirectoryInv, Fail
  PROVE  DirectoryInv' /\ OpenFilesKept /\ IndexKept
<1>1. /\ build.stage \in {"texts created", "reading"} \cup Publishing
      /\ build' = [build EXCEPT !.stage = "failed"]
      /\ UNCHANGED <<entry, contents, search>>
  BY DEF Fail
<1>2. build \in BuildStates /\ build.run \in DOMAIN Runs
  BY <1>1, StateFacts DEF DirectoryInv, StatesOK, Publishing
<1>3. build'.run = build.run /\ build'.stage = "failed" /\ build' \in BuildStates
  <2>1. "failed" \in Stages
    BY DEF Stages
  <2>. HIDE DEF Stages
  <2>. QED  BY <1>1, <1>2, <2>1 DEF BuildStates
<1>4. Progress' /\ SuccessIsUsable'
  BY <1>3 DEF Progress, SuccessIsUsable, Publishing
<1>5. NamesOK' /\ OpenOK'
  BY <1>1, <1>3, NamesStay
<1>6. OpenFilesKept /\ IndexKept /\ contents' = [file \in Files |-> contents'[file]]
  BY <1>1, ContentsStay
<1>. QED  BY <1>1, <1>2, <1>3, <1>4, <1>5, <1>6, BuildStep

(* The files that names and searches refer to are of their kind.           *)
LEMMA FileKinds ==
  ASSUME DirectoryInv
  PROVE  /\ \A name \in Names : entry[name] # None =>
               entry[name] \in Files /\ entry[name][2] = KindOf(name)
         /\ \A s \in Searches :
               /\ search[s].texts # None =>
                     /\ search[s].texts \in Files /\ search[s].texts[2] = "texts"
                     /\ search[s].texts # entry["texts.tmp"]
               /\ search[s].offsets # None =>
                     /\ search[s].offsets \in Files /\ search[s].offsets[2] = "offsets"
                     /\ search[s].offsets # entry["offsets.tmp"]
<1>1. \A name \in Names : entry[name] # None =>
         entry[name] \in Files /\ entry[name][2] = KindOf(name)
  BY StateFacts, FileFacts
<1>2. ASSUME NEW s \in Searches
      PROVE  /\ search[s].texts # None =>
                   /\ search[s].texts \in Files /\ search[s].texts[2] = "texts"
                   /\ search[s].texts # entry["texts.tmp"]
             /\ search[s].offsets # None =>
                   /\ search[s].offsets \in Files /\ search[s].offsets[2] = "offsets"
                   /\ search[s].offsets # entry["offsets.tmp"]
  <2>1. /\ search[s].texts \in FilesUpTo(build.run, "texts") \cup {None}
        /\ search[s].offsets \in FilesUpTo(build.run, "offsets") \cup {None}
        /\ search[s].texts # None => search[s].texts # entry["texts.tmp"]
        /\ search[s].offsets # None => search[s].offsets # entry["offsets.tmp"]
    BY DEF DirectoryInv, OpenOK
  <2>. QED  BY <2>1, FileFacts
<1>. QED  BY <1>1, <1>2

LEMMA FinishStep ==
  ASSUME DirectoryInv, Finish
  PROVE  DirectoryInv' /\ OpenFilesKept /\ IndexKept
<1>. DEFINE run == build.run
            a == entry["texts.tmp"]
            b == entry["offsets.tmp"]
<1>1. /\ build.stage = "reading" /\ build.count = Len(Runs[run].lines)
      /\ build' = [build EXCEPT !.stage = "finished"]
      /\ contents' = [contents EXCEPT ![a] = build.texts, ![b] = build.offsets]
      /\ UNCHANGED <<entry, search>>
  BY DEF Finish, Lines
<1>2. build \in BuildStates /\ run \in DOMAIN Runs
  BY <1>1, StateFacts DEF DirectoryInv, StatesOK
<1>3. build' = [build EXCEPT !.stage = "finished"] /\ build' \in BuildStates
      /\ build'.run = run /\ build'.stage = "finished" /\ build'.count = build.count
      /\ build'.texts = build.texts /\ build'.offsets = build.offsets
  <2>1. "finished" \in Stages
    BY DEF Stages, Publishing
  <2>. HIDE DEF Stages
  <2>. QED  BY <1>1, <1>2, <2>1 DEF BuildStates
<1>4. a # None /\ b # None /\ build.texts = Joined(run, build.count)
      /\ build.offsets = [n \in 1 .. (build.count + 1) |-> OffsetsOf(run)[n]]
  BY <1>1 DEF DirectoryInv, Progress
<1>5. a \in Files /\ a[2] = "texts" /\ b \in Files /\ b[2] = "offsets" /\ a # b
  BY <1>4, FileKinds, Kind
<1>6. build.texts = TextsOf(run) /\ build.offsets = OffsetsOf(run)
  BY <1>1, <1>2, <1>4, JoinedFacts, SourcesFacts
<1>. HIDE DEF a, b
<1>7. /\ contents' = [g \in Files |-> contents'[g]]
      /\ \A g \in Files : contents'[g] = CASE g = a -> TextsOf(run)
                                          [] g = b -> OffsetsOf(run)
                                          [] g \notin {a, b} -> contents[g]
  <2>1. contents = [g \in Files |-> contents[g]]
    BY StateFacts
  <2>. QED  BY <1>1, <1>5, <1>6, <2>1
<1>8. entry'["texts.tmp"] = a /\ entry'["offsets.tmp"] = b
      /\ contents'[a] = TextsOf(run) /\ contents'[b] = OffsetsOf(run)
      /\ \A g \in Files \ {a, b} : contents'[g] = contents[g]
  BY <1>1, <1>5, <1>7 DEF a, b
<1>9. Progress' /\ SuccessIsUsable'
  <2>1. Len(Runs[run].lines) <= Len(Runs[run].lines)
    BY <1>2, RunFacts
  <2>. QED  BY <1>1, <1>3, <1>4, <1>8, <2>1 DEF Progress, SuccessIsUsable, Publishing, Lines, Holds
<1>10. NamesOK' /\ OpenOK'
  BY <1>1, <1>3, NamesStay
<1>11. OpenFilesKept
  <2>1. \A s \in Searches : /\ search[s].texts # None => search[s].texts \in Files \ {a, b}
                            /\ search[s].offsets # None => search[s].offsets \in Files \ {a, b}
    BY <1>5, FileKinds DEF a, b
  <2>. QED  BY <1>8, <2>1 DEF OpenFilesKept
<1>12. IndexKept
  <2>. SUFFICES ASSUME NEW name \in Kinds
                PROVE  /\ entry'[name] = entry[name]
                       /\ entry[name] # None => contents'[entry[name]] = contents[entry[name]]
    BY PublishedKept
  <2>1. entry[name] # None => entry[name] \in Files /\ entry[name][2] = name
    <3>1. name \in Names /\ KindOf(name) = name
      BY DEF Kinds, Names, KindOf
    <3>. QED  BY <3>1, FileKinds
  <2>2. entry[name] # None => entry[name] # a /\ entry[name] # b
    <3>1. entry["texts"] # a /\ entry["offsets"] # b
      BY <1>4 DEF DirectoryInv, NamesOK, a, b
    <3>. QED  BY <1>5, <2>1, <3>1
  <2>. QED  BY <1>1, <1>8, <2>1, <2>2
<1>. QED  BY <1>1, <1>2, <1>3, <1>7, <1>9, <1>10, <1>11, <1>12, BuildStep

LEMMA SaveEngineStep ==
  ASSUME DirectoryInv, SaveEngine
  PROVE  DirectoryInv' /\ OpenFilesKept /\ IndexKept
<1>. DEFINE run == build.run
            file == <<run, "engine">>
<1>1. /\ build.stage = "finished"
      /\ entry' = [entry EXCEPT !["engine"] = file]
      /\ contents' = [contents EXCEPT ![file] = EngineOf(run)]
      /\ UNCHANGED search
  BY DEF SaveEngine
<1>2. PICK stage \in {"saved", "failed"} : build' = [build EXCEPT !.stage = stage]
  BY DEF SaveEngine
<1>3. build \in BuildStates /\ run \in DOMAIN Runs
  BY <1>1, StateFacts DEF DirectoryInv, StatesOK
<1>4. /\ build' \in BuildStates /\ build'.run = run /\ build'.stage = stage
      /\ build'.count = build.count /\ build'.texts = build.texts
      /\ build'.offsets = build.offsets
  <2>1. stage \in Stages
    BY DEF Stages, Publishing
  <2>. HIDE DEF Stages
  <2>. QED  BY <1>2, <1>3, <2>1 DEF BuildStates
<1>5. file \in FilesUpTo(run, "engine")
  <2>1. "engine" \in Kinds
    BY DEF Kinds
  <2>. QED  BY <1>3, <2>1, FileFacts
<1>. HIDE DEF file
<1>6. file \in Files /\ file # None /\ file[2] = "engine"
  BY <1>5, FileFacts
<1>7. /\ contents' = [g \in Files |-> contents'[g]]
      /\ contents'[file] = EngineOf(run)
      /\ \A g \in Files \ {file} : contents'[g] = contents[g]
  <2>1. contents = [g \in Files |-> contents[g]]
    BY StateFacts
  <2>. QED  BY <1>1, <1>6, <2>1
<1>8. /\ entry' \in [Names -> Files \cup {None}]
      /\ \A n \in Names : entry'[n] = IF n = "engine" THEN file ELSE entry[n]
  <2>1. entry \in [Names -> Files \cup {None}]
    BY StateFacts
  <2>. QED  BY <1>1, <1>6, <2>1
<1>9. /\ entry'["engine"] = file
      /\ entry'["texts"] = entry["texts"] /\ entry'["texts.tmp"] = entry["texts.tmp"]
      /\ entry'["offsets"] = entry["offsets"] /\ entry'["offsets.tmp"] = entry["offsets.tmp"]
  BY <1>8, Kind
<1>10. NamesOK'
  <2>1. \A name \in Names : entry'[name] \in FilesUpTo(run, KindOf(name)) \cup {None}
    BY <1>5, <1>8, Kind, StateFacts
  <2>. QED  BY <1>4, <1>8, <1>9, <2>1 DEF DirectoryInv, NamesOK
<1>11. OpenOK'
  BY <1>1, <1>4, <1>9 DEF DirectoryInv, OpenOK
<1>12. OpenFilesKept
  <2>1. \A s \in Searches : /\ search[s].texts # None => search[s].texts \in Files \ {file}
                            /\ search[s].offsets # None => search[s].offsets \in Files \ {file}
    BY <1>6, FileKinds
  <2>. QED  BY <1>7, <2>1 DEF OpenFilesKept
<1>13. Progress' /\ SuccessIsUsable'
  <2>1. /\ build.count <= Len(Lines) /\ build.count = Len(Lines)
        /\ build.texts = Joined(build.run, build.count)
        /\ build.offsets = [n \in 1 .. (build.count + 1) |-> OffsetsOf(build.run)[n]]
        /\ Holds("texts.tmp", TextsOf(run)) /\ Holds("offsets.tmp", OffsetsOf(run))
    BY <1>1 DEF DirectoryInv, Progress, Publishing
  <2>2. /\ entry["texts.tmp"] # None /\ contents[entry["texts.tmp"]] = TextsOf(run)
        /\ entry["offsets.tmp"] # None /\ contents[entry["offsets.tmp"]] = OffsetsOf(run)
    BY <2>1 DEF Holds
  <2>3. entry["texts.tmp"] \in Files \ {file} /\ entry["offsets.tmp"] \in Files \ {file}
    BY <1>6, <2>2, FileKinds, Kind
  <2>4. Holds("texts.tmp", TextsOf(run))' /\ Holds("offsets.tmp", OffsetsOf(run))'
        /\ Holds("engine", EngineOf(run))'
    BY <1>4, <1>6, <1>7, <1>9, <2>2, <2>3 DEF Holds
  <2>. HIDE DEF run
  <2>. QED  BY <1>4, <2>1, <2>4 DEF Progress, SuccessIsUsable, Publishing, Lines, run
<1>14. IndexKept
  BY <1>1 DEF IndexKept, Publishing
<1>. QED  BY <1>1, <1>3, <1>4, <1>7, <1>10, <1>11, <1>12, <1>13, <1>14, BuildStep

(* A file that a run has written takes the name under which it is searched. *)
LEMMA RenameFacts ==
  ASSUME DirectoryInv, NEW from \in Names, NEW to \in Names, from # to,
         KindOf(from) = KindOf(to), Rename(from, to)
  PROVE  /\ entry' \in [Names -> Files \cup {None}]
         /\ \A n \in Names : entry'[n] = CASE n = from -> None
                                           [] n = to -> entry[from]
                                           [] n \notin {from, to} -> entry[n]
         /\ \A n \in Names : entry'[n] \in FilesUpTo(build.run, KindOf(n)) \cup {None}
<1>1. entry \in [Names -> Files \cup {None}]
      /\ \A n \in Names : entry[n] \in FilesUpTo(build.run, KindOf(n)) \cup {None}
  BY StateFacts
<1>2. entry' = [entry EXCEPT ![to] = entry[from], ![from] = None]
  BY DEF Rename
<1>3. entry' \in [Names -> Files \cup {None}]
      /\ \A n \in Names : entry'[n] = CASE n = from -> None
                                        [] n = to -> entry[from]
                                        [] n \notin {from, to} -> entry[n]
  BY <1>1, <1>2
<1>. QED  BY <1>1, <1>3

(* The facts of a run that publishes, as its stage advances.               *)
LEMMA PublishingFacts ==
  ASSUME DirectoryInv, build.stage \in Publishing, NEW stage \in Stages,
         build' = [build EXCEPT !.stage = stage]
  PROVE  /\ build.run \in DOMAIN Runs
         /\ build' \in BuildStates /\ build'.run = build.run /\ build'.stage = stage
         /\ build.count = Len(Lines) /\ build.count <= Len(Lines)
         /\ build.texts = Joined(build.run, build.count)
         /\ build.offsets = [n \in 1 .. (build.count + 1) |-> OffsetsOf(build.run)[n]]
         /\ build'.count = build.count /\ build'.texts = build.texts
         /\ build'.offsets = build.offsets
         /\ IndexKept
<1>1. build \in BuildStates /\ build.run \in DOMAIN Runs
  BY StateFacts DEF DirectoryInv, StatesOK, Publishing
<1>2. /\ build' \in BuildStates /\ build'.run = build.run /\ build'.stage = stage
      /\ build'.count = build.count /\ build'.texts = build.texts
      /\ build'.offsets = build.offsets
  BY <1>1 DEF BuildStates
<1>3. /\ build.count = Len(Lines) /\ build.count <= Len(Lines)
      /\ build.texts = Joined(build.run, build.count)
      /\ build.offsets = [n \in 1 .. (build.count + 1) |-> OffsetsOf(build.run)[n]]
  BY DEF DirectoryInv, Progress
<1>. QED  BY <1>1, <1>2, <1>3 DEF IndexKept

LEMMA PublishTextsStep ==
  ASSUME DirectoryInv, PublishTexts
  PROVE  DirectoryInv' /\ OpenFilesKept /\ IndexKept
<1>1. /\ build.stage = "saved" /\ build' = [build EXCEPT !.stage = "texts published"]
      /\ Rename("texts.tmp", "texts") /\ UNCHANGED <<contents, search>>
  BY DEF PublishTexts
<1>2. /\ build.run \in DOMAIN Runs
      /\ build' \in BuildStates /\ build'.run = build.run /\ build'.stage = "texts published"
      /\ build.count = Len(Lines) /\ build.count <= Len(Lines)
      /\ build.texts = Joined(build.run, build.count)
      /\ build.offsets = [n \in 1 .. (build.count + 1) |-> OffsetsOf(build.run)[n]]
      /\ build'.count = build.count /\ build'.texts = build.texts
      /\ build'.offsets = build.offsets
      /\ IndexKept
  <2>1. "texts published" \in Stages /\ build.stage \in Publishing
    BY <1>1 DEF Stages, Publishing
  <2>. QED  BY <1>1, <2>1, PublishingFacts
<1>3. /\ entry' \in [Names -> Files \cup {None}]
      /\ \A n \in Names : entry'[n] = CASE n = "texts.tmp" -> None
                                        [] n = "texts" -> entry["texts.tmp"]
                                        [] n \notin {"texts.tmp", "texts"} -> entry[n]
      /\ \A n \in Names : entry'[n] \in FilesUpTo(build.run, KindOf(n)) \cup {None}
  <2>. DEFINE from == "texts.tmp"
              to   == "texts"
  <2>1. from \in Names /\ to \in Names /\ from # to /\ KindOf(from) = KindOf(to)
        /\ Rename(from, to)
    BY <1>1, Kind
  <2>. HIDE DEF from, to
  <2>2. /\ entry' \in [Names -> Files \cup {None}]
        /\ \A n \in Names : entry'[n] = CASE n = from -> None
                                          [] n = to -> entry[from]
                                          [] n \notin {from, to} -> entry[n]
        /\ \A n \in Names : entry'[n] \in FilesUpTo(build.run, KindOf(n)) \cup {None}
    BY <2>1, RenameFacts
  <2>. QED  BY <2>2 DEF from, to
<1>4. /\ entry'["texts.tmp"] = None /\ entry'["texts"] = entry["texts.tmp"]
      /\ entry'["offsets.tmp"] = entry["offsets.tmp"] /\ entry'["offsets"] = entry["offsets"]
      /\ entry'["engine"] = entry["engine"] /\ entry'["metadata"] = entry["metadata"]
  BY <1>3, Kind
<1>5. NamesOK' /\ OpenOK'
  BY <1>1, <1>2, <1>3, <1>4, ZenonT(30) DEF DirectoryInv, NamesOK, OpenOK
<1>6. OpenFilesKept /\ contents' = [g \in Files |-> contents'[g]]
  BY <1>1, StateFacts DEF OpenFilesKept
<1>7. Progress' /\ SuccessIsUsable'
  <2>1. /\ Holds("texts.tmp", TextsOf(build.run)) /\ Holds("offsets.tmp", OffsetsOf(build.run))
        /\ Holds("engine", EngineOf(build.run))
    BY <1>1 DEF DirectoryInv, Progress, Publishing
  <2>2. /\ Holds("texts", TextsOf(build.run))' /\ Holds("offsets.tmp", OffsetsOf(build.run))'
        /\ Holds("engine", EngineOf(build.run))'
    BY <1>1, <1>2, <1>4, <2>1 DEF Holds
  <2>. QED  BY <1>2, <2>2 DEF Progress, SuccessIsUsable, Publishing, Lines
<1>. QED  BY <1>1, <1>2, <1>5, <1>6, <1>7, BuildStep

LEMMA PublishOffsetsStep ==
  ASSUME DirectoryInv, PublishOffsets
  PROVE  DirectoryInv' /\ OpenFilesKept /\ IndexKept
<1>1. /\ build.stage = "texts published" /\ build' = [build EXCEPT !.stage = "offsets published"]
      /\ Rename("offsets.tmp", "offsets") /\ UNCHANGED <<contents, search>>
  BY DEF PublishOffsets
<1>2. /\ build.run \in DOMAIN Runs
      /\ build' \in BuildStates /\ build'.run = build.run /\ build'.stage = "offsets published"
      /\ build.count = Len(Lines) /\ build.count <= Len(Lines)
      /\ build.texts = Joined(build.run, build.count)
      /\ build.offsets = [n \in 1 .. (build.count + 1) |-> OffsetsOf(build.run)[n]]
      /\ build'.count = build.count /\ build'.texts = build.texts
      /\ build'.offsets = build.offsets
      /\ IndexKept
  <2>1. "offsets published" \in Stages /\ build.stage \in Publishing
    BY <1>1 DEF Stages, Publishing
  <2>. QED  BY <1>1, <2>1, PublishingFacts
<1>3. /\ entry' \in [Names -> Files \cup {None}]
      /\ \A n \in Names : entry'[n] = CASE n = "offsets.tmp" -> None
                                        [] n = "offsets" -> entry["offsets.tmp"]
                                        [] n \notin {"offsets.tmp", "offsets"} -> entry[n]
      /\ \A n \in Names : entry'[n] \in FilesUpTo(build.run, KindOf(n)) \cup {None}
  <2>. DEFINE from == "offsets.tmp"
              to   == "offsets"
  <2>1. from \in Names /\ to \in Names /\ from # to /\ KindOf(from) = KindOf(to)
        /\ Rename(from, to)
    BY <1>1, Kind
  <2>. HIDE DEF from, to
  <2>2. /\ entry' \in [Names -> Files \cup {None}]
        /\ \A n \in Names : entry'[n] = CASE n = from -> None
                                          [] n = to -> entry[from]
                                          [] n \notin {from, to} -> entry[n]
        /\ \A n \in Names : entry'[n] \in FilesUpTo(build.run, KindOf(n)) \cup {None}
    BY <2>1, RenameFacts
  <2>. QED  BY <2>2 DEF from, to
<1>4. /\ entry'["offsets.tmp"] = None /\ entry'["offsets"] = entry["offsets.tmp"]
      /\ entry'["texts.tmp"] = entry["texts.tmp"] /\ entry'["texts"] = entry["texts"]
      /\ entry'["engine"] = entry["engine"] /\ entry'["metadata"] = entry["metadata"]
  BY <1>3, Kind
<1>5. NamesOK' /\ OpenOK'
  BY <1>1, <1>2, <1>3, <1>4, ZenonT(30) DEF DirectoryInv, NamesOK, OpenOK
<1>6. OpenFilesKept /\ contents' = [g \in Files |-> contents'[g]]
  BY <1>1, StateFacts DEF OpenFilesKept
<1>7. Progress' /\ SuccessIsUsable'
  <2>1. /\ Holds("texts", TextsOf(build.run)) /\ Holds("offsets.tmp", OffsetsOf(build.run))
        /\ Holds("engine", EngineOf(build.run))
    BY <1>1 DEF DirectoryInv, Progress, Publishing
  <2>2. /\ Holds("texts", TextsOf(build.run))' /\ Holds("offsets", OffsetsOf(build.run))'
        /\ Holds("engine", EngineOf(build.run))'
    BY <1>1, <1>2, <1>4, <2>1 DEF Holds
  <2>. QED  BY <1>2, <2>2 DEF Progress, SuccessIsUsable, Publishing, Lines
<1>. QED  BY <1>1, <1>2, <1>5, <1>6, <1>7, BuildStep

LEMMA TruncateMetadataStep ==
  ASSUME DirectoryInv, TruncateMetadata
  PROVE  DirectoryInv' /\ OpenFilesKept /\ IndexKept
<1>1. /\ build.stage = "offsets published"
      /\ build' = [build EXCEPT !.stage = "metadata truncated"]
      /\ CreateFile("metadata", "metadata") /\ UNCHANGED search
  BY DEF TruncateMetadata
<1>2. /\ build.run \in DOMAIN Runs
      /\ build' \in BuildStates /\ build'.run = build.run /\ build'.stage = "metadata truncated"
      /\ build.count = Len(Lines) /\ build.count <= Len(Lines)
      /\ build.texts = Joined(build.run, build.count)
      /\ build.offsets = [n \in 1 .. (build.count + 1) |-> OffsetsOf(build.run)[n]]
      /\ build'.count = build.count /\ build'.texts = build.texts
      /\ build'.offsets = build.offsets
      /\ IndexKept
  <2>1. "metadata truncated" \in Stages /\ build.stage \in Publishing
    BY <1>1 DEF Stages, Publishing
  <2>. QED  BY <1>1, <2>1, PublishingFacts
<1>3. PICK file \in FilesUpTo(build.run, "metadata") :
        /\ entry' \in [Names -> Files \cup {None}]
        /\ \A n \in Names : entry'[n] = IF n = "metadata" THEN file ELSE entry[n]
        /\ contents' = [g \in Files |-> contents'[g]]
        /\ \A g \in Files : contents'[g] = IF g = file THEN <<>> ELSE contents[g]
  <2>. DEFINE name == "metadata"
  <2>1. name \in Names /\ KindOf(name) = "metadata"
    BY Kind
  <2>2. build'.run \in DOMAIN Runs /\ build.run <= build'.run
    <3>1. build.run \in Nat
      BY StateFacts
    <3>2. build.run <= build.run
      BY <3>1
    <3>. QED  BY <1>2, <3>2
  <2>3. CreateFile(name, KindOf(name))
    BY <1>1, <2>1
  <2>. HIDE DEF name
  <2>4. \E file \in FilesUpTo(build'.run, KindOf(name)) :
          /\ file = IF entry[name] = None THEN <<build'.run, KindOf(name)>> ELSE entry[name]
          /\ entry' \in [Names -> Files \cup {None}]
          /\ \A n \in Names : entry'[n] = IF n = name THEN file ELSE entry[n]
          /\ contents' = [g \in Files |-> contents'[g]]
          /\ \A g \in Files : contents'[g] = IF g = file THEN <<>> ELSE contents[g]
    BY <2>1, <2>2, <2>3, CreateFileFacts
  <2>. QED  BY <1>2, <2>1, <2>4 DEF name
<1>4. file \in Files /\ file # None /\ file[2] = "metadata"
  BY <1>3, FileFacts
<1>5. /\ entry'["texts.tmp"] = entry["texts.tmp"] /\ entry'["texts"] = entry["texts"]
      /\ entry'["offsets.tmp"] = entry["offsets.tmp"] /\ entry'["offsets"] = entry["offsets"]
      /\ entry'["engine"] = entry["engine"] /\ entry'["metadata"] = file
  BY <1>3, Kind
<1>6. NamesOK' /\ OpenOK'
  <2>1. \A n \in Names : entry'[n] \in FilesUpTo(build.run, KindOf(n)) \cup {None}
    BY <1>3, Kind, StateFacts
  <2>2. NamesOK'
    BY <1>2, <1>3, <1>5, <2>1 DEF DirectoryInv, NamesOK
  <2>3. OpenOK'
    BY <1>1, <1>2, <1>5 DEF DirectoryInv, OpenOK
  <2>. QED  BY <2>2, <2>3
<1>7. OpenFilesKept
  <2>1. \A s \in Searches : /\ search[s].texts # None => search[s].texts \in Files \ {file}
                            /\ search[s].offsets # None => search[s].offsets \in Files \ {file}
    BY <1>4, FileKinds
  <2>. QED  BY <1>3, <2>1 DEF OpenFilesKept
<1>8. Progress' /\ SuccessIsUsable'
  <2>1. /\ Holds("texts", TextsOf(build.run)) /\ Holds("offsets", OffsetsOf(build.run))
        /\ Holds("engine", EngineOf(build.run))
    BY <1>1 DEF DirectoryInv, Progress, Publishing
  <2>2. \A n \in {"texts", "offsets", "engine"} :
           entry[n] # None => entry[n] \in Files /\ entry[n] # file
    BY <1>4, FileKinds, Kind
  <2>3. /\ Holds("texts", TextsOf(build.run))' /\ Holds("offsets", OffsetsOf(build.run))'
        /\ Holds("engine", EngineOf(build.run))'
    BY <1>2, <1>3, <1>5, <2>1, <2>2 DEF Holds
  <2>. QED  BY <1>2, <1>4, <1>5, <2>3 DEF Progress, SuccessIsUsable, Publishing, Lines
<1>. QED  BY <1>1, <1>2, <1>3, <1>6, <1>7, <1>8, BuildStep

LEMMA WriteMetadataStep ==
  ASSUME DirectoryInv, WriteMetadata
  PROVE  DirectoryInv' /\ OpenFilesKept /\ IndexKept
<1>. DEFINE run == build.run
            file == entry["metadata"]
<1>1. /\ build.stage = "metadata truncated" /\ build' = [build EXCEPT !.stage = "ok"]
      /\ contents' = [contents EXCEPT ![file] = MetadataOf(run)]
      /\ UNCHANGED <<entry, search>>
  BY DEF WriteMetadata
<1>2. /\ run \in DOMAIN Runs /\ build' \in BuildStates /\ build'.run = run
      /\ build'.stage = "ok" /\ IndexKept
  <2>1. "ok" \in Stages /\ build.stage \in Publishing
    BY <1>1 DEF Stages, Publishing
  <2>. QED  BY <1>1, <2>1, PublishingFacts
<1>3. /\ Holds("texts", TextsOf(run)) /\ Holds("offsets", OffsetsOf(run))
      /\ Holds("engine", EngineOf(run)) /\ file # None
  BY <1>1 DEF DirectoryInv, Progress, Publishing
<1>4. file \in Files /\ file[2] = "metadata"
  BY <1>3, FileKinds, Kind
<1>5. \A n \in {"texts", "offsets", "engine"} :
         entry[n] # None => entry[n] \in Files /\ entry[n] # file
  BY <1>4, FileKinds, Kind
<1>. HIDE DEF file
<1>6. /\ contents' = [g \in Files |-> contents'[g]] /\ contents'[file] = MetadataOf(run)
      /\ \A g \in Files \ {file} : contents'[g] = contents[g]
  <2>1. contents = [g \in Files |-> contents[g]]
    BY StateFacts
  <2>. QED  BY <1>1, <1>4, <2>1
<1>7. NamesOK' /\ OpenOK'
  BY <1>1, <1>2, NamesStay
<1>8. OpenFilesKept
  <2>1. \A s \in Searches : /\ search[s].texts # None => search[s].texts \in Files \ {file}
                            /\ search[s].offsets # None => search[s].offsets \in Files \ {file}
    BY <1>4, FileKinds
  <2>. QED  BY <1>6, <2>1 DEF OpenFilesKept
<1>9. Progress' /\ SuccessIsUsable'
  <2>1. entry' = entry
    BY <1>1
  <2>2. /\ entry["texts"] # None /\ contents'[entry["texts"]] = TextsOf(run)
        /\ entry["offsets"] # None /\ contents'[entry["offsets"]] = OffsetsOf(run)
        /\ entry["engine"] # None /\ contents'[entry["engine"]] = EngineOf(run)
        /\ entry["metadata"] # None /\ contents'[entry["metadata"]] = MetadataOf(run)
    BY <1>3, <1>5, <1>6 DEF Holds, file
  <2>3. IndexIsOf(build.run)'
    BY <1>2, <2>1, <2>2 DEF IndexIsOf, Holds
  <2>. QED  BY <1>2, <2>3 DEF Progress, SuccessIsUsable, Publishing
<1>. QED  BY <1>1, <1>2, <1>6, <1>7, <1>8, <1>9, BuildStep

------------------------------------------------------------------------------
(* Steps of a search.                                                      *)
LEMMA SearchStep ==
  ASSUME DirectoryInv, NEW s \in Searches, NEW state, Become(s, state),
         state = [field \in Fields |-> state[field]],
         \/ /\ state.texts = search[s].texts
            /\ state.length = search[s].length
         \/ /\ state.texts = entry["texts"]
            /\ state.texts # None => state.length = Len(contents[entry["texts"]]),
         state.offsets \in {search[s].offsets, entry["offsets"]},
         state.stage \in {"idle", "described", "mapped", "texts open"} => state.offsets = None,
         state.stage \in {"texts open", "open"} =>
            state.texts # None /\ state.length = Len(contents[state.texts]),
         state.stage = "open" => state.offsets # None,
         OpensOneRun(s)' =>
           /\ state.stage # "rejected"
           /\ state.stage = "located" =>
                 /\ IsText(state.matched)
                 /\ TokenValues(state.metadata.tokenizer, Decode(state.matched))
                      = SubSeq(state.engine.sequences[state.id], state.first, state.last)
  PROVE  DirectoryInv' /\ OpenFilesKept /\ IndexKept
<1>1. /\ search' = [search EXCEPT ![s] = state]
      /\ entry' = entry /\ contents' = contents /\ build' = build
  BY DEF Become
<1>2. search = [r \in Searches |-> search[r]]
      /\ \A r \in Searches : search[r] = [field \in Fields |-> search[r][field]]
  BY DEF DirectoryInv, StatesOK
<1>3. /\ search'[s] = state /\ \A r \in Searches : r # s => search'[r] = search[r]
      /\ search' = [r \in Searches |-> search'[r]]
  BY <1>1, <1>2
<1>4. StatesOK'
  <2>1. \A r \in Searches : search'[r] = [field \in Fields |-> search'[r][field]]
    BY <1>2, <1>3
  <2>. QED  BY <1>1, <1>3, <2>1 DEF DirectoryInv, StatesOK
<1>5. NamesOK' /\ SuccessIsUsable'
  BY <1>1 DEF DirectoryInv, NamesOK, SuccessIsUsable, IndexIsOf, Holds
<1>6. Progress'
  BY <1>1 DEF DirectoryInv, Progress, Lines, Holds
<1>7. OpenOK'
  <2>1. /\ entry["texts"] \in FilesUpTo(build.run, "texts") \cup {None}
        /\ entry["offsets"] \in FilesUpTo(build.run, "offsets") \cup {None}
    BY Kind, StateFacts
  <2>2. /\ entry["texts"] # None => entry["texts"] # entry["texts.tmp"]
        /\ entry["offsets"] # None => entry["offsets"] # entry["offsets.tmp"]
        /\ build.stage = "texts created" => entry["offsets"] # <<build.run, "offsets">>
    BY Kind DEF DirectoryInv, NamesOK
  <2>3. \A r \in Searches :
          /\ search'[r].texts \in {search[r].texts, entry["texts"]}
          /\ search'[r].offsets \in {search[r].offsets, entry["offsets"]}
    BY <1>3
  <2>4. \A r \in Searches :
          /\ search[r].texts \in FilesUpTo(build.run, "texts") \cup {None}
          /\ search[r].offsets \in FilesUpTo(build.run, "offsets") \cup {None}
          /\ search[r].texts # None => search[r].texts # entry["texts.tmp"]
          /\ search[r].offsets # None => search[r].offsets # entry["offsets.tmp"]
          /\ build.stage = "texts created" => search[r].offsets # <<build.run, "offsets">>
    BY DEF DirectoryInv, OpenOK
  <2>5. ASSUME NEW r \in Searches
        PROVE  /\ search'[r].texts \in FilesUpTo(build.run, "texts") \cup {None}
               /\ search'[r].offsets \in FilesUpTo(build.run, "offsets") \cup {None}
               /\ search'[r].texts # None => search'[r].texts # entry["texts.tmp"]
               /\ search'[r].offsets # None => search'[r].offsets # entry["offsets.tmp"]
               /\ build.stage = "texts created" => search'[r].offsets # <<build.run, "offsets">>
    BY <2>1, <2>2, <2>3, <2>4
  <2>. QED  BY <1>1, <2>5 DEF OpenOK
<1>8. Opened'
  BY <1>1, <1>3 DEF DirectoryInv, Opened
<1>9. LocatesWhatMatched'
  <2>. SUFFICES ASSUME NEW r \in Searches, OpensOneRun(r)'
                PROVE  /\ search'[r].stage # "rejected"
                       /\ search'[r].stage = "located" =>
                             /\ IsText(search'[r].matched)
                             /\ TokenValues(search'[r].metadata.tokenizer, Decode(search'[r].matched))
                                  = SubSeq(search'[r].engine.sequences[search'[r].id],
                                           search'[r].first, search'[r].last)
    BY DEF LocatesWhatMatched
  <2>1. CASE r = s
    BY <1>3, <2>1
  <2>2. CASE r # s
    <3>1. search'[r] = search[r]
      BY <1>3, <2>2
    <3>2. OpensOneRun(r)
      BY <1>1, <3>1 DEF OpensOneRun
    <3>. QED  BY <3>1, <3>2 DEF DirectoryInv, LocatesWhatMatched
  <2>. QED  BY <2>1, <2>2
<1>10. OpenFilesKept /\ IndexKept
  BY <1>1, PublishedKept DEF OpenFilesKept
<1>. QED  BY <1>4, <1>5, <1>6, <1>7, <1>8, <1>9, <1>10 DEF DirectoryInv

(* A search that has the files of one run open finds every match in them.  *)
LEMMA LocateOneRun ==
  ASSUME DirectoryInv, NEW s \in Searches, search[s].stage = "open", OpensOneRun(s),
         NEW id \in DOMAIN search[s].engine.sequences,
         NEW first \in DOMAIN search[s].engine.sequences[id],
         NEW last \in DOMAIN search[s].engine.sequences[id], first <= last
  PROVE  LET bytes   == BytesOf(s, id)
             tokens  == Tokenize(search[s].metadata.tokenizer, Decode(bytes))
             matched == SubSeq(bytes, tokens[first].start + 1, tokens[last].end)
         IN  /\ CanRead(s, id)
             /\ {first, last} \subseteq DOMAIN tokens
             /\ IsText(matched)
             /\ TokenValues(search[s].metadata.tokenizer, Decode(matched))
                  = SubSeq(search[s].engine.sequences[id], first, last)
<1>1. PICK k \in DOMAIN Runs :
         /\ search[s].metadata = MetadataOf(k) /\ search[s].engine = EngineOf(k)
         /\ contents[search[s].texts] = TextsOf(k) /\ contents[search[s].offsets] = OffsetsOf(k)
  BY DEF OpensOneRun
<1>. DEFINE lines == Runs[k].lines
            kind  == Runs[k].tokenizer
            line  == lines[id]
            bytes == BytesOf(s, id)
            table == OffsetsOf(k)
<1>2. lines \in Seq(Seq(Chars)) /\ DOMAIN lines = 1 .. Len(lines)
  BY RunFacts
<1>3. /\ search[s].engine.sequences = [i \in DOMAIN lines |-> TokenValues(kind, lines[i])]
      /\ search[s].metadata.tokenizer = kind
  BY <1>1 DEF EngineOf, MetadataOf
<1>4. id \in 1 .. Len(lines) /\ search[s].engine.sequences[id] = TokenValues(kind, line)
  BY <1>2, <1>3
<1>5. line \in Seq(Letters)
  <2>1. line \in Seq(Chars)
    BY <1>2, <1>4
  <2>. QED  BY <2>1, SourceFacts
<1>6. /\ id + 1 \in DOMAIN table
      /\ table[id] < table[id + 1] /\ table[id + 1] <= Len(TextsOf(k))
      /\ SubSeq(TextsOf(k), table[id] + 1, table[id + 1] - 1) = Encode(line)
  BY <1>4, LineOfTexts
<1>7. bytes = Encode(line)
  BY <1>1, <1>6 DEF BytesOf
<1>8. search[s].length = Len(TextsOf(k))
  BY <1>1 DEF DirectoryInv, Opened
<1>9. IsText(bytes)
  BY <1>5, <1>7, DecodeEncoded
<1>. HIDE DEF table, lines, line, kind, bytes
<1>10. CanRead(s, id)
  BY <1>1, <1>6, <1>8, <1>9 DEF CanRead, Inside, table, bytes
<1>11. DOMAIN search[s].engine.sequences[id] = DOMAIN TokenRanges(kind, line)
  BY <1>4, TokenizeFacts
<1>12. first \in DOMAIN TokenRanges(kind, line) /\ last \in DOMAIN TokenRanges(kind, line)
  BY <1>11
<1>. DEFINE tokens  == Tokenize(kind, Decode(bytes))
            matched == SubSeq(bytes, tokens[first].start + 1, tokens[last].end)
<1>13. /\ DOMAIN tokens = DOMAIN TokenRanges(kind, line)
       /\ IsText(matched)
       /\ TokenValues(kind, Decode(matched)) = SubSeq(TokenValues(kind, line), first, last)
  BY <1>5, <1>7, <1>12, LocatedText
<1>. QED  BY <1>3, <1>4, <1>10, <1>12, <1>13 DEF bytes

LEMMA RejectStep ==
  ASSUME DirectoryInv, NEW s \in Searches, Reject(s), ~OpensOneRun(s)
  PROVE  DirectoryInv' /\ OpenFilesKept /\ IndexKept
<1>. DEFINE state == [search[s] EXCEPT !.stage = "rejected"]
<1>1. Become(s, state)
  BY DEF Reject
<1>2. search[s] = [field \in Fields |-> search[s][field]]
      /\ search = [r \in Searches |-> search[r]]
  BY DEF DirectoryInv, StatesOK
<1>3. /\ state = [field \in Fields |-> state[field]] /\ state.stage = "rejected"
      /\ state.texts = search[s].texts /\ state.length = search[s].length
      /\ state.offsets = search[s].offsets /\ state.metadata = search[s].metadata
      /\ state.engine = search[s].engine
  BY <1>2 DEF Fields
<1>. HIDE DEF state
<1>4. ~OpensOneRun(s)'
  <2>1. search'[s] = state /\ contents' = contents
    BY <1>1, <1>2 DEF Become
  <2>. QED  BY <1>3, <2>1 DEF OpensOneRun
<1>5. /\ state.stage \notin {"idle", "described", "mapped", "texts open", "open", "located"}
      /\ state.offsets \in {search[s].offsets, entry["offsets"]}
  BY <1>3
<1>. QED  BY <1>1, <1>3, <1>4, <1>5, SearchStep

(* Until a search has opened the offsets it has not opened four files.     *)
LEMMA NotYetOpen ==
  ASSUME DirectoryInv, NEW s \in Searches,
         search[s].stage \in {"idle", "described", "mapped", "texts open"}
  PROVE  search[s].offsets = None /\ ~OpensOneRun(s)
BY DEF DirectoryInv, Opened, OpensOneRun

LEMMA ReadMetadataStep ==
  ASSUME DirectoryInv, NEW s \in Searches, ReadMetadata(s)
  PROVE  DirectoryInv' /\ OpenFilesKept /\ IndexKept
<1>. DEFINE state == [search[s] EXCEPT !.stage = "described",
                                       !.metadata = contents[entry["metadata"]]]
<1>1. search[s].stage = "idle" /\ (Reject(s) \/ Become(s, state))
  BY DEF ReadMetadata
<1>2. search[s].offsets = None /\ ~OpensOneRun(s)
  BY <1>1, NotYetOpen
<1>3. CASE Become(s, state)
  <2>1. search[s] = [field \in Fields |-> search[s][field]]
        /\ search = [r \in Searches |-> search[r]]
    BY DEF DirectoryInv, StatesOK
  <2>2. /\ state = [field \in Fields |-> state[field]] /\ state.stage = "described"
        /\ state.texts = search[s].texts /\ state.length = search[s].length
        /\ state.offsets = search[s].offsets
    BY <2>1 DEF Fields
  <2>. HIDE DEF state
  <2>3. ~OpensOneRun(s)'
    <3>1. search'[s] = state
      BY <1>3, <2>1 DEF Become
    <3>. QED  BY <1>2, <2>2, <3>1 DEF OpensOneRun
  <2>. QED  BY <1>2, <1>3, <2>2, <2>3, SearchStep
<1>. QED  BY <1>1, <1>2, <1>3, RejectStep

LEMMA OpenEngineStep ==
  ASSUME DirectoryInv, NEW s \in Searches, OpenEngine(s)
  PROVE  DirectoryInv' /\ OpenFilesKept /\ IndexKept
<1>. DEFINE state == [search[s] EXCEPT !.stage = "mapped", !.engine = contents[entry["engine"]]]
<1>1. search[s].stage = "described" /\ (Reject(s) \/ Become(s, state))
  BY DEF OpenEngine
<1>2. search[s].offsets = None /\ ~OpensOneRun(s)
  BY <1>1, NotYetOpen
<1>3. CASE Become(s, state)
  <2>1. search[s] = [field \in Fields |-> search[s][field]]
        /\ search = [r \in Searches |-> search[r]]
    BY DEF DirectoryInv, StatesOK
  <2>2. /\ state = [field \in Fields |-> state[field]] /\ state.stage = "mapped"
        /\ state.texts = search[s].texts /\ state.length = search[s].length
        /\ state.offsets = search[s].offsets
    BY <2>1 DEF Fields
  <2>. HIDE DEF state
  <2>3. ~OpensOneRun(s)'
    <3>1. search'[s] = state
      BY <1>3, <2>1 DEF Become
    <3>. QED  BY <1>2, <2>2, <3>1 DEF OpensOneRun
  <2>. QED  BY <1>2, <1>3, <2>2, <2>3, SearchStep
<1>. QED  BY <1>1, <1>2, <1>3, RejectStep

LEMMA OpenTextsStep ==
  ASSUME DirectoryInv, NEW s \in Searches, OpenTexts(s)
  PROVE  DirectoryInv' /\ OpenFilesKept /\ IndexKept
<1>. DEFINE state == [search[s] EXCEPT !.stage = "texts open", !.texts = entry["texts"],
                                       !.length = Len(contents[entry["texts"]])]
<1>1. search[s].stage = "mapped" /\ (Reject(s) \/ (entry["texts"] # None /\ Become(s, state)))
  BY DEF OpenTexts
<1>2. search[s].offsets = None /\ ~OpensOneRun(s)
  BY <1>1, NotYetOpen
<1>3. CASE entry["texts"] # None /\ Become(s, state)
  <2>1. search[s] = [field \in Fields |-> search[s][field]]
        /\ search = [r \in Searches |-> search[r]]
    BY DEF DirectoryInv, StatesOK
  <2>2. /\ state = [field \in Fields |-> state[field]] /\ state.stage = "texts open"
        /\ state.texts = entry["texts"] /\ state.length = Len(contents[entry["texts"]])
        /\ state.offsets = search[s].offsets
    BY <2>1 DEF Fields
  <2>. HIDE DEF state
  <2>3. ~OpensOneRun(s)'
    <3>1. search'[s] = state
      BY <1>3, <2>1 DEF Become
    <3>. QED  BY <1>2, <2>2, <3>1 DEF OpensOneRun
  <2>. QED  BY <1>2, <1>3, <2>2, <2>3, SearchStep
<1>. QED  BY <1>1, <1>2, <1>3, RejectStep

LEMMA OpenOffsetsStep ==
  ASSUME DirectoryInv, NEW s \in Searches, OpenOffsets(s)
  PROVE  DirectoryInv' /\ OpenFilesKept /\ IndexKept
<1>. DEFINE state == [search[s] EXCEPT !.stage = "open", !.offsets = entry["offsets"]]
<1>1. /\ search[s].stage = "texts open"
      /\ Reject(s) \/ (entry["offsets"] # None /\ Become(s, state))
  BY DEF OpenOffsets
<1>2. ~OpensOneRun(s)
  BY <1>1, NotYetOpen
<1>3. CASE entry["offsets"] # None /\ Become(s, state)
  <2>1. search[s] = [field \in Fields |-> search[s][field]]
    BY DEF DirectoryInv, StatesOK
  <2>2. /\ state = [field \in Fields |-> state[field]] /\ state.stage = "open"
        /\ state.texts = search[s].texts /\ state.length = search[s].length
        /\ state.offsets = entry["offsets"]
    BY <2>1 DEF Fields
  <2>3. search[s].texts # None /\ search[s].length = Len(contents[search[s].texts])
    BY <1>1 DEF DirectoryInv, Opened
  <2>. HIDE DEF state
  <2>4. /\ state.stage \notin {"idle", "described", "mapped", "rejected", "located"}
        /\ state.stage = "texts open" => FALSE
    BY <2>2
  <2>5. state.texts # None /\ state.length = Len(contents[state.texts])
        /\ state.offsets # None
    BY <1>3, <2>2, <2>3
  <2>. QED  BY <1>3, <2>2, <2>4, <2>5, SearchStep
<1>. QED  BY <1>1, <1>2, <1>3, RejectStep

LEMMA LocateStep ==
  ASSUME DirectoryInv, NEW s \in Searches, Locate(s)
  PROVE  DirectoryInv' /\ OpenFilesKept /\ IndexKept
<1>1. search[s].stage = "open"
  BY DEF Locate
<1>2. PICK id \in DOMAIN search[s].engine.sequences :
        \E first, last \in DOMAIN search[s].engine.sequences[id] :
           /\ first <= last
           /\ IF ~CanRead(s, id)
              THEN Reject(s)
              ELSE LET bytes  == BytesOf(s, id)
                       tokens == Tokenize(search[s].metadata.tokenizer, Decode(bytes))
                   IN  IF {first, last} \subseteq DOMAIN tokens
                       THEN Become(s, [search[s] EXCEPT
                              !.stage = "located", !.id = id, !.first = first, !.last = last,
                              !.matched = SubSeq(bytes, tokens[first].start + 1, tokens[last].end)])
                       ELSE Reject(s)
  BY DEF Locate
<1>. DEFINE kind    == search[s].metadata.tokenizer
            bytes   == BytesOf(s, id)
            tokens  == Tokenize(kind, Decode(bytes))
            Matched(first, last) == SubSeq(bytes, tokens[first].start + 1, tokens[last].end)
            State(first, last) ==
              [search[s] EXCEPT !.stage = "located", !.id = id, !.first = first, !.last = last,
                                !.matched = Matched(first, last)]
<1>3. PICK first \in DOMAIN search[s].engine.sequences[id],
           last \in DOMAIN search[s].engine.sequences[id] :
         /\ first <= last
         /\ IF ~CanRead(s, id)
            THEN Reject(s)
            ELSE IF {first, last} \subseteq DOMAIN tokens
                 THEN Become(s, State(first, last))
                 ELSE Reject(s)
  BY <1>2
<1>4. OpensOneRun(s) =>
        /\ CanRead(s, id) /\ {first, last} \subseteq DOMAIN tokens
        /\ IsText(Matched(first, last))
        /\ TokenValues(kind, Decode(Matched(first, last)))
             = SubSeq(search[s].engine.sequences[id], first, last)
  BY <1>1, <1>3, LocateOneRun
<1>5. CASE ~CanRead(s, id) \/ ~({first, last} \subseteq DOMAIN tokens)
  <2>1. Reject(s) /\ ~OpensOneRun(s)
    BY <1>3, <1>4, <1>5
  <2>. QED  BY <2>1, RejectStep
<1>6. CASE CanRead(s, id) /\ {first, last} \subseteq DOMAIN tokens
  <2>. DEFINE state == State(first, last)
  <2>1. Become(s, state)
    BY <1>3, <1>6
  <2>2. search[s] = [field \in Fields |-> search[s][field]]
        /\ search = [r \in Searches |-> search[r]]
    BY DEF DirectoryInv, StatesOK
  <2>. DEFINE matched == Matched(first, last)
  <2>. HIDE DEF matched, tokens, bytes
  <2>3. state = [search[s] EXCEPT !.stage = "located", !.id = id, !.first = first,
                                  !.last = last, !.matched = matched]
    BY DEF matched
  <2>. HIDE DEF state
  <2>4. /\ state = [field \in Fields |-> state[field]] /\ state.stage = "located"
        /\ state.texts = search[s].texts /\ state.length = search[s].length
        /\ state.offsets = search[s].offsets /\ state.metadata = search[s].metadata
        /\ state.engine = search[s].engine /\ state.id = id /\ state.first = first
        /\ state.last = last /\ state.matched = matched
    BY <2>2, <2>3 DEF Fields
  <2>5. OpensOneRun(s)' => OpensOneRun(s)
    <3>1. search'[s] = state /\ contents' = contents
      BY <2>1, <2>2 DEF Become
    <3>. QED  BY <2>4, <3>1 DEF OpensOneRun
  <2>6. OpensOneRun(s)' =>
          /\ IsText(state.matched)
          /\ TokenValues(state.metadata.tokenizer, Decode(state.matched))
               = SubSeq(state.engine.sequences[state.id], state.first, state.last)
    BY <1>4, <2>4, <2>5 DEF matched
  <2>7. /\ state.stage \notin {"idle", "described", "mapped", "texts open", "open", "rejected"}
        /\ state.offsets \in {search[s].offsets, entry["offsets"]}
    BY <2>4
  <2>. QED  BY <2>1, <2>4, <2>6, <2>7, SearchStep
<1>. QED  BY <1>5, <1>6

LEMMA DirectoryStep ==
  ASSUME DirectoryInv, [Next]_vars
  PROVE  DirectoryInv' /\ OpenFilesKept /\ IndexKept
<1>1. CASE UNCHANGED vars
  <2>1. entry' = entry /\ contents' = contents /\ build' = build /\ search' = search
    BY <1>1 DEF vars
  <2>2. OpenFilesKept
    BY <2>1, ContentsStay
  <2>3. DirectoryInv'
    <3>1. StatesOK' /\ NamesOK' /\ OpenOK'
      BY <2>1 DEF DirectoryInv, StatesOK, NamesOK, OpenOK
    <3>2. Progress' /\ SuccessIsUsable'
      BY <2>1 DEF DirectoryInv, Progress, SuccessIsUsable, IndexIsOf, Lines, Holds
    <3>3. Opened' /\ LocatesWhatMatched'
      BY <2>1, <2>2, SearchesKept
    <3>. QED  BY <3>1, <3>2, <3>3 DEF DirectoryInv
  <2>. QED  BY <2>1, <2>3, ContentsStay
<1>2. CASE Next
  BY <1>2, CreateTextsStep, CreateOffsetsStep, PushLineStep, FinishStep, SaveEngineStep,
     PublishTextsStep, PublishOffsetsStep, TruncateMetadataStep, WriteMetadataStep, FailStep,
     ReadMetadataStep, OpenEngineStep, OpenTextsStep, OpenOffsetsStep, LocateStep DEF Next
<1>. QED  BY <1>1, <1>2

------------------------------------------------------------------------------
(* Every state is one of these: which files names and searches refer to,   *)
(* what a run has written at each stage, what a search has open.           *)
THEOREM DirectoryIsInvariant == Spec => []DirectoryInv
<1>1. Init => DirectoryInv
  BY InitialDirectory
<1>2. DirectoryInv /\ [Next]_vars => DirectoryInv'
  BY DirectoryStep
<1>. QED  BY <1>1, <1>2, PTL DEF Spec

(* Whatever the runs read and whatever earlier runs left behind under the  *)
(* temporary names, a run of build_index that ends well leaves an index    *)
(* that is its own in all four files.                                      *)
THEOREM SuccessfulRunsAreComplete == Spec => []SuccessIsUsable
<1>1. DirectoryInv => SuccessIsUsable
  BY DEF DirectoryInv
<1>. QED  BY <1>1, DirectoryIsInvariant, PTL

(* For all lines and both tokenizers: a search whose files are of one run  *)
(* locates every match, and locate_matches reports a text that tokenizes   *)
(* to the tokens that matched.                                             *)
THEOREM SearchesLocateTheirMatches == Spec => []LocatesWhatMatched
<1>1. DirectoryInv => LocatesWhatMatched
  BY DEF DirectoryInv
<1>. QED  BY <1>1, DirectoryIsInvariant, PTL

(* No step of any run changes a file that a search has open: SourceWriter  *)
(* writes under temporary names and publishes by renaming.                 *)
THEOREM OpenFilesAreStable == Spec => OpenFilesNeverChange
<1>1. DirectoryInv /\ [Next]_vars =>
        \A s \in Searches : \A file \in {search[s].texts, search[s].offsets} \ {None} :
           contents'[file] = contents[file]
  BY DirectoryStep DEF OpenFilesKept
<1>. QED  BY <1>1, DirectoryIsInvariant, PTL DEF Spec, OpenFilesNeverChange

(* A run that has not begun to publish leaves a usable index usable, also  *)
(* when it fails.                                                          *)
THEOREM RunsKeepTheIndexUntilTheyPublish == Spec => OnlyPublishingReplaces
<1>1. DirectoryInv /\ [Next]_vars =>
        (IndexIsUsable => IndexIsUsable' \/ build.stage \in Publishing)
  BY DirectoryStep DEF IndexKept
<1>. QED  BY <1>1, DirectoryIsInvariant, PTL DEF Spec, OnlyPublishingReplaces
==============================================================================
