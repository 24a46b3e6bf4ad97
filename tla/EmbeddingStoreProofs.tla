------------------------ MODULE EmbeddingStoreProofs ------------------------
(***************************************************************************)
(* The inductive invariant of the embedding store, for any number of       *)
(* tokens, rows, snapshots and threads: which token a row belongs to, what *)
(* the verdicts say of the rows, and what each thread has seen of them.    *)
(***************************************************************************)
EXTENDS EmbeddingStore, CommonLemmas

Stages == {"idle", "get", "validating", "got", "verify", "verified", "corrupt"}
ThreadStates == [stage : Stages, token : Tokens \cup {None}, row : Nat,
                 result : Vectors \cup {None}]

TypeOK ==
  /\ rows \in Seq(Vectors \cup {Invalid})
  /\ DOMAIN rowOf \in SUBSET Tokens
  /\ IsFiniteSet(DOMAIN rowOf)
  /\ rowOf \in [DOMAIN rowOf -> 1 .. Len(rows)]
  /\ Mapped => cells \in [1 .. Len(rows) -> {"unset", "running", "valid", "invalid"}]
  /\ latest \in [Tokens -> Vectors \cup {None}]
  /\ thread \in [Threads -> ThreadStates]

(* No two tokens share a row: replacing one leaves the others alone.       *)
RowsAreDistinct == \A s, t \in DOMAIN rowOf : rowOf[s] = rowOf[t] => s = t

(* A snapshot lists the tokens that have an embedding, each once, with it. *)
SnapshotIsLatest ==
  snapshot # NoFile =>
     /\ snapshot.tokens \in Seq(Tokens)
     /\ snapshot.rows \in Seq(Vectors)
     /\ Len(snapshot.rows) = Len(snapshot.tokens)
     /\ \A i, j \in 1 .. Len(snapshot.tokens) :
           snapshot.tokens[i] = snapshot.tokens[j] => i = j
     /\ \A k \in 1 .. Len(snapshot.tokens) : snapshot.rows[k] = latest[snapshot.tokens[k]]
     /\ \A token \in Tokens :
           token \in Range(snapshot.tokens) \/ latest[token] = None

(* A verdict is the row's, whichever thread came to it.                    *)
VerdictsAreTrue ==
  Mapped => \A k \in 1 .. Len(rows) :
               /\ cells[k] = "valid" => rows[k] # Invalid
               /\ cells[k] = "invalid" => rows[k] = Invalid

(* What a thread knows: only an opened store is read, of the row a token   *)
(* has, and the rows a verify has passed are valid.                        *)
ThreadsKnow ==
  \A t \in Threads :
     /\ thread[t].stage # "idle" => Mapped
     /\ thread[t].stage \in {"get", "validating"} =>
           thread[t].token \in DOMAIN rowOf /\ thread[t].row = rowOf[thread[t].token]
     /\ thread[t].stage = "verify" =>
           /\ thread[t].row \in 1 .. (Len(rows) + 1)
           /\ \A k \in 1 .. (thread[t].row - 1) : rows[k] # Invalid

StoreInv ==
  /\ TypeOK
  /\ RowsAreDistinct
  /\ SnapshotIsLatest
  /\ VerdictsAreTrue
  /\ ThreadsKnow
  /\ TokensKeepTheirRows
  /\ AnswersAreStable
  /\ VerifiedIsWhole

------------------------------------------------------------------------------
(* The tokens in the order of their codes: each that has a row, once.      *)
LEMMA EncodedOrderLists ==
  ASSUME DOMAIN rowOf \in SUBSET Tokens, IsFiniteSet(DOMAIN rowOf)
  PROVE  /\ EncodedOrder \in Seq(DOMAIN rowOf)
         /\ \A i, j \in 1 .. Len(EncodedOrder) : EncodedOrder[i] = EncodedOrder[j] => i = j
         /\ \A token \in DOMAIN rowOf : \E k \in 1 .. Len(EncodedOrder) : EncodedOrder[k] = token
<1>. DEFINE S == {Code[token] : token \in DOMAIN rowOf}
            codes == Ascending(S)
            f == [token \in DOMAIN rowOf |-> Code[token]]
<1>1. S \in SUBSET Nat /\ \A s, t \in DOMAIN rowOf : Code[s] = Code[t] => s = t
  BY VectorsAssumption
<1>2. IsFiniteSet(S)
  <2>1. f \in Surjection(DOMAIN rowOf, S)
    BY DEF Surjection
  <2>. QED  BY <2>1, FS_Surjection
<1>3. /\ codes \in Seq(S)
      /\ \A i, j \in 1 .. Len(codes) : i < j => codes[i] < codes[j]
      /\ \A x \in S : \E i \in 1 .. Len(codes) : codes[i] = x
  <2>. HIDE DEF S
  <2>. QED  BY <1>1, <1>2, AscendingIsSorted
<1>4. Len(codes) \in Nat /\ DOMAIN codes = 1 .. Len(codes)
      /\ \A k \in 1 .. Len(codes) : codes[k] \in S
  <2>. HIDE DEF S, codes
  <2>. QED  BY <1>3
<1>5. EncodedOrder = [k \in 1 .. Len(codes) |->
                        CHOOSE token \in DOMAIN rowOf : Code[token] = codes[k]]
  <2>1. EncodedOrder = [k \in DOMAIN codes |->
                          CHOOSE token \in DOMAIN rowOf : Code[token] = codes[k]]
    BY DEF EncodedOrder
  <2>. HIDE DEF codes
  <2>. QED  BY <1>4, <2>1
<1>. HIDE DEF codes
<1>6. \A k \in 1 .. Len(codes) :
         EncodedOrder[k] \in DOMAIN rowOf /\ Code[EncodedOrder[k]] = codes[k]
  <2>. TAKE k \in 1 .. Len(codes)
  <2>1. \E token \in DOMAIN rowOf : Code[token] = codes[k]
    BY <1>4
  <2>2. EncodedOrder[k] = CHOOSE token \in DOMAIN rowOf : Code[token] = codes[k]
    BY <1>5
  <2>. QED  BY <2>1, <2>2
<1>7. EncodedOrder \in Seq(DOMAIN rowOf) /\ Len(EncodedOrder) = Len(codes)
  <2>1. EncodedOrder = [k \in 1 .. Len(codes) |-> EncodedOrder[k]]
    BY <1>5
  <2>. QED  BY <1>4, <1>6, <2>1
<1>8. ASSUME NEW i \in 1 .. Len(codes), NEW j \in 1 .. Len(codes),
             EncodedOrder[i] = EncodedOrder[j]
      PROVE  i = j
  <2>1. codes[i] = codes[j] /\ codes[i] \in Nat
    BY <1>1, <1>4, <1>6, <1>8
  <2>2. ~(i < j) /\ ~(j < i)
    BY <1>3, <2>1
  <2>. QED  BY <1>4, <2>2
<1>9. ASSUME NEW token \in DOMAIN rowOf
      PROVE  \E k \in 1 .. Len(codes) : EncodedOrder[k] = token
  <2>1. PICK k \in 1 .. Len(codes) : codes[k] = Code[token]
    BY <1>3
  <2>. QED  BY <1>1, <1>6, <2>1
<1>. QED  BY <1>7, <1>8, <1>9

------------------------------------------------------------------------------
(* Types and assumptions that the steps share.                             *)
LEMMA StoreFacts ==
  ASSUME StoreInv
  PROVE  /\ rows \in Seq(Vectors \cup {Invalid})
         /\ Len(rows) \in Nat /\ DOMAIN rows = 1 .. Len(rows)
         /\ Range(rows) = {rows[k] : k \in 1 .. Len(rows)}
         /\ \A k \in 1 .. Len(rows) : rows[k] \in Vectors \cup {Invalid}
         /\ \A token \in DOMAIN rowOf : token \in Tokens /\ rowOf[token] \in 1 .. Len(rows)
         /\ Invalid \notin Vectors /\ None \notin Vectors /\ Invalid # None
         /\ thread \in [Threads -> ThreadStates]
<1>1. /\ rows \in Seq(Vectors \cup {Invalid})
      /\ DOMAIN rowOf \in SUBSET Tokens
      /\ rowOf \in [DOMAIN rowOf -> 1 .. Len(rows)]
      /\ thread \in [Threads -> ThreadStates]
  BY DEF StoreInv, TypeOK
<1>2. /\ Len(rows) \in Nat /\ DOMAIN rows = 1 .. Len(rows)
      /\ \A k \in 1 .. Len(rows) : rows[k] \in Vectors \cup {Invalid}
  BY <1>1
<1>3. Range(rows) = {rows[k] : k \in 1 .. Len(rows)}
  BY <1>2 DEF Range
<1>4. \A token \in DOMAIN rowOf : token \in Tokens /\ rowOf[token] \in 1 .. Len(rows)
  BY <1>1
<1>. QED  BY <1>1, <1>2, <1>3, <1>4, VectorsAssumption

LEMMA InitialStore == Init => StoreInv
<1>. SUFFICES ASSUME Init PROVE StoreInv
  OBVIOUS
<1>1. /\ rowOf = <<>> /\ rows = <<>> /\ cells = <<>> /\ snapshot = NoFile
      /\ \A token \in Tokens : latest[token] = None
      /\ \A t \in Threads : thread[t] = Idle
  BY DEF Init
<1>2. ~Mapped /\ DOMAIN rowOf = {} /\ IsFiniteSet(DOMAIN rowOf)
  BY <1>1, FS_EmptySet DEF Mapped
<1>3. TypeOK
  BY <1>1, <1>2 DEF Init, TypeOK, ThreadStates, Stages, Idle
<1>4. RowsAreDistinct /\ SnapshotIsLatest /\ VerdictsAreTrue /\ ThreadsKnow
  BY <1>1, <1>2 DEF RowsAreDistinct, SnapshotIsLatest, VerdictsAreTrue, ThreadsKnow, Idle
<1>5. TokensKeepTheirRows /\ AnswersAreStable /\ VerifiedIsWhole
  BY <1>1, <1>2 DEF TokensKeepTheirRows, AnswersAreStable, VerifiedIsWhole, Idle
<1>. QED  BY <1>3, <1>4, <1>5 DEF StoreInv

------------------------------------------------------------------------------
(* While there is no opened store, threads rest and no snapshot is there   *)
(* to disagree with the builder.                                           *)
LEMMA BuilderStep ==
  ASSUME StoreInv, ~Mapped, snapshot = NoFile,
         UNCHANGED <<cells, snapshot, thread>>,
         TypeOK', RowsAreDistinct', TokensKeepTheirRows'
  PROVE  StoreInv'
<1>1. ~Mapped' /\ snapshot' = NoFile /\ \A t \in Threads : thread'[t].stage = "idle"
  BY DEF StoreInv, SnapshotIsLatest, ThreadsKnow, Mapped
<1>2. SnapshotIsLatest' /\ VerdictsAreTrue' /\ ThreadsKnow' /\ AnswersAreStable' /\ VerifiedIsWhole'
  BY <1>1 DEF SnapshotIsLatest, VerdictsAreTrue, ThreadsKnow, AnswersAreStable, VerifiedIsWhole,
              NoFile
<1>. QED  BY <1>2 DEF StoreInv

LEMMA ReplaceStep ==
  ASSUME StoreInv, NEW token \in Tokens, NEW vector \in Vectors, ~Mapped, snapshot = NoFile,
         Replace(token, vector), latest' = [latest EXCEPT ![token] = vector],
         UNCHANGED <<cells, snapshot, thread>>
  PROVE  StoreInv'
<1>1. /\ token \in DOMAIN rowOf /\ rowOf[token] \in 1 .. Len(rows)
      /\ rowOf' = rowOf
      /\ rows' = [rows EXCEPT ![rowOf[token]] = vector]
  BY StoreFacts DEF Replace
<1>2. /\ rows' \in Seq(Vectors \cup {Invalid}) /\ Len(rows') = Len(rows)
      /\ \A k \in 1 .. Len(rows) : rows'[k] = IF k = rowOf[token] THEN vector ELSE rows[k]
  BY <1>1, StoreFacts
<1>3. latest' \in [Tokens -> Vectors \cup {None}]
      /\ \A s \in Tokens : latest'[s] = IF s = token THEN vector ELSE latest[s]
  BY DEF StoreInv, TypeOK
<1>4. TypeOK' /\ RowsAreDistinct'
  BY <1>1, <1>2, <1>3 DEF StoreInv, TypeOK, RowsAreDistinct, Mapped
<1>5. TokensKeepTheirRows'
  <2>. SUFFICES ASSUME NEW s \in Tokens
                PROVE  IF s \in DOMAIN rowOf THEN rows'[rowOf[s]] \in {latest'[s], Invalid}
                                             ELSE latest'[s] = None
    BY <1>1 DEF TokensKeepTheirRows
  <2>1. CASE s = token
    BY <1>1, <1>2, <1>3, <2>1
  <2>2. CASE s # token
    <3>1. s \in DOMAIN rowOf => rowOf[s] # rowOf[token] /\ rowOf[s] \in 1 .. Len(rows)
      BY <1>1, <2>2, StoreFacts DEF StoreInv, RowsAreDistinct
    <3>. QED  BY <1>2, <1>3, <2>2, <3>1 DEF StoreInv, TokensKeepTheirRows
  <2>. QED  BY <2>1, <2>2
<1>. QED  BY <1>4, <1>5, BuilderStep

LEMMA AppendRowStep ==
  ASSUME StoreInv, NEW token \in Tokens, NEW vector \in Vectors, ~Mapped, snapshot = NoFile,
         AppendRow(token, vector), latest' = [latest EXCEPT ![token] = vector],
         UNCHANGED <<cells, snapshot, thread>>
  PROVE  StoreInv'
<1>1. /\ token \notin DOMAIN rowOf
      /\ DOMAIN rowOf' = DOMAIN rowOf \cup {token}
      /\ rowOf' = [s \in DOMAIN rowOf' |-> rowOf'[s]]
      /\ rowOf'[token] = Len(rows) + 1
      /\ \A s \in DOMAIN rowOf : s # token /\ rowOf'[s] = rowOf[s]
      /\ rows' = Append(rows, vector)
  BY DEF AppendRow
<1>2. /\ rows' \in Seq(Vectors \cup {Invalid}) /\ Len(rows') = Len(rows) + 1
      /\ rows'[Len(rows) + 1] = vector
      /\ \A k \in 1 .. Len(rows) : rows'[k] = rows[k]
  BY <1>1, StoreFacts
<1>3. latest' \in [Tokens -> Vectors \cup {None}]
      /\ \A s \in Tokens : latest'[s] = IF s = token THEN vector ELSE latest[s]
  BY DEF StoreInv, TypeOK
<1>4. rowOf' \in [DOMAIN rowOf' -> 1 .. Len(rows')]
  <2>1. \A s \in DOMAIN rowOf' : rowOf'[s] \in 1 .. (Len(rows) + 1)
    BY <1>1, StoreFacts
  <2>. QED  BY <1>1, <1>2, <2>1
<1>5. IsFiniteSet(DOMAIN rowOf')
  BY <1>1, FS_AddElement DEF StoreInv, TypeOK
<1>6. TypeOK'
  BY <1>1, <1>2, <1>3, <1>4, <1>5 DEF StoreInv, TypeOK, Mapped
<1>7. RowsAreDistinct'
  BY <1>1, StoreFacts DEF StoreInv, RowsAreDistinct
<1>8. TokensKeepTheirRows'
  <2>. SUFFICES ASSUME NEW s \in Tokens
                PROVE  IF s \in DOMAIN rowOf' THEN rows'[rowOf'[s]] \in {latest'[s], Invalid}
                                              ELSE latest'[s] = None
    BY DEF TokensKeepTheirRows
  <2>1. CASE s = token
    BY <1>1, <1>2, <1>3, <2>1
  <2>2. CASE s # token
    <3>1. s \in DOMAIN rowOf' <=> s \in DOMAIN rowOf
      BY <1>1, <2>2
    <3>2. s \in DOMAIN rowOf => rows'[rowOf'[s]] = rows[rowOf[s]]
      BY <1>1, <1>2, StoreFacts
    <3>. QED  BY <1>3, <2>2, <3>1, <3>2 DEF StoreInv, TokensKeepTheirRows
  <2>. QED  BY <2>1, <2>2
<1>. QED  BY <1>6, <1>7, <1>8, BuilderStep

LEMMA InsertStep ==
  ASSUME StoreInv, NEW token \in Tokens, NEW vector \in Vectors \cup {Invalid},
         Insert(token, vector)
  PROVE  StoreInv'
<1>1. ~Mapped /\ snapshot = NoFile /\ UNCHANGED <<cells, snapshot, thread>>
  BY DEF Insert
<1>2. CASE Accepts(token, vector)
  <2>1. vector \in Vectors
    BY <1>2 DEF Accepts
  <2>2. /\ Replace(token, vector) \/ AppendRow(token, vector)
        /\ latest' = [latest EXCEPT ![token] = vector]
    BY <1>2 DEF Insert
  <2>. QED  BY <1>1, <2>1, <2>2, ReplaceStep, AppendRowStep
<1>3. CASE ~Accepts(token, vector)
  <2>1. UNCHANGED <<rowOf, rows, latest>>
    BY <1>3 DEF Insert, matrix
  <2>2. TypeOK' /\ RowsAreDistinct' /\ TokensKeepTheirRows'
    BY <1>1, <2>1 DEF StoreInv, TypeOK, RowsAreDistinct, TokensKeepTheirRows, Mapped
  <2>. QED  BY <1>1, <2>2, BuilderStep
<1>. QED  BY <1>2, <1>3

------------------------------------------------------------------------------
(* A save writes the rows, all of them valid, in the order of the tokens'  *)
(* codes; the store itself keeps its order.                                *)
LEMMA SaveStep ==
  ASSUME StoreInv, Save
  PROVE  StoreInv'
<1>1. /\ UNCHANGED <<rowOf, rows, latest, thread>>
      /\ \A t \in Threads : thread[t].stage = "idle"
      /\ Invalid \notin Range(rows)
      /\ cells' = [k \in DOMAIN cells |-> "valid"]
      /\ snapshot' = [tokens |-> EncodedOrder, rows |-> RowsInTokenOrder(EncodedOrder)]
  BY DEF Save, Resting, matrix, StoreInv, TypeOK
<1>2. \A k \in 1 .. Len(rows) : rows[k] \in Vectors /\ rows[k] # Invalid
  BY <1>1, StoreFacts
<1>3. \A token \in DOMAIN rowOf : rows[rowOf[token]] = latest[token] /\ latest[token] \in Vectors
  BY <1>2, StoreFacts DEF StoreInv, TokensKeepTheirRows
<1>. DEFINE order == EncodedOrder
<1>4. /\ order \in Seq(DOMAIN rowOf)
      /\ \A i, j \in 1 .. Len(order) : order[i] = order[j] => i = j
      /\ \A token \in DOMAIN rowOf : \E k \in 1 .. Len(order) : order[k] = token
  BY EncodedOrderLists DEF StoreInv, TypeOK
<1>. HIDE DEF order
<1>5. /\ Len(order) \in Nat /\ DOMAIN order = 1 .. Len(order)
      /\ \A k \in 1 .. Len(order) : order[k] \in DOMAIN rowOf
      /\ order \in Seq(Tokens)
  <2>1. DOMAIN rowOf \in SUBSET Tokens
    BY DEF StoreInv, TypeOK
  <2>. QED  BY <1>4, <2>1
<1>6. /\ RowsInTokenOrder(order) \in Seq(Vectors)
      /\ Len(RowsInTokenOrder(order)) = Len(order)
      /\ \A k \in 1 .. Len(order) : RowsInTokenOrder(order)[k] = latest[order[k]]
  <2>1. RowsInTokenOrder(order) = [k \in 1 .. Len(order) |-> rows[rowOf[order[k]]]]
    BY <1>5 DEF RowsInTokenOrder
  <2>2. \A k \in 1 .. Len(order) :
           rows[rowOf[order[k]]] = latest[order[k]] /\ latest[order[k]] \in Vectors
    BY <1>3, <1>5
  <2>. QED  BY <1>5, <2>1, <2>2
<1>7. SnapshotIsLatest'
  <2>1. snapshot'.tokens = order /\ snapshot'.rows = RowsInTokenOrder(order)
    BY <1>1 DEF order
  <2>2. \A token \in Tokens : token \in Range(order) \/ latest[token] = None
    <3>1. \A token \in DOMAIN rowOf : token \in Range(order)
      BY <1>4, <1>5 DEF Range
    <3>. QED  BY <3>1 DEF StoreInv, TokensKeepTheirRows
  <2>. QED  BY <1>1, <1>4, <1>5, <1>6, <2>1, <2>2 DEF SnapshotIsLatest
<1>8. Mapped' => Mapped /\ cells' = [k \in 1 .. Len(rows) |-> "valid"]
  <2>1. CASE cells = <<>>
    BY <1>1, <2>1 DEF Mapped
  <2>2. CASE cells # <<>>
    BY <1>1, <2>2 DEF Mapped, StoreInv, TypeOK
  <2>. QED  BY <2>1, <2>2
<1>9. TypeOK' /\ VerdictsAreTrue'
  BY <1>1, <1>2, <1>8 DEF StoreInv, TypeOK, VerdictsAreTrue
<1>10. RowsAreDistinct' /\ TokensKeepTheirRows'
  BY <1>1 DEF StoreInv, RowsAreDistinct, TokensKeepTheirRows
<1>11. ThreadsKnow' /\ AnswersAreStable' /\ VerifiedIsWhole'
  BY <1>1 DEF ThreadsKnow, AnswersAreStable, VerifiedIsWhole
<1>. QED  BY <1>7, <1>9, <1>10, <1>11 DEF StoreInv

(* Opening numbers the rows anew; damage can only make a row invalid.      *)
LEMMA OpenStep ==
  ASSUME StoreInv, Open
  PROVE  StoreInv'
<1>. DEFINE tokens == snapshot.tokens
            saved  == snapshot.rows
            n      == Len(tokens)
<1>1. /\ UNCHANGED <<latest, thread>> /\ snapshot' = NoFile
      /\ \A t \in Threads : thread[t].stage = "idle"
  BY DEF Open, Resting
<1>2. /\ tokens \in Seq(Tokens) /\ saved \in Seq(Vectors)
      /\ Len(saved) = n
      /\ \A i, j \in 1 .. n : tokens[i] = tokens[j] => i = j
      /\ \A k \in 1 .. n : saved[k] = latest[tokens[k]]
      /\ \A token \in Tokens : token \in Range(tokens) \/ latest[token] = None
  BY DEF Open, StoreInv, SnapshotIsLatest
<1>3. PICK damaged \in SUBSET DOMAIN saved :
         rows' = [k \in DOMAIN saved |-> IF k \in damaged THEN Invalid ELSE saved[k]]
  BY DEF Open
<1>4. cells' = [k \in DOMAIN saved |-> "unset"]
      /\ rowOf' = [token \in Range(tokens) |-> CHOOSE k \in DOMAIN tokens : tokens[k] = token]
  BY DEF Open
<1>. HIDE DEF tokens, saved
<1>5. /\ n \in Nat /\ DOMAIN tokens = 1 .. n /\ DOMAIN saved = 1 .. n
      /\ \A k \in 1 .. n : tokens[k] \in Tokens /\ saved[k] \in Vectors
  BY <1>2
<1>6. /\ rows' \in Seq(Vectors \cup {Invalid}) /\ Len(rows') = n
      /\ \A k \in 1 .. n : rows'[k] \in {saved[k], Invalid}
  <2>1. rows' = [k \in 1 .. n |-> IF k \in damaged THEN Invalid ELSE saved[k]]
    BY <1>3, <1>5
  <2>. HIDE DEF n
  <2>. QED  BY <1>5, <2>1
<1>7. /\ DOMAIN rowOf' = Range(tokens)
      /\ \A token \in Range(tokens) : rowOf'[token] \in 1 .. n /\ tokens[rowOf'[token]] = token
      /\ rowOf' \in [Range(tokens) -> 1 .. n]
  <2>1. \A token \in Range(tokens) : \E k \in DOMAIN tokens : tokens[k] = token
    BY DEF Range
  <2>. HIDE DEF n
  <2>. QED  BY <1>4, <1>5, <2>1
<1>8. Range(tokens) \in SUBSET Tokens /\ IsFiniteSet(Range(tokens))
  <2>1. Range(tokens) = {tokens[k] : k \in 1 .. n}
    BY <1>5 DEF Range
  <2>2. [k \in 1 .. n |-> tokens[k]] \in Surjection(1 .. n, Range(tokens))
    BY <2>1 DEF Surjection
  <2>3. IsFiniteSet(1 .. n)
    BY <1>5, FS_Interval
  <2>. QED  BY <1>5, <2>1, <2>2, <2>3, FS_Surjection
<1>. HIDE DEF n
<1>9. TypeOK'
  BY <1>1, <1>4, <1>5, <1>6, <1>7, <1>8 DEF StoreInv, TypeOK
<1>10. RowsAreDistinct'
  BY <1>7 DEF RowsAreDistinct
<1>11. SnapshotIsLatest'
  BY <1>1 DEF SnapshotIsLatest
<1>12. VerdictsAreTrue'
  BY <1>4, <1>5, <1>6 DEF VerdictsAreTrue
<1>13. TokensKeepTheirRows'
  <2>. SUFFICES ASSUME NEW token \in Tokens
                PROVE  IF token \in Range(tokens) THEN rows'[rowOf'[token]] \in {latest[token], Invalid}
                                                  ELSE latest[token] = None
    BY <1>1, <1>7 DEF TokensKeepTheirRows
  <2>1. ASSUME token \in Range(tokens) PROVE rows'[rowOf'[token]] \in {latest[token], Invalid}
    <3>1. rowOf'[token] \in 1 .. n /\ tokens[rowOf'[token]] = token
      BY <1>7, <2>1
    <3>2. saved[rowOf'[token]] = latest[token]
      BY <1>2, <3>1 DEF n
    <3>. QED  BY <1>6, <3>1, <3>2
  <2>. QED  BY <1>2, <2>1
<1>14. ThreadsKnow' /\ AnswersAreStable' /\ VerifiedIsWhole'
  BY <1>1 DEF ThreadsKnow, AnswersAreStable, VerifiedIsWhole
<1>. QED  BY <1>9, <1>10, <1>11, <1>12, <1>13, <1>14 DEF StoreInv

------------------------------------------------------------------------------
(* What is known at one stage of a get or a verify.                        *)
Knows(state) ==
  /\ state.stage \in {"get", "validating"} =>
        state.token \in DOMAIN rowOf /\ state.row = rowOf[state.token]
  /\ state.stage = "verify" => /\ state.row \in 1 .. (Len(rows) + 1)
                               /\ \A k \in 1 .. (state.row - 1) : rows[k] # Invalid
  /\ state.stage = "got" =>
        state.result = IF state.token \notin DOMAIN rowOf THEN None
                       ELSE IF rows[rowOf[state.token]] = Invalid THEN None
                       ELSE latest[state.token]
  /\ state.stage = "verified" => Invalid \notin Range(rows)
  /\ state.stage = "corrupt" => Invalid \in Range(rows)

TrueVerdict(row, verdict) ==
  /\ verdict \in {"unset", "running", "valid", "invalid"}
  /\ verdict = "valid" => rows[row] # Invalid
  /\ verdict = "invalid" => rows[row] = Invalid

(* A thread sets at most one cell, to a true verdict, and keeps to what it *)
(* knows; the other threads know as much as before.                        *)
LEMMA ThreadStep ==
  ASSUME StoreInv, Mapped, NEW t \in Threads, NEW state \in ThreadStates,
         Become(t, state), Knows(state),
         \/ UNCHANGED cells
         \/ \E row \in 1 .. Len(rows), verdict \in {"unset", "running", "valid", "invalid"} :
               cells' = [cells EXCEPT ![row] = verdict] /\ TrueVerdict(row, verdict)
  PROVE  StoreInv'
<1>1. /\ UNCHANGED <<rowOf, rows, latest, snapshot>>
      /\ thread' \in [Threads -> ThreadStates]
      /\ \A u \in Threads : thread'[u] = IF u = t THEN state ELSE thread[u]
  BY StoreFacts DEF Become, matrix
<1>2. /\ cells \in [1 .. Len(rows) -> {"unset", "running", "valid", "invalid"}]
      /\ \A k \in 1 .. Len(rows) : TrueVerdict(k, cells[k])
  BY DEF StoreInv, TypeOK, VerdictsAreTrue, TrueVerdict
<1>3. /\ cells' \in [1 .. Len(rows) -> {"unset", "running", "valid", "invalid"}]
      /\ \A k \in 1 .. Len(rows) : TrueVerdict(k, cells'[k])
      /\ Mapped'
  <2>1. CASE UNCHANGED cells
    BY <1>2, <2>1 DEF Mapped
  <2>2. ASSUME NEW row \in 1 .. Len(rows), NEW verdict \in {"unset", "running", "valid", "invalid"},
               cells' = [cells EXCEPT ![row] = verdict], TrueVerdict(row, verdict)
        PROVE  <1>3!1 /\ <1>3!2 /\ <1>3!3
    <3>1. cells' \in [1 .. Len(rows) -> {"unset", "running", "valid", "invalid"}]
          /\ \A k \in 1 .. Len(rows) : cells'[k] = IF k = row THEN verdict ELSE cells[k]
      BY <1>2, <2>2
    <3>2. \A k \in 1 .. Len(rows) : TrueVerdict(k, cells'[k])
      BY <1>2, <2>2, <3>1
    <3>3. cells' # <<>>
      BY <2>2, <3>1
    <3>. QED  BY <3>1, <3>2, <3>3 DEF Mapped
  <2>. QED  BY <2>1, <2>2
<1>4. TypeOK' /\ VerdictsAreTrue'
  BY <1>1, <1>3 DEF StoreInv, TypeOK, VerdictsAreTrue, TrueVerdict
<1>5. RowsAreDistinct' /\ SnapshotIsLatest' /\ TokensKeepTheirRows'
  BY <1>1 DEF StoreInv, RowsAreDistinct, SnapshotIsLatest, TokensKeepTheirRows
<1>6. ThreadsKnow' /\ AnswersAreStable' /\ VerifiedIsWhole'
  BY <1>1, <1>3
     DEF StoreInv, ThreadsKnow, AnswersAreStable, VerifiedIsWhole, Knows
<1>. QED  BY <1>4, <1>5, <1>6 DEF StoreInv

LEMMA GetStep ==
  ASSUME StoreInv, NEW t \in Threads,
         \/ \E token \in Tokens : Look(t, token)
         \/ BeginValidation(t) \/ EndValidation(t) \/ ReadCell(t)
  PROVE  StoreInv'
<1>1. CASE \E token \in Tokens : Look(t, token)
  <2>1. PICK token \in Tokens : Look(t, token)
    BY <1>1
  <2>2. CASE token \in DOMAIN rowOf
    <3>. DEFINE state == [stage |-> "get", token |-> token, row |-> rowOf[token], result |-> None]
    <3>1. state \in ThreadStates /\ Knows(state)
      BY <2>2, StoreFacts DEF ThreadStates, Stages, Knows
    <3>2. Mapped /\ Become(t, state) /\ UNCHANGED cells
      BY <2>1, <2>2 DEF Look
    <3>. HIDE DEF state
    <3>. QED  BY <3>1, <3>2, ThreadStep
  <2>3. CASE token \notin DOMAIN rowOf
    <3>. DEFINE state == [stage |-> "got", token |-> token, row |-> 0, result |-> None]
    <3>1. state \in ThreadStates /\ Knows(state)
      BY <2>3 DEF ThreadStates, Stages, Knows
    <3>2. Mapped /\ Become(t, state) /\ UNCHANGED cells
      BY <2>1, <2>3 DEF Look
    <3>. HIDE DEF state
    <3>. QED  BY <3>1, <3>2, ThreadStep
  <2>. QED  BY <2>2, <2>3
<1>2. ASSUME BeginValidation(t) \/ EndValidation(t) \/ ReadCell(t)
      PROVE  /\ Mapped
             /\ thread[t] \in ThreadStates
             /\ thread[t].token \in DOMAIN rowOf
             /\ thread[t].row = rowOf[thread[t].token]
             /\ thread[t].row \in 1 .. Len(rows)
             /\ rows[thread[t].row] \in {latest[thread[t].token], Invalid}
             /\ latest[thread[t].token] \in Vectors \cup {None}
             /\ cells \in [1 .. Len(rows) -> {"unset", "running", "valid", "invalid"}]
             /\ TrueVerdict(thread[t].row, cells[thread[t].row])
  <2>1. thread[t].stage \in {"get", "validating"}
    BY <1>2 DEF BeginValidation, EndValidation, ReadCell
  <2>2. Mapped /\ thread[t].token \in DOMAIN rowOf /\ thread[t].row = rowOf[thread[t].token]
    BY <2>1 DEF StoreInv, ThreadsKnow
  <2>3. thread[t].row \in 1 .. Len(rows) /\ thread[t].token \in Tokens
    BY <2>2, StoreFacts
  <2>4. cells \in [1 .. Len(rows) -> {"unset", "running", "valid", "invalid"}]
    BY <2>2 DEF StoreInv, TypeOK
  <2>5. TrueVerdict(thread[t].row, cells[thread[t].row])
    BY <2>2, <2>3, <2>4 DEF StoreInv, VerdictsAreTrue, TrueVerdict
  <2>6. rows[thread[t].row] \in {latest[thread[t].token], Invalid}
        /\ latest[thread[t].token] \in Vectors \cup {None}
    BY <2>2, <2>3 DEF StoreInv, TokensKeepTheirRows, TypeOK
  <2>. QED  BY <2>2, <2>3, <2>4, <2>5, <2>6, StoreFacts
<1>3. ASSUME NEW result \in Vectors \cup {None}, BeginValidation(t) \/ EndValidation(t) \/ ReadCell(t),
             result = IF rows[thread[t].row] = Invalid THEN None ELSE rows[thread[t].row]
      PROVE  /\ [thread[t] EXCEPT !.stage = "got", !.result = result] \in ThreadStates
             /\ Knows([thread[t] EXCEPT !.stage = "got", !.result = result])
  BY <1>2, <1>3 DEF ThreadStates, Stages, Knows
<1>4. CASE BeginValidation(t)
  <2>. DEFINE state == [thread[t] EXCEPT !.stage = "validating"]
  <2>1. state \in ThreadStates /\ Knows(state)
    BY <1>2, <1>4 DEF ThreadStates, Stages, Knows
  <2>2. Become(t, state) /\ cells' = [cells EXCEPT ![thread[t].row] = "running"]
    BY <1>4 DEF BeginValidation
  <2>3. TrueVerdict(thread[t].row, "running")
    BY DEF TrueVerdict
  <2>. HIDE DEF state
  <2>. QED  BY <1>2, <1>4, <2>1, <2>2, <2>3, ThreadStep
<1>5. CASE EndValidation(t)
  <2>. DEFINE row == thread[t].row
              result == Answer(row, Verdict(row))
              state == [thread[t] EXCEPT !.stage = "got", !.result = result]
  <2>1. result = (IF rows[row] = Invalid THEN None ELSE rows[row])
        /\ result \in Vectors \cup {None}
    BY <1>2, <1>5, StoreFacts DEF Answer, Verdict
  <2>2. state \in ThreadStates /\ Knows(state)
    <3>. HIDE DEF result
    <3>. QED  BY <1>3, <1>5, <2>1
  <2>3. Become(t, state) /\ cells' = [cells EXCEPT ![row] = Verdict(row)]
    BY <1>5 DEF EndValidation
  <2>4. Verdict(row) \in {"unset", "running", "valid", "invalid"} /\ TrueVerdict(row, Verdict(row))
    BY DEF Verdict, TrueVerdict
  <2>. HIDE DEF state
  <2>. QED  BY <1>2, <1>5, <2>2, <2>3, <2>4, ThreadStep
<1>6. CASE ReadCell(t)
  <2>. DEFINE row == thread[t].row
              result == Answer(row, cells[row])
              state == [thread[t] EXCEPT !.stage = "got", !.result = result]
  <2>1. result = (IF rows[row] = Invalid THEN None ELSE rows[row])
        /\ result \in Vectors \cup {None}
    BY <1>2, <1>6, StoreFacts DEF ReadCell, Answer, TrueVerdict
  <2>2. state \in ThreadStates /\ Knows(state)
    <3>. HIDE DEF result
    <3>. QED  BY <1>3, <1>6, <2>1
  <2>3. Become(t, state) /\ UNCHANGED cells
    BY <1>6 DEF ReadCell
  <2>. HIDE DEF state
  <2>. QED  BY <1>2, <1>6, <2>2, <2>3, ThreadStep
<1>. QED  BY <1>1, <1>4, <1>5, <1>6

LEMMA VerifyStep ==
  ASSUME StoreInv, NEW t \in Threads, BeginVerify(t) \/ VerifyRow(t) \/ EndVerify(t)
  PROVE  StoreInv'
<1>1. CASE BeginVerify(t)
  <2>. DEFINE state == [stage |-> "verify", token |-> None, row |-> 1, result |-> None]
  <2>1. state \in ThreadStates /\ Knows(state)
    BY StoreFacts DEF ThreadStates, Stages, Knows
  <2>2. Mapped /\ Become(t, state) /\ UNCHANGED cells
    BY <1>1 DEF BeginVerify
  <2>. HIDE DEF state
  <2>. QED  BY <2>1, <2>2, ThreadStep
<1>2. ASSUME VerifyRow(t) \/ EndVerify(t)
      PROVE  /\ Mapped
             /\ thread[t] \in ThreadStates
             /\ thread[t].row \in 1 .. (Len(rows) + 1)
             /\ \A k \in 1 .. (thread[t].row - 1) : rows[k] # Invalid
             /\ cells \in [1 .. Len(rows) -> {"unset", "running", "valid", "invalid"}]
  <2>1. thread[t].stage = "verify"
    BY <1>2 DEF VerifyRow, EndVerify
  <2>2. Mapped
    BY <2>1 DEF StoreInv, ThreadsKnow
  <2>. QED  BY <2>1, <2>2, StoreFacts DEF StoreInv, ThreadsKnow, TypeOK
<1>3. CASE VerifyRow(t)
  <2>. DEFINE row == thread[t].row
              verdict == IF cells[row] = "unset" THEN Verdict(row) ELSE cells[row]
              state == IF Verdict(row) = "valid" THEN [thread[t] EXCEPT !.row = row + 1]
                                                 ELSE [thread[t] EXCEPT !.stage = "corrupt"]
  <2>1. row \in 1 .. Len(rows) /\ row \in Nat /\ row - 1 \in Nat /\ (row + 1) - 1 = row
    BY <1>2, <1>3, StoreFacts DEF VerifyRow
  <2>2. Become(t, state) /\ cells' = [cells EXCEPT ![row] = verdict]
    BY <1>3 DEF VerifyRow
  <2>3. verdict \in {"unset", "running", "valid", "invalid"} /\ TrueVerdict(row, verdict)
    BY <1>2, <1>3, <2>1 DEF Verdict, TrueVerdict, StoreInv, VerdictsAreTrue
  <2>4. state \in ThreadStates /\ Knows(state)
    <3>1. CASE rows[row] = Invalid
      <4>1. state = [thread[t] EXCEPT !.stage = "corrupt"]
        BY <3>1 DEF Verdict
      <4>2. Invalid \in Range(rows)
        BY <2>1, <3>1, StoreFacts
      <4>. HIDE DEF state
      <4>. QED  BY <1>2, <1>3, <4>1, <4>2 DEF ThreadStates, Stages, Knows
    <3>2. CASE rows[row] # Invalid
      <4>1. state = [thread[t] EXCEPT !.row = row + 1]
        BY <3>2 DEF Verdict
      <4>2. \A k \in 1 .. row : rows[k] # Invalid
        <5>1. \A k \in 1 .. row : k = row \/ k \in 1 .. (row - 1)
          BY <2>1
        <5>. QED  BY <1>2, <1>3, <3>2, <5>1
      <4>3. row + 1 \in 1 .. (Len(rows) + 1) /\ row + 1 \in Nat
        BY <2>1, StoreFacts
      <4>4. thread[t].stage = "verify"
        BY <1>3 DEF VerifyRow
      <4>5. state \in ThreadStates /\ state.stage = "verify" /\ state.row = row + 1
        BY <1>2, <1>3, <4>1, <4>3, <4>4 DEF ThreadStates
      <4>. HIDE DEF state
      <4>. QED  BY <2>1, <4>2, <4>3, <4>5 DEF Knows
    <3>. QED  BY <3>1, <3>2
  <2>. HIDE DEF state, verdict
  <2>. QED  BY <1>2, <1>3, <2>1, <2>2, <2>3, <2>4, ThreadStep
<1>4. CASE EndVerify(t)
  <2>. DEFINE state == [thread[t] EXCEPT !.stage = "verified"]
  <2>1. thread[t].row = Len(rows) + 1
    BY <1>2, <1>4, StoreFacts DEF EndVerify
  <2>2. Invalid \notin Range(rows)
    <3>1. \A k \in 1 .. Len(rows) : rows[k] # Invalid
      BY <1>2, <1>4, <2>1, StoreFacts
    <3>. QED  BY <3>1, StoreFacts
  <2>3. state \in ThreadStates /\ Knows(state)
    BY <1>2, <1>4, <2>2 DEF ThreadStates, Stages, Knows
  <2>4. Become(t, state) /\ UNCHANGED cells
    BY <1>4 DEF EndVerify
  <2>. HIDE DEF state
  <2>. QED  BY <1>2, <1>4, <2>3, <2>4, ThreadStep
<1>. QED  BY <1>1, <1>3, <1>4

LEMMA ReturnStep ==
  ASSUME StoreInv, NEW t \in Threads, Return(t)
  PROVE  StoreInv'
<1>1. Mapped
  BY DEF Return, StoreInv, ThreadsKnow
<1>2. Idle \in ThreadStates /\ Knows(Idle)
  BY DEF Idle, ThreadStates, Stages, Knows
<1>3. Become(t, Idle) /\ UNCHANGED cells
  BY DEF Return
<1>. QED  BY <1>1, <1>2, <1>3, ThreadStep

LEMMA StutterKeepsStore ==
  ASSUME StoreInv, UNCHANGED vars
  PROVE  StoreInv'
<1>1. UNCHANGED <<rowOf, rows, cells, latest, snapshot, thread>>
  BY DEF vars, matrix
<1>2. TypeOK' /\ RowsAreDistinct' /\ SnapshotIsLatest' /\ VerdictsAreTrue' /\ ThreadsKnow'
  BY <1>1 DEF StoreInv, TypeOK, RowsAreDistinct, SnapshotIsLatest, VerdictsAreTrue, ThreadsKnow,
              Mapped
<1>3. TokensKeepTheirRows' /\ AnswersAreStable' /\ VerifiedIsWhole'
  BY <1>1 DEF StoreInv, TokensKeepTheirRows, AnswersAreStable, VerifiedIsWhole
<1>. QED  BY <1>2, <1>3 DEF StoreInv

(* The inductive invariant of building, saving, opening and reading.       *)
THEOREM StoreIsInvariant == Spec => []StoreInv
<1>1. StoreInv /\ [Next]_vars => StoreInv'
  <2>. SUFFICES ASSUME StoreInv, [Next]_vars PROVE StoreInv'
    OBVIOUS
  <2>1. ASSUME NEW token \in Tokens, NEW vector \in Vectors \cup {Invalid}, Insert(token, vector)
        PROVE  StoreInv'
    BY <2>1, InsertStep
  <2>2. CASE Save
    BY <2>2, SaveStep
  <2>3. CASE Open
    BY <2>3, OpenStep
  <2>4. ASSUME NEW t \in Threads,
               (\E token \in Tokens : Look(t, token)) \/ BeginVerify(t) \/ Step(t) \/ Return(t)
        PROVE  StoreInv'
    BY <2>4, GetStep, VerifyStep, ReturnStep DEF Step
  <2>5. CASE UNCHANGED vars
    BY <2>5, StutterKeepsStore
  <2>. QED  BY <2>1, <2>2, <2>3, <2>4, <2>5 DEF Next
<1>. QED  BY InitialStore, <1>1, PTL DEF Spec

(* However often a store is saved and opened, a token has the embedding    *)
(* last accepted for it, or one that damage has made invalid.              *)
THEOREM RowsFollowTheirTokens == Spec => []TokensKeepTheirRows
<1>1. StoreInv => TokensKeepTheirRows
  BY DEF StoreInv
<1>. QED  BY StoreIsInvariant, <1>1, PTL

(* EmbeddingStore::get answers by the token alone, whichever threads share *)
(* the validation of its row.                                              *)
THEOREM GetsAreStable == Spec => []AnswersAreStable
<1>1. StoreInv => AnswersAreStable
  BY DEF StoreInv
<1>. QED  BY StoreIsInvariant, <1>1, PTL

(* EmbeddingStore::verify succeeds on whole stores only, and fails only on *)
(* damaged ones, whichever threads came first to a row.                    *)
THEOREM VerifyingIsExact == Spec => []VerifiedIsWhole
<1>1. StoreInv => VerifiedIsWhole
  BY DEF StoreInv
<1>. QED  BY StoreIsInvariant, <1>1, PTL
==============================================================================
