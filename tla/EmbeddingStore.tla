--------------------------- MODULE EmbeddingStore ----------------------------
(***************************************************************************)
(* The embeddings of tokens: a builder that keeps one row per token, the   *)
(* store saved with its rows in the order of the encoded tokens, opened    *)
(* again from a file whose rows may have been damaged, and read and        *)
(* verified by concurrent threads, which share the verdict on a row        *)
(* through a cell that is initialized once (costs/embedding.rs,            *)
(* costs/embedding/persistence.rs).                                        *)
(***************************************************************************)
EXTENDS Integers, Sequences, SequencesExt, Functions, Ordering

CONSTANTS Tokens,      (* tokens that may have an embedding                *)
          Vectors,     (* normalized embeddings                            *)
          Invalid,     (* a vector that is not finite, or has no norm      *)
          None,        (* no embedding                                     *)
          Code,        (* each token's encoding, ordered as a number       *)
          MaxRows,     (* rows that a u32 can number                       *)
          Threads      (* threads that use the opened store                *)

ASSUME VectorsAssumption ==
  /\ {Invalid, None} \cap Vectors = {} /\ Invalid # None
  /\ Code \in [Tokens -> Nat]
  /\ \A s, t \in Tokens : Code[s] = Code[t] => s = t

VARIABLES rowOf,       (* the row each token has                           *)
          rows,        (* the matrix                                       *)
          cells,       (* the verdict on each row of an opened store       *)
          latest,      (* the embedding last accepted for each token       *)
          snapshot,    (* the file: tokens and rows, in order              *)
          thread       (* what each thread is doing                        *)

matrix == <<rowOf, rows>>
vars   == <<matrix, cells, latest, snapshot, thread>>

Mapped  == cells # <<>>
NoFile  == [tokens |-> <<>>, rows |-> <<>>]
Idle    == [stage |-> "idle", token |-> None, row |-> 0, result |-> None]
Resting == \A t \in Threads : thread[t].stage = "idle"

Init ==
  /\ rowOf = <<>> /\ rows = <<>> /\ cells = <<>>
  /\ latest = [token \in Tokens |-> None]
  /\ snapshot = NoFile
  /\ thread = [t \in Threads |-> Idle]

------------------------------------------------------------------------------
(* EmbeddingStoreBuilder::insert.  An invalid vector, and a row more than  *)
(* a u32 can number, leave the builder as it is.  A builder takes no more  *)
(* vectors once a store with a row has been built from it and saved.       *)
Replace(token, vector) ==
  /\ token \in DOMAIN rowOf
  /\ rows' = [rows EXCEPT ![rowOf[token]] = vector]
  /\ UNCHANGED rowOf

AppendRow(token, vector) ==
  /\ token \notin DOMAIN rowOf
  /\ Len(rows) < MaxRows
  /\ rowOf' = [s \in DOMAIN rowOf \cup {token} |->
                 IF s = token THEN Len(rows) + 1 ELSE rowOf[s]]
  /\ rows' = Append(rows, vector)

Accepts(token, vector) == vector # Invalid /\ (token \in DOMAIN rowOf \/ Len(rows) < MaxRows)

Insert(token, vector) ==
  /\ ~Mapped /\ snapshot = NoFile
  /\ IF Accepts(token, vector)
     THEN /\ Replace(token, vector) \/ AppendRow(token, vector)
          /\ latest' = [latest EXCEPT ![token] = vector]
     ELSE UNCHANGED <<matrix, latest>>
  /\ UNCHANGED <<cells, snapshot, thread>>

------------------------------------------------------------------------------
(* EmbeddingStore::save_with, after a verify that succeeds; one that fails  *)
(* is a thread's.  Saves while threads read the store are left out: they   *)
(* do what a verify and the reading of verified rows do.  So are codecs    *)
(* that do not give every token back, which a save refuses: Code tells     *)
(* tokens apart (such codecs are in CostFiles).                            *)
EncodedOrder ==
  LET codes == Ascending({Code[token] : token \in DOMAIN rowOf})
  IN  [k \in DOMAIN codes |-> CHOOSE token \in DOMAIN rowOf : Code[token] = codes[k]]

RowsAsStored(tokens)    == rows               \* written in the order they have
RowsInTokenOrder(tokens) == [k \in DOMAIN tokens |-> rows[rowOf[tokens[k]]]]

Save ==
  /\ Resting
  /\ Invalid \notin Range(rows)
  /\ snapshot' = [tokens |-> EncodedOrder, rows |-> RowsInTokenOrder(EncodedOrder)]
  /\ cells' = [k \in DOMAIN cells |-> "valid"]
  /\ UNCHANGED <<matrix, latest, thread>>

(* EmbeddingStore::open_with: tokens are decoded, rows are not looked at.  *)
(* Some of them may have been damaged in the file.  A bound: a snapshot is *)
(* opened once.                                                            *)
Open ==
  /\ snapshot # NoFile
  /\ Resting
  /\ rowOf' = [token \in Range(snapshot.tokens) |->
                 CHOOSE k \in DOMAIN snapshot.tokens : snapshot.tokens[k] = token]
  /\ \E damaged \in SUBSET DOMAIN snapshot.rows :
        rows' = [k \in DOMAIN snapshot.rows |->
                   IF k \in damaged THEN Invalid ELSE snapshot.rows[k]]
  /\ cells' = [k \in DOMAIN snapshot.rows |-> "unset"]
  /\ snapshot' = NoFile
  /\ UNCHANGED <<latest, thread>>

------------------------------------------------------------------------------
(* Threads.  A cell is initialized by one thread at a time; others wait.   *)
Become(t, state) ==
  /\ thread' = [thread EXCEPT ![t] = state]
  /\ UNCHANGED <<matrix, latest, snapshot>>

Verdict(row) == IF rows[row] = Invalid THEN "invalid" ELSE "valid"
Answer(row, verdict) == IF verdict = "valid" THEN rows[row] ELSE None

(* EmbeddingStore::get. *)
Look(t, token) ==
  /\ Mapped
  /\ thread[t].stage = "idle"
  /\ Become(t, IF token \in DOMAIN rowOf
               THEN [stage |-> "get", token |-> token, row |-> rowOf[token], result |-> None]
               ELSE [stage |-> "got", token |-> token, row |-> 0, result |-> None])
  /\ UNCHANGED cells

BeginValidation(t) ==
  /\ thread[t].stage = "get"
  /\ cells[thread[t].row] = "unset"
  /\ cells' = [cells EXCEPT ![thread[t].row] = "running"]
  /\ Become(t, [thread[t] EXCEPT !.stage = "validating"])

EndIfValid(t) ==               \* the cell of an invalid row left as it is
  /\ thread[t].stage = "validating"
  /\ LET row == thread[t].row
     IN  /\ cells' = [cells EXCEPT ![row] = IF Verdict(row) = "valid" THEN "valid" ELSE @]
         /\ Become(t, [thread[t] EXCEPT !.stage = "got", !.result = Answer(row, Verdict(row))])

EndValidation(t) ==
  /\ thread[t].stage = "validating"
  /\ LET row == thread[t].row
     IN  /\ cells' = [cells EXCEPT ![row] = Verdict(row)]
         /\ Become(t, [thread[t] EXCEPT !.stage = "got", !.result = Answer(row, Verdict(row))])

ReadAnyCell(t) ==              \* a cell taken as valid while it is initialized
  /\ thread[t].stage = "get"
  /\ cells[thread[t].row] \in {"valid", "invalid", "running"}
  /\ Become(t, [thread[t] EXCEPT
       !.stage = "got",
       !.result = IF cells[thread[t].row] = "invalid" THEN None ELSE rows[thread[t].row]])
  /\ UNCHANGED cells

ReadCell(t) ==
  /\ thread[t].stage = "get"
  /\ cells[thread[t].row] \in {"valid", "invalid"}
  /\ Become(t, [thread[t] EXCEPT !.stage = "got",
                                 !.result = Answer(thread[t].row, cells[thread[t].row])])
  /\ UNCHANGED cells

(* EmbeddingStore::verify, a row at a time; set keeps a verdict there is.  *)
BeginVerify(t) ==
  /\ Mapped
  /\ thread[t].stage = "idle"
  /\ Become(t, [stage |-> "verify", token |-> None, row |-> 1, result |-> None])
  /\ UNCHANGED cells

VerifyUnsetRow(t) ==           \* rows that have a verdict taken as valid
  /\ thread[t].stage = "verify"
  /\ thread[t].row \in DOMAIN rows
  /\ LET row == thread[t].row
     IN  /\ cells[row] # "running"
         /\ cells' = [cells EXCEPT ![row] = IF @ = "unset" THEN Verdict(row) ELSE @]
         /\ Become(t, IF Verdict(row) = "valid" \/ cells[row] # "unset"
                      THEN [thread[t] EXCEPT !.row = @ + 1]
                      ELSE [thread[t] EXCEPT !.stage = "corrupt"])

VerifyRow(t) ==
  /\ thread[t].stage = "verify"
  /\ thread[t].row \in DOMAIN rows
  /\ LET row == thread[t].row
     IN  /\ cells[row] # "running"
         /\ cells' = [cells EXCEPT ![row] = IF @ = "unset" THEN Verdict(row) ELSE @]
         /\ Become(t, IF Verdict(row) = "valid" THEN [thread[t] EXCEPT !.row = @ + 1]
                                                ELSE [thread[t] EXCEPT !.stage = "corrupt"])

EndVerify(t) ==
  /\ thread[t].stage = "verify"
  /\ thread[t].row \notin DOMAIN rows
  /\ Become(t, [thread[t] EXCEPT !.stage = "verified"])
  /\ UNCHANGED cells

Return(t) ==
  /\ thread[t].stage \in {"got", "verified", "corrupt"}
  /\ Become(t, Idle)
  /\ UNCHANGED cells

(* Threads run until the call they are in returns: the system schedules    *)
(* them, and a thread that waits for a cell goes on once it is set.        *)
Step(t) ==
  BeginValidation(t) \/ EndValidation(t) \/ ReadCell(t) \/ VerifyRow(t) \/ EndVerify(t)

Next ==
  \/ \E token \in Tokens, vector \in Vectors \cup {Invalid} : Insert(token, vector)
  \/ Save \/ Open
  \/ \E t \in Threads :
       \/ \E token \in Tokens : Look(t, token)
       \/ BeginVerify(t) \/ Step(t) \/ Return(t)

Spec == Init /\ [][Next]_vars /\ \A t \in Threads : WF_vars(Step(t))

------------------------------------------------------------------------------
(* Every token keeps the embedding last accepted for it, in the builder    *)
(* and after any number of saves and openings, which put rows into another *)
(* order; a damaged row is never taken for another.                        *)
TokensKeepTheirRows ==
  \A token \in Tokens :
     IF token \in DOMAIN rowOf THEN rows[rowOf[token]] \in {latest[token], Invalid}
                               ELSE latest[token] = None

(* What get returns depends on the token only, for the whole life of an    *)
(* opened store and whichever threads read and verify it: the substitution *)
(* costs of a search never change while it runs.                           *)
AnswersAreStable ==
  \A t \in Threads :
     thread[t].stage = "got" =>
        thread[t].result = IF thread[t].token \notin DOMAIN rowOf THEN None
                           ELSE IF rows[rowOf[thread[t].token]] = Invalid THEN None
                           ELSE latest[thread[t].token]

(* A verify that succeeds has seen every row valid, even if other threads  *)
(* came first to some of them: from then on no token loses its embedding.  *)
VerifiedIsWhole ==
  \A t \in Threads :
     /\ thread[t].stage = "verified" => Invalid \notin Range(rows)
     /\ thread[t].stage = "corrupt" => Invalid \in Range(rows)

(* Every get and every verify returns: a thread that waits for the verdict *)
(* on a row, which another thread is finding out, goes on whatever the     *)
(* verdict is, and no two threads wait for each other.                     *)
LookupsReturn ==
  \A t \in Threads :
     thread[t].stage \in {"get", "validating", "verify"}
       ~> thread[t].stage \in {"got", "verified", "corrupt"}
==============================================================================
