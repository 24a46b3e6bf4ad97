------------------------------- MODULE Engine --------------------------------
(***************************************************************************)
(* An engine, built from sequences or opened from a snapshot, and its use. *)
(* Opening has validated the offsets of a snapshot and nothing else: its   *)
(* payload is any corpus symbols and any postings.  Searches read posting  *)
(* lists and check the strings they use; verify checks everything          *)
(* (search.rs, search/persistence.rs, store.rs, postings.rs,               *)
(* search/verification.rs).                                                *)
(***************************************************************************)
EXTENDS IndexBuilder

CONSTANTS SymbolCounts,  (* sizes of the vocabulary of a snapshot          *)
          CorpusStrings, (* strings in its corpus                          *)
          CorpusLength,  (* symbols in its corpus                          *)
          MaxPostings,   (* bound on its postings                          *)
          MaxId,         (* bound on the string ids of its postings        *)
          MaxPosition    (* bound on their positions                       *)

(* Vocabulary::from_tokens refuses more tokens than there are symbols.     *)
ASSUME SnapshotAssumption ==
  /\ SymbolCounts \in SUBSET (0 .. MaxU32)
  /\ CorpusStrings \in Nat /\ CorpusLength \in Nat
  /\ MaxPostings \in Nat /\ MaxId \in Nat /\ MaxPosition \in Nat

VARIABLES verdict,       (* what verify has returned                       *)
          search         (* the search under way: its symbol, next posting *)

use  == <<verdict, search>>
vars == <<building, use>>

Idle == [stage |-> "idle", symbol |-> 0, next |-> 1]

Init ==
  /\ BuilderInit
  /\ verdict = "unknown"
  /\ search = Idle

------------------------------------------------------------------------------
(* Offsets as validate_offsets accepts them, over a payload of n entries.  *)
ValidOffsets(lists, n) ==
  {offsets \in [1 .. (lists + 1) -> 0 .. n] :
     /\ offsets[1] = 0 /\ offsets[lists + 1] = n
     /\ \A k \in 1 .. lists : offsets[k] <= offsets[k + 1]}

Stores(count) ==
  [symbols : [1 .. CorpusLength -> 0 .. MaxU32], offsets : ValidOffsets(CorpusStrings, CorpusLength),
   symbolCount : {count}]

AnyPosting == [string : 0 .. MaxId, position : 0 .. MaxPosition]
Indexes(count) ==
  UNION {[postings : [1 .. n -> AnyPosting], offsets : ValidOffsets(count, n)] :
         n \in 0 .. MaxPostings}

(* SearchEngine::open_with.  A vocabulary stands for all of its size: they *)
(* differ in the names of the tokens only.                                 *)
Open ==
  /\ engine = NoEngine /\ offered = <<>>
  /\ \E count \in SymbolCounts : \E store \in Stores(count), index \in Indexes(count) :
       engine' = [status |-> "opened", vocabulary |-> SubSeq(SetToSeq(Tokens), 1, count),
                  index |-> index, store |-> store]
  /\ UNCHANGED <<sequences, ids, offered, query, use>>

------------------------------------------------------------------------------
Ready == engine.status \in {"built", "opened"} /\ query = NoQuery

Verify ==
  /\ Ready
  /\ verdict = "unknown" /\ search = Idle
  /\ verdict' = IF EngineVerifies(engine) THEN "ok" ELSE "invalid"
  /\ UNCHANGED <<building, search>>

(* A search generates the candidates of a symbol's posting list.           *)
Generate ==
  /\ Ready
  /\ search.stage = "idle"
  /\ \E symbol \in 0 .. engine.store.symbolCount :
        search' = [stage |-> "verifying", symbol |-> symbol, next |-> 1]
  /\ UNCHANGED <<building, verdict>>

(* validated_candidate_string of the next candidate.                       *)
CanUse(posting) ==
  /\ IsString(engine.store, posting.string)
  /\ ValidSymbols(engine.store, StringOf(engine.store, posting.string))
  /\ posting.position < Len(StringOf(engine.store, posting.string))

UseCandidate ==
  /\ search.stage = "verifying"
  /\ LET list == PostingSlice(engine.index, search.symbol)
     IN  search' = IF search.next > Len(list) THEN [search EXCEPT !.stage = "done"]
                   ELSE IF CanUse(list[search.next]) THEN [search EXCEPT !.next = @ + 1]
                   ELSE [search EXCEPT !.stage = "failed"]
  /\ UNCHANGED <<building, verdict>>

Next ==
  \/ BuilderNext /\ search = Idle /\ UNCHANGED use
  \/ Open \/ Verify \/ Generate \/ UseCandidate

Spec == Init /\ [][Next]_vars

------------------------------------------------------------------------------
(* The anchors a search has accepted so far. *)
Used == {PostingSlice(engine.index, search.symbol)[k] : k \in 1 .. (search.next - 1)}

(* verify accepts exactly the engines whose posting lists are the          *)
(* occurrences of their symbols in a corpus of known symbols: it only      *)
(* compares counts, neighbors and single postings, and that no occurrence  *)
(* is missing follows.  On a verified engine no search fails, and one that *)
(* is done has used every occurrence of its symbol.                        *)
VerifiedIsExact ==
  /\ verdict = "ok" =>
        /\ IsInvertedIndex(engine.index, engine.store)
        /\ search.stage # "failed"
        /\ search.stage = "done" =>
             Used = IF search.symbol < engine.store.symbolCount
                    THEN OccurrencesOf(engine.store, search.symbol) ELSE {}
  /\ verdict = "invalid" => \/ ~IsInvertedIndex(engine.index, engine.store)
                            \/ ~StoreVerifies(engine.store)
==============================================================================
