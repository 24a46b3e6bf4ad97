---------------------------- MODULE InvertedIndex ----------------------------
(***************************************************************************)
(* The data an engine is made of: the vocabulary that numbers tokens, the  *)
(* corpus store and the postings index, flat arrays cut by offsets         *)
(* (types.rs, vocabulary.rs, store.rs, postings.rs, search.rs).            *)
(*                                                                         *)
(* Identifiers, symbols, positions and offsets count from 0 as in the      *)
(* code; the arrays are sequences, entry n of the code being entry n + 1.  *)
(***************************************************************************)
EXTENDS Integers, Sequences, SequencesExt, Ordering

CONSTANT MaxU32          (* u32::MAX                                       *)

ASSUME MaxU32Assumption == MaxU32 \in Nat \ {0}

UNKNOWN == MaxU32

(* from_usize: sequence ids and positions take every u32, symbols all but  *)
(* the one that stands for unknown tokens.                                 *)
FitsU32(n)         == n <= MaxU32
IsSymbolOrUnknown(n) == FitsU32(n)    \* with UNKNOWN taken as any other
IsSymbol(n)        == FitsU32(n) /\ n # UNKNOWN

------------------------------------------------------------------------------
(* VocabularyBuilder: tokens with their frequencies, in the order they are *)
(* first seen, and build, which orders them by descending frequency.       *)
FirstSeen(tokens, ignored) ==
  LET firsts == Ascending({i \in DOMAIN tokens :
                             tokens[i] \notin ignored \cup {tokens[j] : j \in 1 .. (i - 1)}})
  IN  [k \in DOMAIN firsts |-> tokens[firsts[k]]]

FrequencyIn(tokens, token) == Cardinality({i \in DOMAIN tokens : tokens[i] = token})

VocabularyOf(tokens) ==
  LET seen == FirstSeen(tokens, {})
      before(m, n) == \/ FrequencyIn(tokens, seen[m]) > FrequencyIn(tokens, seen[n])
                      \/ FrequencyIn(tokens, seen[m]) = FrequencyIn(tokens, seen[n]) /\ m < n
      order == SortedBy(DOMAIN seen, before)
  IN  [k \in DOMAIN order |-> seen[order[k]]]

(* Vocabulary::symbol and token. *)
SymbolOf(vocabulary, token) ==
  IF token \in Range(vocabulary)
  THEN (CHOOSE k \in DOMAIN vocabulary : vocabulary[k] = token) - 1
  ELSE UNKNOWN
HasToken(vocabulary, symbol) == symbol # UNKNOWN /\ symbol + 1 \in DOMAIN vocabulary

------------------------------------------------------------------------------
(* CorpusStore of strings, its builder and its access by id. *)
Sums(lengths) ==
  LET sum[n \in 0 .. Len(lengths)] == IF n = 0 THEN 0 ELSE sum[n - 1] + lengths[n]
  IN  [n \in 1 .. (Len(lengths) + 1) |-> sum[n - 1]]

StoreOf(strings, symbolCount) ==
  [symbols     |-> FlattenSeq(strings),
   offsets     |-> Sums([k \in DOMAIN strings |-> Len(strings[k])]),
   symbolCount |-> symbolCount]

IsString(store, id) == id + 2 \in DOMAIN store.offsets
StringOf(store, id) == SubSeq(store.symbols, store.offsets[id + 1] + 1, store.offsets[id + 2])
Ids(store)          == 0 .. (Len(store.offsets) - 2)

ValidSymbols(store, string) ==
  \A i \in DOMAIN string : string[i] # UNKNOWN /\ string[i] < store.symbolCount

StoreVerifies(store) ==
  \A id \in Ids(store) : FitsU32(id) /\ ValidSymbols(store, StringOf(store, id))

------------------------------------------------------------------------------
(* PostingsIndex: postings sorted by symbol, string and position, cut into *)
(* the lists of the symbols.                                               *)
PostingBefore(a, b) == a.string < b.string \/ (a.string = b.string /\ a.position < b.position)

IndexByPlace(occurrences, symbolCount) ==    \* not sorted by symbol
  LET sorted == SortedBy(occurrences, LAMBDA a, b : PostingBefore(a[2], b[2]))
  IN  [postings |-> [k \in DOMAIN sorted |-> sorted[k][2]],
       offsets  |-> Sums([s \in 1 .. symbolCount |->
                            Cardinality({o \in occurrences : o[1] = s - 1})])]

IndexOf(occurrences, symbolCount) ==    \* of <<symbol, posting>> pairs
  LET before(a, b) == a[1] < b[1] \/ (a[1] = b[1] /\ PostingBefore(a[2], b[2]))
      sorted == SortedBy(occurrences, before)
  IN  [postings |-> [k \in DOMAIN sorted |-> sorted[k][2]],
       offsets  |-> Sums([s \in 1 .. symbolCount |->
                            Cardinality({o \in occurrences : o[1] = s - 1})])]

PostingSlice(index, symbol) ==
  IF symbol = UNKNOWN \/ symbol + 2 \notin DOMAIN index.offsets
  THEN <<>>
  ELSE SubSeq(index.postings, index.offsets[symbol + 1] + 1, index.offsets[symbol + 2])

IndexedSymbols(index) == 0 .. (Len(index.offsets) - 2)
AlphabetOf(index) ==
  {s \in IndexedSymbols(index) : index.offsets[s + 1] # index.offsets[s + 2]}

(* PostingsIndex::verify. *)
CountsAgree(index, store) == Len(index.postings) = Len(store.symbols)

WeaklyOrdered(list)     ==     \* equal neighbors accepted
  \A k \in 2 .. Len(list) : ~PostingBefore(list[k], list[k - 1])
StrictlyOrdered(list) == \A k \in 2 .. Len(list) : PostingBefore(list[k - 1], list[k])

PostingMatches(store, symbol, posting) ==
  /\ IsString(store, posting.string)
  /\ posting.position < Len(StringOf(store, posting.string))
  /\ StringOf(store, posting.string)[posting.position + 1] = symbol

IndexVerifies(index, store) ==
  /\ CountsAgree(index, store)
  /\ \A symbol \in IndexedSymbols(index) :
        LET list == PostingSlice(index, symbol)
        IN  /\ StrictlyOrdered(list)
            /\ \A k \in DOMAIN list : PostingMatches(store, symbol, list[k])

(* SearchEngine::verify. *)
EngineVerifies(engine) ==
  StoreVerifies(engine.store) /\ IndexVerifies(engine.index, engine.store)

------------------------------------------------------------------------------
(* What an index is for: the list of a symbol holds its occurrences, each  *)
(* once, in order of string and position.                                  *)
OccurrencesOf(store, symbol) ==
  UNION {{[string |-> id, position |-> p - 1] :
            p \in {p \in DOMAIN StringOf(store, id) : StringOf(store, id)[p] = symbol}} :
         id \in Ids(store)}

IsInvertedIndex(index, store) ==
  \A symbol \in 0 .. (store.symbolCount - 1) :
     PostingSlice(index, symbol) = SortedBy(OccurrencesOf(store, symbol), PostingBefore)
==============================================================================
