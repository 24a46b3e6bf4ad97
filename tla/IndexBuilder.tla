---------------------------- MODULE IndexBuilder -----------------------------
(***************************************************************************)
(* Building an engine and encoding queries for it: add_sequence, build and *)
(* EncodedQuery::new, up to the limits of the u32 identifiers              *)
(* (search/builder.rs, search.rs, search/encoding.rs).                     *)
(***************************************************************************)
EXTENDS InvertedIndex

CONSTANTS Tokens,        (* the tokens of the corpus and of queries        *)
          MaxTokens,     (* bound on the tokens given to one builder       *)
          MaxSequences,  (* bound on the sequences given to it             *)
          MaxQuery       (* bound on the length of a query                 *)

ASSUME BuilderAssumption == MaxTokens \in Nat /\ MaxSequences \in Nat /\ MaxQuery \in Nat

VARIABLES sequences,     (* what the builder holds                         *)
          ids,           (* the identifiers it returned, in order          *)
          offered,       (* the sequences it was given, refused ones too   *)
          engine,        (* the engine once it is built                    *)
          query          (* the last query: its tokens, symbols, unknowns  *)

building == <<sequences, ids, offered, engine, query>>

NoEngine == [status |-> "none"]
NoQuery  == [status |-> "none"]

BuilderInit ==
  /\ sequences = <<>> /\ ids = <<>> /\ offered = <<>>
  /\ engine = NoEngine /\ query = NoQuery

SequencesUpTo(n) == UNION {[1 .. k -> Tokens] : k \in 0 .. n}
Offers(n) == SequencesUpTo(n - Len(FlattenSeq(offered)))

------------------------------------------------------------------------------
(* SearchEngineBuilder::add_sequence. *)
AcceptSequence(sequence) ==
  /\ FitsU32(Len(sequences)) /\ FitsU32(Len(sequence))
  /\ sequences' = Append(sequences, sequence)
  /\ ids' = Append(ids, Len(sequences))
  /\ offered' = Append(offered, sequence)
  /\ UNCHANGED <<engine, query>>

KeepRejected(sequence) ==      \* the length checked after the sequence is kept
  /\ ~(FitsU32(Len(sequences)) /\ FitsU32(Len(sequence)))
  /\ sequences' = Append(sequences, sequence)
  /\ offered' = Append(offered, sequence)
  /\ UNCHANGED <<ids, engine, query>>

RejectSequence(sequence) ==
  /\ ~(FitsU32(Len(sequences)) /\ FitsU32(Len(sequence)))
  /\ offered' = Append(offered, sequence)
  /\ UNCHANGED <<sequences, ids, engine, query>>

(* SearchEngineBuilder::build: vocabulary, strings, postings; every symbol *)
(* of the vocabulary must be representable.                                *)
Build ==
  /\ engine = NoEngine
  /\ \E vocabulary \in {VocabularyOf(FlattenSeq(sequences))} :
       LET symbolCount == Len(vocabulary)
           strings == [k \in DOMAIN sequences |->
                         [i \in DOMAIN sequences[k] |-> SymbolOf(vocabulary, sequences[k][i])]]
           occurrences == UNION {{<<strings[k][i], [string |-> k - 1, position |-> i - 1]>> :
                                    i \in DOMAIN strings[k]} : k \in DOMAIN strings}
       IN  engine' = IF \A k \in DOMAIN vocabulary : IsSymbol(k - 1)
                     THEN [status |-> "built", vocabulary |-> vocabulary,
                           index |-> IndexOf(occurrences, symbolCount),
                           store |-> StoreOf(strings, symbolCount)]
                     ELSE [status |-> "overflow"]
  /\ UNCHANGED <<sequences, ids, offered, query>>

------------------------------------------------------------------------------
(* EncodedQuery::new: a token outside the vocabulary gets the next symbol  *)
(* after it, the same one wherever it occurs in the query.                 *)
UnknownTokens(tokens, vocabulary) == FirstSeen(tokens, Range(vocabulary))

QuerySymbol(token, vocabulary, unknown) ==
  IF token \in Range(vocabulary) THEN SymbolOf(vocabulary, token)
  ELSE Len(vocabulary) + SymbolOf(unknown, token)

EncodeQuery(tokens) ==
  /\ LET vocabulary == engine.vocabulary
         unknown    == UnknownTokens(tokens, vocabulary)
     IN  query' = IF \A n \in DOMAIN unknown : IsSymbol(Len(vocabulary) + n - 1)
                  THEN [status |-> "encoded", tokens |-> tokens, unknown |-> unknown,
                        string |-> [i \in DOMAIN tokens |->
                                      QuerySymbol(tokens[i], vocabulary, unknown)]]
                  ELSE [status |-> "overflow", tokens |-> tokens]
  /\ UNCHANGED <<sequences, ids, offered, engine>>

(* EncodedCosts::token: where a symbol of a search has its token. *)
TokenOf(symbol) ==
  IF HasToken(engine.vocabulary, symbol) THEN engine.vocabulary[symbol + 1]
  ELSE query.unknown[symbol - Len(engine.vocabulary) + 1]

(* build consumes the builder; a query borrows a built engine.             *)
BuilderNext ==
  \/ /\ engine = NoEngine /\ Len(offered) < MaxSequences
     /\ \E sequence \in Offers(MaxTokens) : AcceptSequence(sequence) \/ RejectSequence(sequence)
  \/ Build
  \/ /\ engine.status = "built" /\ query = NoQuery
     /\ \E tokens \in SequencesUpTo(MaxQuery) : EncodeQuery(tokens)

------------------------------------------------------------------------------
(* A sequence keeps the identifier add_sequence returned for it: refused   *)
(* ones take none and leave no trace, and the engine's strings decode to   *)
(* the accepted sequences by their identifiers.                            *)
IdentifiersAreStable ==
  /\ Len(sequences) = Len(ids)
  /\ engine.status = "built" =>
        \A k \in DOMAIN ids :
           [i \in DOMAIN sequences[k] |-> StringOf(engine.store, ids[k])[i] + 1]
             = [i \in DOMAIN sequences[k] |->
                  CHOOSE s \in DOMAIN engine.vocabulary : engine.vocabulary[s] = sequences[k][i]]

(* A built engine passes its own verification, and its posting lists are   *)
(* the occurrences of the symbols, all of which make up the alphabet: what *)
(* a range search takes for granted of the engine it is given.             *)
BuiltEngineIsExact ==
  engine.status = "built" =>
     /\ EngineVerifies(engine)
     /\ IsInvertedIndex(engine.index, engine.store)
     /\ AlphabetOf(engine.index) = 0 .. (Len(engine.vocabulary) - 1)

(* Costs see the tokens of the query: every symbol decodes to the token it *)
(* was made of, two positions share one exactly where they share a token,  *)
(* and no query-only symbol occurs in the corpus or is UNKNOWN.            *)
QueryKeepsItsTokens ==
  query.status = "encoded" =>
     \A i \in DOMAIN query.tokens :
        /\ query.string[i] # UNKNOWN
        /\ TokenOf(query.string[i]) = query.tokens[i]
        /\ query.string[i] \in AlphabetOf(engine.index)
             <=> query.tokens[i] \in Range(FlattenSeq(sequences))
        /\ \A j \in DOMAIN query.tokens :
              query.string[i] = query.string[j] <=> query.tokens[i] = query.tokens[j]
==============================================================================
