----------------------------- MODULE CostFiles -------------------------------
(***************************************************************************)
(* Policies as the words of their files, and what is read back from words  *)
(* that may have been damaged (costs/persistence.rs,                       *)
(* costs/custom/persistence.rs, costs/embedding/costs_persistence.rs,      *)
(* persistence/codec.rs).                                                  *)
(*                                                                         *)
(* A word is a version, a cost, a u64 length or count, or an encoded       *)
(* character.  Counts are added and multiplied as a usize up to MaxWord.   *)
(***************************************************************************)
EXTENDS EditCosts, Ordering

CONSTANTS MaxWord,      (* the largest word, and usize::MAX                *)
          Chars         (* the characters of tokens                        *)

ASSUME WordsAssumption == MaxWord \in Nat /\ MaxCost <= MaxWord

Version   == 1
HeaderLen == 7

------------------------------------------------------------------------------
(* A TokenCodec: the words of a token's characters, one character with     *)
(* CharCodec and any number of them with StringCodec.                      *)
EncodeToken(codec, token) == [k \in DOMAIN token |-> codec[token[k]]]

Decodes(codec, tokenizer, encoded) ==
  /\ tokenizer = "character" => Len(encoded) = 1
  /\ \A k \in DOMAIN encoded : encoded[k] \in Range(codec)
DecodeToken(codec, encoded) ==
  [k \in DOMAIN encoded |-> CHOOSE char \in Chars : codec[char] = encoded[k]]

(* encode_token, and the same check of an embedding store: a codec that    *)
(* does not give every token back is refused, and with it any two tokens   *)
(* of the same encoding.                                                   *)
RoundTrip(codec, tokens) ==
  \A token \in tokens : DecodeToken(codec, EncodeToken(codec, token)) = token

------------------------------------------------------------------------------
(* LevenshteinCosts::save: a file of no sections. *)
EncodeLevenshtein == <<>>

(* CosineEmbeddingCosts::save and open. *)
EncodeCosine(p) ==
  <<Version, p.defaults.deletion, p.defaults.insertion, p.defaults.substitution>>

CosineReadable(w) == w[1] = Version /\ \A n \in 2 .. 4 : IsCost(w[n])
DecodeCosine(w, rows) ==
  NewCosine(rows, [deletion |-> Cost(w[2]), insertion |-> Cost(w[3]),
                   substitution |-> Cost(w[4])])

------------------------------------------------------------------------------
(* CustomCosts::save_with: defaults, counts, then the rules of every       *)
(* operation, each in the order of the encoded tokens.                     *)
CustomTokens(p) ==
  DOMAIN p.deletions \cup DOMAIN p.insertions
    \cup UNION {{pair[1], pair[2]} : pair \in DOMAIN p.substitutions}

Framed(encoded) == <<Len(encoded)>> \o encoded     \* push_bytes

Precedes(s, t) ==              \* the order of byte strings
  \E n \in DOMAIN t : /\ n > Len(s) \/ s[n] < t[n]
                     /\ \A k \in 1 .. (n - 1) : k <= Len(s) /\ s[k] = t[k]
RulePrecedes(r, s) == Precedes(r.from, s.from) \/ (r.from = s.from /\ Precedes(r.to, s.to))

PairRules(codec, overrides) ==
  SortedBy({[from |-> EncodeToken(codec, pair[1]), to |-> EncodeToken(codec, pair[2]),
             cost |-> overrides[pair]] : pair \in DOMAIN overrides}, RulePrecedes)
SingleRules(codec, overrides) ==
  SortedBy({[from |-> EncodeToken(codec, token), to |-> <<>>, cost |-> overrides[token]] :
              token \in DOMAIN overrides}, RulePrecedes)

PairRecords(rules) ==
  [n \in DOMAIN rules |-> Framed(rules[n].from) \o Framed(rules[n].to) \o <<rules[n].cost>>]
SingleRecords(rules) ==
  [n \in DOMAIN rules |-> Framed(rules[n].from) \o <<rules[n].cost>>]

Size(overrides) == Cardinality(DOMAIN overrides)

EncodeCustom(codec, p) ==
  <<Version, p.defaults.substitution, p.defaults.deletion, p.defaults.insertion,
    Size(p.substitutions), Size(p.deletions), Size(p.insertions)>>
  \o FlattenSeq(PairRecords(PairRules(codec, p.substitutions))
                   \o SingleRecords(SingleRules(codec, p.deletions))
                   \o SingleRecords(SingleRules(codec, p.insertions)))

------------------------------------------------------------------------------
(* CustomCosts::open_with.  validate_rule_counts: a rule takes at least a  *)
(* length of zero for each token, and a cost.                              *)
PairCount(w)      == w[5]
DeletionCount(w)  == w[6]
InsertionCount(w) == w[7]
RuleCount(w)      == PairCount(w) + DeletionCount(w) + InsertionCount(w)

LeastWords(w) == 3 * PairCount(w) + 2 * DeletionCount(w) + 2 * InsertionCount(w)

CountsFit(w) == LeastWords(w) <= MaxWord /\ LeastWords(w) <= Len(w) - HeaderLen

(* The reader's position: after a framed token, and after every rule and   *)
(* before the first; beyond the words once they are truncated.             *)
Truncated(w) == Len(w) + 2
AfterToken(w, at) == IF at > Len(w) THEN Truncated(w) ELSE at + 1 + w[at]
IsPairRule(w, n) == n <= PairCount(w)

AfterTokens(w, n, at) ==
  IF IsPairRule(w, n) THEN AfterToken(w, AfterToken(w, at)) ELSE AfterToken(w, at)
AfterRule(w, n, at) ==
  IF AfterTokens(w, n, at) > Len(w) THEN Truncated(w) ELSE AfterTokens(w, n, at) + 1

RuleEnds(w) ==
  LET end[n \in 0 .. RuleCount(w)] ==
        IF n = 0 THEN HeaderLen + 1 ELSE AfterRule(w, n, end[n - 1])
  IN  end

FramedAt(w, at) == SubSeq(w, at + 1, at + w[at])

(* Rule n of the file: its operation and its encoded tokens, and its cost. *)
RuleKey(w, ends, n) ==
  LET from == FramedAt(w, ends[n - 1])
  IN  IF IsPairRule(w, n)
      THEN [operation |-> "substitution", from |-> from,
            to |-> FramedAt(w, AfterToken(w, ends[n - 1]))]
      ELSE [operation |-> IF n <= PairCount(w) + DeletionCount(w) THEN "deletion" ELSE "insertion",
            from |-> from, to |-> from]
RuleCost(w, ends, n) == w[ends[n] - 1]

(* The entry of the maps a rule is inserted at: its decoded tokens.        *)
RuleName(codec, key) ==
  [key EXCEPT !.from = DecodeToken(codec, @), !.to = DecodeToken(codec, @)]

MayRepeat(codec, w, ends) == TRUE    \* the last of several rules taken
NoneRepeats(codec, w, ends) ==
  \A m, n \in 1 .. RuleCount(w) :
     m # n => RuleName(codec, RuleKey(w, ends, m)) # RuleName(codec, RuleKey(w, ends, n))

RulesReadable(codec, tokenizer, w) ==
  LET ends == RuleEnds(w)
  IN  /\ ends[RuleCount(w)] = Len(w) + 1        \* nothing cut off, nothing left
      /\ \A n \in 1 .. RuleCount(w) :
            LET key  == RuleKey(w, ends, n)
                name == RuleName(codec, key)
            IN  /\ Decodes(codec, tokenizer, key.from) /\ Decodes(codec, tokenizer, key.to)
                /\ IsCost(RuleCost(w, ends, n))
                /\ key.operation = "substitution" => name.from # name.to
      /\ NoneRepeats(codec, w, ends)

CustomReadable(codec, tokenizer, w) ==
  /\ w[1] = Version
  /\ \A n \in 2 .. 4 : IsCost(w[n])
  /\ CountsFit(w)
  /\ RulesReadable(codec, tokenizer, w)

(* The rules of an operation, the last one for its tokens.                 *)
DecodedRules(codec, w, operation) ==
  LET ends == RuleEnds(w)
      keys   == {RuleKey(w, ends, n) : n \in 1 .. RuleCount(w)}
      token(encoded) == DecodeToken(codec, encoded)
      name(key) == IF operation = "substitution" THEN <<token(key.from), token(key.to)>>
                                                 ELSE token(key.from)
      last(key) == CHOOSE n \in 1 .. RuleCount(w) :
                      /\ RuleKey(w, ends, n) = key
                      /\ \A m \in (n + 1) .. RuleCount(w) : RuleKey(w, ends, m) # key
      own == {key \in keys : key.operation = operation}
  IN  [k \in {name(key) : key \in own} |->
         Cost(RuleCost(w, ends, last(CHOOSE key \in own : name(key) = k)))]

DecodeCustom(codec, w) ==
  [kind |-> "custom",
   defaults |-> [substitution |-> Cost(w[2]), deletion |-> Cost(w[3]), insertion |-> Cost(w[4])],
   substitutions |-> DecodedRules(codec, w, "substitution"),
   deletions     |-> DecodedRules(codec, w, "deletion"),
   insertions    |-> DecodedRules(codec, w, "insertion")]
==============================================================================
