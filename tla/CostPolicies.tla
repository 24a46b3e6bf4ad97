---------------------------- MODULE CostPolicies -----------------------------
(***************************************************************************)
(* The life of an edit-cost policy: loaded from a configuration, used by a *)
(* search or compiled into files, whose words and rows may be damaged, and *)
(* opened by a search, which may verify it (search_index and build_costs   *)
(* of cli/src/main.rs, cli/src/cost_snapshot.rs).  The files themselves    *)
(* are replaced as CostSnapshot says; here they are those of one run.      *)
(***************************************************************************)
EXTENDS CostConfig, CostFiles

CONSTANTS Codecs,       (* the codecs: a word for every character          *)
          DamagedWords, (* the words damage leaves                         *)
          MaxDamage     (* bound on the words damaged                      *)

ASSUME CodecsAssumption == Codecs \subseteq [Chars -> 0 .. MaxWord]
ASSUME TextsAssumption  == Texts \subseteq Seq(Chars)
ASSUME DamageAssumption == DamagedWords \subseteq 0 .. MaxWord

VARIABLES codec,        (* of the run                                      *)
          words,        (* the saved policy                                *)
          rows,         (* the saved embeddings                            *)
          damage        (* words damaged so far                            *)

files == <<codec, words, rows, damage>>
policyVars == <<loading, files>>

PolicyInit ==
  /\ LoadInit
  /\ codec \in Codecs
  /\ words = <<>> /\ rows = <<>> /\ damage = 0

------------------------------------------------------------------------------
(* cost_snapshot::save: the embeddings and then the policy.  The run ends. *)
(* A Levenshtein policy, which no configuration gives, is one the caller   *)
(* made.                                                                   *)
CanSave(p) ==
  CASE p.kind = "embedding" -> CosineVerifies(p) /\ RoundTrip(codec, DOMAIN p.rows)
    [] p.kind = "custom"    -> RoundTrip(codec, CustomTokens(p))
    [] OTHER                -> TRUE

WordsOf(p) ==
  CASE p.kind = "embedding" -> EncodeCosine(p)
    [] p.kind = "custom"    -> EncodeCustom(codec, p)
    [] OTHER                -> EncodeLevenshtein

Save ==
  /\ stage = "loaded"
  /\ IF CanSave(policy)
     THEN /\ words' = WordsOf(policy)
          /\ rows' = IF policy.kind = "embedding" THEN policy.rows ELSE <<>>
          /\ Load("saved", [kind |-> policy.kind])
     ELSE Load("unsaved", NoPolicy) /\ UNCHANGED <<words, rows>>
  /\ UNCHANGED <<tokenizer, config, lines, codec, damage>>

(* A word or a row of the files is damaged.  Nothing is said of a policy   *)
(* with damaged words that its configuration would matter for.             *)
DamageWord ==
  /\ stage = "saved"
  /\ damage < MaxDamage
  /\ \E n \in DOMAIN words : \E word \in DamagedWords \ {words[n]} :
        words' = [words EXCEPT ![n] = word]
  /\ damage' = damage + 1
  /\ config' = [kind |-> config.kind] /\ lines' = <<>>
  /\ UNCHANGED <<tokenizer, stage, policy, codec, rows>>

DamageRow ==
  /\ stage = "saved"
  /\ \E token \in DOMAIN rows :
        /\ rows[token] # Damaged
        /\ rows' = [rows EXCEPT ![token] = Damaged]
  /\ UNCHANGED <<loading, codec, words, damage>>

------------------------------------------------------------------------------
(* cost_snapshot::open, with the kind its metadata gives. *)
Readable ==
  CASE policy.kind = "embedding" -> CosineReadable(words)
    [] policy.kind = "custom"    -> CustomReadable(codec, tokenizer, words)
    [] OTHER                     -> TRUE

Opened ==
  CASE policy.kind = "embedding" -> DecodeCosine(words, rows)
    [] policy.kind = "custom"    -> DecodeCustom(codec, words)
    [] OTHER                     -> Levenshtein

Open ==
  /\ stage = "saved"
  /\ IF Readable THEN Load("opened", Opened) ELSE Load("corrupt", NoPolicy)
  /\ UNCHANGED <<tokenizer, config, lines, files>>

(* search --verify. *)
Verify ==
  /\ stage \in {"loaded", "opened"}
  /\ Load(IF Verifies(policy) THEN "verified" ELSE "invalid", policy)
  /\ UNCHANGED <<tokenizer, config, lines, files>>

PolicyNext ==
  \/ LoadNext /\ UNCHANGED files
  \/ Save \/ DamageWord \/ DamageRow \/ Open \/ Verify

PolicySpec == PolicyInit /\ [][PolicyNext]_policyVars

------------------------------------------------------------------------------
(* What the configuration says an operation costs.                         *)
Tokens == {TokenOf(text) : text \in {t \in Texts : IsSingleToken(t)}}

Default(field)  == Cost(Number(config.numbers[field]))
Ruled(operation, from, to) ==
  LET ruled == RulesOf(operation, from, to)
  IN  IF ruled = {} THEN Default(operation) ELSE Cost(lines[CHOOSE k \in ruled : TRUE].cost)

(* clamp(1 - cosine, 0, 1), of the vectors as they were given. *)
IsCosineDistance(cost, u, v) ==
  /\ cost \in 0 .. One
  /\ (One - cost) * Norm(u) * Norm(v) = One * (IF Dot(u, v) < 0 THEN 0 ELSE Dot(u, v))

VectorsOf(token) == {lines[k].vector : k \in {j \in DOMAIN lines : TokenOf(lines[j].text) = token}}
Lost(token) == token \in DOMAIN rows /\ rows[token] = Damaged

AsConfigured(from, to, cost) ==
  IF from = to THEN cost = 0
  ELSE CASE config.kind = "none"   -> cost = One
         [] config.kind = "custom" -> cost = Ruled("substitution", from, to)
         [] config.kind = "embedding" ->
              IF \E token \in {from, to} : Lost(token) \/ VectorsOf(token) = {}
              THEN cost = Default("substitution")
              ELSE \E u \in VectorsOf(from), v \in VectorsOf(to) : IsCosineDistance(cost, u, v)

ConfiguredSingle(operation, token) ==
  CASE config.kind = "none"   -> One
    [] config.kind = "custom" -> Ruled(operation, token, token)
    [] OTHER                  -> Default(operation)

InUse == stage \in {"loaded", "opened", "verified"}

(* A search charges what the configuration says, whether it loads the      *)
(* configuration itself or opens the files compiled from it: every rule    *)
(* for its tokens as the tokenizer splits them, defaults elsewhere, and    *)
(* cosine distances of the given embeddings.  Files that nothing damaged   *)
(* are never refused.  A damaged row only makes its token one without an   *)
(* embedding, and not in a search that verifies.                           *)
ChargesAsConfigured ==
  damage = 0 =>
     /\ stage # "corrupt"
     /\ stage = "verified" => \A token \in Tokens : ~Lost(token)
     /\ InUse => \A s, t \in Tokens :
          /\ AsConfigured(s, t, Substitution(policy, s, t))
          /\ Deletion(policy, s) = ConfiguredSingle("deletion", s)
          /\ Insertion(policy, s) = ConfiguredSingle("insertion", s)

(* Custom costs opened from a damaged file charge what the file says, each *)
(* of its rules: none is dropped, merged with another or read twice.       *)
NoRuleIsLost ==
  InUse /\ policy.kind = "custom" /\ words # <<>> =>
     LET ends == RuleEnds(words)
     IN  /\ Size(policy.substitutions) = PairCount(words)
         /\ Size(policy.deletions) = DeletionCount(words)
         /\ Size(policy.insertions) = InsertionCount(words)
         /\ \A n \in 1 .. RuleCount(words) :
              LET key  == RuleKey(words, ends, n)
                  from == DecodeToken(codec, key.from)
                  to   == DecodeToken(codec, key.to)
                  cost == Cost(RuleCost(words, ends, n))
              IN  CASE key.operation = "substitution" -> Substitution(policy, from, to) = cost
                    [] key.operation = "deletion"     -> Deletion(policy, from) = cost
                    [] OTHER                          -> Insertion(policy, from) = cost
==============================================================================
