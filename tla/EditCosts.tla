------------------------------ MODULE EditCosts -------------------------------
(***************************************************************************)
(* The edit-cost policies and what they charge: unit costs, defaults with  *)
(* overrides per token, and cosine distances of embeddings (costs.rs,      *)
(* costs/levenshtein.rs, costs/custom.rs, costs/embedding.rs).             *)
(*                                                                         *)
(* A number is a word, the bits of an f32.  Word n is n up to MaxCost;     *)
(* NegativeZero is -0.0; every other word is negative or not finite.  Rows *)
(* of a store are integer vectors of length One, which stands for 1.0.     *)
(***************************************************************************)
EXTENDS Integers, Sequences, SequencesExt

CONSTANTS One,          (* Cost::ONE                                       *)
          MaxCost,      (* the largest cost                                *)
          NegativeZero, (* the word of -0.0                                *)
          Infinite,     (* an element of an embedding that is not finite   *)
          Damaged       (* a row that is no longer a normalized embedding  *)

ASSUME NumbersAssumption ==
  /\ One \in Nat \ {0} /\ MaxCost \in Nat /\ One <= MaxCost
  /\ NegativeZero \in Nat \ (0 .. MaxCost)

(* Cost::new accepts finite, non-negative numbers and makes -0.0 zero.     *)
IsCost(number) == number \in 0 .. MaxCost \/ number = NegativeZero
Cost(number)   == IF number = NegativeZero THEN 0 ELSE number

------------------------------------------------------------------------------
(* LevenshteinCosts. *)
Levenshtein == [kind |-> "levenshtein"]

(* CustomCosts::new, and the rules set afterwards. *)
NewCustom(costs) ==
  [kind |-> "custom", defaults |-> costs,
   substitutions |-> <<>>, deletions |-> <<>>, insertions |-> <<>>]

Set(overrides, key, cost) ==
  [k \in DOMAIN overrides \cup {key} |-> IF k = key THEN cost ELSE overrides[k]]

SetSubstitution(p, from, to, cost) ==
  IF from = to THEN p ELSE [p EXCEPT !.substitutions = Set(@, <<from, to>>, cost)]
SetDeletion(p, token, cost)  == [p EXCEPT !.deletions = Set(@, token, cost)]
SetInsertion(p, token, cost) == [p EXCEPT !.insertions = Set(@, token, cost)]

(* CosineEmbeddingCosts: the default substitution is that of a token       *)
(* without an embedding.                                                   *)
UnitCosts == [substitution |-> One, deletion |-> One, insertion |-> One]
NewCosine(rows, costs) == [kind |-> "embedding", defaults |-> costs, rows |-> rows]

------------------------------------------------------------------------------
(* EmbeddingStoreBuilder::insert: what it refuses, and the row it keeps.   *)
Dot(u, v) ==
  LET product[k \in 0 .. Len(u)] == IF k = 0 THEN 0 ELSE product[k - 1] + u[k] * v[k]
  IN  product[Len(u)]
Norm(v) == CHOOSE n \in 1 .. Dot(v, v) : n * n = Dot(v, v)

IsEmbedding(v, dimension) ==
  /\ Len(v) = dimension
  /\ Infinite \notin Range(v)
  /\ Range(v) # {0}

Unscaled(v)   == v             \* kept as it was given
Normalized(v) == [k \in DOMAIN v |-> (v[k] * One) \div Norm(v)]

------------------------------------------------------------------------------
(* EditCosts of each policy.  EmbeddingStore::get has no embedding for a   *)
(* row that is not valid.                                                  *)
LevenshteinSubstitution(from, to) == IF from = to THEN 0 ELSE One

Override(overrides, key, default) ==
  IF key \in DOMAIN overrides THEN overrides[key] ELSE default

CustomSubstitution(p, from, to) ==
  IF from = to THEN 0
  ELSE Override(p.substitutions, <<from, to>>, p.defaults.substitution)

Embedded(p) == {token \in DOMAIN p.rows : p.rows[token] # Damaged}

Clamp(distance) == IF distance < 0 THEN 0 ELSE IF distance > One THEN One ELSE distance
Distance(u, v)  == Clamp(One - Dot(u, v) \div One)

CosineSubstitution(p, from, to) ==
  IF from = to THEN 0
  ELSE IF {from, to} \subseteq Embedded(p) THEN Distance(p.rows[from], p.rows[to])
  ELSE p.defaults.substitution

------------------------------------------------------------------------------
(* RuntimeCosts: the policy of a run. *)
Substitution(p, from, to) ==
  CASE p.kind = "levenshtein" -> LevenshteinSubstitution(from, to)
    [] p.kind = "custom"      -> CustomSubstitution(p, from, to)
    [] p.kind = "embedding"   -> CosineSubstitution(p, from, to)

Deletion(p, token) ==
  CASE p.kind = "levenshtein" -> One
    [] p.kind = "custom"      -> Override(p.deletions, token, p.defaults.deletion)
    [] p.kind = "embedding"   -> p.defaults.deletion

Insertion(p, token) ==
  CASE p.kind = "levenshtein" -> One
    [] p.kind = "custom"      -> Override(p.insertions, token, p.defaults.insertion)
    [] p.kind = "embedding"   -> p.defaults.insertion

(* verify of each policy, and of the one of a run.                         *)
CustomVerifies(p) ==
  /\ \A pair \in DOMAIN p.substitutions : IsCost(p.substitutions[pair])
  /\ \A token \in DOMAIN p.deletions : IsCost(p.deletions[token])
  /\ \A token \in DOMAIN p.insertions : IsCost(p.insertions[token])
  /\ \A operation \in DOMAIN p.defaults : IsCost(p.defaults[operation])

CosineVerifies(p) == Embedded(p) = DOMAIN p.rows

Verifies(p) ==
  /\ p.kind = "custom" => CustomVerifies(p)
  /\ p.kind = "embedding" => CosineVerifies(p)
==============================================================================
