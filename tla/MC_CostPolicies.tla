--------------------------- MODULE MC_CostPolicies --------------------------
(* Texts of which each tokenizer makes two tokens; embeddings whose lengths *)
(* and distances are whole numbers when 1.0 is 5; a codec that takes two    *)
(* characters for one.                                                      *)
EXTENDS CostPolicies

CONSTANTS a, b, sp

MCChars == {a, b, sp}
MCTexts == {<<a>>, <<sp>>, <<a, b>>, <<a, sp>>}

MCVectors == {<<>>, <<2>>, <<0, 0>>, <<Infinite, 1>>, <<2, 0>>, <<3, 4>>, <<-1, 0>>}

Given(s, d, i) == [substitution |-> s, deletion |-> d, insertion |-> i]
MCConfigs ==
  {[kind |-> "none"]}
    \cup [kind : {"embedding", "custom"}, version : {1},
          numbers : {Given(Absent, Absent, Absent), Given(2, NegativeZero, 6), Given(2, 3, 31)}]
    \cup [kind : {"embedding", "custom"}, version : {2}, numbers : {Given(1, 1, 1)}]

Exact   == [char \in MCChars |-> CASE char = a -> 1 [] char = b -> 2 [] OTHER -> 3]
Folding == [char \in MCChars |-> CASE char = a -> 1 [] char = b -> 1 [] OTHER -> 3]
MCCodecs == {Exact, Folding}
==============================================================================
