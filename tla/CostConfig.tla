----------------------------- MODULE CostConfig ------------------------------
(***************************************************************************)
(* Loading a cost configuration: the configuration, then the lines of its  *)
(* data file, each an embedding of a token or a rule for one or two tokens *)
(* (cli/src/cost_config.rs).  Of the texts of JSON, what they say is kept. *)
(***************************************************************************)
EXTENDS EditCosts, Tokenization

CONSTANTS Configs,      (* configurations: kind, version, numbers          *)
          Texts,        (* texts given as tokens                           *)
          RuleNumbers,  (* the numbers rules give as costs                 *)
          Vectors,      (* the embeddings records give                     *)
          MaxLines,     (* bound on the lines of a data file               *)
          Absent        (* a field that is not given                       *)

ASSUME ConfigsAssumption ==
  /\ MaxLines \in Nat
  /\ \A c \in Configs : c.kind # "none" =>
        /\ c.kind \in {"embedding", "custom"}
        /\ DOMAIN c.numbers = {"substitution", "deletion", "insertion"}

VARIABLES tokenizer,    (* of the run                                      *)
          config,       (* the configuration                               *)
          lines,        (* the lines of its data file read so far          *)
          stage,        (* how far the policy has got                      *)
          policy        (* the policy                                      *)

loading == <<tokenizer, config, lines, stage, policy>>

NoPolicy == [kind |-> "none"]

(* "none" is a search without --costs. *)
LoadInit ==
  /\ tokenizer \in {"character", "whitespace"}
  /\ config \in Configs
  /\ lines = <<>>
  /\ stage = "configured"
  /\ policy = NoPolicy

(* A field that is left out is one. *)
Number(number) == IF number = Absent THEN One ELSE number
AreCosts(numbers) == \A field \in DOMAIN numbers : IsCost(Number(numbers[field]))
CostsOf(numbers)  == [field \in DOMAIN numbers |-> Cost(Number(numbers[field]))]

(* single_token: the text is one token, all of it. *)
IsSingleToken(text) ==
  LET tokens == Tokenize(tokenizer, text)
  IN  Len(tokens) = 1 /\ tokens[1].start = 0 /\ tokens[1].end = Len(Encode(text))
TokenOf(text) == Tokenize(tokenizer, text)[1].value

Load(s, p) == stage' = s /\ policy' = p

(* load, up to the data file: the defaults of custom costs are checked     *)
(* now, the costs of an embedding policy once its embeddings are read.     *)
ReadConfig ==
  /\ stage = "configured"
  /\ IF config.kind = "none" THEN Load("loaded", Levenshtein)
     ELSE IF config.version # 1 THEN Load("refused", policy)
     ELSE IF config.kind = "embedding" THEN Load("reading", NewCosine(<<>>, UnitCosts))
     ELSE IF AreCosts(config.numbers) THEN Load("reading", NewCustom(CostsOf(config.numbers)))
     ELSE Load("refused", policy)
  /\ UNCHANGED <<tokenizer, config, lines>>

ReadLine(line) ==
  /\ stage = "reading"
  /\ Len(lines) < MaxLines
  /\ lines' = Append(lines, line)
  /\ UNCHANGED <<tokenizer, config>>

(* load_embeddings: the first embedding sets the dimension; a token has    *)
(* one embedding.                                                          *)
Dimension(line) == Len(IF lines = <<>> THEN line.vector ELSE lines[1].vector)

AcceptsEmbedding(line) ==
  /\ IsSingleToken(line.text)
  /\ Dimension(line) # 0
  /\ IsEmbedding(line.vector, Dimension(line))
  /\ TokenOf(line.text) \notin DOMAIN policy.rows

ReadEmbedding(line) ==
  /\ policy.kind = "embedding"
  /\ ReadLine(line)
  /\ IF AcceptsEmbedding(line)
     THEN Load("reading", [policy EXCEPT !.rows = Set(@, TokenOf(line.text), Normalized(line.vector))])
     ELSE Load("refused", policy)

(* load_custom_costs: a rule is given once for its operation and tokens.   *)
RulesOf(operation, from, to) ==
  {k \in DOMAIN lines : /\ lines[k].operation = operation
                        /\ TokenOf(lines[k].from) = from /\ TokenOf(lines[k].to) = to}

IsRepeated(line) == RulesOf(line.operation, TokenOf(line.from), TokenOf(line.to)) # {}

AcceptsRule(line) ==
  /\ IsSingleToken(line.from) /\ IsSingleToken(line.to)
  /\ ~IsRepeated(line)
  /\ IsCost(line.cost)

WithRule(line) ==
  LET from == TokenOf(line.from)
      to   == TokenOf(line.to)
  IN  CASE line.operation = "substitution" -> SetSubstitution(policy, from, to, Cost(line.cost))
        [] line.operation = "deletion"     -> SetDeletion(policy, from, Cost(line.cost))
        [] line.operation = "insertion"    -> SetInsertion(policy, from, Cost(line.cost))

ReadRule(line) ==
  /\ policy.kind = "custom"
  /\ ReadLine(line)
  /\ IF AcceptsRule(line) THEN Load("reading", WithRule(line)) ELSE Load("refused", policy)

(* A line cannot be read, or is not what a line must be. *)
ReadUnusable ==
  /\ stage = "reading"
  /\ Load("refused", policy)
  /\ UNCHANGED <<tokenizer, config, lines>>

EndOfFile ==
  /\ stage = "reading"
  /\ IF policy.kind = "custom" THEN Load("loaded", policy)
     ELSE IF lines # <<>> /\ AreCosts(config.numbers)
     THEN Load("loaded", [policy EXCEPT !.defaults = CostsOf(config.numbers)])
     ELSE Load("refused", policy)
  /\ UNCHANGED <<tokenizer, config, lines>>

Embeddings == [text : Texts, vector : Vectors]
Rules ==
  [operation : {"substitution"}, from : Texts, to : Texts, cost : RuleNumbers]
    \cup {[operation |-> operation, from |-> text, to |-> text, cost |-> cost] :
            operation \in {"deletion", "insertion"}, text \in Texts, cost \in RuleNumbers}

LoadNext ==
  \/ ReadConfig \/ ReadUnusable \/ EndOfFile
  \/ \E line \in Embeddings : ReadEmbedding(line)
  \/ \E line \in Rules : ReadRule(line)
==============================================================================
