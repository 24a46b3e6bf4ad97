---------------------------- MODULE SearchInputs -----------------------------
(***************************************************************************)
(* What one range search is given: the engine's corpus and index, a query, *)
(* a cost policy, a threshold and a candidate limit.  They are variables   *)
(* chosen initially and never changed, so that one run covers a family.    *)
(*                                                                         *)
(* Symbols are naturals ordered as in the vocabulary; those of the corpus  *)
(* lie below those that only a query has.  Positions count from 1.         *)
(***************************************************************************)
EXTENDS Arithmetic, Sequences, FiniteSets, SequencesExt

CONSTANTS
  Symbols,       (* corpus symbols and query-only symbols                  *)
  Corpora,       (* corpora: sequences of data strings                     *)
  Queries,       (* encoded query strings                                  *)
  Policies,      (* cost policies                                          *)
  Thresholds,    (* inclusive distance thresholds                          *)
  Limits,        (* values of max_candidates                               *)
  Unlimited      (* max_candidates when none was set                       *)

(* EditCosts: each operation costs a finite value, and replacing a token   *)
(* by itself costs nothing; nothing else is required of a policy.          *)
ASSUME InputsAssumption ==
  /\ Symbols \subseteq Nat
  /\ IsFiniteSet(Symbols)
  /\ Corpora \subseteq Seq(Seq(Symbols))
  /\ Queries \subseteq Seq(Symbols)
  /\ \A c \in Policies :
        /\ DOMAIN c = {"deletion", "insertion", "substitution"}
        /\ c.deletion \in [Symbols -> Cost]
        /\ c.insertion \in [Symbols -> Cost]
        /\ c.substitution \in [Symbols \X Symbols -> Cost]
        /\ \A s \in Symbols : c.substitution[<<s, s>>] = 0
  /\ Thresholds \subseteq Cost
  /\ \A t \in Thresholds, q \in Queries : q # <<>> => Quotient(t, Len(q)) \in Cost
  /\ Limits \subseteq Nat \cup {Unlimited}
  /\ Unlimited \notin Nat

(* Costs in V add up exactly below M, and nothing that reaches M falls     *)
(* back below it: integers, or multiples of any other power of two, with   *)
(* M = 2^24 of them.  Where exact distances are promised, this is assumed. *)
SumsAreExact(V, M) ==
  /\ V \subseteq Distance /\ 0 \in V /\ M \in Nat
  /\ \A c \in Policies, s, t \in Symbols :
        c.deletion[s] \in V /\ c.insertion[s] \in V /\ c.substitution[<<s, t>>] \in V
  /\ \A x, y \in V :
        /\ Add(x, y) \in V /\ AddDistance(x, y) \in V
        /\ x + y < M  => Add(x, y) = x + y /\ AddDistance(x, y) = x + y
        /\ x + y >= M => Add(x, y) >= M /\ AddDistance(x, y) >= M
  /\ \A t \in Thresholds : t < M

VARIABLES corpus, query, costs, threshold, limit

(* What the phases of a search hand to each other. *)
VARIABLES
  stage,         (* where the search is                                    *)
  candidates     (* the anchors filtering generated, in order              *)

inputs == <<corpus, query, costs, threshold, limit>>

InputsInit ==
  /\ corpus \in Corpora
  /\ query \in Queries
  /\ costs \in Policies
  /\ threshold \in Thresholds
  /\ limit \in Limits
  /\ candidates = <<>>

InputsOK ==
  /\ corpus \in Corpora
  /\ query \in Queries
  /\ costs \in Policies
  /\ threshold \in Thresholds
  /\ limit \in Limits

------------------------------------------------------------------------------
(* PostingsIndex of the corpus: the places in (string, position) order,    *)
(* those a symbol occurs at, and the alphabet of the symbols that occur.   *)
Places == UNION {{<<id, p>> : p \in 1 .. Len(corpus[id])} : id \in DOMAIN corpus}

SymbolAt(place)   == corpus[place[1]][place[2]]

Postings(symbol)  == {place \in Places : SymbolAt(place) = symbol}
Frequency(symbol) == Cardinality(Postings(symbol))
Alphabet          == {SymbolAt(place) : place \in Places}

(* The edit operations of the policy. *)
Delete(symbol)       == costs.deletion[symbol]
Insert(symbol)       == costs.insertion[symbol]
Substitute(from, to) == costs.substitution[<<from, to>>]

(* The query positions, the strict bound of the inclusive threshold, and   *)
(* what it admits (search/bound.rs).                                       *)
Positions   == 1 .. Len(query)
Bound       == NextUp(threshold)
Admits(d)   == d < Bound

(* The budget left of the inclusive threshold instead of the bound. *)
InclusiveResidual(d) == Sub(threshold, d)

Residual(d) == Sub(Bound, d)
==============================================================================
