---------------------------- MODULE CostSnapshot -----------------------------
(***************************************************************************)
(* The cost snapshot directory of the command line: runs of `yurine costs` *)
(* that compile a policy into it, one after the other, and searches that   *)
(* open it meanwhile (cli/src/cost_snapshot.rs; build_costs of main.rs).   *)
(*                                                                         *)
(* The directory maps names to what their files hold; files are replaced   *)
(* whole, as SnapshotFile shows of write_file and as a rename does.        *)
(***************************************************************************)
EXTENDS Naturals

CONSTANTS MaxRuns,    (* bound on the runs of one behaviour                *)
          Searches,   (* processes that open the snapshot                  *)
          None        (* no file                                           *)

ASSUME RunsAssumption == MaxRuns \in Nat

(* A configuration compiles to one of these; the Levenshtein policy is what *)
(* a search uses without one.                                              *)
PolicyKinds == {"embedding", "custom"}
Tokenizers  == {"character", "whitespace"}
Names == {"costs", "store", "metadata", "costs.tmp", "store.tmp", "metadata.tmp"}

VARIABLES entry,      (* what the file of each name holds                  *)
          compile,    (* the current or last run                           *)
          search      (* each search: its tokenizer, what it has opened    *)

vars == <<entry, compile, search>>

(* Files name the run that wrote them.  The costs of an embedding policy   *)
(* hold no tokens, and so no tokenizer.                                    *)
Policy      == [run |-> compile.run, kind |-> compile.kind,
                tokenizer |-> IF compile.kind = "custom" THEN compile.tokenizer ELSE None]
Store       == [run |-> compile.run, tokenizer |-> compile.tokenizer]
Description == [kind |-> compile.kind, tokenizer |-> compile.tokenizer]

Init ==
  /\ entry = [name \in Names |-> None]
  /\ compile = [run |-> 0, kind |-> None, tokenizer |-> None, stage |-> "none"]
  /\ search \in [Searches -> {[stage |-> "idle", tokenizer |-> t, metadata |-> None,
                               store |-> None, policy |-> None] : t \in Tokenizers}]

------------------------------------------------------------------------------
(* cost_snapshot::save, a file at a time. *)
Start(kind, tokenizer) ==
  /\ compile.stage \in {"none", "ok", "failed"}
  /\ compile.run < MaxRuns
  /\ compile' = [run |-> compile.run + 1, kind |-> kind, tokenizer |-> tokenizer,
                 stage |-> "configured"]
  /\ UNCHANGED <<entry, search>>

Proceed(from, to) ==
  /\ compile.stage = from
  /\ compile' = [compile EXCEPT !.stage = to]
  /\ UNCHANGED search
Write(name, value) == entry' = [entry EXCEPT ![name] = value]
Rename(from, to)   == entry' = [entry EXCEPT ![to] = entry[from], ![from] = None]

WriteStore ==
  /\ compile.kind = "embedding"
  /\ Proceed("configured", "store written")
  /\ Write("store.tmp", Store)

WritePolicy ==
  /\ Proceed(IF compile.kind = "embedding" THEN "store written" ELSE "configured", "written")
  /\ Write("costs.tmp", Policy)

PublishPolicy ==
  /\ Proceed("written", "policy published")
  /\ Rename("costs.tmp", "costs")

PublishStore ==
  /\ compile.kind = "embedding"
  /\ Proceed("policy published", "published")
  /\ Rename("store.tmp", "store")

KeepStore ==                   \* the store of an earlier run left there
  /\ compile.kind # "embedding"
  /\ Proceed("policy published", "published")
  /\ UNCHANGED entry

RemoveStore ==
  /\ compile.kind # "embedding"
  /\ Proceed("policy published", "published")
  /\ Write("store", None)

WriteMetadata ==
  /\ Proceed("published", "described")
  /\ Write("metadata.tmp", Description)

PublishMetadata ==
  /\ Proceed("described", "ok")
  /\ Rename("metadata.tmp", "metadata")

Running == {"configured", "store written", "written", "policy published", "published",
            "described"}

(* A stage fails, or the process dies: nothing is removed. *)
Fail ==
  /\ compile.stage \in Running
  /\ compile' = [compile EXCEPT !.stage = "failed"]
  /\ UNCHANGED <<entry, search>>

------------------------------------------------------------------------------
(* cost_snapshot::open.  A file of another kind or codec is refused; so is *)
(* metadata that read_metadata cannot read, or of another tokenizer.       *)
Become(s, state) ==
  /\ search' = [search EXCEPT ![s] = state]
  /\ UNCHANGED <<entry, compile>>
Reject(s) == Become(s, [search[s] EXCEPT !.stage = "rejected"])

ReadMetadata(s) ==
  /\ search[s].stage = "idle"
  /\ IF entry["metadata"] = None \/ entry["metadata"].tokenizer # search[s].tokenizer
     THEN Reject(s)
     ELSE Become(s, [search[s] EXCEPT !.stage = "described", !.metadata = entry["metadata"]])

OpenStore(s) ==
  /\ search[s].stage = "described"
  /\ search[s].metadata.kind = "embedding"
  /\ search[s].store = None
  /\ IF entry["store"] = None \/ entry["store"].tokenizer # search[s].tokenizer
     THEN Reject(s)
     ELSE Become(s, [search[s] EXCEPT !.store = entry["store"]])

PolicyOfAnyKind(s) ==           \* whatever policy the file holds
  entry["costs"] # None

PolicyAgrees(s) ==
  /\ entry["costs"] # None
  /\ entry["costs"].kind = search[s].metadata.kind
  /\ entry["costs"].kind = "custom" => entry["costs"].tokenizer = search[s].tokenizer

OpenPolicy(s) ==
  /\ search[s].stage = "described"
  /\ search[s].metadata.kind = "embedding" => search[s].store # None
  /\ IF PolicyAgrees(s)
     THEN Become(s, [search[s] EXCEPT !.stage = "opened", !.policy = entry["costs"]])
     ELSE Reject(s)

Finish(s) ==
  /\ search[s].stage \in {"opened", "rejected"}
  /\ \E t \in Tokenizers :
       Become(s, [stage |-> "idle", tokenizer |-> t, metadata |-> None, store |-> None,
                  policy |-> None])

Next ==
  \/ \E kind \in PolicyKinds, t \in Tokenizers : Start(kind, t)
  \/ WriteStore \/ WritePolicy \/ PublishPolicy \/ PublishStore \/ RemoveStore
  \/ WriteMetadata \/ PublishMetadata \/ Fail
  \/ \E s \in Searches : ReadMetadata(s) \/ OpenStore(s) \/ OpenPolicy(s) \/ Finish(s)

Spec == Init /\ [][Next]_vars

------------------------------------------------------------------------------
(* A run that ends well leaves the snapshot it compiled, and a store next  *)
(* to an embedding policy only, whatever interrupted runs left there.      *)
SuccessIsUsable ==
  compile.stage = "ok" =>
     /\ entry["metadata"] = Description
     /\ entry["costs"] = Policy
     /\ entry["store"] = IF compile.kind = "embedding" THEN Store ELSE None

(* However publications were interrupted or overtaken, a search works with *)
(* a policy of the kind and the tokenizer the metadata announced, which is *)
(* that of its index.                                                      *)
OpensTheKindAnnounced ==
  \A s \in Searches :
     search[s].stage = "opened" =>
        /\ search[s].metadata.tokenizer = search[s].tokenizer
        /\ search[s].policy.kind = search[s].metadata.kind
        /\ search[s].policy.kind = "custom" => search[s].policy.tokenizer = search[s].tokenizer
        /\ search[s].policy.kind = "embedding" => search[s].store.tokenizer = search[s].tokenizer
==============================================================================
