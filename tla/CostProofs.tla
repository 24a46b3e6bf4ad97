------------------------------ MODULE CostProofs ------------------------------
(***************************************************************************)
(* Cost policies and their files, in two parts.                            *)
(*                                                                         *)
(* The directory of a cost snapshot, for any number of runs and searches:  *)
(* what a run has put in place at each of its stages, and what a search    *)
(* has checked at each of its own (CostSnapshot).                          *)
(*                                                                         *)
(* The words of a policy's file and the life of a policy, for any texts,   *)
(* codecs, configurations and damage (CostPolicies).                       *)
(***************************************************************************)
EXTENDS CostSnapshot, CostPolicies, CommonLemmas

(***************************************************************************)
(* Part 1.  The directory of a snapshot.                                   *)
(***************************************************************************)
Descriptions == [kind : PolicyKinds, tokenizer : Tokenizers]
Stores       == [run : Nat, tokenizer : Tokenizers]
PolicyFiles  == [run : Nat, kind : PolicyKinds, tokenizer : Tokenizers \cup {None}]

EntriesOK ==
  /\ entry \in [Names -> Descriptions \cup Stores \cup PolicyFiles \cup {None}]
  /\ {entry["metadata"], entry["metadata.tmp"]} \in SUBSET (Descriptions \cup {None})
  /\ {entry["store"], entry["store.tmp"]} \in SUBSET (Stores \cup {None})
  /\ {entry["costs"], entry["costs.tmp"]} \in SUBSET (PolicyFiles \cup {None})

CompileOK ==
  /\ compile \in [run : Nat, kind : PolicyKinds \cup {None}, tokenizer : Tokenizers \cup {None},
                  stage : Running \cup {"none", "ok", "failed"}]
  /\ compile.stage \in Running \cup {"ok"} =>
        compile.kind \in PolicyKinds /\ compile.tokenizer \in Tokenizers

SearchOK ==
  search \in [Searches -> [stage : {"idle", "described", "opened", "rejected"},
                           tokenizer : Tokenizers,
                           metadata : Descriptions \cup {None},
                           store : Stores \cup {None},
                           policy : PolicyFiles \cup {None}]]

(* What the current run has in place: its files under temporary names,     *)
(* then under their own, until the description says what they are.         *)
InPlace ==
  /\ compile.stage = "store written" => compile.kind = "embedding"
  /\ compile.stage \in {"store written", "written", "policy published"}
        /\ compile.kind = "embedding" => entry["store.tmp"] = Store
  /\ compile.stage = "written" => entry["costs.tmp"] = Policy
  /\ compile.stage \in {"policy published", "published", "described"} => entry["costs"] = Policy
  /\ compile.stage \in {"published", "described"} =>
        entry["store"] = IF compile.kind = "embedding" THEN Store ELSE None
  /\ compile.stage = "described" => entry["metadata.tmp"] = Description

(* What a search has opened belongs to its tokenizer and to what the       *)
(* metadata it read announced, whatever the directory holds by now.        *)
OpenedAgrees ==
  \A s \in Searches :
     /\ search[s].stage = "idle" => search[s].store = None
     /\ search[s].stage \in {"described", "opened"} =>
           /\ search[s].metadata.tokenizer = search[s].tokenizer
           /\ search[s].store # None => search[s].store.tokenizer = search[s].tokenizer
     /\ search[s].stage = "opened" /\ search[s].metadata.kind = "embedding" =>
           search[s].store # None

CostInv ==
  /\ EntriesOK
  /\ CompileOK
  /\ SearchOK
  /\ InPlace
  /\ OpenedAgrees
  /\ SuccessIsUsable
  /\ OpensTheKindAnnounced

LEMMA InitialDirectory == Init => CostInv
<1>. SUFFICES ASSUME Init PROVE CostInv
  OBVIOUS
<1>1. EntriesOK
  BY DEF Init, EntriesOK, Names
<1>2. CompileOK /\ InPlace /\ SuccessIsUsable
  BY DEF Init, CompileOK, InPlace, SuccessIsUsable, Running
<1>3. \A s \in Searches : search[s].stage = "idle" /\ search[s].store = None
  BY DEF Init
<1>4. SearchOK
  BY DEF Init, SearchOK
<1>5. OpenedAgrees /\ OpensTheKindAnnounced
  BY <1>3 DEF OpenedAgrees, OpensTheKindAnnounced
<1>. QED  BY <1>1, <1>2, <1>4, <1>5 DEF CostInv

------------------------------------------------------------------------------
(* A step of a run changes names and its own stage; what a search has open *)
(* is not looked up again.                                                 *)
LEMMA RunStep ==
  ASSUME CostInv, UNCHANGED search, EntriesOK', CompileOK', InPlace', SuccessIsUsable'
  PROVE  CostInv'
BY DEF CostInv, SearchOK, OpenedAgrees, OpensTheKindAnnounced

LEMMA FilesOfRun ==
  ASSUME CostInv, compile.stage \in Running
  PROVE  Policy \in PolicyFiles /\ Store \in Stores /\ Description \in Descriptions
BY DEF CostInv, CompileOK, Policy, Store, Description, PolicyFiles, Stores, Descriptions

(* A stage of the run: the stage changes and nothing else about the run.   *)
LEMMA ProceedFacts ==
  ASSUME CostInv, NEW from \in Running, NEW to \in Running \cup {"ok"}, Proceed(from, to)
  PROVE  /\ CompileOK'
         /\ compile.stage = from /\ compile'.stage = to
         /\ compile'.kind = compile.kind
         /\ Policy' = Policy /\ Store' = Store /\ Description' = Description
         /\ UNCHANGED search
<1>1. compile' = [compile EXCEPT !.stage = to] /\ compile.stage = from /\ UNCHANGED search
  BY DEF Proceed
<1>2. compile'.run = compile.run /\ compile'.kind = compile.kind
      /\ compile'.tokenizer = compile.tokenizer /\ compile'.stage = to
  BY <1>1 DEF CostInv, CompileOK
<1>3. CompileOK'
  BY <1>1, <1>2 DEF CostInv, CompileOK
<1>. QED  BY <1>1, <1>2, <1>3 DEF Policy, Store, Description

(* What writing and renaming do to the names.                              *)
LEMMA WriteFacts ==
  ASSUME CostInv, NEW name \in Names, NEW value, Write(name, value)
  PROVE  /\ DOMAIN entry' = Names /\ entry' = [n \in Names |-> entry'[n]]
         /\ \A n \in Names : entry'[n] = IF n = name THEN value ELSE entry[n]
BY DEF Write, CostInv, EntriesOK

LEMMA RenameFacts ==
  ASSUME CostInv, NEW from \in Names, NEW to \in Names, from # to, Rename(from, to)
  PROVE  /\ DOMAIN entry' = Names /\ entry' = [n \in Names |-> entry'[n]]
         /\ \A n \in Names : entry'[n] = IF n = to THEN entry[from]
                                         ELSE IF n = from THEN None ELSE entry[n]
BY DEF Rename, CostInv, EntriesOK

LEMMA WriteStep ==
  ASSUME CostInv, WriteStore \/ WritePolicy \/ WriteMetadata \/ RemoveStore
  PROVE  CostInv'
<1>1. CASE WriteStore
  <2>1. /\ Proceed("configured", "store written") /\ Write("store.tmp", Store)
        /\ compile.kind = "embedding"
    BY <1>1 DEF WriteStore
  <2>2. /\ CompileOK' /\ compile.stage = "configured" /\ compile'.stage = "store written"
        /\ compile'.kind = compile.kind
        /\ Policy' = Policy /\ Store' = Store /\ Description' = Description
        /\ UNCHANGED search
    BY <2>1, ProceedFacts DEF Running
  <2>3. /\ entry' = [n \in Names |-> entry'[n]]
        /\ \A n \in Names : entry'[n] = IF n = "store.tmp" THEN Store ELSE entry[n]
    BY <2>1, WriteFacts DEF Names
  <2>4. Store \in Stores
    BY <2>2, FilesOfRun DEF Running
  <2>5. EntriesOK'
    BY <2>3, <2>4 DEF CostInv, EntriesOK, Names
  <2>6. InPlace' /\ SuccessIsUsable'
    BY <2>1, <2>2, <2>3 DEF InPlace, SuccessIsUsable, Names
  <2>. QED  BY <2>2, <2>5, <2>6, RunStep
<1>2. CASE WritePolicy
  <2>. DEFINE from == IF compile.kind = "embedding" THEN "store written" ELSE "configured"
  <2>1. Proceed(from, "written") /\ Write("costs.tmp", Policy)
    BY <1>2 DEF WritePolicy
  <2>2. /\ CompileOK' /\ compile.stage = from /\ compile'.stage = "written"
        /\ compile'.kind = compile.kind
        /\ Policy' = Policy /\ Store' = Store /\ Description' = Description
        /\ UNCHANGED search
    <3>1. from \in Running
      BY DEF Running
    <3>. HIDE DEF from
    <3>. QED  BY <2>1, <3>1, ProceedFacts DEF Running
  <2>3. /\ entry' = [n \in Names |-> entry'[n]]
        /\ \A n \in Names : entry'[n] = IF n = "costs.tmp" THEN Policy ELSE entry[n]
    BY <2>1, WriteFacts DEF Names
  <2>4. Policy \in PolicyFiles
    BY <2>2, FilesOfRun DEF Running
  <2>5. EntriesOK'
    BY <2>3, <2>4 DEF CostInv, EntriesOK, Names
  <2>6. InPlace' /\ SuccessIsUsable'
    BY <2>2, <2>3 DEF CostInv, InPlace, SuccessIsUsable, Names
  <2>. QED  BY <2>2, <2>5, <2>6, RunStep
<1>3. CASE WriteMetadata
  <2>1. Proceed("published", "described") /\ Write("metadata.tmp", Description)
    BY <1>3 DEF WriteMetadata
  <2>2. /\ CompileOK' /\ compile.stage = "published" /\ compile'.stage = "described"
        /\ compile'.kind = compile.kind
        /\ Policy' = Policy /\ Store' = Store /\ Description' = Description
        /\ UNCHANGED search
    BY <2>1, ProceedFacts DEF Running
  <2>3. /\ entry' = [n \in Names |-> entry'[n]]
        /\ \A n \in Names : entry'[n] = IF n = "metadata.tmp" THEN Description ELSE entry[n]
    BY <2>1, WriteFacts DEF Names
  <2>4. Description \in Descriptions
    BY <2>2, FilesOfRun DEF Running
  <2>5. EntriesOK'
    BY <2>3, <2>4 DEF CostInv, EntriesOK, Names
  <2>6. InPlace' /\ SuccessIsUsable'
    BY <2>2, <2>3 DEF CostInv, InPlace, SuccessIsUsable, Names
  <2>. QED  BY <2>2, <2>5, <2>6, RunStep
<1>4. CASE RemoveStore
  <2>1. Proceed("policy published", "published") /\ Write("store", None)
        /\ compile.kind # "embedding"
    BY <1>4 DEF RemoveStore
  <2>2. /\ CompileOK' /\ compile.stage = "policy published" /\ compile'.stage = "published"
        /\ compile'.kind = compile.kind
        /\ Policy' = Policy /\ Store' = Store /\ Description' = Description
        /\ UNCHANGED search
    BY <2>1, ProceedFacts DEF Running
  <2>3. /\ entry' = [n \in Names |-> entry'[n]]
        /\ \A n \in Names : entry'[n] = IF n = "store" THEN None ELSE entry[n]
    BY <2>1, WriteFacts DEF Names
  <2>5. EntriesOK'
    BY <2>3 DEF CostInv, EntriesOK, Names
  <2>6. InPlace' /\ SuccessIsUsable'
    BY <2>1, <2>2, <2>3 DEF CostInv, InPlace, SuccessIsUsable, Names
  <2>. QED  BY <2>2, <2>5, <2>6, RunStep
<1>. QED  BY <1>1, <1>2, <1>3, <1>4

LEMMA PublishStep ==
  ASSUME CostInv, PublishPolicy \/ PublishStore \/ PublishMetadata
  PROVE  CostInv'
<1>1. CASE PublishPolicy
  <2>1. Proceed("written", "policy published") /\ Rename("costs.tmp", "costs")
    BY <1>1 DEF PublishPolicy
  <2>2. /\ CompileOK' /\ compile.stage = "written" /\ compile'.stage = "policy published"
        /\ compile'.kind = compile.kind
        /\ Policy' = Policy /\ Store' = Store /\ Description' = Description
        /\ UNCHANGED search
    BY <2>1, ProceedFacts DEF Running
  <2>3. /\ entry' = [n \in Names |-> entry'[n]]
        /\ \A n \in Names : entry'[n] = IF n = "costs" THEN entry["costs.tmp"]
                                        ELSE IF n = "costs.tmp" THEN None ELSE entry[n]
    BY <2>1, RenameFacts DEF Names
  <2>4. EntriesOK'
    BY <2>3 DEF CostInv, EntriesOK, Names
  <2>5. InPlace' /\ SuccessIsUsable'
    BY <2>2, <2>3 DEF CostInv, InPlace, SuccessIsUsable, Names
  <2>. QED  BY <2>2, <2>4, <2>5, RunStep
<1>2. CASE PublishStore
  <2>1. Proceed("policy published", "published") /\ Rename("store.tmp", "store")
        /\ compile.kind = "embedding"
    BY <1>2 DEF PublishStore
  <2>2. /\ CompileOK' /\ compile.stage = "policy published" /\ compile'.stage = "published"
        /\ compile'.kind = compile.kind
        /\ Policy' = Policy /\ Store' = Store /\ Description' = Description
        /\ UNCHANGED search
    BY <2>1, ProceedFacts DEF Running
  <2>3. /\ entry' = [n \in Names |-> entry'[n]]
        /\ \A n \in Names : entry'[n] = IF n = "store" THEN entry["store.tmp"]
                                        ELSE IF n = "store.tmp" THEN None ELSE entry[n]
    BY <2>1, RenameFacts DEF Names
  <2>4. EntriesOK'
    BY <2>3 DEF CostInv, EntriesOK, Names
  <2>5. InPlace' /\ SuccessIsUsable'
    BY <2>1, <2>2, <2>3 DEF CostInv, InPlace, SuccessIsUsable, Names
  <2>. QED  BY <2>2, <2>4, <2>5, RunStep
<1>3. CASE PublishMetadata
  <2>1. Proceed("described", "ok") /\ Rename("metadata.tmp", "metadata")
    BY <1>3 DEF PublishMetadata
  <2>2. /\ CompileOK' /\ compile.stage = "described" /\ compile'.stage = "ok"
        /\ compile'.kind = compile.kind
        /\ Policy' = Policy /\ Store' = Store /\ Description' = Description
        /\ UNCHANGED search
    BY <2>1, ProceedFacts DEF Running
  <2>3. /\ entry' = [n \in Names |-> entry'[n]]
        /\ \A n \in Names : entry'[n] = IF n = "metadata" THEN entry["metadata.tmp"]
                                        ELSE IF n = "metadata.tmp" THEN None ELSE entry[n]
    BY <2>1, RenameFacts DEF Names
  <2>4. EntriesOK'
    BY <2>3 DEF CostInv, EntriesOK, Names
  <2>5. InPlace' /\ SuccessIsUsable'
    BY <2>2, <2>3 DEF CostInv, InPlace, SuccessIsUsable, Names
  <2>. QED  BY <2>2, <2>4, <2>5, RunStep
<1>. QED  BY <1>1, <1>2, <1>3

LEMMA StartOrFailStep ==
  ASSUME CostInv, (\E kind \in PolicyKinds, t \in Tokenizers : Start(kind, t)) \/ Fail
  PROVE  CostInv'
<1>1. UNCHANGED <<entry, search>> /\ compile'.stage \in {"configured", "failed"} /\ CompileOK'
  <2>1. CASE \E kind \in PolicyKinds, t \in Tokenizers : Start(kind, t)
    <3>1. PICK kind \in PolicyKinds, t \in Tokenizers : Start(kind, t)
      BY <2>1
    <3>2. /\ compile' = [run |-> compile.run + 1, kind |-> kind, tokenizer |-> t,
                         stage |-> "configured"]
          /\ compile.run \in Nat /\ compile.run + 1 \in Nat
          /\ UNCHANGED <<entry, search>>
      BY <3>1 DEF CostInv, Start, CompileOK
    <3>3. CompileOK'
      BY <3>2 DEF CompileOK, Running
    <3>. QED  BY <3>2, <3>3
  <2>2. CASE Fail
    <3>1. compile' = [compile EXCEPT !.stage = "failed"]
      BY <2>2 DEF Fail
    <3>2. compile'.stage = "failed" /\ CompileOK'
      BY <3>1 DEF CostInv, CompileOK, Running
    <3>. QED  BY <2>2, <3>2 DEF Fail
  <2>. QED  BY <2>1, <2>2
<1>2. EntriesOK' /\ InPlace' /\ SuccessIsUsable'
  BY <1>1 DEF CostInv, EntriesOK, InPlace, SuccessIsUsable
<1>. QED  BY <1>1, <1>2, RunStep

------------------------------------------------------------------------------
(* A step of a search changes what that search has open, and has to leave  *)
(* it as SearchStates and Agrees say.                                      *)
SearchStates == [stage : {"idle", "described", "opened", "rejected"}, tokenizer : Tokenizers,
                 metadata : Descriptions \cup {None}, store : Stores \cup {None},
                 policy : PolicyFiles \cup {None}]

Agrees(state) ==
  /\ state.stage = "idle" => state.store = None
  /\ state.stage \in {"described", "opened"} =>
        /\ state.metadata.tokenizer = state.tokenizer
        /\ state.store # None => state.store.tokenizer = state.tokenizer
  /\ state.stage = "opened" =>
        /\ state.metadata.kind = "embedding" => state.store # None
        /\ state.policy.kind = state.metadata.kind
        /\ state.policy.kind = "custom" => state.policy.tokenizer = state.tokenizer

LEMMA BecomeStep ==
  ASSUME CostInv, NEW s \in Searches, NEW state \in SearchStates, Agrees(state), Become(s, state)
  PROVE  CostInv'
<1>1. UNCHANGED <<entry, compile>>
  BY DEF Become
<1>2. EntriesOK' /\ CompileOK' /\ InPlace' /\ SuccessIsUsable'
  BY <1>1 DEF CostInv, EntriesOK, CompileOK, InPlace, SuccessIsUsable, Policy, Store, Description
<1>3. search' = [search EXCEPT ![s] = state] /\ search \in [Searches -> SearchStates]
  BY DEF Become, CostInv, SearchOK, SearchStates
<1>4. SearchOK'
  BY <1>3 DEF SearchOK, SearchStates
<1>5. \A q \in Searches : search'[q] = IF q = s THEN state ELSE search[q]
  BY <1>3
<1>6. OpenedAgrees'
  <2>. SUFFICES ASSUME NEW q \in Searches
       PROVE  /\ search'[q].stage = "idle" => search'[q].store = None
              /\ search'[q].stage \in {"described", "opened"} =>
                   /\ search'[q].metadata.tokenizer = search'[q].tokenizer
                   /\ search'[q].store # None => search'[q].store.tokenizer = search'[q].tokenizer
              /\ search'[q].stage = "opened" /\ search'[q].metadata.kind = "embedding" =>
                   search'[q].store # None
    BY DEF OpenedAgrees
  <2>1. CASE q = s
    BY <2>1, <1>5 DEF Agrees
  <2>2. CASE q # s
    BY <2>2, <1>5 DEF CostInv, OpenedAgrees
  <2>. QED  BY <2>1, <2>2
<1>7. OpensTheKindAnnounced'
  <2>. SUFFICES ASSUME NEW q \in Searches, search'[q].stage = "opened"
       PROVE  /\ search'[q].metadata.tokenizer = search'[q].tokenizer
              /\ search'[q].policy.kind = search'[q].metadata.kind
              /\ search'[q].policy.kind = "custom" =>
                   search'[q].policy.tokenizer = search'[q].tokenizer
              /\ search'[q].policy.kind = "embedding" =>
                   search'[q].store.tokenizer = search'[q].tokenizer
    BY DEF OpensTheKindAnnounced
  <2>1. CASE q = s
    BY <2>1, <1>5 DEF Agrees
  <2>2. CASE q # s
    BY <2>2, <1>5 DEF CostInv, OpensTheKindAnnounced
  <2>. QED  BY <2>1, <2>2
<1>. QED  BY <1>2, <1>4, <1>6, <1>7 DEF CostInv

LEMMA SearchFacts ==
  ASSUME CostInv, NEW s \in Searches
  PROVE  /\ search[s] \in SearchStates
         /\ search[s].stage \in {"idle", "described"} => Agrees(search[s])
         /\ [search[s] EXCEPT !.stage = "rejected"] \in SearchStates
         /\ Agrees([search[s] EXCEPT !.stage = "rejected"])
<1>1. search[s] \in SearchStates
  BY DEF CostInv, SearchOK, SearchStates
<1>2. search[s].stage \in {"idle", "described"} => Agrees(search[s])
  BY DEF CostInv, OpenedAgrees, Agrees
<1>3. [search[s] EXCEPT !.stage = "rejected"] \in SearchStates
  BY <1>1 DEF SearchStates
<1>4. Agrees([search[s] EXCEPT !.stage = "rejected"])
  BY <1>1 DEF SearchStates, Agrees
<1>. QED  BY <1>1, <1>2, <1>3, <1>4

LEMMA RejectStep ==
  ASSUME CostInv, NEW s \in Searches, Reject(s)
  PROVE  CostInv'
BY SearchFacts, BecomeStep DEF Reject

LEMMA SearchStep ==
  ASSUME CostInv, NEW s \in Searches,
         ReadMetadata(s) \/ OpenStore(s) \/ OpenPolicy(s) \/ Finish(s)
  PROVE  CostInv'
<1>0. search[s] \in SearchStates
  BY SearchFacts
<1>1. /\ entry["metadata"] \in Descriptions \cup {None}
      /\ entry["store"] \in Stores \cup {None}
      /\ entry["costs"] \in PolicyFiles \cup {None}
  BY DEF CostInv, EntriesOK
<1>2. CASE Reject(s)
  BY <1>2, RejectStep
<1>3. CASE ReadMetadata(s) /\ ~Reject(s)
  <2>. DEFINE state == [search[s] EXCEPT !.stage = "described", !.metadata = entry["metadata"]]
  <2>1. /\ Become(s, state) /\ search[s].stage = "idle" /\ entry["metadata"] # None
        /\ entry["metadata"].tokenizer = search[s].tokenizer
    BY <1>3 DEF ReadMetadata
  <2>2. Agrees(search[s])
    BY <2>1, SearchFacts
  <2>3. state \in SearchStates
    BY <1>0, <1>1, <2>1 DEF SearchStates
  <2>4. Agrees(state)
    BY <1>0, <2>1, <2>2 DEF SearchStates, Agrees
  <2>. QED  BY <2>1, <2>3, <2>4, BecomeStep
<1>4. CASE OpenStore(s) /\ ~Reject(s)
  <2>. DEFINE state == [search[s] EXCEPT !.store = entry["store"]]
  <2>1. /\ Become(s, state) /\ search[s].stage = "described" /\ entry["store"] # None
        /\ entry["store"].tokenizer = search[s].tokenizer
    BY <1>4 DEF OpenStore
  <2>2. Agrees(search[s])
    BY <2>1, SearchFacts
  <2>3. state \in SearchStates
    BY <1>0, <1>1, <2>1 DEF SearchStates
  <2>4. Agrees(state)
    BY <1>0, <2>1, <2>2 DEF SearchStates, Agrees
  <2>. QED  BY <2>1, <2>3, <2>4, BecomeStep
<1>5. CASE OpenPolicy(s) /\ ~Reject(s)
  <2>. DEFINE state == [search[s] EXCEPT !.stage = "opened", !.policy = entry["costs"]]
  <2>1. /\ Become(s, state) /\ search[s].stage = "described" /\ PolicyAgrees(s)
        /\ search[s].metadata.kind = "embedding" => search[s].store # None
    BY <1>5 DEF OpenPolicy
  <2>2. Agrees(search[s])
    BY <2>1, SearchFacts
  <2>3. state \in SearchStates
    BY <1>0, <1>1, <2>1 DEF SearchStates, PolicyAgrees
  <2>4. Agrees(state)
    BY <1>0, <2>1, <2>2 DEF SearchStates, Agrees, PolicyAgrees
  <2>. QED  BY <2>1, <2>3, <2>4, BecomeStep
<1>6. CASE Finish(s)
  <2>1. PICK t \in Tokenizers :
          Become(s, [stage |-> "idle", tokenizer |-> t, metadata |-> None, store |-> None,
                     policy |-> None])
    BY <1>6 DEF Finish
  <2>. DEFINE state == [stage |-> "idle", tokenizer |-> t, metadata |-> None, store |-> None,
                        policy |-> None]
  <2>2. state \in SearchStates /\ Agrees(state)
    BY DEF SearchStates, Agrees
  <2>. QED  BY <2>1, <2>2, BecomeStep
<1>. QED  BY <1>2, <1>3, <1>4, <1>5, <1>6

------------------------------------------------------------------------------
(* The invariant holds in every behaviour, interrupted runs included.      *)
THEOREM CostIsInvariant == Spec => []CostInv
<1>1. Init => CostInv
  BY InitialDirectory
<1>2. CostInv /\ [Next]_vars => CostInv'
  <2>. SUFFICES ASSUME CostInv, [Next]_vars PROVE CostInv'
    OBVIOUS
  <2>1. CASE (\E kind \in PolicyKinds, t \in Tokenizers : Start(kind, t)) \/ Fail
    BY <2>1, StartOrFailStep
  <2>2. CASE WriteStore \/ WritePolicy \/ WriteMetadata \/ RemoveStore
    BY <2>2, WriteStep
  <2>3. CASE PublishPolicy \/ PublishStore \/ PublishMetadata
    BY <2>3, PublishStep
  <2>4. CASE \E s \in Searches : ReadMetadata(s) \/ OpenStore(s) \/ OpenPolicy(s) \/ Finish(s)
    BY <2>4, SearchStep
  <2>5. CASE UNCHANGED vars
    BY <2>5 DEF vars, CostInv, EntriesOK, CompileOK, SearchOK, InPlace, OpenedAgrees,
                SuccessIsUsable, OpensTheKindAnnounced, Policy, Store, Description
  <2>. QED  BY <2>1, <2>2, <2>3, <2>4, <2>5 DEF Next
<1>. QED  BY <1>1, <1>2, PTL DEF Spec

(* A run that ends well leaves the three files it compiled, and no store   *)
(* of an earlier run, however many runs before it were interrupted.        *)
THEOREM SuccessLeavesTheSnapshot == Spec => []SuccessIsUsable
<1>1. CostInv => SuccessIsUsable
  BY DEF CostInv
<1>. QED  BY <1>1, CostIsInvariant, PTL

(* A search that opens the snapshot while runs replace it works with a     *)
(* policy of the kind and the tokenizer the metadata announced.            *)
THEOREM SearchesOpenTheKind == Spec => []OpensTheKindAnnounced
<1>1. CostInv => OpensTheKindAnnounced
  BY DEF CostInv
<1>. QED  BY <1>1, CostIsInvariant, PTL

------------------------------------------------------------------------------
(***************************************************************************)
(* Part 2.  The words of a policy's file.                                  *)
(***************************************************************************)

------------------------------------------------------------------------------
(***************************************************************************)
(* Tokens.                                                                 *)
(***************************************************************************)
IsToken(token) == token \in Seq(Chars) /\ (tokenizer = "character" => Len(token) = 1)

LEMMA CharacterToken ==
  ASSUME NEW text \in Seq(Chars), tokenizer = "character", IsSingleToken(text)
  PROVE  IsToken(TokenOf(text))
<1>. DEFINE ranges == CharacterTokens(text)
            tokens == Tokenize(tokenizer, text)
<1>1. DOMAIN ranges = 1 .. Len(text) /\ \A n \in 1 .. Len(text) : ranges[n] = <<n, n + 1>>
  BY DEF CharacterTokens
<1>2. tokens = [n \in 1 .. Len(text) |->
                  [value |-> SubSeq(text, ranges[n][1], ranges[n][2] - 1),
                   start |-> Offset(text, ranges[n][1]), end |-> Offset(text, ranges[n][2])]]
  BY <1>1 DEF Tokenize
<1>. HIDE DEF ranges, tokens
<1>3. Len(text) = 1
  <2>1. Len(tokens) = 1
    BY DEF IsSingleToken, tokens
  <2>2. Len(tokens) = Len(text)
    BY <1>2
  <2>. QED  BY <2>1, <2>2
<1>4. tokens[1].value = SubSeq(text, ranges[1][1], ranges[1][2] - 1)
  <2>1. 1 \in 1 .. Len(text)
    BY <1>3
  <2>. QED  BY <1>2, <2>1, Zenon
<1>5. TokenOf(text) = SubSeq(text, 1, 1)
  <2>1. TokenOf(text) = tokens[1].value
    BY DEF TokenOf, tokens
  <2>2. ranges[1] = <<1, 2>>
    BY <1>1, <1>3
  <2>3. ranges[1][1] = 1 /\ ranges[1][2] - 1 = 1
    BY <2>2
  <2>. QED  BY <1>4, <2>1, <2>3
<1>6. SubSeq(text, 1, 1) \in Seq(Chars) /\ Len(SubSeq(text, 1, 1)) = 1
  BY <1>3
<1>. QED  BY <1>5, <1>6 DEF IsToken

LEMMA WhitespaceToken ==
  ASSUME NEW text \in Seq(Chars), tokenizer # "character", IsSingleToken(text)
  PROVE  IsToken(TokenOf(text))
<1>. DEFINE inside(i) == i \in DOMAIN text /\ text[i] \notin Space
            starts == {i \in DOMAIN text : inside(i) /\ ~inside(i - 1)}
            end(i) == CHOOSE j \in (i + 1) .. (Len(text) + 1) :
                         ~inside(j) /\ \A k \in i .. (j - 1) : inside(k)
            sorted == Ascending(starts)
            ranges == WhitespaceTokens(text)
            tokens == Tokenize(tokenizer, text)
<1>1. DOMAIN text = 1 .. Len(text) /\ Len(text) \in Nat
  OBVIOUS
<1>2. ranges = [n \in DOMAIN sorted |-> <<sorted[n], end(sorted[n])>>]
  BY DEF WhitespaceTokens
<1>3. tokens = [n \in DOMAIN ranges |->
                  [value |-> SubSeq(text, ranges[n][1], ranges[n][2] - 1),
                   start |-> Offset(text, ranges[n][1]), end |-> Offset(text, ranges[n][2])]]
  BY DEF Tokenize
<1>4. starts \in SUBSET (1 .. Len(text)) /\ \A i \in starts : inside(i)
  BY <1>1
<1>5. ASSUME NEW i \in starts PROVE end(i) \in (i + 1) .. (Len(text) + 1)
  <2>. DEFINE T == {j \in Nat : j > i /\ ~inside(j)}
  <2>1. i \in Nat /\ 1 <= i /\ i <= Len(text) /\ inside(i)
    BY <1>1, <1>4
  <2>2. Len(text) + 1 \in T
    BY <1>1, <2>1
  <2>3. PICK j \in T : \A k \in T : j <= k
    <3>. HIDE DEF T
    <3>1. T \in SUBSET Nat
      BY DEF T
    <3>. QED  BY <2>2, <3>1, LeastNatural
  <2>4. j \in (i + 1) .. (Len(text) + 1) /\ ~inside(j)
    BY <1>1, <2>1, <2>2, <2>3
  <2>5. ASSUME NEW k \in i .. (j - 1) PROVE inside(k)
    <3>1. CASE k = i
      BY <2>1, <3>1
    <3>2. CASE k # i
      <4>1. k \in Nat /\ k > i /\ k < j
        BY <2>1, <2>4, <3>2
      <4>. QED  BY <2>3, <4>1
    <3>. QED  BY <3>1, <3>2
  <2>. QED  BY <2>4, <2>5
<1>. HIDE DEF inside, end, ranges, tokens
<1>6. IsFiniteSet(starts) /\ starts \in SUBSET Nat
  <2>1. IsFiniteSet(1 .. Len(text))
    BY <1>1, FS_Interval
  <2>. QED  BY <1>1, <1>4, <2>1, FS_Subset
<1>7. /\ Cardinality(starts) \in Nat
      /\ sorted \in [1 .. Cardinality(starts) -> starts]
  <2>. HIDE DEF starts, sorted
  <2>1. Cardinality(starts) \in Nat
    BY <1>6, FS_CardinalityType
  <2>2. Sorts(starts, Increasing(starts), Ascending(starts), Cardinality(starts))
    BY <1>6, AscendingSorts
  <2>. QED  BY <2>1, <2>2 DEF Sorts, sorted
<1>. HIDE DEF starts, sorted
<1>8. Cardinality(starts) = 1
  <2>1. Len(tokens) = 1
    BY DEF IsSingleToken, tokens
  <2>2. DOMAIN tokens = 1 .. Cardinality(starts)
    BY <1>2, <1>3, <1>7
  <2>3. Len(tokens) = Cardinality(starts)
    <3>1. tokens = [n \in 1 .. Cardinality(starts) |-> tokens[n]]
      BY <1>3, <2>2
    <3>. QED  BY <1>7, <3>1
  <2>. QED  BY <2>1, <2>3
<1>9. /\ sorted[1] \in starts /\ ranges[1] = <<sorted[1], end(sorted[1])>>
      /\ tokens[1].value = SubSeq(text, ranges[1][1], ranges[1][2] - 1)
  <2>1. 1 \in DOMAIN sorted /\ sorted[1] \in starts
    BY <1>7, <1>8
  <2>2. 1 \in DOMAIN ranges /\ ranges[1] = <<sorted[1], end(sorted[1])>>
    BY <1>2, <2>1
  <2>. QED  BY <1>3, <2>1, <2>2
<1>10. TokenOf(text) = SubSeq(text, sorted[1], end(sorted[1]) - 1)
  <2>1. TokenOf(text) = tokens[1].value
    BY DEF TokenOf, tokens
  <2>2. ranges[1][1] = sorted[1] /\ ranges[1][2] = end(sorted[1])
    BY <1>9
  <2>. QED  BY <1>9, <2>1, <2>2
<1>11. /\ sorted[1] \in 1 .. Len(text)
       /\ end(sorted[1]) - 1 \in sorted[1] .. Len(text)
  <2>1. end(sorted[1]) \in (sorted[1] + 1) .. (Len(text) + 1)
    BY <1>5, <1>9
  <2>2. sorted[1] \in 1 .. Len(text)
    BY <1>4, <1>9
  <2>. HIDE DEF end
  <2>. QED  BY <1>1, <2>1, <2>2
<1>12. SubSeq(text, sorted[1], end(sorted[1]) - 1) \in Seq(Chars)
  <2>1. sorted[1] \in 1 .. (Len(text) + 1) /\ end(sorted[1]) - 1 \in (sorted[1] - 1) .. Len(text)
    BY <1>1, <1>11
  <2>. QED  BY <2>1, SubSeqProperties
<1>. QED  BY <1>10, <1>12 DEF IsToken

LEMMA TokenIsTyped ==
  ASSUME NEW text \in Texts, IsSingleToken(text)
  PROVE  IsToken(TokenOf(text))
<1>1. text \in Seq(Chars)
  BY TextsAssumption
<1>. QED  BY <1>1, CharacterToken, WhitespaceToken

(***************************************************************************)
(* Sorted rules.                                                           *)
(***************************************************************************)

(* The order of byte strings is strict and total.                          *)
LEMMA PrecedesIsStrict ==
  ASSUME NEW s \in Seq(Nat), NEW t \in Seq(Nat), NEW u \in Seq(Nat)
  PROVE  ~Precedes(s, s) /\ (Precedes(s, t) /\ Precedes(t, u) => Precedes(s, u))
<1>1. ~Precedes(s, s)
  BY DEF Precedes
<1>2. ASSUME Precedes(s, t), Precedes(t, u) PROVE Precedes(s, u)
  <2>1. PICK m \in DOMAIN t : /\ m > Len(s) \/ s[m] < t[m]
                              /\ \A k \in 1 .. (m - 1) : k <= Len(s) /\ s[k] = t[k]
    BY <1>2 DEF Precedes
  <2>2. PICK n \in DOMAIN u : /\ n > Len(t) \/ t[n] < u[n]
                              /\ \A k \in 1 .. (n - 1) : k <= Len(t) /\ t[k] = u[k]
    BY <1>2 DEF Precedes
  <2>3. /\ m \in Nat /\ n \in Nat /\ 1 <= m /\ 1 <= n /\ m <= Len(t) /\ n <= Len(u)
        /\ Len(s) \in Nat /\ Len(t) \in Nat /\ Len(u) \in Nat
        /\ DOMAIN s = 1 .. Len(s) /\ DOMAIN t = 1 .. Len(t) /\ DOMAIN u = 1 .. Len(u)
    OBVIOUS
  <2>4. CASE m < n
    <3>1. m \in DOMAIN u /\ t[m] = u[m]
      <4>1. m \in 1 .. (n - 1) /\ m \in DOMAIN u
        BY <2>3, <2>4
      <4>. QED  BY <2>2, <4>1
    <3>2. \A k \in 1 .. (m - 1) : k <= Len(s) /\ s[k] = u[k]
      <4>. TAKE k \in 1 .. (m - 1)
      <4>1. k \in 1 .. (n - 1)
        BY <2>3, <2>4
      <4>. QED  BY <2>1, <2>2, <4>1
    <3>3. m > Len(s) \/ s[m] < u[m]
      BY <2>1, <3>1
    <3>. QED  BY <3>1, <3>2, <3>3 DEF Precedes
  <2>5. CASE n <= m
    <3>1. \A k \in 1 .. (n - 1) : k <= Len(s) /\ s[k] = u[k]
      <4>. TAKE k \in 1 .. (n - 1)
      <4>1. k \in 1 .. (m - 1)
        BY <2>3, <2>5
      <4>. QED  BY <2>1, <2>2, <4>1
    <3>2. t[n] < u[n] /\ n \in DOMAIN t /\ n \in DOMAIN u
      <4>1. n <= Len(t)
        BY <2>3, <2>5
      <4>. QED  BY <2>2, <2>3, <4>1
    <3>3. n > Len(s) \/ s[n] < u[n]
      <4>1. CASE n < m
        <5>1. n \in 1 .. (m - 1)
          BY <2>3, <4>1
        <5>. QED  BY <2>1, <3>2, <5>1
      <4>2. CASE n = m /\ n <= Len(s)
        <5>. DEFINE x == s[n]
                    y == t[n]
                    z == u[n]
        <5>1. x \in Nat /\ y \in Nat /\ z \in Nat /\ x < y /\ y < z
          BY <2>1, <2>3, <3>2, <4>2
        <5>. HIDE DEF x, y, z
        <5>2. x < z
          BY <5>1
        <5>. QED  BY <5>2 DEF x, z
      <4>. QED  BY <2>3, <2>5, <4>1, <4>2
    <3>. QED  BY <3>1, <3>2, <3>3 DEF Precedes
  <2>. QED  BY <2>3, <2>4, <2>5
<1>. QED  BY <1>1, <1>2

LEMMA PrecedesIsTotal ==
  ASSUME NEW s \in Seq(Nat), NEW t \in Seq(Nat), s # t
  PROVE  Precedes(s, t) \/ Precedes(t, s)
<1>. DEFINE T == {k \in Nat : k >= 1 /\ (k > Len(s) \/ k > Len(t) \/ s[k] # t[k])}
<1>1. Len(s) \in Nat /\ Len(t) \in Nat /\ DOMAIN s = 1 .. Len(s) /\ DOMAIN t = 1 .. Len(t)
  OBVIOUS
<1>2. T \in SUBSET Nat /\ Len(s) + 1 \in T
  BY <1>1
<1>3. PICK n \in T : \A k \in T : n <= k
  <2>. HIDE DEF T
  <2>. QED  BY <1>2, LeastNatural
<1>4. n \in Nat /\ n >= 1 /\ (n > Len(s) \/ n > Len(t) \/ s[n] # t[n])
  OBVIOUS
<1>5. ASSUME NEW k \in 1 .. (n - 1) PROVE k <= Len(s) /\ k <= Len(t) /\ s[k] = t[k]
  <2>1. k \in Nat /\ k >= 1 /\ k < n
    BY <1>4
  <2>2. k \notin T
    BY <1>3, <2>1
  <2>. QED  BY <1>1, <2>1, <2>2
<1>6. ~(n > Len(s) /\ n > Len(t))
  <2>1. SUFFICES ASSUME n > Len(s) /\ n > Len(t) PROVE FALSE
    OBVIOUS
  <2>2. Len(s) = Len(t)
    <3>1. Len(s) >= n - 1
      <4>1. CASE n = 1
        BY <1>1, <4>1
      <4>2. CASE n > 1
        <5>1. n - 1 \in 1 .. (n - 1)
          BY <1>4, <4>2
        <5>. QED  BY <1>5, <5>1
      <4>. QED  BY <1>4, <4>1, <4>2
    <3>2. Len(t) >= n - 1
      <4>1. CASE n = 1
        BY <1>1, <4>1
      <4>2. CASE n > 1
        <5>1. n - 1 \in 1 .. (n - 1)
          BY <1>4, <4>2
        <5>. QED  BY <1>5, <5>1
      <4>. QED  BY <1>4, <4>1, <4>2
    <3>3. n \in Nat /\ n > Len(s) /\ n > Len(t)
      BY <1>4, <2>1
    <3>. DEFINE i == Len(s)
                j == Len(t)
    <3>4. i \in Nat /\ j \in Nat /\ i >= n - 1 /\ j >= n - 1 /\ n > i /\ n > j
      BY <1>1, <3>1, <3>2, <3>3
    <3>. HIDE DEF T, i, j
    <3>5. i = j
      BY <3>3, <3>4
    <3>. QED  BY <3>5 DEF i, j
  <2>3. \A k \in 1 .. Len(s) : s[k] = t[k]
    <3>1. \A k \in 1 .. Len(s) : k \in 1 .. (n - 1)
      BY <1>1, <1>4, <2>1
    <3>. QED  BY <1>5, <3>1
  <2>4. s = t
    BY <2>2, <2>3, SeqEqual
  <2>. QED  BY <2>4
<1>. HIDE DEF T
<1>7. CASE n > Len(s)
  <2>1. n \in DOMAIN t
    BY <1>1, <1>4, <1>6, <1>7
  <2>. QED  BY <1>5, <1>7, <2>1 DEF Precedes
<1>8. CASE n > Len(t)
  <2>1. n \in DOMAIN s
    BY <1>1, <1>4, <1>6, <1>8
  <2>. QED  BY <1>5, <1>8, <2>1 DEF Precedes
<1>9. CASE n <= Len(s) /\ n <= Len(t)
  <2>1. n \in DOMAIN s /\ n \in DOMAIN t /\ s[n] # t[n] /\ s[n] \in Nat /\ t[n] \in Nat
    BY <1>1, <1>4, <1>9
  <2>2. s[n] < t[n] \/ t[n] < s[n]
    BY <2>1
  <2>. QED  BY <1>5, <2>1, <2>2 DEF Precedes
<1>. QED  BY <1>1, <1>4, <1>7, <1>8, <1>9

AreRules(S) ==
  /\ IsFiniteSet(S)
  /\ \A r \in S : r.from \in Seq(Nat) /\ r.to \in Seq(Nat)
  /\ \A r, s \in S : r.from = s.from /\ r.to = s.to => r = s

RuleOrder(S) == {pair \in S \X S : RulePrecedes(pair[1], pair[2])}

LEMMA RulesAreOrdered ==
  ASSUME NEW S, AreRules(S)
  PROVE  StrictOrder(S, RuleOrder(S))
<1>1. \A r, s \in S : <<r, s>> \in RuleOrder(S) <=> RulePrecedes(r, s)
  BY DEF RuleOrder
<1>2. \A r \in S : r.from \in Seq(Nat) /\ r.to \in Seq(Nat)
  BY DEF AreRules
<1>3. ASSUME NEW r \in S PROVE ~RulePrecedes(r, r)
  BY <1>2, PrecedesIsStrict DEF RulePrecedes
<1>4. ASSUME NEW r \in S, NEW s \in S, NEW t \in S, RulePrecedes(r, s), RulePrecedes(s, t)
      PROVE  RulePrecedes(r, t)
  <2>1. /\ r.from \in Seq(Nat) /\ r.to \in Seq(Nat) /\ s.from \in Seq(Nat) /\ s.to \in Seq(Nat)
        /\ t.from \in Seq(Nat) /\ t.to \in Seq(Nat)
    BY <1>2
  <2>2. Precedes(r.from, s.from) /\ Precedes(s.from, t.from) => Precedes(r.from, t.from)
    BY <2>1, PrecedesIsStrict
  <2>3. Precedes(r.to, s.to) /\ Precedes(s.to, t.to) => Precedes(r.to, t.to)
    BY <2>1, PrecedesIsStrict
  <2>. QED  BY <1>4, <2>2, <2>3 DEF RulePrecedes
<1>5. ASSUME NEW r \in S, NEW s \in S, r # s PROVE RulePrecedes(r, s) \/ RulePrecedes(s, r)
  <2>1. r.from # s.from \/ r.to # s.to
    BY <1>5 DEF AreRules
  <2>2. /\ r.from \in Seq(Nat) /\ r.to \in Seq(Nat) /\ s.from \in Seq(Nat) /\ s.to \in Seq(Nat)
    BY <1>2
  <2>3. r.from # s.from => Precedes(r.from, s.from) \/ Precedes(s.from, r.from)
    BY <2>2, PrecedesIsTotal
  <2>4. r.to # s.to => Precedes(r.to, s.to) \/ Precedes(s.to, r.to)
    BY <2>2, PrecedesIsTotal
  <2>. QED  BY <2>1, <2>3, <2>4 DEF RulePrecedes
<1>. QED  BY <1>1, <1>3, <1>4, <1>5 DEF StrictOrder

LEMMA RulesAreSorted ==
  ASSUME NEW S, AreRules(S)
  PROVE  Sorts(S, RuleOrder(S), SortedBy(S, RulePrecedes), Cardinality(S))
<1>. DEFINE R == RuleOrder(S)
            s == SortedBy(S, RulePrecedes)
<1>1. IsFiniteSet(S) /\ StrictOrder(S, R)
  BY RulesAreOrdered DEF AreRules
<1>2. \A r \in S : Under(S, R, r) = {q \in S : RulePrecedes(q, r)}
  BY DEF Under, RuleOrder
<1>3. s = [k \in 1 .. Cardinality(S) |-> CHOOSE r \in S : Cardinality({q \in S : RulePrecedes(q, r)}) = k - 1]
  BY DEF SortedBy
<1>4. \A k \in 1 .. Cardinality(S) :
         (\E r \in S : Cardinality(Under(S, R, r)) = k - 1)
           => s[k] \in S /\ Cardinality(Under(S, R, s[k])) = k - 1
  <2>. TAKE k \in 1 .. Cardinality(S)
  <2>1. HAVE \E r \in S : Cardinality(Under(S, R, r)) = k - 1
  <2>2. s[k] = CHOOSE r \in S : Cardinality({q \in S : RulePrecedes(q, r)}) = k - 1
    BY <1>3
  <2>3. \E r \in S : Cardinality({q \in S : RulePrecedes(q, r)}) = k - 1
    BY <1>2, <2>1
  <2>. HIDE DEF s, R
  <2>4. s[k] \in S /\ Cardinality({q \in S : RulePrecedes(q, s[k])}) = k - 1
    BY <2>2, <2>3
  <2>. QED  BY <1>2, <2>4
<1>5. s = [k \in 1 .. Cardinality(S) |-> s[k]]
  BY <1>3
<1>. HIDE DEF s, R
<1>6. Sorts(S, R, s, Cardinality(S))
  BY <1>1, <1>4, <1>5, ChosenByRank
<1>. QED  BY <1>6 DEF s, R

(***************************************************************************)
(* The rules of a file.                                                    *)
(***************************************************************************)
WordsOK(w) == w \in Seq(Nat) /\ Len(w) >= HeaderLen

LEMMA CountsAreNaturals ==
  ASSUME NEW w, WordsOK(w)
  PROVE  /\ Len(w) \in Nat /\ DOMAIN w = 1 .. Len(w) /\ Len(w) >= 7
         /\ \A k \in 1 .. Len(w) : w[k] \in Nat
         /\ PairCount(w) \in Nat /\ DeletionCount(w) \in Nat /\ InsertionCount(w) \in Nat
         /\ RuleCount(w) \in Nat
         /\ RuleCount(w) = PairCount(w) + DeletionCount(w) + InsertionCount(w)
<1>1. Len(w) \in Nat /\ DOMAIN w = 1 .. Len(w) /\ Len(w) >= 7
  BY DEF WordsOK, HeaderLen
<1>2. \A k \in 1 .. Len(w) : w[k] \in Nat
  BY DEF WordsOK
<1>3. w[5] \in Nat /\ w[6] \in Nat /\ w[7] \in Nat
  BY <1>1, <1>2
<1>. QED  BY <1>1, <1>2, <1>3 DEF PairCount, DeletionCount, InsertionCount, RuleCount

LEMMA AfterTokenFacts ==
  ASSUME NEW w, WordsOK(w), NEW at \in Nat \ {0}
  PROVE  /\ AfterToken(w, at) \in Nat \ {0}
         /\ at > Len(w) => AfterToken(w, at) = Len(w) + 2
         /\ at <= Len(w) => AfterToken(w, at) = at + 1 + w[at] /\ w[at] \in Nat
<1>1. CASE at > Len(w)
  BY <1>1, CountsAreNaturals DEF AfterToken, Truncated
<1>2. CASE at <= Len(w)
  <2>1. at \in 1 .. Len(w) /\ Len(w) \in Nat
    BY <1>2, CountsAreNaturals
  <2>2. w[at] \in Nat
    BY <2>1, CountsAreNaturals
  <2>. QED  BY <1>2, <2>1, <2>2 DEF AfterToken
<1>. QED  BY <1>1, <1>2, CountsAreNaturals

LEMMA AfterRuleFacts ==
  ASSUME NEW w, WordsOK(w), NEW at \in Nat \ {0}, NEW n \in Nat
  PROVE  /\ AfterRule(w, n, at) \in Nat \ {0}
         /\ AfterRule(w, n, at) <= Len(w) + 1 =>
              /\ at <= Len(w)
              /\ AfterTokens(w, n, at) <= Len(w) /\ AfterTokens(w, n, at) \in Nat \ {0}
              /\ AfterRule(w, n, at) = AfterTokens(w, n, at) + 1
              /\ IsPairRule(w, n) => AfterToken(w, at) <= Len(w)
<1>1. Len(w) \in Nat
  BY CountsAreNaturals
<1>2. AfterToken(w, at) \in Nat \ {0}
  BY AfterTokenFacts
<1>3. AfterTokens(w, n, at) \in Nat \ {0}
  BY <1>2, AfterTokenFacts DEF AfterTokens
<1>4. at > Len(w) => AfterToken(w, at) > Len(w)
  BY <1>1, AfterTokenFacts
<1>5. AfterToken(w, at) > Len(w) => AfterTokens(w, n, at) > Len(w)
  BY <1>1, <1>2, AfterTokenFacts DEF AfterTokens
<1>6. AfterRule(w, n, at) = IF AfterTokens(w, n, at) > Len(w) THEN Len(w) + 2
                            ELSE AfterTokens(w, n, at) + 1
  BY DEF AfterRule, Truncated
<1>. HIDE DEF AfterToken, AfterTokens, AfterRule, IsPairRule
<1>. QED  BY <1>1, <1>2, <1>3, <1>4, <1>5, <1>6

(* What the recursive definition computes.                                 *)
EndsOf(w, e) ==
  /\ e \in [0 .. RuleCount(w) -> Nat \ {0}]
  /\ e[0] = 8
  /\ \A n \in 1 .. RuleCount(w) : e[n] = AfterRule(w, n, e[n - 1])

LEMMA EndsAreDefined ==
  ASSUME NEW w, WordsOK(w)
  PROVE  EndsOf(w, RuleEnds(w))
<1>. DEFINE n == RuleCount(w)
            D == Nat \ {0}
            next == [k \in 1 .. n |-> [d \in D |-> AfterRule(w, k, d)]]
            Recursive(g) == g = [k \in 0 .. n |-> IF k = 0 THEN HeaderLen + 1 ELSE AfterRule(w, k, g[k - 1])]
            end == CHOOSE g : Recursive(g)
<1>1. n \in Nat
  BY CountsAreNaturals
<1>2. \A k \in 1 .. n, d \in D : AfterRule(w, k, d) \in D
  <2>. HIDE DEF n
  <2>1. \A k \in 1 .. n : k \in Nat
    BY <1>1
  <2>. QED  BY <2>1, AfterRuleFacts
<1>3. next \in Advances(n, D)
  <2>. HIDE DEF n, D
  <2>. QED  BY <1>2 DEF Advances
<1>4. HeaderLen + 1 = 8 /\ 8 \in D
  BY DEF HeaderLen
<1>5. PICK g \in [0 .. n -> D] : g[0] = 8 /\ \A k \in 1 .. n : g[k] = next[k][g[k - 1]]
  <2>. HIDE DEF next, n, D
  <2>1. Growing(n, D, 8, next) # {}
    BY <1>1, <1>3, <1>4, RecursionExists
  <2>. QED  BY <2>1 DEF Growing
<1>6. Recursive(g)
  <2>. HIDE DEF n, D
  <2>1. \A k \in 1 .. n : g[k - 1] \in D /\ k \in 0 .. n
    BY <1>1
  <2>2. \A k \in 1 .. n : g[k] = AfterRule(w, k, g[k - 1])
    BY <1>5, <2>1
  <2>3. \A k \in 0 .. n : g[k] = IF k = 0 THEN HeaderLen + 1 ELSE AfterRule(w, k, g[k - 1])
    BY <1>1, <1>4, <1>5, <2>2
  <2>. QED  BY <2>3
<1>7. Recursive(end)
  <2>. HIDE DEF Recursive
  <2>. QED  BY <1>6
<1>8. /\ end = [k \in 0 .. n |-> end[k]] /\ end[0] = 8
      /\ \A k \in 1 .. n : end[k] = AfterRule(w, k, end[k - 1])
  <2>. HIDE DEF end, n
  <2>1. end = [k \in 0 .. n |-> IF k = 0 THEN HeaderLen + 1 ELSE AfterRule(w, k, end[k - 1])]
    BY <1>7
  <2>2. 0 \in 0 .. n /\ \A k \in 1 .. n : k \in 0 .. n /\ k # 0
    BY <1>1
  <2>3. end[0] = 8
    BY <1>4, <2>1, <2>2
  <2>4. \A k \in 1 .. n : end[k] = AfterRule(w, k, end[k - 1])
    BY <2>1, <2>2, Zenon
  <2>5. end = [k \in 0 .. n |-> end[k]]
    BY <2>1
  <2>. QED  BY <2>3, <2>4, <2>5
<1>9. end \in [0 .. n -> D]
  <2>1. \A k \in 1 .. n : end[k - 1] \in D => end[k] \in D
    <3>. HIDE DEF end, n, D
    <3>. QED  BY <1>2, <1>8
  <2>2. n \in Nat /\ end[0] \in D /\ end = [k \in 0 .. n |-> end[k]]
    <3>. HIDE DEF end, n, D
    <3>. QED  BY <1>1, <1>4, <1>8
  <2>. HIDE DEF end, n, D
  <2>. QED  BY <2>1, <2>2, RecursionTyped
<1>10. RuleEnds(w) = end
  BY DEF RuleEnds
<1>. HIDE DEF end
<1>. QED  BY <1>8, <1>9, <1>10 DEF EndsOf

(* Where nothing is cut off, every rule is inside the file.                *)
RuleFits(w, n) ==
  LET at == RuleEnds(w)[n - 1]
      to == at + 1 + w[at]
  IN  /\ at \in 1 .. Len(w) /\ w[at] \in Nat
      /\ AfterToken(w, at) = to
      /\ IF IsPairRule(w, n)
         THEN /\ to \in 1 .. Len(w) /\ w[to] \in Nat
              /\ to + 1 + w[to] \in 1 .. Len(w)
              /\ RuleEnds(w)[n] = to + 1 + w[to] + 1
         ELSE to \in 1 .. Len(w) /\ RuleEnds(w)[n] = to + 1

LEMMA RulesFit ==
  ASSUME NEW w, WordsOK(w), RuleEnds(w)[RuleCount(w)] = Len(w) + 1, NEW n \in 1 .. RuleCount(w)
  PROVE  RuleFits(w, n)
<1>. DEFINE e == RuleEnds(w)
            N == RuleCount(w)
            T == {k \in 0 .. N : e[N - k] <= Len(w) + 1}
<1>1. /\ N \in Nat /\ Len(w) \in Nat /\ e \in [0 .. N -> Nat \ {0}]
      /\ \A k \in 1 .. N : e[k] = AfterRule(w, k, e[k - 1])
  BY CountsAreNaturals, EndsAreDefined DEF EndsOf
<1>2. e[N] = Len(w) + 1
  OBVIOUS
<1>. HIDE DEF e, N
<1>3. T = 0 .. N
  <2>1. T \in SUBSET (0 .. N) /\ 0 \in T
    BY <1>1, <1>2
  <2>2. ASSUME NEW k \in T, k < N PROVE k + 1 \in T
    <3>1. N - k \in 1 .. N /\ (N - k) - 1 = N - (k + 1) /\ k + 1 \in 0 .. N /\ e[N - k] <= Len(w) + 1
      BY <1>1, <2>2
    <3>2. e[N - (k + 1)] \in Nat \ {0} /\ e[N - k] = AfterRule(w, N - k, e[N - (k + 1)]) /\ N - k \in Nat
      <4>1. (N - k) - 1 \in 0 .. N /\ N - k \in Nat
        BY <1>1, <3>1
      <4>. QED  BY <1>1, <3>1, <4>1
    <3>3. e[N - (k + 1)] <= Len(w)
      <4>. DEFINE x == e[N - (k + 1)]
                  m == N - k
      <4>1. x \in Nat \ {0} /\ m \in Nat /\ AfterRule(w, m, x) <= Len(w) + 1
        BY <3>1, <3>2
      <4>. HIDE DEF x, m, T
      <4>2. x <= Len(w)
        BY <4>1, AfterRuleFacts
      <4>. QED  BY <4>2 DEF x
    <3>. QED  BY <1>1, <3>1, <3>2, <3>3
  <2>. HIDE DEF T
  <2>3. N \in Nat /\ T \in SUBSET (0 .. N) /\ 0 \in T /\ \A k \in T : k < N => k + 1 \in T
    BY <1>1, <2>1, <2>2
  <2>. QED  BY <2>3, BoundedInduction
<1>4. n \in 1 .. N /\ n - 1 \in 0 .. N /\ e[n - 1] \in Nat \ {0} /\ n \in Nat
  <2>1. n \in 1 .. N /\ n - 1 \in 0 .. N /\ n \in Nat
    BY <1>1 DEF N
  <2>. QED  BY <1>1, <2>1
<1>5. e[n] <= Len(w) + 1
  <2>1. N - n \in 0 .. N /\ N - (N - n) = n
    BY <1>1, <1>4
  <2>2. N - n \in T
    BY <1>3, <2>1
  <2>. QED  BY <2>1, <2>2
<1>. HIDE DEF T
<1>. DEFINE at == e[n - 1]
            to == at + 1 + w[at]
<1>6. e[n] = AfterRule(w, n, at)
  BY <1>1, <1>4
<1>7. /\ at <= Len(w) /\ AfterTokens(w, n, at) <= Len(w) /\ AfterTokens(w, n, at) \in Nat \ {0}
      /\ e[n] = AfterTokens(w, n, at) + 1
      /\ IsPairRule(w, n) => AfterToken(w, at) <= Len(w)
  BY <1>4, <1>5, <1>6, AfterRuleFacts
<1>8. at \in 1 .. Len(w) /\ AfterToken(w, at) = to /\ w[at] \in Nat /\ to \in Nat \ {0}
  <2>1. at \in Nat \ {0} /\ at <= Len(w) /\ Len(w) \in Nat
    BY <1>1, <1>4, <1>7
  <2>. HIDE DEF at
  <2>2. AfterToken(w, at) = to /\ w[at] \in Nat
    BY <2>1, AfterTokenFacts
  <2>. QED  BY <2>1, <2>2
<1>9. CASE IsPairRule(w, n)
  <2>1. to <= Len(w) /\ AfterTokens(w, n, at) = AfterToken(w, to)
    BY <1>7, <1>8, <1>9 DEF AfterTokens
  <2>2. AfterToken(w, to) = to + 1 + w[to] /\ w[to] \in Nat
    BY <1>8, <2>1, AfterTokenFacts
  <2>3. to \in 1 .. Len(w) /\ to + 1 + w[to] \in 1 .. Len(w) /\ e[n] = to + 1 + w[to] + 1
    <3>. DEFINE last == AfterTokens(w, n, at)
    <3>1. last = to + 1 + w[to] /\ last <= Len(w) /\ last \in Nat \ {0} /\ e[n] = last + 1
      BY <1>7, <2>1, <2>2
    <3>. HIDE DEF last, to
    <3>. QED  BY <1>1, <1>8, <2>1, <3>1
  <2>. QED  BY <1>8, <1>9, <2>2, <2>3 DEF RuleFits, e
<1>10. CASE ~IsPairRule(w, n)
  <2>1. AfterTokens(w, n, at) = to
    BY <1>8, <1>10 DEF AfterTokens
  <2>2. to \in 1 .. Len(w) /\ e[n] = to + 1
    BY <1>1, <1>7, <1>8, <2>1
  <2>. QED  BY <1>8, <1>10, <2>2 DEF RuleFits, e
<1>. QED  BY <1>9, <1>10

Key(w, n)    == RuleKey(w, RuleEnds(w), n)
CostAt(w, n) == RuleCost(w, RuleEnds(w), n)

OperationOf(w, n) ==
  IF n <= PairCount(w) THEN "substitution"
  ELSE IF n <= PairCount(w) + DeletionCount(w) THEN "deletion" ELSE "insertion"
RulesFor(w, operation) == {n \in 1 .. RuleCount(w) : OperationOf(w, n) = operation}

NameAt(cd, w, operation, n) ==
  IF operation = "substitution"
  THEN <<DecodeToken(cd, Key(w, n).from), DecodeToken(cd, Key(w, n).to)>>
  ELSE DecodeToken(cd, Key(w, n).from)

LEMMA FramedIsSlice ==
  ASSUME NEW w, WordsOK(w), NEW at \in 1 .. Len(w), w[at] \in Nat, at + w[at] <= Len(w)
  PROVE  /\ FramedAt(w, at) \in Seq(Nat) /\ Len(FramedAt(w, at)) = w[at]
         /\ \A k \in 1 .. w[at] : FramedAt(w, at)[k] = w[at + k]
<1>. DEFINE j == at + w[at]
            i == at + 1
<1>1. w \in Seq(Nat) /\ Len(w) \in Nat
  BY DEF WordsOK
<1>2. i \in 1 .. (Len(w) + 1) /\ j \in (i - 1) .. Len(w) /\ j - i + 1 = w[at]
  BY <1>1
<1>3. /\ SubSeq(w, i, j) \in Seq(Nat) /\ Len(SubSeq(w, i, j)) = j - i + 1
      /\ \A k \in 1 .. (j - i + 1) : SubSeq(w, i, j)[k] = w[i + k - 1]
  <2>1. i \in Int /\ j \in Int /\ i <= j + 1
    <3>. HIDE DEF i, j
    <3>. QED  BY <1>1, <1>2
  <2>2. \A k \in i .. j : w[k] \in Nat
    <3>1. \A k \in i .. j : k \in 1 .. Len(w)
      BY <1>1, <1>2
    <3>2. \A k \in 1 .. Len(w) : w[k] \in Nat
      BY CountsAreNaturals
    <3>. HIDE DEF i, j
    <3>. QED  BY <3>1, <3>2
  <2>. HIDE DEF i, j
  <2>3. /\ SubSeq(w, i, j) \in Seq(Nat)
        /\ Len(SubSeq(w, i, j)) = IF i <= j THEN j - i + 1 ELSE 0
        /\ \A k \in 1 .. (j - i + 1) : SubSeq(w, i, j)[k] = w[i + k - 1]
    BY <2>1, <2>2, SubSeqProperties
  <2>. QED  BY <2>1, <2>3
<1>4. \A k \in 1 .. w[at] : SubSeq(w, i, j)[k] = w[at + k]
  <2>. TAKE k \in 1 .. w[at]
  <2>1. k \in 1 .. (j - i + 1) /\ i + k - 1 = at + k
    BY <1>2
  <2>. HIDE DEF i, j
  <2>2. SubSeq(w, i, j)[k] = w[i + k - 1]
    BY <1>3, <2>1
  <2>. QED  BY <2>1, <2>2
<1>5. FramedAt(w, at) = SubSeq(w, i, j)
  BY DEF FramedAt
<1>. HIDE DEF i, j
<1>. QED  BY <1>2, <1>3, <1>4, <1>5

LEMMA KeyFacts ==
  ASSUME NEW w, WordsOK(w), RuleEnds(w)[RuleCount(w)] = Len(w) + 1, NEW n \in 1 .. RuleCount(w)
  PROVE  LET at == RuleEnds(w)[n - 1]
             to == at + 1 + w[at]
         IN  /\ Key(w, n).operation = OperationOf(w, n)
             /\ Key(w, n).from = FramedAt(w, at) /\ Key(w, n).from \in Seq(Nat)
             /\ Key(w, n).to = IF n <= PairCount(w) THEN FramedAt(w, to) ELSE Key(w, n).from
             /\ Key(w, n).to \in Seq(Nat)
             /\ Key(w, n) = [operation |-> OperationOf(w, n), from |-> Key(w, n).from,
                             to |-> Key(w, n).to]
<1>. DEFINE at == RuleEnds(w)[n - 1]
            to == at + 1 + w[at]
<1>1. RuleFits(w, n)
  BY RulesFit
<1>2. at \in 1 .. Len(w) /\ w[at] \in Nat /\ AfterToken(w, at) = to /\ to \in 1 .. Len(w)
  BY <1>1 DEF RuleFits
<1>3. FramedAt(w, at) \in Seq(Nat)
  <2>. HIDE DEF at
  <2>1. at + w[at] <= Len(w)
    <3>. DEFINE v == w[at]
                l == Len(w)
    <3>1. l \in Nat /\ v \in Nat /\ at \in Nat /\ at + 1 + v <= l
      BY <1>2, CountsAreNaturals
    <3>. HIDE DEF v, l
    <3>2. at + v <= l
      BY <3>1
    <3>. QED  BY <3>2 DEF v, l
  <2>. QED  BY <1>2, <2>1, FramedIsSlice
<1>4. Key(w, n) = IF n <= PairCount(w)
                  THEN [operation |-> "substitution", from |-> FramedAt(w, at), to |-> FramedAt(w, to)]
                  ELSE [operation |-> OperationOf(w, n), from |-> FramedAt(w, at), to |-> FramedAt(w, at)]
  <2>1. Key(w, n) = IF IsPairRule(w, n)
                    THEN [operation |-> "substitution", from |-> FramedAt(w, at),
                          to |-> FramedAt(w, AfterToken(w, at))]
                    ELSE [operation |-> IF n <= PairCount(w) + DeletionCount(w) THEN "deletion" ELSE "insertion",
                          from |-> FramedAt(w, at), to |-> FramedAt(w, at)]
    BY DEF Key, RuleKey
  <2>. QED  BY <1>2, <2>1 DEF IsPairRule, OperationOf
<1>5. n <= PairCount(w) => FramedAt(w, to) \in Seq(Nat)
  <2>1. SUFFICES ASSUME n <= PairCount(w) PROVE FramedAt(w, to) \in Seq(Nat)
    OBVIOUS
  <2>2. to \in 1 .. Len(w) /\ w[to] \in Nat /\ to + 1 + w[to] \in 1 .. Len(w)
    BY <1>1, <2>1 DEF RuleFits, IsPairRule
  <2>. HIDE DEF to
  <2>3. to + w[to] <= Len(w)
    <3>. DEFINE v == w[to]
                l == Len(w)
    <3>1. l \in Nat
      BY CountsAreNaturals
    <3>2. v \in Nat /\ to \in 1 .. l /\ to + 1 + v \in 1 .. l
      BY <2>2
    <3>. HIDE DEF v, l
    <3>3. to + v <= l
      BY <3>1, <3>2
    <3>. QED  BY <3>3 DEF v, l
  <2>. QED  BY <2>2, <2>3, FramedIsSlice
<1>. HIDE DEF at, to
<1>6. CASE n <= PairCount(w)
  <2>1. OperationOf(w, n) = "substitution"
    BY <1>6 DEF OperationOf
  <2>. QED  BY <1>3, <1>4, <1>5, <1>6, <2>1 DEF at, to
<1>7. CASE ~(n <= PairCount(w))
  BY <1>3, <1>4, <1>7 DEF at, to
<1>. QED  BY <1>6, <1>7

(* Tokens that decode alike are encoded alike.                             *)
LEMMA DecodeIsInjective ==
  ASSUME NEW cd \in [Chars -> Nat], NEW s \in Seq(Nat), NEW t \in Seq(Nat),
         \A k \in DOMAIN s : s[k] \in Range(cd), \A k \in DOMAIN t : t[k] \in Range(cd),
         DecodeToken(cd, s) = DecodeToken(cd, t)
  PROVE  s = t
<1>1. ASSUME NEW word \in Range(cd) PROVE cd[CHOOSE char \in Chars : cd[char] = word] = word
  <2>1. \E char \in Chars : cd[char] = word
    BY DEF Range
  <2>. QED  BY <2>1
<1>2. DOMAIN s = DOMAIN t
  BY DEF DecodeToken
<1>3. ASSUME NEW k \in DOMAIN s PROVE s[k] = t[k]
  <2>1. DecodeToken(cd, s)[k] = CHOOSE char \in Chars : cd[char] = s[k]
    BY DEF DecodeToken
  <2>2. DecodeToken(cd, t)[k] = CHOOSE char \in Chars : cd[char] = t[k]
    BY <1>2 DEF DecodeToken
  <2>3. cd[DecodeToken(cd, s)[k]] = s[k] /\ cd[DecodeToken(cd, t)[k]] = t[k]
    BY <1>1, <1>2, <2>1, <2>2
  <2>. QED  BY <2>3
<1>4. Len(s) = Len(t) /\ DOMAIN s = 1 .. Len(s)
  BY <1>2
<1>. QED  BY <1>3, <1>4, SeqEqual

LEMMA NamesDiffer ==
  ASSUME NEW w, WordsOK(w), NEW cd \in [Chars -> Nat], NEW tk, RulesReadable(cd, tk, w)
  PROVE  /\ RuleEnds(w)[RuleCount(w)] = Len(w) + 1
         /\ \A m, n \in 1 .. RuleCount(w) : Key(w, m) = Key(w, n) => m = n
         /\ \A n \in 1 .. RuleCount(w) :
              /\ IsCost(CostAt(w, n))
              /\ n <= PairCount(w) =>
                    DecodeToken(cd, Key(w, n).from) # DecodeToken(cd, Key(w, n).to)
         /\ \A operation : \A m, n \in 1 .. RuleCount(w) :
              /\ OperationOf(w, m) = operation /\ OperationOf(w, n) = operation
              /\ NameAt(cd, w, operation, m) = NameAt(cd, w, operation, n)
              => m = n
<1>1. RuleEnds(w)[RuleCount(w)] = Len(w) + 1
  BY DEF RulesReadable
<1>2. \A m, n \in 1 .. RuleCount(w) : Key(w, m) = Key(w, n) => m = n
  <2>1. NoneRepeats(cd, w, RuleEnds(w))
    BY DEF RulesReadable
  <2>. TAKE m, n \in 1 .. RuleCount(w)
  <2>2. m # n => RuleName(cd, Key(w, m)) # RuleName(cd, Key(w, n))
    BY <2>1 DEF NoneRepeats, Key
  <2>. QED  BY <2>2
<1>3. ASSUME NEW n \in 1 .. RuleCount(w)
      PROVE  /\ Key(w, n).from \in Seq(Nat) /\ Key(w, n).to \in Seq(Nat)
             /\ \A k \in DOMAIN Key(w, n).from : Key(w, n).from[k] \in Range(cd)
             /\ \A k \in DOMAIN Key(w, n).to : Key(w, n).to[k] \in Range(cd)
             /\ IsCost(CostAt(w, n))
             /\ n <= PairCount(w) =>
                   RuleName(cd, Key(w, n)).from # RuleName(cd, Key(w, n)).to
  <2>1. /\ Decodes(cd, tk, Key(w, n).from) /\ Decodes(cd, tk, Key(w, n).to)
        /\ IsCost(CostAt(w, n))
        /\ Key(w, n).operation = "substitution" =>
              RuleName(cd, Key(w, n)).from # RuleName(cd, Key(w, n)).to
    BY DEF RulesReadable, Key, CostAt
  <2>2. /\ Key(w, n).from \in Seq(Nat) /\ Key(w, n).to \in Seq(Nat)
        /\ Key(w, n).operation = OperationOf(w, n)
    BY <1>1, KeyFacts
  <2>3. n <= PairCount(w) => OperationOf(w, n) = "substitution"
    BY DEF OperationOf
  <2>. QED  BY <2>1, <2>2, <2>3 DEF Decodes
<1>4. ASSUME NEW n \in 1 .. RuleCount(w), n <= PairCount(w)
      PROVE  DecodeToken(cd, Key(w, n).from) # DecodeToken(cd, Key(w, n).to)
  <2>1. Key(w, n) = [operation |-> OperationOf(w, n), from |-> Key(w, n).from, to |-> Key(w, n).to]
    BY <1>1, KeyFacts
  <2>. DEFINE from == Key(w, n).from
              to   == Key(w, n).to
              key  == [operation |-> OperationOf(w, n), from |-> from, to |-> to]
  <2>2. /\ RuleName(cd, key).from = DecodeToken(cd, from)
        /\ RuleName(cd, key).to = DecodeToken(cd, to)
    <3>. HIDE DEF from, to
    <3>. QED  BY DEF RuleName
  <2>3. RuleName(cd, Key(w, n)).from # RuleName(cd, Key(w, n)).to
    BY <1>3, <1>4
  <2>4. Key(w, n) = key
    BY <2>1
  <2>. HIDE DEF key
  <2>. QED  BY <2>2, <2>3, <2>4
<1>5. ASSUME NEW m \in 1 .. RuleCount(w), NEW n \in 1 .. RuleCount(w), NEW operation,
             OperationOf(w, m) = operation, OperationOf(w, n) = operation,
             NameAt(cd, w, operation, m) = NameAt(cd, w, operation, n)
      PROVE  m = n
  <2>1. DecodeToken(cd, Key(w, m).from) = DecodeToken(cd, Key(w, n).from)
    BY <1>5 DEF NameAt
  <2>2. Key(w, m).from = Key(w, n).from
    BY <1>3, <2>1, DecodeIsInjective
  <2>3. Key(w, m).to = Key(w, n).to
    <3>1. CASE operation = "substitution"
      <4>1. DecodeToken(cd, Key(w, m).to) = DecodeToken(cd, Key(w, n).to)
        BY <1>5, <3>1 DEF NameAt
      <4>. QED  BY <1>3, <4>1, DecodeIsInjective
    <3>2. CASE operation # "substitution"
      <4>1. ~(m <= PairCount(w)) /\ ~(n <= PairCount(w))
        BY <1>5, <3>2 DEF OperationOf
      <4>2. Key(w, m).to = Key(w, m).from /\ Key(w, n).to = Key(w, n).from
        BY <1>1, <4>1, KeyFacts
      <4>. QED  BY <2>2, <4>2
    <3>. QED  BY <3>1, <3>2
  <2>4. /\ Key(w, m) = [operation |-> OperationOf(w, m), from |-> Key(w, m).from, to |-> Key(w, m).to]
        /\ Key(w, n) = [operation |-> OperationOf(w, n), from |-> Key(w, n).from, to |-> Key(w, n).to]
    BY <1>1, KeyFacts
  <2>5. Key(w, m) = Key(w, n)
    BY <1>5, <2>2, <2>3, <2>4
  <2>. QED  BY <1>2, <2>5
<1>. QED  BY <1>1, <1>2, <1>3, <1>4, <1>5

(* Every rule of a readable file is one of the map of its operation.       *)
LEMMA DecodedFacts ==
  ASSUME NEW w, WordsOK(w), NEW cd \in [Chars -> Nat], NEW tk, RulesReadable(cd, tk, w),
         NEW operation
  PROVE  LET f == DecodedRules(cd, w, operation)
         IN  /\ DOMAIN f = {NameAt(cd, w, operation, n) : n \in RulesFor(w, operation)}
             /\ \A n \in RulesFor(w, operation) : f[NameAt(cd, w, operation, n)] = Cost(CostAt(w, n))
<1>. DEFINE ends == RuleEnds(w)
            N    == 1 .. RuleCount(w)
            keys == {RuleKey(w, ends, n) : n \in N}
            token(encoded) == DecodeToken(cd, encoded)
            name(key) == IF operation = "substitution" THEN <<token(key.from), token(key.to)>>
                                                       ELSE token(key.from)
            last(key) == CHOOSE n \in N :
                            /\ RuleKey(w, ends, n) = key
                            /\ \A m \in (n + 1) .. RuleCount(w) : RuleKey(w, ends, m) # key
            own == {key \in keys : key.operation = operation}
            f == DecodedRules(cd, w, operation)
<1>1. f = [k \in {name(key) : key \in own} |->
             Cost(RuleCost(w, ends, last(CHOOSE key \in own : name(key) = k)))]
  BY DEF DecodedRules
<1>2. \A n \in N : RuleKey(w, ends, n) = Key(w, n) /\ RuleCost(w, ends, n) = CostAt(w, n)
  BY DEF Key, CostAt
<1>3. \A n \in N : name(Key(w, n)) = NameAt(cd, w, operation, n)
  BY DEF NameAt
<1>4. RuleEnds(w)[RuleCount(w)] = Len(w) + 1 /\ RuleCount(w) \in Nat
  BY NamesDiffer, CountsAreNaturals
<1>5. own = {Key(w, n) : n \in RulesFor(w, operation)}
  <2>1. \A n \in N : Key(w, n).operation = OperationOf(w, n)
    BY <1>4, KeyFacts
  <2>. HIDE DEF ends
  <2>. QED  BY <1>2, <2>1 DEF RulesFor
<1>. HIDE DEF f, name, own
<1>6. ASSUME NEW n \in N PROVE last(Key(w, n)) = n
  <2>1. /\ RuleKey(w, ends, n) = Key(w, n)
        /\ \A m \in N : RuleKey(w, ends, m) = Key(w, n) => m = n
    BY <1>2, NamesDiffer
  <2>2. \A m \in (n + 1) .. RuleCount(w) : m \in N /\ m # n
    BY <1>4
  <2>3. \A m \in (n + 1) .. RuleCount(w) : RuleKey(w, ends, m) # Key(w, n)
    BY <2>1, <2>2
  <2>. DEFINE Q(m) == /\ RuleKey(w, ends, m) = Key(w, n)
                      /\ \A q \in (m + 1) .. RuleCount(w) : RuleKey(w, ends, q) # Key(w, n)
  <2>4. Q(n) /\ \A m \in N : Q(m) => m = n
    BY <2>1, <2>3
  <2>5. last(Key(w, n)) = CHOOSE m \in N : Q(m)
    OBVIOUS
  <2>. HIDE DEF Q, last, N
  <2>. QED  BY <2>4, <2>5
<1>. HIDE DEF last, ends, N, keys
<1>7. \A m, n \in RulesFor(w, operation) : name(Key(w, m)) = name(Key(w, n)) => m = n
  BY <1>3, NamesDiffer DEF RulesFor, N
<1>8. ASSUME NEW n \in RulesFor(w, operation)
      PROVE  (CHOOSE key \in own : name(key) = name(Key(w, n))) = Key(w, n)
  <2>1. Key(w, n) \in own
    BY <1>5
  <2>2. \A key \in own : name(key) = name(Key(w, n)) => key = Key(w, n)
    BY <1>5, <1>7
  <2>. QED  BY <2>1, <2>2
<1>9. DOMAIN f = {NameAt(cd, w, operation, n) : n \in RulesFor(w, operation)}
  <2>1. DOMAIN f = {name(key) : key \in own}
    BY <1>1
  <2>2. \A n \in RulesFor(w, operation) : n \in N
    BY DEF RulesFor, N
  <2>. QED  BY <1>3, <1>5, <2>1, <2>2
<1>10. ASSUME NEW n \in RulesFor(w, operation)
       PROVE  f[NameAt(cd, w, operation, n)] = Cost(CostAt(w, n))
  <2>1. n \in N
    BY DEF RulesFor, N
  <2>2. NameAt(cd, w, operation, n) = name(Key(w, n)) /\ Key(w, n) \in own
    BY <1>3, <1>5, <2>1
  <2>3. f[name(Key(w, n))]
          = Cost(RuleCost(w, ends, last(CHOOSE key \in own : name(key) = name(Key(w, n)))))
    BY <1>1, <2>2
  <2>4. RuleCost(w, ends, last(Key(w, n))) = CostAt(w, n)
    BY <1>2, <1>6, <2>1
  <2>. QED  BY <1>8, <2>2, <2>3, <2>4
<1>. QED  BY <1>9, <1>10 DEF f

(* As many rules as their count says.                                      *)
LEMMA RulesAreCounted ==
  ASSUME NEW w, WordsOK(w)
  PROVE  /\ IsFiniteSet(RulesFor(w, "substitution"))
         /\ IsFiniteSet(RulesFor(w, "deletion")) /\ IsFiniteSet(RulesFor(w, "insertion"))
         /\ Cardinality(RulesFor(w, "substitution")) = PairCount(w)
         /\ Cardinality(RulesFor(w, "deletion")) = DeletionCount(w)
         /\ Cardinality(RulesFor(w, "insertion")) = InsertionCount(w)
<1>. DEFINE p == PairCount(w)
            d == DeletionCount(w)
            i == InsertionCount(w)
<1>1. p \in Nat /\ d \in Nat /\ i \in Nat /\ RuleCount(w) = p + d + i
  BY CountsAreNaturals
<1>2. RulesFor(w, "substitution") = 1 .. p
  <2>1. RulesFor(w, "substitution") = {n \in 1 .. RuleCount(w) : n <= p}
    BY DEF RulesFor, OperationOf
  <2>. HIDE DEF p, d, i
  <2>2. ASSUME NEW n PROVE n \in RulesFor(w, "substitution") <=> n \in 1 .. p
    <3>1. n \in RulesFor(w, "substitution") <=> n \in 1 .. (p + d + i) /\ n <= p
      BY <1>1, <2>1
    <3>2. n \in 1 .. (p + d + i) /\ n <= p <=> n \in 1 .. p
      BY <1>1
    <3>. QED  BY <3>1, <3>2
  <2>. QED  BY <2>2
<1>3. RulesFor(w, "deletion") = (p + 1) .. (p + d)
  <2>1. RulesFor(w, "deletion") = {n \in 1 .. RuleCount(w) : ~(n <= p) /\ n <= p + d}
    BY DEF RulesFor, OperationOf
  <2>. HIDE DEF p, d, i
  <2>2. ASSUME NEW n PROVE n \in RulesFor(w, "deletion") <=> n \in (p + 1) .. (p + d)
    <3>1. n \in RulesFor(w, "deletion") <=> n \in 1 .. (p + d + i) /\ ~(n <= p) /\ n <= p + d
      BY <1>1, <2>1
    <3>2. n \in 1 .. (p + d + i) /\ ~(n <= p) /\ n <= p + d <=> n \in (p + 1) .. (p + d)
      BY <1>1
    <3>. QED  BY <3>1, <3>2
  <2>. QED  BY <2>2
<1>4. RulesFor(w, "insertion") = (p + d + 1) .. (p + d + i)
  <2>1. RulesFor(w, "insertion") = {n \in 1 .. RuleCount(w) : ~(n <= p) /\ ~(n <= p + d)}
    BY DEF RulesFor, OperationOf
  <2>. HIDE DEF p, d, i
  <2>2. ASSUME NEW n PROVE n \in RulesFor(w, "insertion") <=> n \in (p + d + 1) .. (p + d + i)
    <3>1. n \in RulesFor(w, "insertion") <=> n \in 1 .. (p + d + i) /\ ~(n <= p) /\ ~(n <= p + d)
      BY <1>1, <2>1
    <3>2. n \in 1 .. (p + d + i) /\ ~(n <= p) /\ ~(n <= p + d) <=> n \in (p + d + 1) .. (p + d + i)
      BY <1>1
    <3>. QED  BY <3>1, <3>2
  <2>. QED  BY <2>2
<1>. HIDE DEF p, d, i
<1>5. IsFiniteSet(1 .. p) /\ Cardinality(1 .. p) = p
  BY <1>1, FS_Interval
<1>6. IsFiniteSet((p + 1) .. (p + d)) /\ Cardinality((p + 1) .. (p + d)) = d
  <2>1. p + 1 \in Int /\ p + d \in Int
    BY <1>1
  <2>2. /\ IsFiniteSet((p + 1) .. (p + d))
        /\ Cardinality((p + 1) .. (p + d)) = IF p + 1 > p + d THEN 0 ELSE (p + d) - (p + 1) + 1
    BY <2>1, FS_Interval
  <2>. QED  BY <1>1, <2>2
<1>7. IsFiniteSet((p + d + 1) .. (p + d + i)) /\ Cardinality((p + d + 1) .. (p + d + i)) = i
  <2>1. p + d + 1 \in Int /\ p + d + i \in Int
    BY <1>1
  <2>2. /\ IsFiniteSet((p + d + 1) .. (p + d + i))
        /\ Cardinality((p + d + 1) .. (p + d + i))
             = IF p + d + 1 > p + d + i THEN 0 ELSE (p + d + i) - (p + d + 1) + 1
    BY <2>1, FS_Interval
  <2>. QED  BY <1>1, <2>2
<1>. QED  BY <1>2, <1>3, <1>4, <1>5, <1>6, <1>7 DEF p, d, i

LEMMA ImageIsAsLarge ==
  ASSUME NEW S, IsFiniteSet(S), NEW f, \A x, y \in S : f[x] = f[y] => x = y
  PROVE  /\ IsFiniteSet({f[x] : x \in S})
         /\ Cardinality({f[x] : x \in S}) = Cardinality(S)
<1>. DEFINE T == {f[x] : x \in S}
            g == [x \in S |-> f[x]]
<1>1. g \in Bijection(S, T)
  <2>1. g \in [S -> T] /\ \A x \in S : g[x] = f[x]
    OBVIOUS
  <2>2. \A y \in T : \E x \in S : g[x] = y
    BY <2>1
  <2>3. \A x, y \in S : g[x] = g[y] => x = y
    BY <2>1
  <2>. HIDE DEF g, T
  <2>. QED  BY <2>1, <2>2, <2>3 DEF Bijection, Injection, Surjection, IsInjective
<1>2. ExistsBijection(S, T)
  BY <1>1 DEF ExistsBijection
<1>. HIDE DEF T, g
<1>3. IsFiniteSet(T) /\ Cardinality(T) = Cardinality(S)
  BY <1>2, FS_Bijection
<1>. QED  BY <1>3 DEF T

LEMMA DecodedSize ==
  ASSUME NEW w, WordsOK(w), NEW cd \in [Chars -> Nat], NEW tk, RulesReadable(cd, tk, w),
         NEW operation, IsFiniteSet(RulesFor(w, operation))
  PROVE  Size(DecodedRules(cd, w, operation)) = Cardinality(RulesFor(w, operation))
<1>. DEFINE S == RulesFor(w, operation)
            name == [n \in S |-> NameAt(cd, w, operation, n)]
<1>1. DOMAIN DecodedRules(cd, w, operation) = {NameAt(cd, w, operation, n) : n \in S}
  BY DecodedFacts
<1>2. {NameAt(cd, w, operation, n) : n \in S} = {name[n] : n \in S}
  OBVIOUS
<1>3. \A m, n \in S : name[m] = name[n] => m = n
  <2>1. \A m, n \in S : NameAt(cd, w, operation, m) = NameAt(cd, w, operation, n) => m = n
    BY NamesDiffer DEF RulesFor
  <2>2. \A n \in S : name[n] = NameAt(cd, w, operation, n)
    OBVIOUS
  <2>. HIDE DEF S, name
  <2>. QED  BY <2>1, <2>2
<1>. HIDE DEF name
<1>4. Cardinality({name[n] : n \in S}) = Cardinality(S)
  BY <1>3, ImageIsAsLarge
<1>. QED  BY <1>1, <1>2, <1>4 DEF Size

(* What NoRuleIsLost says of a policy opened from words.                   *)
Charges(p, cd, w) ==
  /\ Size(p.substitutions) = PairCount(w)
  /\ Size(p.deletions) = DeletionCount(w)
  /\ Size(p.insertions) = InsertionCount(w)
  /\ \A n \in 1 .. RuleCount(w) :
       LET from == DecodeToken(cd, Key(w, n).from)
           to   == DecodeToken(cd, Key(w, n).to)
           cost == Cost(CostAt(w, n))
       IN  CASE Key(w, n).operation = "substitution" -> Substitution(p, from, to) = cost
             [] Key(w, n).operation = "deletion"     -> Deletion(p, from) = cost
             [] OTHER                                -> Insertion(p, from) = cost

LEMMA DecodedCharges ==
  ASSUME NEW w, WordsOK(w), NEW cd \in [Chars -> Nat], NEW tk, RulesReadable(cd, tk, w)
  PROVE  Charges(DecodeCustom(cd, w), cd, w)
<1>. DEFINE p == DecodeCustom(cd, w)
<1>1. /\ p.kind = "custom"
      /\ p.substitutions = DecodedRules(cd, w, "substitution")
      /\ p.deletions = DecodedRules(cd, w, "deletion")
      /\ p.insertions = DecodedRules(cd, w, "insertion")
  BY DEF DecodeCustom
<1>. HIDE DEF p
<1>2. /\ Size(p.substitutions) = PairCount(w)
      /\ Size(p.deletions) = DeletionCount(w)
      /\ Size(p.insertions) = InsertionCount(w)
  BY <1>1, RulesAreCounted, DecodedSize
<1>3. ASSUME NEW n \in 1 .. RuleCount(w)
      PROVE  /\ n \in RulesFor(w, OperationOf(w, n)) /\ Key(w, n).operation = OperationOf(w, n)
             /\ OperationOf(w, n) \in {"substitution", "deletion", "insertion"}
             /\ OperationOf(w, n) = "substitution" => n <= PairCount(w)
  <2>1. RuleEnds(w)[RuleCount(w)] = Len(w) + 1
    BY NamesDiffer
  <2>2. Key(w, n).operation = OperationOf(w, n)
    BY <2>1, KeyFacts
  <2>. QED  BY <2>2 DEF RulesFor, OperationOf
<1>4. ASSUME NEW n \in 1 .. RuleCount(w), NEW operation, OperationOf(w, n) = operation
      PROVE  LET f == DecodedRules(cd, w, operation)
                 name == NameAt(cd, w, operation, n)
             IN  name \in DOMAIN f /\ f[name] = Cost(CostAt(w, n))
  <2>1. n \in RulesFor(w, operation)
    BY <1>3, <1>4
  <2>. DEFINE f == DecodedRules(cd, w, operation)
  <2>2. /\ DOMAIN f = {NameAt(cd, w, operation, m) : m \in RulesFor(w, operation)}
        /\ \A m \in RulesFor(w, operation) : f[NameAt(cd, w, operation, m)] = Cost(CostAt(w, m))
    BY DecodedFacts
  <2>. HIDE DEF f
  <2>3. f[NameAt(cd, w, operation, n)] = Cost(CostAt(w, n))
    BY <2>1, <2>2
  <2>4. NameAt(cd, w, operation, n) \in DOMAIN f
    BY <2>1, <2>2
  <2>. QED  BY <2>3, <2>4 DEF f
<1>5. ASSUME NEW n \in 1 .. RuleCount(w)
      PROVE  LET from == DecodeToken(cd, Key(w, n).from)
                 to   == DecodeToken(cd, Key(w, n).to)
                 cost == Cost(CostAt(w, n))
             IN  CASE Key(w, n).operation = "substitution" -> Substitution(p, from, to) = cost
                   [] Key(w, n).operation = "deletion"     -> Deletion(p, from) = cost
                   [] OTHER                                -> Insertion(p, from) = cost
  <2>. DEFINE from == DecodeToken(cd, Key(w, n).from)
              to   == DecodeToken(cd, Key(w, n).to)
  <2>1. CASE OperationOf(w, n) = "substitution"
    <3>1. NameAt(cd, w, "substitution", n) = <<from, to>>
      BY DEF NameAt
    <3>2. from # to
      BY <1>3, <2>1, NamesDiffer
    <3>3. Substitution(p, from, to) = CustomSubstitution(p, from, to)
      BY <1>1 DEF Substitution
    <3>4. <<from, to>> \in DOMAIN p.substitutions /\ p.substitutions[<<from, to>>] = Cost(CostAt(w, n))
      BY <1>1, <1>4, <2>1, <3>1
    <3>. HIDE DEF from, to
    <3>5. Substitution(p, from, to) = Cost(CostAt(w, n))
      BY <3>2, <3>3, <3>4 DEF CustomSubstitution, Override
    <3>6. Key(w, n).operation = "substitution"
      BY <1>3, <2>1
    <3>. QED  BY <3>5, <3>6 DEF from, to
  <2>2. CASE OperationOf(w, n) = "deletion"
    <3>1. NameAt(cd, w, "deletion", n) = from
      BY DEF NameAt
    <3>2. Deletion(p, from) = Override(p.deletions, from, p.defaults.deletion)
      BY <1>1 DEF Deletion
    <3>3. from \in DOMAIN p.deletions /\ p.deletions[from] = Cost(CostAt(w, n))
      BY <1>1, <1>4, <2>2, <3>1
    <3>. HIDE DEF from, to
    <3>4. Deletion(p, from) = Cost(CostAt(w, n))
      BY <3>2, <3>3 DEF Override
    <3>5. Key(w, n).operation = "deletion"
      BY <1>3, <2>2
    <3>. QED  BY <3>4, <3>5 DEF from
  <2>3. CASE OperationOf(w, n) = "insertion"
    <3>1. NameAt(cd, w, "insertion", n) = from
      BY DEF NameAt
    <3>2. Insertion(p, from) = Override(p.insertions, from, p.defaults.insertion)
      BY <1>1 DEF Insertion
    <3>3. from \in DOMAIN p.insertions /\ p.insertions[from] = Cost(CostAt(w, n))
      BY <1>1, <1>4, <2>3, <3>1
    <3>. HIDE DEF from, to
    <3>4. Insertion(p, from) = Cost(CostAt(w, n))
      BY <3>2, <3>3 DEF Override
    <3>5. Key(w, n).operation = "insertion"
      BY <1>3, <2>3
    <3>. QED  BY <3>4, <3>5 DEF from
  <2>. QED  BY <1>3, <2>1, <2>2, <2>3
<1>. QED  BY <1>2, <1>5 DEF p, Charges

(***************************************************************************)
(* What is saved.                                                          *)
(***************************************************************************)
MapOK(f, K) ==
  /\ f \in [DOMAIN f -> 0 .. MaxCost]
  /\ DOMAIN f \in SUBSET K
  /\ IsFiniteSet(DOMAIN f)

Pairs(K) == {pair \in K \X K : pair[1] # pair[2]}

CustomOK(p, K) ==
  /\ p = [kind |-> "custom", defaults |-> p.defaults, substitutions |-> p.substitutions,
          deletions |-> p.deletions, insertions |-> p.insertions]
  /\ \A field \in {"substitution", "deletion", "insertion"} : p.defaults[field] \in 0 .. MaxCost
  /\ MapOK(p.substitutions, Pairs(K))
  /\ MapOK(p.deletions, K)
  /\ MapOK(p.insertions, K)

(* The rules of a map as they are encoded, and their set.                  *)
PairRule(cd, f, pair) ==
  [from |-> EncodeToken(cd, pair[1]), to |-> EncodeToken(cd, pair[2]), cost |-> f[pair]]
SingleRule(cd, f, token) == [from |-> EncodeToken(cd, token), to |-> <<>>, cost |-> f[token]]

PairSet(cd, f)   == {PairRule(cd, f, pair) : pair \in DOMAIN f}
SingleSet(cd, f) == {SingleRule(cd, f, token) : token \in DOMAIN f}

LEMMA EncodedToken ==
  ASSUME NEW cd \in [Chars -> Nat], NEW token \in Seq(Chars)
  PROVE  /\ EncodeToken(cd, token) \in Seq(Nat)
         /\ Len(EncodeToken(cd, token)) = Len(token)
         /\ \A k \in DOMAIN EncodeToken(cd, token) : EncodeToken(cd, token)[k] \in Range(cd)
<1>. DEFINE e == EncodeToken(cd, token)
<1>1. e = [k \in 1 .. Len(token) |-> cd[token[k]]] /\ Len(token) \in Nat
  BY DEF EncodeToken
<1>2. \A k \in 1 .. Len(token) : token[k] \in Chars
  OBVIOUS
<1>3. \A k \in 1 .. Len(token) : cd[token[k]] \in Nat /\ cd[token[k]] \in Range(cd)
  BY <1>2 DEF Range
<1>. HIDE DEF e
<1>4. e \in Seq(Nat)
  BY <1>1, <1>3
<1>5. Len(e) = Len(token)
  BY <1>1
<1>6. \A k \in DOMAIN e : e[k] \in Range(cd)
  BY <1>1, <1>3
<1>. QED  BY <1>4, <1>5, <1>6 DEF e

LEMMA PairsAreRules ==
  ASSUME NEW cd \in [Chars -> Nat], NEW K \in SUBSET Seq(Chars), NEW f, MapOK(f, Pairs(K)),
         \A pair \in DOMAIN f : /\ DecodeToken(cd, EncodeToken(cd, pair[1])) = pair[1]
                                /\ DecodeToken(cd, EncodeToken(cd, pair[2])) = pair[2]
  PROVE  /\ AreRules(PairSet(cd, f)) /\ Cardinality(PairSet(cd, f)) = Size(f)
         /\ \A r \in PairSet(cd, f) : r.cost \in 0 .. MaxCost
<1>. DEFINE S == PairSet(cd, f)
            g == [pair \in DOMAIN f |-> PairRule(cd, f, pair)]
<1>1. \A pair \in DOMAIN f : /\ pair = <<pair[1], pair[2]>> /\ pair[1] \in Seq(Chars) /\ pair[2] \in Seq(Chars)
                             /\ f[pair] \in 0 .. MaxCost
  <2>. TAKE pair \in DOMAIN f
  <2>1. pair \in K \X K /\ f[pair] \in 0 .. MaxCost
    BY DEF MapOK, Pairs
  <2>. QED  BY <2>1
<1>2. \A pair \in DOMAIN f : /\ EncodeToken(cd, pair[1]) \in Seq(Nat)
                             /\ EncodeToken(cd, pair[2]) \in Seq(Nat)
  BY <1>1, EncodedToken
<1>3. \A pair, q \in DOMAIN f :
         /\ EncodeToken(cd, pair[1]) = EncodeToken(cd, q[1])
         /\ EncodeToken(cd, pair[2]) = EncodeToken(cd, q[2])
         => pair = q
  <2>. TAKE pair, q \in DOMAIN f
  <2>1. HAVE /\ EncodeToken(cd, pair[1]) = EncodeToken(cd, q[1])
             /\ EncodeToken(cd, pair[2]) = EncodeToken(cd, q[2])
  <2>2. pair[1] = q[1] /\ pair[2] = q[2]
    BY <2>1
  <2>3. pair = <<pair[1], pair[2]>> /\ q = <<q[1], q[2]>>
    BY <1>1
  <2>. QED  BY <2>2, <2>3
<1>4. \A r \in S : \E pair \in DOMAIN f : r = PairRule(cd, f, pair)
  BY DEF PairSet
<1>5. \A pair \in DOMAIN f : /\ PairRule(cd, f, pair).from = EncodeToken(cd, pair[1])
                             /\ PairRule(cd, f, pair).to = EncodeToken(cd, pair[2])
                             /\ PairRule(cd, f, pair).cost = f[pair]
  BY DEF PairRule
<1>6. IsFiniteSet(DOMAIN f) /\ S = {g[pair] : pair \in DOMAIN f}
  BY DEF MapOK, PairSet
<1>7. \A pair, q \in DOMAIN f : g[pair] = g[q] => pair = q
  <2>1. \A pair \in DOMAIN f : g[pair] = PairRule(cd, f, pair)
    OBVIOUS
  <2>. HIDE DEF g
  <2>. QED  BY <1>3, <1>5, <2>1
<1>. HIDE DEF g, S
<1>8. Cardinality(S) = Size(f) /\ IsFiniteSet(S)
  BY <1>6, <1>7, ImageIsAsLarge DEF Size
<1>9. \A r \in S : r.from \in Seq(Nat) /\ r.to \in Seq(Nat) /\ r.cost \in 0 .. MaxCost
  BY <1>1, <1>2, <1>4, <1>5
<1>10. \A r, s \in S : r.from = s.from /\ r.to = s.to => r = s
  <2>. TAKE r, s \in S
  <2>1. HAVE r.from = s.from /\ r.to = s.to
  <2>2. PICK pair \in DOMAIN f : r = PairRule(cd, f, pair)
    BY <1>4
  <2>3. PICK q \in DOMAIN f : s = PairRule(cd, f, q)
    BY <1>4
  <2>4. pair = q
    BY <1>3, <1>5, <2>1, <2>2, <2>3
  <2>. QED  BY <2>2, <2>3, <2>4
<1>. QED  BY <1>8, <1>9, <1>10 DEF AreRules, S

LEMMA SinglesAreRules ==
  ASSUME NEW cd \in [Chars -> Nat], NEW K \in SUBSET Seq(Chars), NEW f, MapOK(f, K),
         \A token \in DOMAIN f : DecodeToken(cd, EncodeToken(cd, token)) = token
  PROVE  /\ AreRules(SingleSet(cd, f)) /\ Cardinality(SingleSet(cd, f)) = Size(f)
         /\ \A r \in SingleSet(cd, f) : r.cost \in 0 .. MaxCost
<1>. DEFINE S == SingleSet(cd, f)
            g == [token \in DOMAIN f |-> SingleRule(cd, f, token)]
<1>1. \A token \in DOMAIN f : token \in Seq(Chars) /\ f[token] \in 0 .. MaxCost
  BY DEF MapOK
<1>2. \A token \in DOMAIN f : EncodeToken(cd, token) \in Seq(Nat)
  BY <1>1, EncodedToken
<1>3. \A token, q \in DOMAIN f : EncodeToken(cd, token) = EncodeToken(cd, q) => token = q
  <2>. TAKE token, q \in DOMAIN f
  <2>1. HAVE EncodeToken(cd, token) = EncodeToken(cd, q)
  <2>. QED  BY <2>1
<1>4. \A r \in S : \E token \in DOMAIN f : r = SingleRule(cd, f, token)
  BY DEF SingleSet
<1>5. \A token \in DOMAIN f : /\ SingleRule(cd, f, token).from = EncodeToken(cd, token)
                              /\ SingleRule(cd, f, token).to = <<>>
                              /\ SingleRule(cd, f, token).cost = f[token]
  BY DEF SingleRule
<1>6. IsFiniteSet(DOMAIN f) /\ S = {g[token] : token \in DOMAIN f}
  BY DEF MapOK, SingleSet
<1>7. \A token, q \in DOMAIN f : g[token] = g[q] => token = q
  <2>1. \A token \in DOMAIN f : g[token] = SingleRule(cd, f, token)
    OBVIOUS
  <2>. HIDE DEF g
  <2>. QED  BY <1>3, <1>5, <2>1
<1>. HIDE DEF g, S
<1>8. Cardinality(S) = Size(f) /\ IsFiniteSet(S)
  BY <1>6, <1>7, ImageIsAsLarge DEF Size
<1>9. \A r \in S : r.from \in Seq(Nat) /\ r.to \in Seq(Nat) /\ r.cost \in 0 .. MaxCost
  <2>. TAKE r \in S
  <2>1. PICK token \in DOMAIN f : r = SingleRule(cd, f, token)
    BY <1>4
  <2>2. r.from = EncodeToken(cd, token) /\ r.to = <<>> /\ r.cost = f[token]
    BY <1>5, <2>1
  <2>3. EncodeToken(cd, token) \in Seq(Nat) /\ <<>> \in Seq(Nat) /\ f[token] \in 0 .. MaxCost
    BY <1>1, <1>2
  <2>. QED  BY <2>2, <2>3
<1>10. \A r, s \in S : r.from = s.from /\ r.to = s.to => r = s
  <2>. TAKE r, s \in S
  <2>1. HAVE r.from = s.from /\ r.to = s.to
  <2>2. PICK token \in DOMAIN f : r = SingleRule(cd, f, token)
    BY <1>4
  <2>3. PICK q \in DOMAIN f : s = SingleRule(cd, f, q)
    BY <1>4
  <2>4. token = q
    BY <1>3, <1>5, <2>1, <2>2, <2>3
  <2>. QED  BY <2>2, <2>3, <2>4
<1>. QED  BY <1>8, <1>9, <1>10 DEF AreRules, S

(* The rules in their order: the words of each, and the words of all.      *)
AreWords(records, n) ==
  records \in Seq(Seq(Nat)) /\ Len(records) = n

LEMMA FramedIsWords ==
  ASSUME NEW s \in Seq(Nat)
  PROVE  /\ Framed(s) \in Seq(Nat) /\ Len(Framed(s)) = Len(s) + 1 /\ Framed(s)[1] = Len(s)
         /\ \A k \in 1 .. Len(s) : Framed(s)[k + 1] = s[k]
<1>1. <<Len(s)>> \in Seq(Nat) /\ Len(<<Len(s)>>) = 1 /\ <<Len(s)>>[1] = Len(s) /\ Len(s) \in Nat
  OBVIOUS
<1>. DEFINE head == <<Len(s)>>
<1>2. head \in Seq(Nat) /\ Len(head) = 1 /\ head[1] = Len(s) /\ Len(s) \in Nat
  BY <1>1
<1>. HIDE DEF head
<1>3. /\ head \o s \in Seq(Nat) /\ Len(head \o s) = Len(s) + 1
      /\ \A i \in 1 .. (Len(s) + 1) : (head \o s)[i] = IF i <= 1 THEN head[i] ELSE s[i - 1]
  <2>1. /\ head \o s \in Seq(Nat) /\ Len(head \o s) = Len(head) + Len(s)
        /\ \A i \in 1 .. (Len(head) + Len(s)) :
              (head \o s)[i] = IF i <= Len(head) THEN head[i] ELSE s[i - Len(head)]
    BY <1>2, ConcatProperties
  <2>. QED  BY <1>2, <2>1
<1>4. (head \o s)[1] = Len(s)
  BY <1>2, <1>3
<1>5. \A k \in 1 .. Len(s) : (head \o s)[k + 1] = s[k]
  BY <1>2, <1>3
<1>. QED  BY <1>3, <1>4, <1>5 DEF Framed, head

LEMMA SortedRules ==
  ASSUME NEW S, AreRules(S), \A r \in S : r.cost \in 0 .. MaxCost
  PROVE  LET s == SortedBy(S, RulePrecedes)
         IN  /\ Cardinality(S) \in Nat /\ s \in [1 .. Cardinality(S) -> S]
             /\ \A r \in S : \E n \in 1 .. Cardinality(S) : s[n] = r
             /\ \A m, n \in 1 .. Cardinality(S) : s[m] = s[n] => m = n
             /\ AreWords(PairRecords(s), Cardinality(S))
             /\ AreWords(SingleRecords(s), Cardinality(S))
<1>. DEFINE s == SortedBy(S, RulePrecedes)
            n == Cardinality(S)
<1>1. Sorts(S, RuleOrder(S), s, n)
  BY RulesAreSorted
<1>2. n \in Nat /\ s \in [1 .. n -> S] /\ \A r \in S : \E k \in 1 .. n : s[k] = r
  BY <1>1 DEF Sorts
<1>3. StrictOrder(S, RuleOrder(S))
  BY RulesAreOrdered
<1>. HIDE DEF s, n
<1>4. ASSUME NEW k \in 1 .. n, NEW m \in 1 .. n, s[k] = s[m] PROVE k = m
  <2>1. k < m => <<s[k], s[m]>> \in RuleOrder(S)
    BY <1>1 DEF Sorts
  <2>2. m < k => <<s[m], s[k]>> \in RuleOrder(S)
    BY <1>1 DEF Sorts
  <2>3. s[k] \in S /\ s[m] \in S
    BY <1>2
  <2>4. <<s[k], s[m]>> \notin RuleOrder(S) /\ <<s[m], s[k]>> \notin RuleOrder(S)
    BY <1>3, <1>4, <2>3 DEF StrictOrder
  <2>. QED  BY <1>2, <2>1, <2>2, <2>4
<1>5. \A k \in 1 .. n : s[k].from \in Seq(Nat) /\ s[k].to \in Seq(Nat) /\ s[k].cost \in Nat
  <2>. TAKE k \in 1 .. n
  <2>1. s[k] \in S
    BY <1>2
  <2>. QED  BY <2>1, NumbersAssumption DEF AreRules
<1>6. \A k \in 1 .. n : /\ Framed(s[k].from) \in Seq(Nat) /\ Framed(s[k].to) \in Seq(Nat)
                        /\ <<s[k].cost>> \in Seq(Nat)
  <2>. TAKE k \in 1 .. n
  <2>. DEFINE f == s[k].from
              t == s[k].to
              x == s[k].cost
  <2>1. f \in Seq(Nat) /\ t \in Seq(Nat) /\ x \in Nat
    BY <1>5
  <2>. HIDE DEF f, t, x
  <2>2. Framed(f) \in Seq(Nat) /\ Framed(t) \in Seq(Nat)
    BY <2>1, FramedIsWords
  <2>3. <<x>> \in Seq(Nat)
    BY <2>1
  <2>. QED  BY <2>2, <2>3 DEF f, t, x
<1>7. \A k \in 1 .. n : /\ Framed(s[k].from) \o Framed(s[k].to) \o <<s[k].cost>> \in Seq(Nat)
                        /\ Framed(s[k].from) \o <<s[k].cost>> \in Seq(Nat)
  BY <1>6, ConcatProperties
<1>8. DOMAIN s = 1 .. n
  BY <1>2
<1>9. AreWords(PairRecords(s), n)
  <2>1. PairRecords(s) = [k \in 1 .. n |-> Framed(s[k].from) \o Framed(s[k].to) \o <<s[k].cost>>]
    BY <1>8 DEF PairRecords
  <2>2. PairRecords(s) \in [1 .. n -> Seq(Nat)]
    BY <1>7, <2>1
  <2>. QED  BY <1>2, <2>2 DEF AreWords
<1>10. AreWords(SingleRecords(s), n)
  <2>1. SingleRecords(s) = [k \in 1 .. n |-> Framed(s[k].from) \o <<s[k].cost>>]
    BY <1>8 DEF SingleRecords
  <2>2. SingleRecords(s) \in [1 .. n -> Seq(Nat)]
    BY <1>7, <2>1
  <2>. QED  BY <1>2, <2>2 DEF AreWords
<1>. QED  BY <1>2, <1>4, <1>9, <1>10 DEF s, n

Records(cd, p) ==
  PairRecords(PairRules(cd, p.substitutions))
    \o SingleRecords(SingleRules(cd, p.deletions))
    \o SingleRecords(SingleRules(cd, p.insertions))

Header(p) ==
  <<Version, p.defaults.substitution, p.defaults.deletion, p.defaults.insertion,
    Size(p.substitutions), Size(p.deletions), Size(p.insertions)>>

(* A policy whose tokens the codec gives back.                             *)
Encodable(cd, p, K) ==
  /\ cd \in [Chars -> Nat] /\ K \in SUBSET Seq(Chars)
  /\ CustomOK(p, K) /\ RoundTrip(cd, CustomTokens(p))

LEMMA EncodableRules ==
  ASSUME NEW cd, NEW p, NEW K, Encodable(cd, p, K)
  PROVE  LET S == PairSet(cd, p.substitutions)
             D == SingleSet(cd, p.deletions)
             I == SingleSet(cd, p.insertions)
         IN  /\ AreRules(S) /\ AreRules(D) /\ AreRules(I)
             /\ \A r \in S \cup D \cup I : r.cost \in 0 .. MaxCost
             /\ Cardinality(S) = Size(p.substitutions)
             /\ Cardinality(D) = Size(p.deletions)
             /\ Cardinality(I) = Size(p.insertions)
<1>1. /\ cd \in [Chars -> Nat] /\ K \in SUBSET Seq(Chars)
      /\ MapOK(p.substitutions, Pairs(K)) /\ MapOK(p.deletions, K) /\ MapOK(p.insertions, K)
      /\ \A token \in CustomTokens(p) : DecodeToken(cd, EncodeToken(cd, token)) = token
  BY DEF Encodable, CustomOK, RoundTrip
<1>2. /\ \A pair \in DOMAIN p.substitutions : pair[1] \in CustomTokens(p) /\ pair[2] \in CustomTokens(p)
      /\ DOMAIN p.deletions \in SUBSET CustomTokens(p) /\ DOMAIN p.insertions \in SUBSET CustomTokens(p)
  <2>1. ASSUME NEW pair \in DOMAIN p.substitutions
        PROVE  pair[1] \in CustomTokens(p) /\ pair[2] \in CustomTokens(p)
    <3>. DEFINE ends == {pair[1], pair[2]}
    <3>1. ends \in {{q[1], q[2]} : q \in DOMAIN p.substitutions}
      OBVIOUS
    <3>2. ends \in SUBSET CustomTokens(p)
      <4>. HIDE DEF ends
      <4>. QED  BY <3>1, Zenon DEF CustomTokens
    <3>. QED  BY <3>2
  <2>2. DOMAIN p.deletions \in SUBSET CustomTokens(p) /\ DOMAIN p.insertions \in SUBSET CustomTokens(p)
    BY DEF CustomTokens
  <2>. QED  BY <2>1, <2>2
<1>3. /\ AreRules(PairSet(cd, p.substitutions))
      /\ Cardinality(PairSet(cd, p.substitutions)) = Size(p.substitutions)
      /\ \A r \in PairSet(cd, p.substitutions) : r.cost \in 0 .. MaxCost
  BY <1>1, <1>2, PairsAreRules
<1>4. /\ AreRules(SingleSet(cd, p.deletions))
      /\ Cardinality(SingleSet(cd, p.deletions)) = Size(p.deletions)
      /\ \A r \in SingleSet(cd, p.deletions) : r.cost \in 0 .. MaxCost
  BY <1>1, <1>2, SinglesAreRules
<1>5. /\ AreRules(SingleSet(cd, p.insertions))
      /\ Cardinality(SingleSet(cd, p.insertions)) = Size(p.insertions)
      /\ \A r \in SingleSet(cd, p.insertions) : r.cost \in 0 .. MaxCost
  BY <1>1, <1>2, SinglesAreRules
<1>. QED  BY <1>3, <1>4, <1>5

LEMMA RulesInOrder ==
  ASSUME NEW cd, NEW f
  PROVE  /\ PairRules(cd, f) = SortedBy(PairSet(cd, f), RulePrecedes)
         /\ SingleRules(cd, f) = SortedBy(SingleSet(cd, f), RulePrecedes)
BY DEF PairRules, SingleRules, PairSet, SingleSet, PairRule, SingleRule

LEMMA RecordsAreWords ==
  ASSUME NEW cd, NEW p, NEW K, Encodable(cd, p, K)
  PROVE  /\ AreWords(PairRecords(PairRules(cd, p.substitutions)), Size(p.substitutions))
         /\ AreWords(SingleRecords(SingleRules(cd, p.deletions)), Size(p.deletions))
         /\ AreWords(SingleRecords(SingleRules(cd, p.insertions)), Size(p.insertions))
         /\ Records(cd, p) \in Seq(Seq(Nat))
         /\ Len(Records(cd, p)) = Size(p.substitutions) + Size(p.deletions) + Size(p.insertions)
         /\ Size(p.substitutions) \in Nat /\ Size(p.deletions) \in Nat /\ Size(p.insertions) \in Nat
<1>. DEFINE s == PairRecords(PairRules(cd, p.substitutions))
            d == SingleRecords(SingleRules(cd, p.deletions))
            i == SingleRecords(SingleRules(cd, p.insertions))
<1>1. AreWords(s, Size(p.substitutions)) /\ Size(p.substitutions) \in Nat
  BY EncodableRules, RulesInOrder, SortedRules
<1>2. AreWords(d, Size(p.deletions)) /\ Size(p.deletions) \in Nat
  BY EncodableRules, RulesInOrder, SortedRules
<1>3. AreWords(i, Size(p.insertions)) /\ Size(p.insertions) \in Nat
  BY EncodableRules, RulesInOrder, SortedRules
<1>. HIDE DEF s, d, i
<1>4. /\ (s \o d) \o i \in Seq(Seq(Nat))
      /\ Len((s \o d) \o i) = Size(p.substitutions) + Size(p.deletions) + Size(p.insertions)
  <2>1. /\ s \o d \in Seq(Seq(Nat)) /\ Len(s \o d) = Len(s) + Len(d)
    BY <1>1, <1>2, ConcatProperties DEF AreWords
  <2>2. (s \o d) \o i \in Seq(Seq(Nat)) /\ Len((s \o d) \o i) = Len(s \o d) + Len(i)
    BY <1>3, <2>1, ConcatProperties DEF AreWords
  <2>. QED  BY <1>1, <1>2, <1>3, <2>1, <2>2 DEF AreWords
<1>5. Records(cd, p) = (s \o d) \o i
  BY DEF Records, s, d, i
<1>. QED  BY <1>1, <1>2, <1>3, <1>4, <1>5 DEF s, d, i

LEMMA EncodedIsWords ==
  ASSUME NEW cd, NEW p, NEW K, Encodable(cd, p, K)
  PROVE  LET w == EncodeCustom(cd, p)
         IN  /\ WordsOK(w) /\ w = Header(p) \o FlattenSeq(Records(cd, p))
             /\ Header(p) \in Seq(Nat) /\ Len(Header(p)) = 7
             /\ FlattenSeq(Records(cd, p)) \in Seq(Nat)
             /\ Len(w) = 7 + Len(FlattenSeq(Records(cd, p)))
             /\ \A k \in 1 .. 7 : w[k] = Header(p)[k]
<1>. DEFINE w == EncodeCustom(cd, p)
            h == Header(p)
            r == FlattenSeq(Records(cd, p))
<1>1. w = h \o r
  BY DEF EncodeCustom, Header, Records
<1>2. r \in Seq(Nat)
  BY RecordsAreWords, FlattenType
<1>3. h \in Seq(Nat) /\ Len(h) = 7
  <2>1. /\ p.defaults.substitution \in Nat /\ p.defaults.deletion \in Nat /\ p.defaults.insertion \in Nat
    BY NumbersAssumption DEF Encodable, CustomOK
  <2>2. Size(p.substitutions) \in Nat /\ Size(p.deletions) \in Nat /\ Size(p.insertions) \in Nat
    BY RecordsAreWords
  <2>. QED  BY <2>1, <2>2 DEF Header, Version
<1>. HIDE DEF h, r, w
<1>4. /\ w \in Seq(Nat) /\ Len(w) = Len(h) + Len(r)
      /\ \A k \in 1 .. (Len(h) + Len(r)) : w[k] = IF k <= Len(h) THEN h[k] ELSE r[k - Len(h)]
  BY <1>1, <1>2, <1>3, ConcatProperties
<1>5. Len(r) \in Nat
  BY <1>2
<1>6. WordsOK(w) /\ Len(w) = 7 + Len(r)
  BY <1>3, <1>4, <1>5 DEF WordsOK, HeaderLen
<1>7. \A k \in 1 .. 7 : w[k] = h[k]
  BY <1>3, <1>4, <1>5
<1>. QED  BY <1>1, <1>2, <1>3, <1>6, <1>7 DEF w, h, r

------------------------------------------------------------------------------
(***************************************************************************)
(* The life of a policy.                                                   *)
(***************************************************************************)
CosineForm(p) == p = [kind |-> "embedding", defaults |-> p.defaults, rows |-> p.rows]

PolicyOK(p) == p = Levenshtein \/ CosineForm(p) \/ CustomOK(p, Tokens)

OpenedOK(p, w) ==
  p.kind = "custom" /\ w # <<>> =>
    /\ WordsOK(w)
    /\ CustomReadable(codec, tokenizer, w)
    /\ p = DecodeCustom(codec, w)

PolicyInv ==
  /\ codec \in Codecs
  /\ stage \in {"configured", "reading", "loaded", "refused", "saved", "unsaved", "opened",
                "corrupt", "verified", "invalid"}
  /\ stage = "configured" => config \in Configs
  /\ stage \in {"configured", "reading", "loaded"} => words = <<>>
  /\ stage \in {"reading", "loaded"} => PolicyOK(policy)
  /\ stage = "saved" /\ policy.kind = "custom" => WordsOK(words)
  /\ stage \in {"opened", "verified"} => OpenedOK(policy, words)

LEMMA TokensAreTyped ==
  Tokens \in SUBSET Seq(Chars) /\ \A token \in Tokens : IsToken(token)
<1>1. \A token \in Tokens : IsToken(token)
  BY TokenIsTyped DEF Tokens
<1>. QED  BY <1>1 DEF IsToken

LEMMA KindsDiffer ==
  ASSUME NEW p
  PROVE  /\ CosineForm(p) => p.kind = "embedding"
         /\ CustomOK(p, Tokens) => p.kind = "custom"
         /\ p = Levenshtein => p.kind = "levenshtein"
BY DEF CosineForm, CustomOK, Levenshtein

LEMMA CostIsNatural ==
  ASSUME NEW number, IsCost(number)
  PROVE  Cost(number) \in 0 .. MaxCost
BY NumbersAssumption DEF IsCost, Cost

LEMMA NewMapOK == ASSUME NEW K PROVE MapOK(<<>>, K)
<1>1. <<>> = [k \in {} |-> 0] /\ DOMAIN <<>> = {}
  OBVIOUS
<1>2. <<>> \in [{} -> 0 .. MaxCost]
  BY <1>1
<1>. QED  BY <1>1, <1>2, FS_EmptySet DEF MapOK

LEMMA SetMapOK ==
  ASSUME NEW K, NEW f, MapOK(f, K), NEW key \in K, NEW cost \in 0 .. MaxCost
  PROVE  MapOK(Set(f, key, cost), K)
<1>. DEFINE g == Set(f, key, cost)
            D == DOMAIN f \cup {key}
<1>1. g = [k \in D |-> IF k = key THEN cost ELSE f[k]]
  BY DEF Set
<1>2. f \in [DOMAIN f -> 0 .. MaxCost] /\ DOMAIN f \in SUBSET K /\ IsFiniteSet(DOMAIN f)
  BY DEF MapOK
<1>3. IsFiniteSet(D) /\ D \in SUBSET K
  BY <1>2, FS_AddElement
<1>4. \A k \in D : (IF k = key THEN cost ELSE f[k]) \in 0 .. MaxCost
  BY <1>2
<1>. HIDE DEF g, D
<1>5. g \in [D -> 0 .. MaxCost] /\ DOMAIN g = D
  BY <1>1, <1>4
<1>. QED  BY <1>3, <1>5 DEF MapOK, g

LEMMA PolicyHolds ==
  PolicyInit => PolicyInv
BY DEF PolicyInit, LoadInit, PolicyInv

LEMMA ReadConfigHolds ==
  ASSUME PolicyInv, ReadConfig, UNCHANGED files
  PROVE  PolicyInv'
<1>1. codec' = codec /\ words' = words /\ config' = config /\ tokenizer' = tokenizer /\ Tokens' = Tokens
  BY DEF ReadConfig, files, Tokens, IsSingleToken, TokenOf
<1>2. stage = "configured" /\ config \in Configs /\ words = <<>> /\ codec \in Codecs
  BY DEF PolicyInv, ReadConfig
<1>3. CASE config.kind = "none"
  BY <1>1, <1>2, <1>3 DEF ReadConfig, Load, PolicyInv, PolicyOK
<1>4. CASE config.kind # "none" /\ stage' = "refused"
  BY <1>1, <1>2, <1>4 DEF PolicyInv
<1>5. CASE config.kind = "embedding" /\ stage' # "refused"
  <2>1. stage' = "reading" /\ policy' = NewCosine(<<>>, UnitCosts)
    BY <1>5 DEF ReadConfig, Load
  <2>2. CosineForm(policy')
    BY <2>1 DEF CosineForm, NewCosine
  <2>. QED  BY <1>1, <1>2, <2>1, <2>2 DEF PolicyInv, PolicyOK
<1>6. CASE config.kind = "custom" /\ stage' # "refused"
  <2>1. AreCosts(config.numbers) /\ stage' = "reading" /\ policy' = NewCustom(CostsOf(config.numbers))
    BY <1>6 DEF ReadConfig, Load
  <2>. DEFINE costs == CostsOf(config.numbers)
  <2>2. DOMAIN config.numbers = {"substitution", "deletion", "insertion"}
    BY <1>2, <1>6, ConfigsAssumption
  <2>3. \A field \in {"substitution", "deletion", "insertion"} : costs[field] \in 0 .. MaxCost
    BY <2>1, <2>2, CostIsNatural DEF AreCosts, CostsOf
  <2>. HIDE DEF costs
  <2>4. policy' = [kind |-> "custom", defaults |-> costs,
                   substitutions |-> <<>>, deletions |-> <<>>, insertions |-> <<>>]
    BY <2>1 DEF NewCustom, costs
  <2>5. CustomOK(policy', Tokens)
    <3>1. /\ policy'.defaults = costs /\ policy'.substitutions = <<>>
          /\ policy'.deletions = <<>> /\ policy'.insertions = <<>>
      BY <2>4
    <3>. QED  BY <2>3, <2>4, <3>1, NewMapOK DEF CustomOK
  <2>. QED  BY <1>1, <1>2, <2>1, <2>5 DEF PolicyInv, PolicyOK
<1>7. config.kind \in {"none", "embedding", "custom"}
  BY <1>2, ConfigsAssumption
<1>. QED  BY <1>3, <1>4, <1>5, <1>6, <1>7

LEMMA ReadEmbeddingHolds ==
  ASSUME PolicyInv, NEW line, ReadEmbedding(line), UNCHANGED files
  PROVE  PolicyInv'
<1>1. codec' = codec /\ words' = words /\ tokenizer' = tokenizer /\ Tokens' = Tokens
  BY DEF ReadEmbedding, ReadLine, files, Tokens, IsSingleToken, TokenOf
<1>2. /\ stage = "reading" /\ words = <<>> /\ codec \in Codecs /\ PolicyOK(policy)
      /\ policy.kind = "embedding"
  BY DEF PolicyInv, ReadEmbedding, ReadLine
<1>3. CosineForm(policy)
  BY <1>2, KindsDiffer DEF PolicyOK
<1>4. CASE stage' = "refused"
  BY <1>1, <1>2, <1>4 DEF PolicyInv
<1>5. CASE stage' # "refused"
  <2>. DEFINE kept == Set(policy.rows, TokenOf(line.text), Normalized(line.vector))
  <2>1. stage' = "reading" /\ policy' = [policy EXCEPT !.rows = kept]
    BY <1>5 DEF ReadEmbedding, Load
  <2>. HIDE DEF kept
  <2>2. policy' = [kind |-> "embedding", defaults |-> policy.defaults, rows |-> kept]
    BY <1>3, <2>1 DEF CosineForm
  <2>3. CosineForm(policy')
    BY <2>2 DEF CosineForm
  <2>. QED  BY <1>1, <1>2, <2>1, <2>3 DEF PolicyInv, PolicyOK
<1>. QED  BY <1>4, <1>5

LEMMA WithRuleIsCustom ==
  ASSUME CustomOK(policy, Tokens), NEW line \in Rules, AcceptsRule(line)
  PROVE  CustomOK(WithRule(line), Tokens)
<1>. DEFINE from == TokenOf(line.from)
            to   == TokenOf(line.to)
            cost == Cost(line.cost)
<1>1. /\ line.operation \in {"substitution", "deletion", "insertion"}
      /\ line.from \in Texts /\ line.to \in Texts
  BY DEF Rules
<1>2. from \in Tokens /\ to \in Tokens /\ cost \in 0 .. MaxCost
  BY <1>1, CostIsNatural DEF AcceptsRule, Tokens
<1>3. /\ policy = [kind |-> "custom", defaults |-> policy.defaults,
                   substitutions |-> policy.substitutions, deletions |-> policy.deletions,
                   insertions |-> policy.insertions]
      /\ \A field \in {"substitution", "deletion", "insertion"} : policy.defaults[field] \in 0 .. MaxCost
      /\ MapOK(policy.substitutions, Pairs(Tokens))
      /\ MapOK(policy.deletions, Tokens) /\ MapOK(policy.insertions, Tokens)
  BY DEF CustomOK
<1>. HIDE DEF from, to, cost
<1>4. CASE line.operation = "substitution" /\ from = to
  <2>1. WithRule(line) = policy
    BY <1>4 DEF WithRule, SetSubstitution, from, to
  <2>. QED  BY <2>1
<1>5. CASE line.operation = "substitution" /\ from # to
  <2>. DEFINE f == Set(policy.substitutions, <<from, to>>, cost)
  <2>1. WithRule(line) = [policy EXCEPT !.substitutions = f]
    BY <1>5 DEF WithRule, SetSubstitution, from, to, cost
  <2>2. <<from, to>> \in Pairs(Tokens)
    BY <1>2, <1>5 DEF Pairs
  <2>3. MapOK(f, Pairs(Tokens))
    BY <1>2, <1>3, <2>2, SetMapOK
  <2>. HIDE DEF f
  <2>4. WithRule(line) = [kind |-> "custom", defaults |-> policy.defaults, substitutions |-> f,
                          deletions |-> policy.deletions, insertions |-> policy.insertions]
    BY <1>3, <2>1
  <2>. QED  BY <1>3, <2>3, <2>4 DEF CustomOK
<1>6. CASE line.operation = "deletion"
  <2>. DEFINE f == Set(policy.deletions, from, cost)
  <2>1. WithRule(line) = [policy EXCEPT !.deletions = f]
    BY <1>6 DEF WithRule, SetDeletion, from, to, cost
  <2>3. MapOK(f, Tokens)
    BY <1>2, <1>3, SetMapOK
  <2>. HIDE DEF f
  <2>4. WithRule(line) = [kind |-> "custom", defaults |-> policy.defaults,
                          substitutions |-> policy.substitutions,
                          deletions |-> f, insertions |-> policy.insertions]
    BY <1>3, <2>1
  <2>. QED  BY <1>3, <2>3, <2>4 DEF CustomOK
<1>7. CASE line.operation = "insertion"
  <2>. DEFINE f == Set(policy.insertions, from, cost)
  <2>1. WithRule(line) = [policy EXCEPT !.insertions = f]
    BY <1>7 DEF WithRule, SetInsertion, from, to, cost
  <2>3. MapOK(f, Tokens)
    BY <1>2, <1>3, SetMapOK
  <2>. HIDE DEF f
  <2>4. WithRule(line) = [kind |-> "custom", defaults |-> policy.defaults,
                          substitutions |-> policy.substitutions,
                          deletions |-> policy.deletions, insertions |-> f]
    BY <1>3, <2>1
  <2>. QED  BY <1>3, <2>3, <2>4 DEF CustomOK
<1>. QED  BY <1>1, <1>4, <1>5, <1>6, <1>7

LEMMA ReadRuleHolds ==
  ASSUME PolicyInv, NEW line \in Rules, ReadRule(line), UNCHANGED files
  PROVE  PolicyInv'
<1>1. codec' = codec /\ words' = words /\ tokenizer' = tokenizer /\ Tokens' = Tokens
  BY DEF ReadRule, ReadLine, files, Tokens, IsSingleToken, TokenOf
<1>2. /\ stage = "reading" /\ words = <<>> /\ codec \in Codecs /\ PolicyOK(policy)
      /\ policy.kind = "custom"
  BY DEF PolicyInv, ReadRule, ReadLine
<1>3. CustomOK(policy, Tokens)
  BY <1>2, KindsDiffer DEF PolicyOK
<1>4. CASE stage' = "refused"
  BY <1>1, <1>2, <1>4 DEF PolicyInv
<1>5. CASE stage' # "refused"
  <2>1. stage' = "reading" /\ policy' = WithRule(line) /\ AcceptsRule(line)
    BY <1>5 DEF ReadRule, Load
  <2>2. CustomOK(policy', Tokens)
    BY <1>3, <2>1, WithRuleIsCustom
  <2>. QED  BY <1>1, <1>2, <2>1, <2>2 DEF PolicyInv, PolicyOK
<1>. QED  BY <1>4, <1>5

LEMMA EndOfFileHolds ==
  ASSUME PolicyInv, EndOfFile, UNCHANGED files
  PROVE  PolicyInv'
<1>1. codec' = codec /\ words' = words /\ tokenizer' = tokenizer /\ Tokens' = Tokens
  BY DEF EndOfFile, files, Tokens, IsSingleToken, TokenOf
<1>2. stage = "reading" /\ words = <<>> /\ codec \in Codecs /\ PolicyOK(policy)
  BY DEF PolicyInv, EndOfFile
<1>3. CASE stage' = "refused"
  BY <1>1, <1>2, <1>3 DEF PolicyInv
<1>4. CASE stage' # "refused" /\ policy.kind = "custom"
  <2>1. stage' = "loaded" /\ policy' = policy
    BY <1>4 DEF EndOfFile, Load
  <2>. QED  BY <1>1, <1>2, <2>1 DEF PolicyInv, PolicyOK
<1>5. CASE stage' # "refused" /\ policy.kind # "custom"
  <2>. DEFINE costs == CostsOf(config.numbers)
  <2>1. stage' = "loaded" /\ policy' = [policy EXCEPT !.defaults = costs]
    BY <1>5 DEF EndOfFile, Load
  <2>2. policy = Levenshtein \/ CosineForm(policy)
    BY <1>2, <1>5, KindsDiffer DEF PolicyOK
  <2>. HIDE DEF costs
  <2>3. CASE policy = Levenshtein
    <3>1. policy' = Levenshtein
      BY <2>1, <2>3 DEF Levenshtein
    <3>. QED  BY <1>1, <1>2, <2>1, <3>1 DEF PolicyInv, PolicyOK
  <2>4. CASE CosineForm(policy)
    <3>1. policy' = [kind |-> "embedding", defaults |-> costs, rows |-> policy.rows]
      BY <2>1, <2>4 DEF CosineForm
    <3>2. CosineForm(policy')
      BY <3>1 DEF CosineForm
    <3>. QED  BY <1>1, <1>2, <2>1, <3>2 DEF PolicyInv, PolicyOK
  <2>. QED  BY <2>2, <2>3, <2>4
<1>. QED  BY <1>3, <1>4, <1>5

LEMMA SaveHolds ==
  ASSUME PolicyInv, Save
  PROVE  PolicyInv'
<1>1. codec' = codec /\ codec \in Codecs /\ stage = "loaded" /\ PolicyOK(policy)
  BY DEF Save, PolicyInv
<1>2. CASE ~CanSave(policy)
  <2>1. stage' = "unsaved"
    BY <1>2 DEF Save, Load
  <2>. QED  BY <1>1, <2>1 DEF PolicyInv
<1>3. CASE CanSave(policy)
  <2>1. stage' = "saved" /\ policy'.kind = policy.kind /\ words' = WordsOf(policy)
    BY <1>3 DEF Save, Load
  <2>2. ASSUME policy.kind = "custom" PROVE WordsOK(words')
    <3>1. CustomOK(policy, Tokens)
      BY <1>1, <2>2, KindsDiffer DEF PolicyOK
    <3>2. RoundTrip(codec, CustomTokens(policy)) /\ WordsOf(policy) = EncodeCustom(codec, policy)
      BY <1>3, <2>2 DEF CanSave, WordsOf
    <3>3. codec \in [Chars -> Nat]
      BY <1>1, CodecsAssumption, WordsAssumption
    <3>4. Encodable(codec, policy, Tokens)
      BY <3>1, <3>2, <3>3, TokensAreTyped DEF Encodable
    <3>. QED  BY <2>1, <3>2, <3>4, EncodedIsWords
  <2>. QED  BY <1>1, <2>1, <2>2 DEF PolicyInv, WordsOK
<1>. QED  BY <1>2, <1>3

LEMMA DamageHolds ==
  ASSUME PolicyInv, DamageWord \/ DamageRow
  PROVE  PolicyInv'
<1>1. codec' = codec /\ codec \in Codecs /\ stage = "saved" /\ stage' = stage /\ policy' = policy
  BY DEF DamageWord, DamageRow, PolicyInv, loading
<1>2. policy.kind = "custom" => WordsOK(words)
  BY <1>1 DEF PolicyInv
<1>3. CASE words' = words
  BY <1>1, <1>2, <1>3 DEF PolicyInv, WordsOK
<1>4. CASE words' # words
  <2>1. DamageWord
    BY <1>4 DEF DamageRow
  <2>2. PICK n \in DOMAIN words, word \in DamagedWords : words' = [words EXCEPT ![n] = word]
    BY <2>1 DEF DamageWord
  <2>3. word \in Nat
    BY DamageAssumption, WordsAssumption
  <2>4. ASSUME policy.kind = "custom" PROVE WordsOK(words')
    <3>1. words \in Seq(Nat) /\ Len(words) >= HeaderLen
      BY <1>2, <2>4 DEF WordsOK
    <3>2. words' \in Seq(Nat) /\ Len(words') = Len(words)
      BY <2>2, <2>3, <3>1
    <3>. QED  BY <3>1, <3>2 DEF WordsOK
  <2>. QED  BY <1>1, <2>4 DEF PolicyInv, WordsOK
<1>. QED  BY <1>3, <1>4

LEMMA OpenHolds ==
  ASSUME PolicyInv, Open
  PROVE  PolicyInv'
<1>1. /\ codec' = codec /\ codec \in Codecs /\ stage = "saved" /\ words' = words /\ tokenizer' = tokenizer
      /\ policy.kind = "custom" => WordsOK(words)
  BY DEF Open, files, PolicyInv
<1>2. CASE ~Readable
  <2>1. stage' = "corrupt"
    BY <1>2 DEF Open, Load
  <2>. QED  BY <1>1, <2>1 DEF PolicyInv
<1>3. CASE Readable /\ policy.kind = "custom"
  <2>1. stage' = "opened" /\ policy' = DecodeCustom(codec, words) /\ CustomReadable(codec, tokenizer, words)
    BY <1>3 DEF Open, Load, Readable, Opened
  <2>2. OpenedOK(policy, words)'
    BY <1>1, <1>3, <2>1 DEF OpenedOK
  <2>. QED  BY <1>1, <2>1, <2>2 DEF PolicyInv
<1>4. CASE Readable /\ policy.kind # "custom"
  <2>1. stage' = "opened" /\ policy' = Opened
    BY <1>4 DEF Open, Load
  <2>2. Opened.kind # "custom"
    <3>1. Opened = IF policy.kind = "embedding" THEN DecodeCosine(words, rows) ELSE Levenshtein
      BY <1>4 DEF Opened
    <3>2. DecodeCosine(words, rows).kind = "embedding" /\ Levenshtein.kind = "levenshtein"
      BY DEF DecodeCosine, NewCosine, Levenshtein
    <3>. QED  BY <3>1, <3>2
  <2>3. OpenedOK(policy, words)'
    BY <2>1, <2>2 DEF OpenedOK
  <2>. QED  BY <1>1, <2>1, <2>3 DEF PolicyInv
<1>. QED  BY <1>2, <1>3, <1>4

LEMMA VerifyHolds ==
  ASSUME PolicyInv, Verify
  PROVE  PolicyInv'
<1>1. /\ codec' = codec /\ codec \in Codecs /\ words' = words /\ tokenizer' = tokenizer /\ policy' = policy
      /\ stage' \in {"verified", "invalid"} /\ stage \in {"loaded", "opened"}
  BY DEF Verify, files, PolicyInv, Load
<1>2. OpenedOK(policy, words)
  BY <1>1 DEF PolicyInv, OpenedOK
<1>3. OpenedOK(policy, words)'
  BY <1>1, <1>2 DEF OpenedOK
<1>. QED  BY <1>1, <1>3 DEF PolicyInv

(* The inductive invariant of a policy's life.                             *)
THEOREM PolicyIsInvariant == PolicySpec => []PolicyInv
<1>1. PolicyInit => PolicyInv
  BY PolicyHolds
<1>2. PolicyInv /\ [PolicyNext]_policyVars => PolicyInv'
  <2>. SUFFICES ASSUME PolicyInv, [PolicyNext]_policyVars PROVE PolicyInv'
    OBVIOUS
  <2>1. ASSUME LoadNext, UNCHANGED files PROVE PolicyInv'
    <3>1. CASE ReadConfig
      BY <2>1, <3>1, ReadConfigHolds
    <3>2. CASE ReadUnusable
      <4>1. stage' = "refused" /\ codec' = codec
        BY <2>1, <3>2 DEF ReadUnusable, Load, files
      <4>. QED  BY <4>1 DEF PolicyInv
    <3>3. CASE EndOfFile
      BY <2>1, <3>3, EndOfFileHolds
    <3>4. CASE \E line \in Embeddings : ReadEmbedding(line)
      BY <2>1, <3>4, ReadEmbeddingHolds
    <3>5. CASE \E line \in Rules : ReadRule(line)
      BY <2>1, <3>5, ReadRuleHolds
    <3>. QED  BY <2>1, <3>1, <3>2, <3>3, <3>4, <3>5 DEF LoadNext
  <2>2. CASE Save
    BY <2>2, SaveHolds
  <2>3. CASE DamageWord \/ DamageRow
    BY <2>3, DamageHolds
  <2>4. CASE Open
    BY <2>4, OpenHolds
  <2>5. CASE Verify
    BY <2>5, VerifyHolds
  <2>6. CASE UNCHANGED policyVars
    BY <2>6 DEF policyVars, loading, files, PolicyInv, PolicyOK, OpenedOK, Tokens, IsSingleToken, TokenOf
  <2>. QED  BY <2>1, <2>2, <2>3, <2>4, <2>5, <2>6 DEF PolicyNext
<1>. QED  BY <1>1, <1>2, PTL DEF PolicySpec

(* Custom costs opened from a file, damaged or not, charge what each of    *)
(* its rules says.                                                         *)
THEOREM NoRuleOfAFileIsLost == PolicySpec => []NoRuleIsLost
<1>1. PolicyInv => NoRuleIsLost
  <2>. SUFFICES ASSUME PolicyInv, InUse, policy.kind = "custom", words # <<>>
                PROVE  Charges(policy, codec, words)
    BY DEF NoRuleIsLost, Charges, Key, CostAt
  <2>1. stage \in {"opened", "verified"} /\ codec \in Codecs
    BY DEF PolicyInv, InUse
  <2>2. /\ WordsOK(words) /\ CustomReadable(codec, tokenizer, words)
        /\ policy = DecodeCustom(codec, words)
    BY <2>1 DEF PolicyInv, OpenedOK
  <2>3. codec \in [Chars -> Nat] /\ RulesReadable(codec, tokenizer, words)
    BY <2>1, <2>2, CodecsAssumption, WordsAssumption DEF CustomReadable
  <2>. QED  BY <2>2, <2>3, DecodedCharges
<1>. QED  BY <1>1, PolicyIsInvariant, PTL
==============================================================================
