-------------------------- MODULE SnapshotRegister ---------------------------
(***************************************************************************)
(* What saving and opening a snapshot promise (search/persistence.rs,      *)
(* persistence.rs): the path holds one complete snapshot at a time, a save *)
(* replaces it in one step and is durable once it has succeeded, and a     *)
(* reader keeps the snapshot it opened.                                    *)
(***************************************************************************)
EXTENDS Naturals, Sequences, SequencesExt

CONSTANTS Writers,    (* calls that save a snapshot, each one of its own    *)
          Readers,    (* processes that open the path                      *)
          Previous,   (* a snapshot that may be there already              *)
          None        (* no snapshot                                       *)

VARIABLES published,  (* the snapshots the path has held, in order         *)
          durable,    (* how many of them no power failure can take back   *)
          outcome,    (* how each save has ended                           *)
          view        (* the snapshot each reader has open                 *)

vars == <<published, durable, outcome, view>>

Init ==
  /\ published \in {<<>>, <<Previous>>}
  /\ durable = Len(published)
  /\ outcome = [w \in Writers |-> "pending"]
  /\ view = [r \in Readers |-> None]

Publish(w) ==
  /\ outcome[w] = "pending"
  /\ w \notin Range(published)
  /\ published' = Append(published, w)
  /\ UNCHANGED <<durable, outcome, view>>

Save(w) ==
  /\ outcome[w] = "pending"
  /\ w \in Range(published)
  /\ outcome' = [outcome EXCEPT ![w] = "saved"]
  /\ durable' = Len(published)
  /\ UNCHANGED <<published, view>>

Fail(w) ==
  /\ outcome[w] = "pending"
  /\ outcome' = [outcome EXCEPT ![w] = "failed"]
  /\ UNCHANGED <<published, durable, view>>

Open(r) ==
  /\ view[r] = None
  /\ published # <<>>
  /\ view' = [view EXCEPT ![r] = Last(published)]
  /\ UNCHANGED <<published, durable, outcome>>

Close(r) ==
  /\ view[r] # None
  /\ view' = [view EXCEPT ![r] = None]
  /\ UNCHANGED <<published, durable, outcome>>

PowerFailure ==
  /\ \E n \in durable .. Len(published) :
       published' = SubSeq(published, 1, n) /\ durable' = n
  /\ \E running \in SUBSET {w \in Writers : outcome[w] = "pending"} :
       outcome' = [w \in Writers |-> IF w \in running THEN "failed" ELSE outcome[w]]
  /\ view' = [r \in Readers |-> None]

Next ==
  \/ \E w \in Writers : Publish(w) \/ Save(w) \/ Fail(w)
  \/ \E r \in Readers : Open(r) \/ Close(r)
  \/ PowerFailure

Spec == Init /\ [][Next]_vars
==============================================================================
