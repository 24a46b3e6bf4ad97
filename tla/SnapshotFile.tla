---------------------------- MODULE SnapshotFile -----------------------------
(***************************************************************************)
(* Snapshot files: concurrent calls of write_file that publish at the same *)
(* path, concurrent calls of PersistedFile::open, and what failures, dying *)
(* processes and power failures do to them (persistence/format.rs,         *)
(* persistence/storage.rs).                                                *)
(*                                                                         *)
(* A snapshot is a file of its own (an inode), named by the call that      *)
(* writes it and written in as many chunks as its size; the first one      *)
(* holds the header with the length of the whole.  The file system is the  *)
(* weakest the calls allow for: without a sync any written suffix of a     *)
(* file, and any latest renames of a directory, may be lost.               *)
(***************************************************************************)
EXTENDS Naturals, Sequences, SequencesExt

CONSTANTS Writers,    (* calls of write_file, each with its own snapshot   *)
          Readers,    (* processes that open the path                      *)
          Previous,   (* a snapshot that may be there already              *)
          None,       (* no file                                           *)
          Torn,       (* what a file that is not complete holds            *)
          Size        (* the chunks each snapshot takes                    *)

Files == Writers \cup {Previous}

ASSUME FilesAssumption ==
  /\ Previous \notin Writers
  /\ {None, Torn} \cap Files = {}
  /\ Size \in [Files -> Nat \ {0}]

VARIABLES
  renames,     (* the files the path has named, in order; the last is current *)
  settled,     (* how many of these renames are on disk                    *)
  temporaries, (* files that still have their temporary name               *)
  written,     (* chunks in each file                                      *)
  synced,      (* chunks of it that are on disk                            *)
  writer,      (* where each call of write_file is                         *)
  reader       (* where each reader is, its file, the length it validated  *)

directory == <<renames, settled, temporaries>>
contents  == <<written, synced>>
vars      == <<directory, contents, writer, reader>>

Closed == [stage |-> "closed", file |-> None, length |-> 0]

Init ==
  /\ renames \in {<<>>, <<Previous>>}
  /\ settled = Len(renames)
  /\ temporaries = {}
  /\ written = [f \in Files |-> IF f = Previous THEN Size[f] ELSE 0]
  /\ synced = written
  /\ writer = [w \in Writers |-> "idle"]
  /\ reader = [r \in Readers |-> Closed]

------------------------------------------------------------------------------
(* write_file, a step per system call. *)
GoTo(w, from, to) ==
  /\ writer[w] = from
  /\ writer' = [writer EXCEPT ![w] = to]

(* NamedTempFile::new_in: a new file under a name no other call has. *)
Create(w) ==
  /\ GoTo(w, "idle", "writing")
  /\ temporaries' = temporaries \cup {w}
  /\ UNCHANGED <<renames, settled, contents, reader>>

WriteChunk(w) ==
  /\ writer[w] = "writing"
  /\ written[w] < Size[w]
  /\ written' = [written EXCEPT ![w] = @ + 1]
  /\ UNCHANGED <<directory, synced, writer, reader>>

(* The buffered writer flushed and the file synchronized. *)
FlushOnly(w) ==                \* without sync_all
  /\ written[w] = Size[w]
  /\ GoTo(w, "writing", "complete")
  /\ UNCHANGED <<directory, contents, reader>>

SyncFile(w) ==
  /\ written[w] = Size[w]
  /\ GoTo(w, "writing", "complete")
  /\ synced' = [synced EXCEPT ![w] = written[w]]
  /\ UNCHANGED <<directory, written, reader>>

Persist(w) ==
  /\ GoTo(w, "complete", "renamed")
  /\ renames' = Append(renames, w)
  /\ temporaries' = temporaries \ {w}
  /\ UNCHANGED <<settled, contents, reader>>

(* sync_parent settles every rename made so far, of other calls as well. *)
ReturnUnsettled(w) ==          \* without sync_parent
  /\ GoTo(w, "renamed", "saved")
  /\ UNCHANGED <<directory, contents, reader>>

SyncParent(w) ==
  /\ GoTo(w, "renamed", "saved")
  /\ settled' = Len(renames)
  /\ UNCHANGED <<renames, temporaries, contents, reader>>

(* A system call fails.  Up to the rename the temporary file is dropped,   *)
(* which removes it; a failing sync_parent leaves the rename in place.     *)
FailBeforeRename(w) ==
  /\ writer[w] \in {"idle", "writing", "complete"}
  /\ writer' = [writer EXCEPT ![w] = "failed"]
  /\ temporaries' = temporaries \ {w}
  /\ UNCHANGED <<renames, settled, contents, reader>>

FailToSettle(w) ==
  /\ GoTo(w, "renamed", "unsettled")
  /\ UNCHANGED <<directory, contents, reader>>

------------------------------------------------------------------------------
(* PersistedFile::open: the file is opened once, its recorded length is    *)
(* compared with its actual one, and the same file is mapped.              *)
OpenPath(r) ==
  /\ reader[r].stage = "closed"
  /\ renames # <<>>
  /\ reader' = [reader EXCEPT ![r] = [stage |-> "opened", file |-> Last(renames), length |-> 0]]
  /\ UNCHANGED <<directory, contents, writer>>

HeaderAgrees(f) == written[f] > 0 /\ written[f] = Size[f]

CheckHeader(r) ==
  /\ reader[r].stage = "opened"
  /\ LET file == reader[r].file
     IN  reader' = [reader EXCEPT ![r] =
           IF HeaderAgrees(file) THEN [stage |-> "checked", file |-> file, length |-> Size[file]]
                                 ELSE Closed]
  /\ UNCHANGED <<directory, contents, writer>>

MapPath(r) ==                  \* the path looked up a second time
  /\ reader[r].stage = "checked"
  /\ reader' = [reader EXCEPT ![r].stage = "mapped", ![r].file = Last(renames)]
  /\ UNCHANGED <<directory, contents, writer>>

MapFile(r) ==
  /\ reader[r].stage = "checked"
  /\ reader' = [reader EXCEPT ![r].stage = "mapped"]
  /\ UNCHANGED <<directory, contents, writer>>

Close(r) ==
  /\ reader[r].stage # "closed"
  /\ reader' = [reader EXCEPT ![r] = Closed]
  /\ UNCHANGED <<directory, contents, writer>>

------------------------------------------------------------------------------
Running == {"writing", "complete", "renamed"}

(* A process is killed: nothing is cleaned up, nothing written is lost. *)
Kill(w) ==
  /\ writer[w] \in Running
  /\ writer' = [writer EXCEPT ![w] = "killed"]
  /\ UNCHANGED <<directory, contents, reader>>

(* The machine loses power: of what was not synchronized, anything may be  *)
(* missing.  A rename taken back gives the file its temporary name again.  *)
PowerFailure ==
  /\ \E n \in settled .. Len(renames) :
       /\ renames' = SubSeq(renames, 1, n)
       /\ settled' = n
       /\ \E kept \in SUBSET (temporaries \cup (Range(renames) \ Range(renames'))) :
            temporaries' = kept
  /\ written' \in {left \in [Files -> UNION {0 .. Size[f] : f \in Files}] :
                     \A f \in Files : left[f] \in synced[f] .. written[f]}
  /\ synced' = written'
  /\ writer' = [w \in Writers |-> IF writer[w] \in Running THEN "killed" ELSE writer[w]]
  /\ reader' = [r \in Readers |-> Closed]

Next ==
  \/ \E w \in Writers :
       \/ Create(w) \/ WriteChunk(w) \/ SyncFile(w) \/ Persist(w) \/ SyncParent(w)
       \/ FailBeforeRename(w) \/ FailToSettle(w) \/ Kill(w)
  \/ \E r \in Readers : OpenPath(r) \/ CheckHeader(r) \/ MapFile(r) \/ Close(r)
  \/ PowerFailure

Spec == Init /\ [][Next]_vars

------------------------------------------------------------------------------
(* Whatever the path names, now or after a power failure, is a complete    *)
(* snapshot that is on disk: no sequence of concurrent saves, failures and *)
(* crashes exposes a torn one (write_file: "atomically publishes it").     *)
PublishedIsWhole ==
  \A k \in DOMAIN renames : synced[renames[k]] = Size[renames[k]]

(* A save that has returned Ok outlives every power failure: only the      *)
(* snapshot of a later rename can take its place.                          *)
SavedIsDurable ==
  \A w \in Writers : writer[w] = "saved" => w \in Range(SubSeq(renames, 1, settled))

(* The length a reader validated is that of the file it maps: the mapping  *)
(* never ends before the sections do, although the path may be renamed to  *)
(* another snapshot in between (the precondition of the unsafe mmap).      *)
MappingIsChecked ==
  \A r \in Readers :
     reader[r].stage = "mapped" => written[reader[r].file] = reader[r].length

------------------------------------------------------------------------------
Content(f) == IF written[f] = Size[f] THEN f ELSE Torn

Outcome(stage) == CASE stage = "saved" -> "saved"
                    [] stage \in {"unsettled", "failed", "killed"} -> "failed"
                    [] OTHER -> "pending"

PublishedContent == [k \in DOMAIN renames |-> Content(renames[k])]
SaveOutcome      == [w \in Writers |-> Outcome(writer[w])]
ReaderView       == [r \in Readers |-> IF reader[r].stage = "closed" THEN None
                                       ELSE Content(reader[r].file)]

Register == INSTANCE SnapshotRegister WITH
  published <- PublishedContent,
  durable   <- settled,
  outcome   <- SaveOutcome,
  view      <- ReaderView

(* Saving and opening implement the documented promise: a save is one      *)
(* atomic replacement, durable once it has returned, and "existing readers *)
(* keep their previous mapping" (search/persistence.rs:22).                *)
SavesAreAtomic == Register!Spec
==============================================================================
