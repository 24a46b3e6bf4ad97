------------------------- MODULE SnapshotFileProofs --------------------------
(***************************************************************************)
(* The inductive invariant of concurrent saves and readers of one path,    *)
(* for any number of either and snapshots of any size, the theorems it     *)
(* yields, and the refinement of SnapshotRegister.                         *)
(***************************************************************************)
EXTENDS SnapshotFile, SequenceTheorems, TLAPS

WriterStages == {"idle", "writing", "complete", "renamed", "saved", "unsettled", "failed",
                 "killed"}
ReaderStates == [stage : {"closed", "opened", "checked", "mapped"},
                 file : Files \cup {None}, length : Nat]

TypeOK ==
  /\ renames \in Seq(Files)
  /\ settled \in 0 .. Len(renames)
  /\ written \in [Files -> Nat]
  /\ synced \in [Files -> Nat]
  /\ writer \in [Writers -> WriterStages]
  /\ reader \in [Readers -> ReaderStates]

(* Chunks are written before they are on disk, and never beyond the size.  *)
ChunksInOrder == \A f \in Files : synced[f] <= written[f] /\ written[f] <= Size[f]

(* A file is synchronized before its call goes on, and stays so.           *)
CompleteIsSynced ==
  \A w \in Writers :
     writer[w] \in {"complete", "renamed", "saved", "unsettled"} => synced[w] = Size[w]

(* The path names a snapshot from its rename on, and not before.           *)
RenamedIsNamed ==
  \A w \in Writers :
     /\ writer[w] = "renamed" => \E k \in 1 .. Len(renames) : renames[k] = w
     /\ writer[w] \in {"idle", "writing", "complete"} =>
           \A k \in 1 .. Len(renames) : renames[k] # w

(* A saved snapshot is among the renames no power failure takes back.      *)
SavedIsSettled ==
  \A w \in Writers :
     writer[w] = "saved" => \E k \in 1 .. settled : renames[k] = w

(* Readers only ever hold complete snapshots, which no one writes to.      *)
ReadersHoldWhole ==
  \A r \in Readers :
     /\ reader[r].stage # "closed" =>
           reader[r].file \in Files /\ synced[reader[r].file] = Size[reader[r].file]
     /\ reader[r].stage \in {"checked", "mapped"} => reader[r].length = Size[reader[r].file]

SnapshotInv ==
  /\ TypeOK
  /\ ChunksInOrder
  /\ CompleteIsSynced
  /\ RenamedIsNamed
  /\ SavedIsSettled
  /\ ReadersHoldWhole
  /\ PublishedIsWhole

------------------------------------------------------------------------------
(* What the invariant says of single files and renames.                    *)
LEMMA FileFacts ==
  ASSUME SnapshotInv
  PROVE  /\ Writers \in SUBSET Files
         /\ \A f \in Files : Size[f] \in Nat \ {0} /\ written[f] \in Nat /\ synced[f] \in Nat
         /\ \A f \in Files : synced[f] = Size[f] => written[f] = Size[f]
         /\ Len(renames) \in Nat
         /\ DOMAIN renames = 1 .. Len(renames)
         /\ \A k \in 1 .. Len(renames) :
               renames[k] \in Files /\ synced[renames[k]] = Size[renames[k]]
         /\ settled \in Nat /\ settled <= Len(renames)
<1>1. /\ renames \in Seq(Files) /\ settled \in 0 .. Len(renames)
      /\ written \in [Files -> Nat] /\ synced \in [Files -> Nat]
      /\ ChunksInOrder /\ PublishedIsWhole
  BY DEF SnapshotInv, TypeOK
<1>2. Writers \in SUBSET Files /\ \A f \in Files : Size[f] \in Nat \ {0}
  BY FilesAssumption DEF Files
<1>3. /\ Len(renames) \in Nat
      /\ DOMAIN renames = 1 .. Len(renames)
      /\ \A k \in 1 .. Len(renames) : renames[k] \in Files
  BY <1>1
<1>4. \A k \in 1 .. Len(renames) : synced[renames[k]] = Size[renames[k]]
  BY <1>1, <1>3 DEF PublishedIsWhole
<1>5. \A f \in Files : synced[f] = Size[f] => written[f] = Size[f]
  BY <1>1, <1>2 DEF ChunksInOrder
<1>. QED  BY <1>1, <1>2, <1>3, <1>4, <1>5

LEMMA InitialState == Init => SnapshotInv
<1>. SUFFICES ASSUME Init PROVE SnapshotInv
  OBVIOUS
<1>1. Previous \in Files /\ Writers \in SUBSET Files /\ \A f \in Files : Size[f] \in Nat \ {0}
  BY FilesAssumption DEF Files
<1>2. /\ renames \in Seq(Files)
      /\ settled = Len(renames) /\ Len(renames) \in Nat
      /\ \A k \in DOMAIN renames : renames[k] = Previous
      /\ DOMAIN renames = 1 .. Len(renames)
  <2>1. settled = Len(renames) /\ renames \in {<<>>, <<Previous>>}
    BY DEF Init
  <2>2. CASE renames = <<>>
    BY <2>1, <2>2
  <2>3. CASE renames = <<Previous>>
    BY <1>1, <2>1, <2>3
  <2>. QED  BY <2>1, <2>2, <2>3
<1>3. \A f \in Files : written[f] = (IF f = Previous THEN Size[f] ELSE 0) /\ synced = written
  BY DEF Init
<1>4. TypeOK
  BY <1>1, <1>2 DEF Init, TypeOK, WriterStages, ReaderStates, Closed
<1>5. ChunksInOrder
  BY <1>1, <1>3 DEF ChunksInOrder
<1>6. PublishedIsWhole
  BY <1>1, <1>2, <1>3 DEF PublishedIsWhole
<1>7. CompleteIsSynced /\ RenamedIsNamed /\ SavedIsSettled /\ ReadersHoldWhole
  BY <1>2, FilesAssumption
     DEF Init, Closed, CompleteIsSynced, RenamedIsNamed, SavedIsSettled, ReadersHoldWhole
<1>. QED  BY <1>4, <1>5, <1>6, <1>7 DEF SnapshotInv

------------------------------------------------------------------------------
(* One lemma for each kind of step.  A call that has failed or was killed  *)
(* owes nothing, and neither does one that has not begun to rename.        *)
LEMMA LeavingStep ==
  ASSUME SnapshotInv, NEW w \in Writers, NEW s \in {"failed", "killed", "unsettled"},
         s = "unsettled" => writer[w] = "renamed",
         writer' = [writer EXCEPT ![w] = s],
         UNCHANGED <<renames, settled, contents, reader>>
  PROVE  SnapshotInv'
<1>1. writer' \in [Writers -> WriterStages]
      /\ \A v \in Writers : writer'[v] = IF v = w THEN s ELSE writer[v]
  BY DEF SnapshotInv, TypeOK, WriterStages
<1>2. UNCHANGED <<renames, settled, written, synced, reader>>
  BY DEF contents
<1>3. TypeOK' /\ ChunksInOrder' /\ PublishedIsWhole' /\ ReadersHoldWhole'
  BY <1>1, <1>2 DEF SnapshotInv, TypeOK, ChunksInOrder, PublishedIsWhole, ReadersHoldWhole
<1>4. CompleteIsSynced' /\ RenamedIsNamed' /\ SavedIsSettled'
  BY <1>1, <1>2 DEF SnapshotInv, CompleteIsSynced, RenamedIsNamed, SavedIsSettled
<1>. QED  BY <1>3, <1>4 DEF SnapshotInv

LEMMA CreateStep ==
  ASSUME SnapshotInv, NEW w \in Writers, Create(w)
  PROVE  SnapshotInv'
<1>1. writer' \in [Writers -> WriterStages] /\ writer[w] = "idle"
      /\ \A v \in Writers : writer'[v] = IF v = w THEN "writing" ELSE writer[v]
  BY DEF Create, GoTo, SnapshotInv, TypeOK, WriterStages
<1>2. UNCHANGED <<renames, settled, written, synced, reader>>
  BY DEF Create, contents
<1>3. TypeOK' /\ ChunksInOrder' /\ PublishedIsWhole' /\ ReadersHoldWhole'
  BY <1>1, <1>2 DEF SnapshotInv, TypeOK, ChunksInOrder, PublishedIsWhole, ReadersHoldWhole
<1>4. CompleteIsSynced' /\ RenamedIsNamed' /\ SavedIsSettled'
  BY <1>1, <1>2 DEF SnapshotInv, CompleteIsSynced, RenamedIsNamed, SavedIsSettled
<1>. QED  BY <1>3, <1>4 DEF SnapshotInv

LEMMA WriteChunkStep ==
  ASSUME SnapshotInv, NEW w \in Writers, WriteChunk(w)
  PROVE  SnapshotInv'
<1>1. w \in Files /\ written[w] \in Nat /\ written[w] < Size[w] /\ Size[w] \in Nat
  BY FileFacts DEF WriteChunk
<1>2. /\ written' = [written EXCEPT ![w] = written[w] + 1]
      /\ UNCHANGED <<renames, settled, synced, writer, reader>>
  BY DEF WriteChunk, directory
<1>3. TypeOK'
  BY <1>1, <1>2 DEF SnapshotInv, TypeOK
<1>4. ChunksInOrder'
  <2>. SUFFICES ASSUME NEW f \in Files PROVE synced[f] <= written'[f] /\ written'[f] <= Size[f]
    BY <1>2 DEF ChunksInOrder
  <2>1. written'[f] = IF f = w THEN written[w] + 1 ELSE written[f]
    BY <1>1, <1>2 DEF SnapshotInv, TypeOK
  <2>2. synced[f] <= written[f] /\ written[f] <= Size[f]
    BY DEF SnapshotInv, ChunksInOrder
  <2>3. synced[f] \in Nat /\ written[f] \in Nat /\ Size[f] \in Nat
    BY FileFacts
  <2>. QED  BY <1>1, <2>1, <2>2, <2>3
<1>5. /\ CompleteIsSynced' /\ RenamedIsNamed' /\ SavedIsSettled' /\ ReadersHoldWhole'
      /\ PublishedIsWhole'
  BY <1>2 DEF SnapshotInv, CompleteIsSynced, RenamedIsNamed, SavedIsSettled, ReadersHoldWhole,
              PublishedIsWhole
<1>. QED  BY <1>3, <1>4, <1>5 DEF SnapshotInv

(* A sync only adds to what is on disk: whole files stay whole.            *)
LEMMA SyncFileStep ==
  ASSUME SnapshotInv, NEW w \in Writers, SyncFile(w)
  PROVE  SnapshotInv'
<1>1. w \in Files /\ written[w] = Size[w] /\ Size[w] \in Nat /\ writer[w] = "writing"
  BY FileFacts DEF SyncFile, GoTo
<1>2. /\ UNCHANGED <<renames, settled, written, reader>>
      /\ synced' \in [Files -> Nat]
      /\ \A f \in Files : synced'[f] = IF f = w THEN Size[w] ELSE synced[f]
  BY <1>1 DEF SyncFile, directory, SnapshotInv, TypeOK
<1>3. /\ writer' \in [Writers -> WriterStages]
      /\ \A v \in Writers : writer'[v] = IF v = w THEN "complete" ELSE writer[v]
  BY DEF SyncFile, GoTo, SnapshotInv, TypeOK, WriterStages
<1>4. TypeOK'
  BY <1>2, <1>3 DEF SnapshotInv, TypeOK
<1>5. ChunksInOrder'
  BY <1>1, <1>2 DEF SnapshotInv, ChunksInOrder
<1>6. CompleteIsSynced'
  BY <1>1, <1>2, <1>3, FileFacts DEF SnapshotInv, CompleteIsSynced
<1>7. RenamedIsNamed' /\ SavedIsSettled'
  BY <1>1, <1>2, <1>3 DEF SnapshotInv, RenamedIsNamed, SavedIsSettled
<1>8. ReadersHoldWhole'
  BY <1>2 DEF SnapshotInv, ReadersHoldWhole
<1>9. PublishedIsWhole'
  BY <1>2, FileFacts DEF PublishedIsWhole
<1>. QED  BY <1>4, <1>5, <1>6, <1>7, <1>8, <1>9 DEF SnapshotInv

LEMMA PersistStep ==
  ASSUME SnapshotInv, NEW w \in Writers, Persist(w)
  PROVE  SnapshotInv'
<1>1. w \in Files /\ writer[w] = "complete" /\ synced[w] = Size[w]
  BY FileFacts DEF Persist, GoTo, SnapshotInv, CompleteIsSynced
<1>2. /\ UNCHANGED <<settled, written, synced, reader>>
      /\ writer' \in [Writers -> WriterStages]
      /\ \A v \in Writers : writer'[v] = IF v = w THEN "renamed" ELSE writer[v]
  BY DEF Persist, GoTo, contents, SnapshotInv, TypeOK, WriterStages
<1>3. /\ renames' \in Seq(Files)
      /\ Len(renames') = Len(renames) + 1
      /\ DOMAIN renames' = 1 .. (Len(renames) + 1)
      /\ \A k \in 1 .. Len(renames) : renames'[k] = renames[k]
      /\ renames'[Len(renames) + 1] = w
  BY <1>1 DEF Persist, SnapshotInv, TypeOK
<1>4. TypeOK'
  BY <1>2, <1>3, FileFacts, SMTT(30) DEF SnapshotInv, TypeOK
<1>5. ChunksInOrder' /\ ReadersHoldWhole'
  BY <1>2 DEF SnapshotInv, ChunksInOrder, ReadersHoldWhole
<1>6. CompleteIsSynced'
  BY <1>1, <1>2 DEF SnapshotInv, CompleteIsSynced
<1>7. PublishedIsWhole'
  <2>. SUFFICES ASSUME NEW k \in 1 .. (Len(renames) + 1)
                PROVE  synced[renames'[k]] = Size[renames'[k]]
    BY <1>2, <1>3 DEF PublishedIsWhole
  <2>1. CASE k = Len(renames) + 1
    BY <1>1, <1>3, <2>1
  <2>2. CASE k \in 1 .. Len(renames)
    BY <1>3, <2>2, FileFacts
  <2>. QED  BY <2>1, <2>2, FileFacts
<1>8. RenamedIsNamed'
  <2>. SUFFICES ASSUME NEW v \in Writers
                PROVE  /\ writer'[v] = "renamed"
                            => \E k \in 1 .. (Len(renames) + 1) : renames'[k] = v
                       /\ writer'[v] \in {"idle", "writing", "complete"}
                            => \A k \in 1 .. (Len(renames) + 1) : renames'[k] # v
    BY <1>3 DEF RenamedIsNamed
  <2>1. Len(renames) + 1 \in 1 .. (Len(renames) + 1)
        /\ \A k \in 1 .. (Len(renames) + 1) : k # Len(renames) + 1 => k \in 1 .. Len(renames)
    BY FileFacts
  <2>2. CASE v = w
    BY <1>2, <1>3, <2>1, <2>2
  <2>3. CASE v # w
    <3>1. writer'[v] = writer[v]
      BY <1>2, <2>3
    <3>2. CASE writer[v] = "renamed"
      <4>1. PICK k \in 1 .. Len(renames) : renames[k] = v
        BY <3>2, FileFacts DEF SnapshotInv, RenamedIsNamed
      <4>2. k \in 1 .. (Len(renames) + 1) /\ renames'[k] = v
        BY <1>3, <4>1, FileFacts
      <4>. QED  BY <3>1, <3>2, <4>2
    <3>3. CASE writer[v] \in {"idle", "writing", "complete"}
      <4>1. \A k \in 1 .. Len(renames) : renames[k] # v
        BY <3>3, FileFacts DEF SnapshotInv, RenamedIsNamed
      <4>2. \A k \in 1 .. (Len(renames) + 1) : renames'[k] # v
        BY <1>3, <2>1, <2>3, <4>1
      <4>. QED  BY <3>1, <3>3, <4>2
    <3>. QED  BY <3>1, <3>2, <3>3
  <2>. QED  BY <2>2, <2>3
<1>9. SavedIsSettled'
  <2>. SUFFICES ASSUME NEW v \in Writers, writer'[v] = "saved"
                PROVE  \E k \in 1 .. settled : renames'[k] = v
    BY <1>2 DEF SavedIsSettled
  <2>1. writer[v] = "saved"
    BY <1>2
  <2>2. \A k \in 1 .. settled : k \in 1 .. Len(renames)
    BY FileFacts
  <2>. QED  BY <1>3, <2>1, <2>2 DEF SnapshotInv, SavedIsSettled
<1>. QED  BY <1>4, <1>5, <1>6, <1>7, <1>8, <1>9 DEF SnapshotInv

LEMMA SyncParentStep ==
  ASSUME SnapshotInv, NEW w \in Writers, SyncParent(w)
  PROVE  SnapshotInv'
<1>1. /\ UNCHANGED <<renames, written, synced, reader>>
      /\ settled' = Len(renames)
      /\ writer[w] = "renamed"
      /\ writer' \in [Writers -> WriterStages]
      /\ \A v \in Writers : writer'[v] = IF v = w THEN "saved" ELSE writer[v]
  BY DEF SyncParent, GoTo, contents, SnapshotInv, TypeOK, WriterStages
<1>2. TypeOK'
  BY <1>1, FileFacts DEF SnapshotInv, TypeOK
<1>3. ChunksInOrder' /\ ReadersHoldWhole' /\ PublishedIsWhole'
  BY <1>1 DEF SnapshotInv, ChunksInOrder, ReadersHoldWhole, PublishedIsWhole
<1>4. CompleteIsSynced' /\ RenamedIsNamed'
  BY <1>1 DEF SnapshotInv, CompleteIsSynced, RenamedIsNamed
<1>5. SavedIsSettled'
  <2>. SUFFICES ASSUME NEW v \in Writers, writer'[v] = "saved"
                PROVE  \E k \in 1 .. Len(renames) : renames[k] = v
    BY <1>1 DEF SavedIsSettled
  <2>1. CASE v = w
    BY <1>1, <2>1 DEF SnapshotInv, RenamedIsNamed
  <2>2. CASE v # w
    <3>1. \A k \in 1 .. settled : k \in 1 .. Len(renames)
      BY FileFacts
    <3>2. writer[v] = "saved"
      BY <1>1, <2>2
    <3>. QED  BY <3>1, <3>2 DEF SnapshotInv, SavedIsSettled
  <2>. QED  BY <2>1, <2>2
<1>. QED  BY <1>2, <1>3, <1>4, <1>5 DEF SnapshotInv

------------------------------------------------------------------------------
(* A step of a reader leaves everything else alone.                        *)
LEMMA ReaderStep ==
  ASSUME SnapshotInv, UNCHANGED <<directory, contents, writer>>,
         reader' \in [Readers -> ReaderStates], ReadersHoldWhole'
  PROVE  SnapshotInv'
<1>1. UNCHANGED <<renames, settled, written, synced, writer>>
  BY DEF directory, contents
<1>. QED  BY <1>1 DEF SnapshotInv, TypeOK, ChunksInOrder, CompleteIsSynced, RenamedIsNamed,
                      SavedIsSettled, PublishedIsWhole

LEMMA OpenPathStep ==
  ASSUME SnapshotInv, NEW r \in Readers, OpenPath(r)
  PROVE  SnapshotInv'
<1>. DEFINE opened == [stage |-> "opened", file |-> Last(renames), length |-> 0]
<1>1. /\ UNCHANGED <<directory, contents, writer>> /\ UNCHANGED synced
      /\ renames # <<>>
      /\ reader' = [reader EXCEPT ![r] = opened]
  BY DEF OpenPath, contents
<1>2. Last(renames) \in Files /\ synced[Last(renames)] = Size[Last(renames)]
  <2>1. Len(renames) \in 1 .. Len(renames)
    BY <1>1, EmptySeq, FileFacts DEF SnapshotInv, TypeOK
  <2>. QED  BY <2>1, FileFacts DEF Last
<1>3. reader \in [Readers -> ReaderStates]
  BY DEF SnapshotInv, TypeOK
<1>4. reader' \in [Readers -> ReaderStates]
  BY <1>1, <1>2, <1>3 DEF ReaderStates
<1>5. \A q \in Readers : reader'[q] = IF q = r THEN opened ELSE reader[q]
  BY <1>1, <1>3
<1>6. ReadersHoldWhole'
  BY <1>1, <1>2, <1>5 DEF SnapshotInv, ReadersHoldWhole
<1>. QED  BY <1>1, <1>4, <1>6, ReaderStep

LEMMA CheckHeaderStep ==
  ASSUME SnapshotInv, NEW r \in Readers, CheckHeader(r)
  PROVE  /\ SnapshotInv'
         /\ reader' = [reader EXCEPT ![r] = [stage |-> "checked", file |-> reader[r].file,
                                             length |-> Size[reader[r].file]]]
<1>. DEFINE file == reader[r].file
<1>1. reader \in [Readers -> ReaderStates] /\ file \in Files /\ synced[file] = Size[file]
  BY DEF CheckHeader, SnapshotInv, TypeOK, ReadersHoldWhole
<1>2. HeaderAgrees(file)
  BY <1>1, FileFacts DEF HeaderAgrees
<1>3. /\ UNCHANGED <<directory, contents, writer>> /\ UNCHANGED synced
      /\ reader' = [reader EXCEPT ![r] = [stage |-> "checked", file |-> file, length |-> Size[file]]]
  BY <1>2 DEF CheckHeader, contents
<1>4. reader' \in [Readers -> ReaderStates]
  BY <1>1, <1>3, FileFacts DEF ReaderStates
<1>5. \A q \in Readers : reader'[q] = IF q = r
        THEN [stage |-> "checked", file |-> file, length |-> Size[file]] ELSE reader[q]
  BY <1>1, <1>3
<1>6. ReadersHoldWhole'
  BY <1>1, <1>3, <1>5 DEF SnapshotInv, ReadersHoldWhole
<1>. QED  BY <1>3, <1>4, <1>6, ReaderStep

LEMMA MapFileStep ==
  ASSUME SnapshotInv, NEW r \in Readers, MapFile(r)
  PROVE  SnapshotInv'
<1>1. reader \in [Readers -> ReaderStates] /\ reader[r].stage = "checked"
  BY DEF MapFile, SnapshotInv, TypeOK
<1>2. /\ UNCHANGED <<directory, contents, writer>> /\ UNCHANGED synced
      /\ reader' = [reader EXCEPT ![r].stage = "mapped"]
  BY DEF MapFile, contents
<1>3. reader[r] \in ReaderStates
  BY <1>1
<1>4. reader' \in [Readers -> ReaderStates]
  BY <1>1, <1>2, <1>3 DEF ReaderStates
<1>5. \A q \in Readers :
        /\ q # r => reader'[q] = reader[q]
        /\ reader'[q].file = reader[q].file
        /\ reader'[q].length = reader[q].length
  BY <1>1, <1>2, <1>3 DEF ReaderStates
<1>6. ReadersHoldWhole'
  BY <1>1, <1>2, <1>5 DEF SnapshotInv, ReadersHoldWhole
<1>. QED  BY <1>2, <1>4, <1>6, ReaderStep

LEMMA CloseStep ==
  ASSUME SnapshotInv, NEW r \in Readers, Close(r)
  PROVE  SnapshotInv'
<1>1. /\ UNCHANGED <<directory, contents, writer>> /\ UNCHANGED synced
      /\ reader' = [reader EXCEPT ![r] = Closed]
      /\ reader \in [Readers -> ReaderStates]
  BY DEF Close, contents, SnapshotInv, TypeOK
<1>2. reader' \in [Readers -> ReaderStates]
  BY <1>1 DEF ReaderStates, Closed
<1>3. \A q \in Readers : reader'[q] = IF q = r THEN Closed ELSE reader[q]
  BY <1>1
<1>4. ReadersHoldWhole'
  BY <1>1, <1>3 DEF SnapshotInv, ReadersHoldWhole, Closed
<1>. QED  BY <1>1, <1>2, <1>4, ReaderStep

(* What is left of the renames is a beginning of them that keeps the       *)
(* settled ones; what is left of a whole file that was on disk is all.     *)
LEMMA PowerFailureStep ==
  ASSUME SnapshotInv, PowerFailure
  PROVE  SnapshotInv'
<1>1. PICK n \in settled .. Len(renames) : renames' = SubSeq(renames, 1, n) /\ settled' = n
  BY DEF PowerFailure
<1>2. /\ n \in Nat /\ n <= Len(renames) /\ settled <= n
      /\ renames' \in Seq(Files)
      /\ Len(renames') = n
      /\ DOMAIN renames' = 1 .. n
      /\ \A k \in 1 .. n : k \in 1 .. Len(renames) /\ renames'[k] = renames[k]
  BY <1>1, FileFacts, SubSeqProperties DEF SnapshotInv, TypeOK
<1>3. /\ synced' = written'
      /\ written' \in [Files -> Nat]
      /\ \A f \in Files : synced[f] <= written'[f] /\ written'[f] <= written[f]
  <2>1. /\ synced' = written'
        /\ written' \in [Files -> UNION {0 .. Size[f] : f \in Files}]
        /\ \A f \in Files : written'[f] \in synced[f] .. written[f]
    BY DEF PowerFailure
  <2>2. UNION {0 .. Size[f] : f \in Files} \in SUBSET Nat
    BY FilesAssumption
  <2>. QED  BY <2>1, <2>2, FileFacts
<1>4. /\ writer' \in [Writers -> WriterStages]
      /\ \A v \in Writers :
            writer'[v] = IF writer[v] \in Running THEN "killed" ELSE writer[v]
  BY DEF PowerFailure, SnapshotInv, TypeOK, WriterStages
<1>5. reader' = [r \in Readers |-> Closed]
  BY DEF PowerFailure
<1>6. TypeOK'
  <2>1. reader' \in [Readers -> ReaderStates]
    BY <1>5 DEF Closed, ReaderStates
  <2>. QED  BY <1>1, <1>2, <1>3, <1>4, <2>1 DEF TypeOK
<1>7. ChunksInOrder'
  BY <1>3, FileFacts DEF SnapshotInv, ChunksInOrder
<1>8. \A f \in Files : synced[f] = Size[f] => synced'[f] = Size[f]
  <2>. SUFFICES ASSUME NEW f \in Files, synced[f] = Size[f] PROVE synced'[f] = Size[f]
    OBVIOUS
  <2>1. written[f] = Size[f] /\ Size[f] \in Nat /\ written'[f] \in Nat
    BY <1>3, FileFacts
  <2>. QED  BY <1>3, <2>1
<1>9. CompleteIsSynced'
  BY <1>4, <1>8, FileFacts DEF SnapshotInv, CompleteIsSynced, Running
<1>10. RenamedIsNamed'
  BY <1>2, <1>4 DEF SnapshotInv, RenamedIsNamed, Running
<1>11. SavedIsSettled'
  <2>. SUFFICES ASSUME NEW v \in Writers, writer'[v] = "saved"
                PROVE  \E k \in 1 .. n : renames'[k] = v
    BY <1>1 DEF SavedIsSettled
  <2>1. writer[v] = "saved"
    BY <1>4
  <2>2. \A k \in 1 .. settled : k \in 1 .. n
    BY <1>2, FileFacts
  <2>. QED  BY <1>2, <2>1, <2>2 DEF SnapshotInv, SavedIsSettled
<1>12. ReadersHoldWhole'
  BY <1>5 DEF ReadersHoldWhole, Closed
<1>13. PublishedIsWhole'
  BY <1>2, <1>8, FileFacts DEF PublishedIsWhole
<1>. QED  BY <1>6, <1>7, <1>9, <1>10, <1>11, <1>12, <1>13 DEF SnapshotInv

LEMMA StepKeepsInv ==
  ASSUME SnapshotInv, Next
  PROVE  SnapshotInv'
<1>1. CASE \E w \in Writers : \/ Create(w) \/ WriteChunk(w) \/ SyncFile(w) \/ Persist(w)
                              \/ SyncParent(w)
  BY <1>1, CreateStep, WriteChunkStep, SyncFileStep, PersistStep, SyncParentStep
<1>2. CASE \E w \in Writers : FailBeforeRename(w) \/ FailToSettle(w) \/ Kill(w)
  <2>1. ASSUME NEW w \in Writers, FailBeforeRename(w) PROVE SnapshotInv'
    BY <2>1, LeavingStep DEF FailBeforeRename
  <2>2. ASSUME NEW w \in Writers, FailToSettle(w) PROVE SnapshotInv'
    BY <2>2, LeavingStep DEF FailToSettle, GoTo, directory
  <2>3. ASSUME NEW w \in Writers, Kill(w) PROVE SnapshotInv'
    BY <2>3, LeavingStep DEF Kill, directory
  <2>. QED  BY <1>2, <2>1, <2>2, <2>3
<1>3. CASE \E r \in Readers : OpenPath(r) \/ CheckHeader(r) \/ MapFile(r) \/ Close(r)
  BY <1>3, OpenPathStep, CheckHeaderStep, MapFileStep, CloseStep
<1>4. CASE PowerFailure
  BY <1>4, PowerFailureStep
<1>. QED  BY <1>1, <1>2, <1>3, <1>4 DEF Next

LEMMA StutterKeepsInv ==
  ASSUME SnapshotInv, UNCHANGED vars
  PROVE  SnapshotInv'
BY DEF vars, directory, contents, SnapshotInv, TypeOK, ChunksInOrder, CompleteIsSynced,
       RenamedIsNamed, SavedIsSettled, ReadersHoldWhole, PublishedIsWhole

(* The inductive invariant: what is synchronized, named and settled at     *)
(* each stage of every save, and held at each stage of every reader.       *)
THEOREM SnapshotIsInvariant == Spec => []SnapshotInv
<1>1. SnapshotInv /\ [Next]_vars => SnapshotInv'
  BY StepKeepsInv, StutterKeepsInv
<1>. QED  BY InitialState, <1>1, PTL DEF Spec

(* write_file "atomically publishes" a snapshot: however many saves,       *)
(* readers, failures and crashes there are, no name is ever torn.          *)
THEOREM SnapshotsArePublishedWhole == Spec => []PublishedIsWhole
<1>1. SnapshotInv => PublishedIsWhole
  BY DEF SnapshotInv
<1>. QED  BY SnapshotIsInvariant, <1>1, PTL

(* A save that has returned Ok outlives every power failure.               *)
THEOREM SavesAreDurable == Spec => []SavedIsDurable
<1>1. ASSUME SnapshotInv PROVE SavedIsDurable
  <2>. SUFFICES ASSUME NEW w \in Writers, writer[w] = "saved"
                PROVE  w \in Range(SubSeq(renames, 1, settled))
    BY DEF SavedIsDurable
  <2>. DEFINE lasting == SubSeq(renames, 1, settled)
  <2>1. DOMAIN lasting = 1 .. settled /\ \A k \in 1 .. settled : lasting[k] = renames[k]
    BY <1>1, FileFacts, SubSeqProperties DEF SnapshotInv, TypeOK
  <2>2. PICK k \in 1 .. settled : renames[k] = w
    BY <1>1 DEF SnapshotInv, SavedIsSettled
  <2>. QED  BY <2>1, <2>2 DEF Range
<1>. QED  BY SnapshotIsInvariant, <1>1, PTL

(* PersistedFile::open maps the file whose length it compared, and that    *)
(* length is still the file's while it is mapped.                          *)
THEOREM MappingsAreChecked == Spec => []MappingIsChecked
<1>1. ASSUME SnapshotInv PROVE MappingIsChecked
  BY <1>1, FileFacts DEF SnapshotInv, ReadersHoldWhole, MappingIsChecked
<1>. QED  BY SnapshotIsInvariant, <1>1, PTL

------------------------------------------------------------------------------
(* The refinement of SnapshotRegister: under the invariant no content the  *)
(* register sees is torn, so that a rename is what publishes.              *)
Held == [r \in Readers |-> IF reader[r].stage = "closed" THEN None ELSE reader[r].file]

Untorn == PublishedContent = renames /\ ReaderView = Held

LEMMA NothingIsTorn == SnapshotInv => Untorn
<1>. SUFFICES ASSUME SnapshotInv PROVE Untorn
  OBVIOUS
<1>1. PublishedContent = renames
  <2>1. renames \in [1 .. Len(renames) -> Files]
    BY LenProperties DEF SnapshotInv, TypeOK
  <2>2. \A k \in DOMAIN renames : Content(renames[k]) = renames[k]
    BY FileFacts DEF Content
  <2>. QED  BY <2>1, <2>2 DEF PublishedContent
<1>2. ReaderView = Held
  <2>1. ASSUME NEW r \in Readers, reader[r].stage # "closed"
        PROVE  Content(reader[r].file) = reader[r].file
    BY <2>1, FileFacts DEF SnapshotInv, ReadersHoldWhole, Content
  <2>. QED  BY <2>1 DEF ReaderView, Held
<1>. QED  BY <1>1, <1>2 DEF Untorn

(* A step of a call changes its own outcome only.                          *)
LEMMA OutcomeOfStep ==
  ASSUME SnapshotInv, NEW w \in Writers, NEW s \in WriterStages,
         writer' = [writer EXCEPT ![w] = s]
  PROVE  /\ SaveOutcome[w] = Outcome(writer[w])
         /\ SaveOutcome' = [SaveOutcome EXCEPT ![w] = Outcome(s)]
<1>1. writer \in [Writers -> WriterStages]
  BY DEF SnapshotInv, TypeOK
<1>2. \A v \in Writers : writer'[v] = IF v = w THEN s ELSE writer[v]
  BY <1>1
<1>3. SaveOutcome' = [v \in Writers |-> IF v = w THEN Outcome(s) ELSE Outcome(writer[v])]
  <2>1. \A v \in Writers :
           Outcome(writer'[v]) = IF v = w THEN Outcome(s) ELSE Outcome(writer[v])
    BY <1>2
  <2>. QED  BY <2>1 DEF SaveOutcome
<1>. QED  BY <1>3 DEF SaveOutcome

LEMMA SameOutcome ==
  ASSUME SnapshotInv, NEW w \in Writers, NEW s \in WriterStages,
         writer' = [writer EXCEPT ![w] = s], Outcome(s) = Outcome(writer[w])
  PROVE  UNCHANGED SaveOutcome
<1>1. writer \in [Writers -> WriterStages]
  BY DEF SnapshotInv, TypeOK
<1>2. \A v \in Writers : Outcome(writer'[v]) = Outcome(writer[v])
  BY <1>1
<1>. QED  BY <1>2 DEF SaveOutcome

(* Creating, writing and synchronizing the temporary file is not visible.  *)
LEMMA PreparingIsHidden ==
  ASSUME SnapshotInv, Untorn, Untorn', NEW w \in Writers,
         Create(w) \/ WriteChunk(w) \/ SyncFile(w)
  PROVE  UNCHANGED Register!vars
<1>1. UNCHANGED <<renames, settled, reader>>
  BY DEF Create, WriteChunk, SyncFile, directory
<1>2. UNCHANGED Held
  BY <1>1 DEF Held
<1>3. UNCHANGED SaveOutcome
  <2>1. CASE Create(w)
    BY <2>1, SameOutcome DEF Create, GoTo, WriterStages, Outcome
  <2>2. CASE WriteChunk(w)
    BY <2>2 DEF WriteChunk, SaveOutcome
  <2>3. CASE SyncFile(w)
    BY <2>3, SameOutcome DEF SyncFile, GoTo, WriterStages, Outcome
  <2>. QED  BY <2>1, <2>2, <2>3
<1>. QED  BY <1>1, <1>2, <1>3 DEF Register!vars, Untorn

LEMMA PersistPublishes ==
  ASSUME SnapshotInv, Untorn, Untorn', NEW w \in Writers, Persist(w)
  PROVE  Register!Publish(w)
<1>1. writer[w] = "complete" /\ writer' = [writer EXCEPT ![w] = "renamed"]
      /\ renames' = Append(renames, w) /\ UNCHANGED <<settled, reader>>
  BY DEF Persist, GoTo
<1>2. SaveOutcome[w] = "pending" /\ UNCHANGED SaveOutcome
  BY <1>1, SameOutcome, OutcomeOfStep DEF WriterStages, Outcome
<1>3. w \notin Range(renames)
  BY <1>1, FileFacts DEF SnapshotInv, RenamedIsNamed, Range
<1>4. UNCHANGED Held
  BY <1>1 DEF Held
<1>. QED  BY <1>1, <1>2, <1>3, <1>4 DEF Register!Publish, Register!Range, Range, Untorn

LEMMA SyncParentSaves ==
  ASSUME SnapshotInv, Untorn, Untorn', NEW w \in Writers, SyncParent(w)
  PROVE  Register!Save(w)
<1>1. writer[w] = "renamed" /\ writer' = [writer EXCEPT ![w] = "saved"]
      /\ settled' = Len(renames) /\ UNCHANGED <<renames, reader>>
  BY DEF SyncParent, GoTo
<1>2. SaveOutcome[w] = "pending" /\ SaveOutcome' = [SaveOutcome EXCEPT ![w] = "saved"]
  BY <1>1, OutcomeOfStep DEF WriterStages, Outcome
<1>3. w \in Range(renames)
  BY <1>1, FileFacts DEF SnapshotInv, RenamedIsNamed, Range
<1>4. UNCHANGED Held
  BY <1>1 DEF Held
<1>. QED  BY <1>1, <1>2, <1>3, <1>4 DEF Register!Save, Register!Range, Range, Untorn

(* A call that fails or is killed, before its rename or after, has failed; *)
(* one that has not begun when the process dies is only seen to fail.      *)
LEMMA LeavingFails ==
  ASSUME SnapshotInv, Untorn, Untorn', NEW w \in Writers,
         FailBeforeRename(w) \/ FailToSettle(w) \/ Kill(w)
  PROVE  Register!Fail(w)
<1>1. UNCHANGED <<renames, settled, reader>>
  BY DEF FailBeforeRename, FailToSettle, Kill, directory
<1>2. PICK s \in {"failed", "killed", "unsettled"} : writer' = [writer EXCEPT ![w] = s]
  BY DEF FailBeforeRename, FailToSettle, Kill, GoTo
<1>3. writer[w] \in {"idle", "writing", "complete", "renamed"}
  BY DEF FailBeforeRename, FailToSettle, Kill, GoTo, Running
<1>4. SaveOutcome[w] = "pending" /\ SaveOutcome' = [SaveOutcome EXCEPT ![w] = "failed"]
  BY <1>2, <1>3, OutcomeOfStep DEF WriterStages, Outcome
<1>5. UNCHANGED Held
  BY <1>1 DEF Held
<1>. QED  BY <1>1, <1>4, <1>5 DEF Register!Fail, Untorn

LEMMA OpenPathOpens ==
  ASSUME SnapshotInv, Untorn, Untorn', NEW r \in Readers, OpenPath(r)
  PROVE  Register!Open(r)
<1>1. /\ reader[r].stage = "closed" /\ renames # <<>>
      /\ reader' = [reader EXCEPT ![r] = [stage |-> "opened", file |-> Last(renames), length |-> 0]]
      /\ UNCHANGED <<renames, settled, writer>>
  BY DEF OpenPath, directory
<1>2. reader \in [Readers -> ReaderStates]
  BY DEF SnapshotInv, TypeOK
<1>3. Held' = [Held EXCEPT ![r] = Last(renames)] /\ Held[r] = None
  BY <1>1, <1>2 DEF Held
<1>4. UNCHANGED SaveOutcome
  BY <1>1 DEF SaveOutcome
<1>. QED  BY <1>1, <1>3, <1>4 DEF Register!Open, Register!Last, Last, Untorn

(* No header disagrees, and mapping does not look at the path again.       *)
LEMMA CheckingIsHidden ==
  ASSUME SnapshotInv, Untorn, Untorn', NEW r \in Readers, CheckHeader(r) \/ MapFile(r)
  PROVE  UNCHANGED Register!vars
<1>1. UNCHANGED <<renames, settled, writer>>
  BY DEF CheckHeader, MapFile, directory
<1>2. reader \in [Readers -> ReaderStates] /\ reader[r].stage # "closed"
  BY DEF SnapshotInv, TypeOK, CheckHeader, MapFile
<1>3. \A q \in Readers : /\ reader'[q].file = reader[q].file
                         /\ reader'[q].stage = "closed" <=> reader[q].stage = "closed"
  <2>1. CASE CheckHeader(r)
    BY <1>2, <2>1, CheckHeaderStep
  <2>2. CASE MapFile(r)
    <3>1. reader[r] \in ReaderStates /\ reader' = [reader EXCEPT ![r].stage = "mapped"]
      BY <1>2, <2>2 DEF MapFile
    <3>. QED  BY <1>2, <3>1 DEF ReaderStates
  <2>. QED  BY <2>1, <2>2
<1>4. UNCHANGED <<Held, SaveOutcome>>
  BY <1>1, <1>3 DEF Held, SaveOutcome
<1>. QED  BY <1>1, <1>4 DEF Register!vars, Untorn

LEMMA CloseCloses ==
  ASSUME SnapshotInv, Untorn, Untorn', NEW r \in Readers, Close(r)
  PROVE  Register!Close(r)
<1>1. /\ reader[r].stage # "closed" /\ reader' = [reader EXCEPT ![r] = Closed]
      /\ UNCHANGED <<renames, settled, writer>>
  BY DEF Close, directory
<1>2. reader \in [Readers -> ReaderStates] /\ reader[r].file # None
  BY <1>1, FilesAssumption DEF SnapshotInv, TypeOK, ReadersHoldWhole
<1>3. Held' = [Held EXCEPT ![r] = None] /\ Held[r] # None
  BY <1>1, <1>2 DEF Held, Closed
<1>4. UNCHANGED SaveOutcome
  BY <1>1 DEF SaveOutcome
<1>. QED  BY <1>1, <1>3, <1>4 DEF Register!Close, Untorn

LEMMA PowerFails ==
  ASSUME SnapshotInv, Untorn, Untorn', PowerFailure
  PROVE  Register!PowerFailure
<1>1. \E n \in settled .. Len(renames) : renames' = SubSeq(renames, 1, n) /\ settled' = n
  BY DEF PowerFailure
<1>2. \E running \in SUBSET {w \in Writers : SaveOutcome[w] = "pending"} :
        SaveOutcome' = [w \in Writers |-> IF w \in running THEN "failed" ELSE SaveOutcome[w]]
  <2>. DEFINE running == {w \in Writers : writer[w] \in Running}
  <2>1. \A w \in Writers :
           writer'[w] = IF writer[w] \in Running THEN "killed" ELSE writer[w]
    BY DEF PowerFailure
  <2>2. running \in SUBSET {w \in Writers : SaveOutcome[w] = "pending"}
    BY DEF SaveOutcome, Outcome, Running
  <2>3. SaveOutcome' = [w \in Writers |-> IF w \in running THEN "failed" ELSE SaveOutcome[w]]
    BY <2>1 DEF SaveOutcome, Outcome, Running
  <2>. QED  BY <2>2, <2>3
<1>3. Held' = [r \in Readers |-> None]
  BY DEF PowerFailure, Held, Closed
<1>. QED  BY <1>1, <1>2, <1>3 DEF Register!PowerFailure, Untorn

(* Saving is one atomic replacement, durable once it has returned, and     *)
(* "existing readers keep their previous mapping": every behaviour of the  *)
(* system calls is one of the register.                                    *)
THEOREM SavingIsAtomic == Spec => SavesAreAtomic
<1>1. Init => Register!Init
  <2>. SUFFICES ASSUME Init PROVE Register!Init
    OBVIOUS
  <2>1. Untorn
    BY InitialState, NothingIsTorn
  <2>2. SaveOutcome = [w \in Writers |-> "pending"] /\ Held = [r \in Readers |-> None]
    BY DEF Init, SaveOutcome, Outcome, Held, Closed
  <2>. QED  BY <2>1, <2>2 DEF Init, Register!Init, Untorn
<1>2. SnapshotInv /\ Untorn /\ Untorn' /\ [Next]_vars => [Register!Next]_(Register!vars)
  <2>. SUFFICES ASSUME SnapshotInv, Untorn, Untorn', [Next]_vars
                PROVE  [Register!Next]_(Register!vars)
    OBVIOUS
  <2>1. ASSUME NEW w \in Writers, Create(w) \/ WriteChunk(w) \/ SyncFile(w)
        PROVE  UNCHANGED Register!vars
    BY <2>1, PreparingIsHidden
  <2>2. ASSUME NEW w \in Writers,
               Persist(w) \/ SyncParent(w) \/ FailBeforeRename(w) \/ FailToSettle(w) \/ Kill(w)
        PROVE  Register!Next
    BY <2>2, PersistPublishes, SyncParentSaves, LeavingFails DEF Register!Next
  <2>3. ASSUME NEW r \in Readers, CheckHeader(r) \/ MapFile(r)
        PROVE  UNCHANGED Register!vars
    BY <2>3, CheckingIsHidden
  <2>4. ASSUME NEW r \in Readers, OpenPath(r) \/ Close(r)
        PROVE  Register!Next
    BY <2>4, OpenPathOpens, CloseCloses DEF Register!Next
  <2>5. CASE PowerFailure
    BY <2>5, PowerFails DEF Register!Next
  <2>6. CASE UNCHANGED vars
    BY <2>6 DEF vars, directory, contents, Register!vars, PublishedContent, Content, SaveOutcome,
                ReaderView
  <2>. QED  BY <2>1, <2>2, <2>3, <2>4, <2>5, <2>6 DEF Next
<1>. QED  BY SnapshotIsInvariant, NothingIsTorn, <1>1, <1>2, PTL
          DEF Spec, SavesAreAtomic, Register!Spec
==============================================================================
