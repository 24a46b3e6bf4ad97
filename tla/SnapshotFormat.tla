---------------------------- MODULE SnapshotFormat ----------------------------
(***************************************************************************)
(* The layout of a snapshot file as write_file lays it out, fields of its  *)
(* header and its section table damaged afterwards, and the structural     *)
(* validation that decides whether it is opened (persistence/format.rs,    *)
(* persistence/storage.rs).                                                *)
(*                                                                         *)
(* A file is the fields that say where things are; bytes of payloads are   *)
(* left out.  Magic number, versions, markers and header length are one    *)
(* field, right or wrong, and an entry with flags counts as one of unknown *)
(* kind.  Bytes found at a place nobody wrote them to are taken to be the  *)
(* ones expected there, the worst case for the validation.                 *)
(***************************************************************************)
EXTENDS Integers, Sequences, SequencesExt, Ordering

CONSTANTS MaxU64,      (* u64::MAX                                         *)
          MaxUsize,    (* usize::MAX of the host                           *)
          HeaderLen,   (* HEADER_LEN                                       *)
          EntryLen,    (* SECTION_ENTRY_LEN                                *)
          CodecLen,    (* length of the identifier of a token codec        *)
          NoCodecLen,  (* and of the one of files without tokens           *)
          Word,        (* size and alignment of u64; u32 takes half        *)
          Contents,    (* the files saved: kind, numbers of things in them *)
          MaxDamage    (* bound on the fields damaged                      *)

ASSUME SizesAssumption ==
  /\ MaxU64 \in Nat /\ MaxUsize \in 0 .. MaxU64
  /\ HeaderLen \in Nat \ {0} /\ EntryLen \in Nat \ {0}
  /\ CodecLen \in Nat /\ NoCodecLen \in Nat
  /\ Word \in Nat \ {0, 1}

(* FileKind. *)
FileKinds == {"engine", "embedding store", "levenshtein costs", "custom costs", "cosine costs"}

ASSUME ContentsAssumption ==
  Contents \in SUBSET [kind : FileKinds, tokens : Nat, bytes : Nat, strings : Nat,
                       symbols : Nat, dimension : Nat]

VARIABLES file,        (* the fields of header and table, the file's length *)
          written,     (* what they were when the file was published       *)
          damaged,     (* fields changed since: of entry k, or of 0, the header *)
          outcome      (* what opening the file returned                   *)

vars == <<file, written, damaged, outcome>>

(* The sections of each kind in the order they are written.                *)
SectionsOf(kind) ==
  CASE kind = "engine" ->
         <<"vocabulary offsets", "vocabulary blob", "sequence offsets", "corpus symbols",
           "posting offsets", "postings">>
    [] kind = "embedding store" ->
         <<"embedding offsets", "embedding blob", "embeddings", "cost metadata">>
    [] kind = "levenshtein costs" -> <<>>
    [] OTHER -> <<"cost metadata">>

SectionKinds == UNION {Range(SectionsOf(kind)) : kind \in FileKinds}
HasTokens(kind) == kind \in {"engine", "embedding store", "custom costs"}

(* element_layout: sizes and alignments; a blob has neither. *)
HalfWord == Word \div 2
IsBlob(kind) == kind \in {"vocabulary blob", "embedding blob", "cost metadata"}
ElementSize(kind) == IF kind \in {"corpus symbols", "embeddings"} THEN HalfWord ELSE Word
Alignment(kind) == CASE IsBlob(kind) -> 1
                     [] kind \in {"corpus symbols", "postings", "embeddings"} -> HalfWord
                     [] OTHER -> Word

------------------------------------------------------------------------------
(* write_file: sections one after the other, each at its alignment.        *)
AlignUp(value, alignment) == value + ((alignment - (value % alignment)) % alignment)

(* Elements and bytes of a section of a file with these contents.          *)
Count(kind, c) ==
  CASE kind \in {"vocabulary blob", "embedding blob"} -> c.tokens
    [] kind \in {"vocabulary offsets", "posting offsets", "embedding offsets"} -> c.tokens + 1
    [] kind = "sequence offsets" -> c.strings + 1
    [] kind = "embeddings"       -> c.tokens * c.dimension
    [] kind = "cost metadata"    -> 1
    [] OTHER                     -> c.symbols

(* A version and a dimension; a version and three costs; these, the counts *)
(* of the rules, and the rules.                                            *)
StoreMetadataLen  == HalfWord + Word
CosineMetadataLen == 4 * HalfWord
CustomHeaderLen   == 4 * HalfWord + 3 * Word

MetadataLen(c) == CASE c.kind = "embedding store" -> StoreMetadataLen
                    [] c.kind = "cosine costs"    -> CosineMetadataLen
                    [] OTHER                      -> CustomHeaderLen + c.bytes

ByteLen(kind, c) ==
  CASE kind = "cost metadata"                         -> MetadataLen(c)
    [] kind \in {"vocabulary blob", "embedding blob"} -> c.bytes
    [] OTHER                                          -> Count(kind, c) * ElementSize(kind)

PlaceUnaligned(kind, cursor) == cursor      \* wherever the last one ends
Place(kind, cursor) == AlignUp(cursor, Alignment(kind))

Layout(c) ==
  LET sections == SectionsOf(c.kind)
      codecLen == IF HasTokens(c.kind) THEN CodecLen ELSE NoCodecLen
      table == AlignUp(HeaderLen + codecLen, Word)
      end[k \in 0 .. Len(sections)] ==
        IF k = 0 THEN table + Len(sections) * EntryLen
        ELSE Place(sections[k], end[k - 1]) + ByteLen(sections[k], c)
  IN  [identity |-> TRUE, kind |-> c.kind, dimension |-> c.dimension,
       codecOffset |-> HeaderLen, codecLen |-> codecLen,
       tableOffset |-> table, sectionCount |-> Len(sections),
       entries |-> [k \in DOMAIN sections |->
                      [kind |-> sections[k], offset |-> Place(sections[k], end[k - 1]),
                       byteLen |-> ByteLen(sections[k], c), count |-> Count(sections[k], c)]],
       fileLen |-> end[Len(sections)], length |-> end[Len(sections)]]

(* write_file refuses what does not fit its own integers.                  *)
ASSUME FilesFit == \A c \in Contents : Layout(c).length <= MaxUsize

Unopened == [status |-> "none", kind |-> "none"]

Init ==
  /\ \E c \in Contents : file = Layout(c)
  /\ written = file
  /\ damaged = {}
  /\ outcome = Unopened

------------------------------------------------------------------------------
(* A field of the published file comes to hold any value it can hold. *)
Damage ==
  /\ outcome = Unopened
  /\ Cardinality(damaged) < MaxDamage
  /\ \/ /\ <<0, "identity">> \notin damaged
        /\ file' = [file EXCEPT !.identity = FALSE]
        /\ damaged' = damaged \cup {<<0, "identity">>}
     \/ /\ <<0, "kind">> \notin damaged
        /\ \E kind \in (FileKinds \cup {"unknown"}) \ {file.kind} :
             file' = [file EXCEPT !.kind = kind]
        /\ damaged' = damaged \cup {<<0, "kind">>}
     \/ \E field \in {"codecOffset", "codecLen", "tableOffset", "sectionCount", "fileLen",
                      "length"} :
          /\ <<0, field>> \notin damaged
          /\ \E n \in (0 .. MaxU64) \ {file[field]} : file' = [file EXCEPT ![field] = n]
          /\ damaged' = damaged \cup {<<0, field>>}
     \/ \E k \in DOMAIN file.entries, field \in {"offset", "byteLen", "count"} :
          /\ <<k, field>> \notin damaged
          /\ \E n \in (0 .. MaxU64) \ {file.entries[k][field]} :
               file' = [file EXCEPT !.entries[k][field] = n]
          /\ damaged' = damaged \cup {<<k, field>>}
     \/ \E k \in DOMAIN file.entries :
          /\ <<k, "kind">> \notin damaged
          /\ \E kind \in (SectionKinds \cup {"unknown"}) \ {file.entries[k].kind} :
               file' = [file EXCEPT !.entries[k].kind = kind]
          /\ damaged' = damaged \cup {<<k, "kind">>}
  /\ UNCHANGED <<written, outcome>>

------------------------------------------------------------------------------
(* checked_range: in u64, then in usize, then in the file.                 *)
InFile(offset, len) ==
  /\ offset + len <= MaxU64
  /\ offset + len <= MaxUsize
  /\ offset + len <= file.length

(* validate_section. *)
WrappingByteLen(entry) ==      \* the product not checked for overflow
  /\ entry.kind \in SectionKinds
  /\ ~IsBlob(entry.kind) =>
        /\ entry.byteLen = (entry.count * ElementSize(entry.kind)) % (MaxU64 + 1)
        /\ entry.offset % Alignment(entry.kind) = 0

TypedAsDescribed(entry) ==
  /\ entry.kind \in SectionKinds
  /\ ~IsBlob(entry.kind) =>
        /\ entry.count * ElementSize(entry.kind) <= MaxU64
        /\ entry.byteLen = entry.count * ElementSize(entry.kind)
        /\ entry.offset % Alignment(entry.kind) = 0

ValidSection(entry) == TypedAsDescribed(entry) /\ InFile(entry.offset, entry.byteLen)

(* The entries that are read.  More than were written reach beyond the     *)
(* table into what follows it, or beyond the end of the file: such a table *)
(* is never accepted.                                                      *)
Entries == SubSeq(file.entries, 1, file.sectionCount)

(* Everything that takes up bytes; validate_non_overlapping compares the   *)
(* regions that follow one another once they are sorted.                   *)
Regions ==
  <<[name |-> "header", offset |-> 0, len |-> HeaderLen],
    [name |-> "codec", offset |-> file.codecOffset, len |-> file.codecLen],
    [name |-> "table", offset |-> file.tableOffset, len |-> file.sectionCount * EntryLen]>>
  \o [k \in DOMAIN Entries |->
        [name |-> Entries[k].kind, offset |-> Entries[k].offset, len |-> Entries[k].byteLen]]

ByOffset(regions) ==           \* where the regions with bytes stand in their order
  SortedBy({k \in DOMAIN regions : regions[k].len # 0},
           LAMBDA i, j : \/ regions[i].offset < regions[j].offset
                         \/ regions[i].offset = regions[j].offset /\ i < j)

StartsApart ==                 \* starts compared, not ends
  LET regions == Regions
      sorted  == ByOffset(regions)
  IN  \A k \in 2 .. Len(sorted) : regions[sorted[k - 1]].offset < regions[sorted[k]].offset

NonOverlapping ==
  LET regions == Regions
      sorted  == ByOffset(regions)
  IN  \A k \in 2 .. Len(sorted) :
         regions[sorted[k - 1]].offset + regions[sorted[k - 1]].len <= regions[sorted[k]].offset

(* validate_structure.  An offsets array is nonempty and ends with the     *)
(* length of its payload, which a file still has where it was written;     *)
(* found elsewhere, it may end with anything.                              *)
SectionOf(entries, kind) ==
  entries[CHOOSE k \in DOMAIN entries : entries[k].kind = kind]
LengthOf(entries, kind) ==
  IF IsBlob(kind) THEN SectionOf(entries, kind).byteLen ELSE SectionOf(entries, kind).count

OffsetsEndWith(offsets, payload) ==
  /\ SectionOf(Entries, offsets).count > 0
  /\ SectionOf(Entries, offsets) \in Range(written.entries) =>
        LengthOf(Entries, payload) = LengthOf(written.entries, payload)

OffsetsAgree(kind) ==
  /\ kind = "engine" =>
        /\ OffsetsEndWith("vocabulary offsets", "vocabulary blob")
        /\ OffsetsEndWith("sequence offsets", "corpus symbols")
        /\ OffsetsEndWith("posting offsets", "postings")
  /\ kind = "embedding store" => OffsetsEndWith("embedding offsets", "embedding blob")

CountsAgree(kind) ==
  /\ kind = "engine" =>
        \A offsets \in {"vocabulary offsets", "posting offsets"} :
           SectionOf(Entries, offsets).count = SectionOf(Entries, "vocabulary blob").count + 1
  /\ kind = "embedding store" =>
        SectionOf(Entries, "embedding offsets").count
          = SectionOf(Entries, "embedding blob").count + 1

RequiredSections(kind) ==
  {entry.kind : entry \in Range(Entries)} = Range(SectionsOf(kind))

OffsetsOnly(kind)    == RequiredSections(kind) /\ OffsetsAgree(kind)   \* counts not compared
ValidStructure(kind) == RequiredSections(kind) /\ OffsetsAgree(kind) /\ CountsAgree(kind)

------------------------------------------------------------------------------
(* PersistedFile::open.  The codec is the one of files of its kind: bytes  *)
(* where it was written are its identifier still.  Another number of       *)
(* entries than the kind has sections, or one kind twice, never gives the  *)
(* sections it needs.  parse_contents would go on to read entries beyond   *)
(* those there are, and refuse what it finds (see Entries).                *)
CodecAgrees(kind) ==
  /\ file.codecLen = IF HasTokens(kind) THEN CodecLen ELSE NoCodecLen
  /\ InFile(file.codecOffset, file.codecLen)
  /\ file.codecOffset = written.codecOffset /\ file.codecLen = written.codecLen
       => HasTokens(kind) = HasTokens(written.kind)

ValidHeader(kind) == HeaderLen <= file.length /\ file.identity /\ file.kind = kind

Accepts(kind) ==
  /\ ValidHeader(kind)
  /\ file.fileLen = file.length
  /\ CodecAgrees(kind)
  /\ file.sectionCount = Len(SectionsOf(kind)) /\ file.sectionCount <= Len(file.entries)
  /\ InFile(file.tableOffset, file.sectionCount * EntryLen)
  /\ \A entry \in Range(Entries) : ValidSection(entry)
  /\ NonOverlapping
  /\ ValidStructure(kind)

(* open_with of costs and embeddings: the metadata is read to its end, and *)
(* the matrix has the shape it gives.                                      *)
MetadataInPlace ==
  \E entry \in Range(written.entries) :
     entry.kind = "cost metadata" /\ entry.offset = SectionOf(Entries, "cost metadata").offset

MetadataReadable(kind) ==
  LET len == SectionOf(Entries, "cost metadata").byteLen
  IN  /\ kind = "embedding store" => len = StoreMetadataLen
      /\ kind = "cosine costs" => len = CosineMetadataLen
      /\ kind = "custom costs" =>
           /\ len >= CustomHeaderLen
           /\ MetadataInPlace => len = SectionOf(written.entries, "cost metadata").byteLen

ShapeAgrees ==
  LET rows   == SectionOf(Entries, "embedding offsets").count - 1
      values == SectionOf(Entries, "embeddings").count
  IN  IF MetadataInPlace THEN values = rows * written.dimension
      ELSE \E dimension \in 1 .. MaxU64 : values = rows * dimension

Opens(kind) ==
  /\ Accepts(kind)
  /\ "cost metadata" \in Range(SectionsOf(kind)) => MetadataReadable(kind)
  /\ kind = "embedding store" => ShapeAgrees

(* Opened as the kind it was written as, or as the one its header has now; *)
(* as any other kind it is refused by the header alone.                    *)
Open(kind) ==
  /\ outcome = Unopened
  /\ kind \in {written.kind, file.kind}
  /\ outcome' = [status |-> IF Opens(kind) THEN "accepted" ELSE "refused", kind |-> kind]
  /\ UNCHANGED <<file, written, damaged>>

Next == Damage \/ \E kind \in FileKinds : Open(kind)

Spec == Init /\ [][Next]_vars

------------------------------------------------------------------------------
(* What write_file writes, open accepts, empty sections and shared offsets *)
(* included.                                                               *)
WrittenIsAccepted == damaged = {} => outcome.status # "refused"

(* In an accepted file any two regions that hold bytes are apart and       *)
(* inside the file, although only neighbors are compared and all fields    *)
(* may be damaged.                                                         *)
RegionsAreApart ==
  outcome.status = "accepted" =>
     \A a, b \in {region \in Range(Regions) : region.len # 0} :
        /\ a.offset + a.len <= file.length
        /\ a # b => a.offset + a.len <= b.offset \/ b.offset + b.len <= a.offset

(* MappedSlice::new, which makes a typed view of a section, repeats checks *)
(* of its own, and every view of an accepted file passes them.             *)
ViewSucceeds(entry) ==
  /\ entry.count * ElementSize(entry.kind) <= MaxU64
  /\ entry.byteLen = entry.count * ElementSize(entry.kind)
  /\ entry.offset + entry.byteLen <= MaxUsize
  /\ entry.offset + entry.byteLen <= file.length
  /\ entry.offset % Alignment(entry.kind) = 0

ViewsNeverFail ==
  outcome.status = "accepted" =>
     \A entry \in Range(Entries) : ~IsBlob(entry.kind) => ViewSucceeds(entry)

(* Every number of elements and bytes is recorded twice, and the kind of a *)
(* file too, in its sections and its codec: no single damaged field makes  *)
(* a file be read as one of another kind, or changes how much of a section *)
(* is read, without being noticed.  How many elements the metadata of      *)
(* costs is said to be is never read.                                      *)
LengthsAreRedundant ==
  outcome.status = "accepted" /\ Cardinality(damaged) = 1 =>
     /\ outcome.kind = written.kind
     /\ \A kind \in Range(SectionsOf(written.kind)) :
          LET found == SectionOf(Entries, kind)
              saved == SectionOf(written.entries, kind)
          IN  /\ found.byteLen = saved.byteLen
              /\ kind # "cost metadata" => found.count = saved.count
==============================================================================
