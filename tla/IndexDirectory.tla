--------------------------- MODULE IndexDirectory ----------------------------
(***************************************************************************)
(* The index directory of the command line: runs of `yurine index`, one    *)
(* after the other, that replace its four files, and searches that open    *)
(* them meanwhile (cli/src/index.rs; build_index, find_matches,            *)
(* search_index and locate_matches of cli/src/main.rs).                    *)
(*                                                                         *)
(* The directory maps names to files; a file is named by the run that      *)
(* created it.  The engine file is replaced as SnapshotFile shows a save   *)
(* to do; the other files are plain ones.  Two runs at the same time share *)
(* the temporary names and are left out.                                   *)
(***************************************************************************)
EXTENDS Tokenization, TLC

CONSTANTS Chars,      (* the characters of lines                           *)
          Runs,       (* the runs in order: what each reads, its tokenizer *)
          Searches,   (* processes that search the index                   *)
          NewLine,    (* the character that ends a line                    *)
          None        (* no file                                           *)

ASSUME RunsAssumption ==
  /\ Runs \in Seq([tokenizer : {"character", "whitespace"}, lines : Seq(Seq(Chars))])
  /\ Runs # <<>>
  /\ NewLine \notin Wide

Kinds == {"engine", "texts", "offsets", "metadata"}
Names == Kinds \cup {"texts.tmp", "offsets.tmp"}
Files == (DOMAIN Runs) \X Kinds

ASSUME NoneAssumption == None \notin Files

VARIABLES
  entry,       (* the file each name of the directory refers to            *)
  contents,    (* what each file holds                                     *)
  build,       (* the current or last run                                  *)
  search       (* each search: its stage and what it has open              *)

vars == <<entry, contents, build, search>>

Lines == Runs[build.run].lines

Idle == [stage |-> "idle", metadata |-> <<>>, engine |-> <<>>, texts |-> None, length |-> 0,
         offsets |-> None, id |-> 0, first |-> 0, last |-> 0, matched |-> <<>>]

Init ==
  /\ entry = [name \in Names |-> None]
  /\ contents = [file \in Files |-> <<>>]
  /\ build = [run |-> 0, stage |-> "none", texts |-> <<>>, offsets |-> <<>>, count |-> 0,
              previous |-> FALSE]
  /\ search = [s \in Searches |-> Idle]

------------------------------------------------------------------------------
(* What a complete index of run k consists of. *)
EngineOf(k) == [tokenizer |-> Runs[k].tokenizer,
                sequences |-> [i \in DOMAIN Runs[k].lines |->
                                 TokenValues(Runs[k].tokenizer, Runs[k].lines[i])]]
MetadataOf(k) == [tokenizer |-> Runs[k].tokenizer, count |-> Len(Runs[k].lines)]
TextsOf(k) == FlattenSeq([i \in DOMAIN Runs[k].lines |->
                             Encode(Append(Runs[k].lines[i], NewLine))])
OffsetsOf(k) ==
  [n \in 1 .. (Len(Runs[k].lines) + 1) |->
     Len(FlattenSeq([i \in 1 .. (n - 1) |-> Encode(Append(Runs[k].lines[i], NewLine))]))]

Holds(name, content) == entry[name] # None /\ contents[entry[name]] = content

IndexIsOf(k) ==
  /\ Holds("engine", EngineOf(k))
  /\ Holds("texts", TextsOf(k))
  /\ Holds("offsets", OffsetsOf(k))
  /\ Holds("metadata", MetadataOf(k))
IndexIsUsable == \E k \in DOMAIN Runs : IndexIsOf(k)

------------------------------------------------------------------------------
(* File::create: an existing file is truncated, whatever left it there. *)
CreateFile(name, kind) ==
  LET file == IF entry[name] = None THEN <<build'.run, kind>> ELSE entry[name]
  IN  /\ entry' = [entry EXCEPT ![name] = file]
      /\ contents' = [contents EXCEPT ![file] = <<>>]

Rename(from, to) == entry' = [entry EXCEPT ![to] = entry[from], ![from] = None]

(* build_index begins: SourceWriter::create, a file at a time. *)
ReplaceTexts ==                \* with the published file removed first
  /\ build.stage \in {"none", "ok", "failed"}
  /\ build.run + 1 \in DOMAIN Runs
  /\ build' = [run |-> build.run + 1, stage |-> "texts created", texts |-> <<>>,
               offsets |-> <<>>, count |-> 0, previous |-> IndexIsUsable]
  /\ entry' = [entry EXCEPT !["texts.tmp"] = <<build'.run, "texts">>, !["texts"] = None]
  /\ contents' = [contents EXCEPT ![<<build'.run, "texts">>] = <<>>]
  /\ UNCHANGED search

CreateTexts ==
  /\ build.stage \in {"none", "ok", "failed"}
  /\ build.run + 1 \in DOMAIN Runs
  /\ build' = [run |-> build.run + 1, stage |-> "texts created", texts |-> <<>>,
               offsets |-> <<>>, count |-> 0, previous |-> IndexIsUsable]
  /\ CreateFile("texts.tmp", "texts")
  /\ UNCHANGED search

CreateOffsets ==
  /\ build.stage = "texts created"
  /\ build' = [build EXCEPT !.stage = "reading", !.offsets = <<0>>]
  /\ CreateFile("offsets.tmp", "offsets")
  /\ UNCHANGED search

(* SourceWriter::push of the next line. *)
EndWithoutNewLine(line) == Last(build.offsets) + Len(Encode(line))
EndAfter(line)          == Last(build.offsets) + Len(Encode(line)) + 1

PushLine ==
  /\ build.stage = "reading"
  /\ build.count < Len(Lines)
  /\ LET line == Lines[build.count + 1]
     IN  build' = [build EXCEPT !.texts = @ \o Encode(Append(line, NewLine)),
                                !.offsets = Append(@, EndAfter(line)),
                                !.count = @ + 1]
  /\ UNCHANGED <<entry, contents, search>>

(* SourceWriter::finish: both buffers reach their files. *)
Finish ==
  /\ build.stage = "reading"
  /\ build.count = Len(Lines)
  /\ build' = [build EXCEPT !.stage = "finished"]
  /\ contents' = [contents EXCEPT ![entry["texts.tmp"]] = build.texts,
                                  ![entry["offsets.tmp"]] = build.offsets]
  /\ UNCHANGED <<entry, search>>

(* SearchEngine::save_with of the engine built from all lines: a new file  *)
(* in place of the old one; an error may be reported after that.           *)
SaveEngine ==
  /\ build.stage = "finished"
  /\ \E stage \in {"saved", "failed"} : build' = [build EXCEPT !.stage = stage]
  /\ entry' = [entry EXCEPT !["engine"] = <<build.run, "engine">>]
  /\ contents' = [contents EXCEPT ![<<build.run, "engine">>] = EngineOf(build.run)]
  /\ UNCHANGED search

(* SourceWriter::publish. *)
CopyTexts ==                   \* written over the published file
  /\ build.stage = "saved"
  /\ build' = [build EXCEPT !.stage = "texts published"]
  /\ IF entry["texts"] = None
     THEN Rename("texts.tmp", "texts") /\ UNCHANGED contents
     ELSE /\ contents' = [contents EXCEPT ![entry["texts"]] = build.texts]
          /\ UNCHANGED entry
  /\ UNCHANGED search

PublishTexts ==
  /\ build.stage = "saved"
  /\ build' = [build EXCEPT !.stage = "texts published"]
  /\ Rename("texts.tmp", "texts")
  /\ UNCHANGED <<contents, search>>

PublishOffsets ==
  /\ build.stage = "texts published"
  /\ build' = [build EXCEPT !.stage = "offsets published"]
  /\ Rename("offsets.tmp", "offsets")
  /\ UNCHANGED <<contents, search>>

(* write_metadata: fs::write truncates the published file, then fills it. *)
TruncateMetadata ==
  /\ build.stage = "offsets published"
  /\ build' = [build EXCEPT !.stage = "metadata truncated"]
  /\ CreateFile("metadata", "metadata")
  /\ UNCHANGED search

WriteMetadata ==
  /\ build.stage = "metadata truncated"
  /\ build' = [build EXCEPT !.stage = "ok"]
  /\ contents' = [contents EXCEPT ![entry["metadata"]] = MetadataOf(build.run)]
  /\ UNCHANGED <<entry, search>>

Publishing == {"finished", "saved", "texts published", "offsets published",
               "metadata truncated"}

(* A stage fails, or the process dies: nothing is removed. *)
Fail ==
  /\ build.stage \in {"texts created", "reading"} \cup Publishing
  /\ build' = [build EXCEPT !.stage = "failed"]
  /\ UNCHANGED <<entry, contents, search>>

------------------------------------------------------------------------------
Become(s, state) ==
  /\ search' = [search EXCEPT ![s] = state]
  /\ UNCHANGED <<entry, contents, build>>
Reject(s) == Become(s, [search[s] EXCEPT !.stage = "rejected"])

(* read_metadata, and the tokenizer it decides on. *)
ReadMetadata(s) ==
  /\ search[s].stage = "idle"
  /\ IF entry["metadata"] = None \/ Holds("metadata", <<>>)
     THEN Reject(s)
     ELSE Become(s, [search[s] EXCEPT !.stage = "described",
                                      !.metadata = contents[entry["metadata"]]])

(* SearchEngine::open_with, whose codec must be that of the tokenizer. *)
OpenEngine(s) ==
  /\ search[s].stage = "described"
  /\ IF entry["engine"] = None \/ contents[entry["engine"]].tokenizer # search[s].metadata.tokenizer
     THEN Reject(s)
     ELSE Become(s, [search[s] EXCEPT !.stage = "mapped", !.engine = contents[entry["engine"]]])

(* SourceReader::open. *)
OpenTexts(s) ==
  /\ search[s].stage = "mapped"
  /\ IF entry["texts"] = None
     THEN Reject(s)
     ELSE Become(s, [search[s] EXCEPT !.stage = "texts open", !.texts = entry["texts"],
                                      !.length = Len(contents[entry["texts"]])])

OpenOffsets(s) ==
  /\ search[s].stage = "texts open"
  /\ IF entry["offsets"] = None
        \/ Len(contents[entry["offsets"]]) # search[s].metadata.count + 1
     THEN Reject(s)
     ELSE Become(s, [search[s] EXCEPT !.stage = "open", !.offsets = entry["offsets"]])

(* SourceReader::read of sequence id, and whether its checks pass. *)
StrictlyInside(length, start, end) == start < end /\ end < length
Inside(length, start, end)         == start < end /\ end <= length

BytesOf(s, id) ==
  LET table == contents[search[s].offsets]
  IN  SubSeq(contents[search[s].texts], table[id] + 1, table[id + 1] - 1)
CanRead(s, id) ==
  LET table == contents[search[s].offsets]
  IN  /\ id + 1 \in DOMAIN table
      /\ Inside(search[s].length, table[id], table[id + 1])
      /\ IsText(BytesOf(s, id))

(* locate_matches of one match: tokens first .. last of sequence id.       *)
Locate(s) ==
  /\ search[s].stage = "open"
  /\ \E id \in DOMAIN search[s].engine.sequences :
       \E first, last \in DOMAIN search[s].engine.sequences[id] :
          /\ first <= last
          /\ IF ~CanRead(s, id)
             THEN Reject(s)
             ELSE LET bytes  == BytesOf(s, id)
                      tokens == Tokenize(search[s].metadata.tokenizer, Decode(bytes))
                  IN  IF {first, last} \subseteq DOMAIN tokens
                      THEN Become(s, [search[s] EXCEPT
                             !.stage = "located", !.id = id, !.first = first, !.last = last,
                             !.matched = SubSeq(bytes, tokens[first].start + 1, tokens[last].end)])
                      ELSE Reject(s)

------------------------------------------------------------------------------
Next ==
  \/ CreateTexts \/ CreateOffsets \/ PushLine \/ Finish
  \/ SaveEngine \/ PublishTexts \/ PublishOffsets \/ TruncateMetadata \/ WriteMetadata
  \/ Fail
  \/ \E s \in Searches : ReadMetadata(s) \/ OpenEngine(s) \/ OpenTexts(s) \/ OpenOffsets(s)
                           \/ Locate(s)

Spec == Init /\ [][Next]_vars

------------------------------------------------------------------------------
(* A run that ends well leaves an index that is its own in all four files, *)
(* whatever earlier runs left behind under the temporary names.            *)
SuccessIsUsable == build.stage = "ok" => IndexIsOf(build.run)

(* Until a run starts to publish, what it does and how it fails leaves a   *)
(* usable index usable (SourceWriter: "a failed run leaves the previous    *)
(* index intact").                                                         *)
OnlyPublishingReplaces ==
  [][IndexIsUsable => IndexIsUsable' \/ build.stage \in Publishing]_vars

(* What a search has open stays as it was when it was opened, for as long  *)
(* as the search runs and whatever runs do meanwhile: published files are  *)
(* replaced, never rewritten.                                              *)
OpenFilesNeverChange ==
  [][\A s \in Searches : \A file \in {search[s].texts, search[s].offsets} \ {None} :
        contents'[file] = contents[file]]_vars

(* A search whose four files are of one run locates every match, and the   *)
(* text it reports tokenizes to the tokens that matched, although byte     *)
(* ranges are found again by tokenizing the stored text.                   *)
OpensOneRun(s) ==
  \E k \in DOMAIN Runs : /\ search[s].metadata = MetadataOf(k)
                         /\ search[s].engine = EngineOf(k)
                         /\ search[s].texts # None /\ contents[search[s].texts] = TextsOf(k)
                         /\ search[s].offsets # None /\ contents[search[s].offsets] = OffsetsOf(k)
LocatesWhatMatched ==
  \A s \in Searches :
     OpensOneRun(s) =>
        /\ search[s].stage # "rejected"
        /\ search[s].stage = "located" =>
              /\ IsText(search[s].matched)
              /\ TokenValues(search[s].metadata.tokenizer, Decode(search[s].matched))
                   = SubSeq(search[s].engine.sequences[search[s].id],
                            search[s].first, search[s].last)

(* cli/README.md:120 and cli/src/main.rs:237: a failed run leaves the      *)
(* index of the previous one usable.                                       *)
FailedRunLeavesIndexUsable ==
  build.stage = "failed" /\ build.previous => IndexIsUsable
==============================================================================
