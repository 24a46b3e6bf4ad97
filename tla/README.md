# Verification of yurine

yurine finds every segment of a corpus of token sequences whose weighted edit
distance to a query is within a threshold.  It builds an inverted index, saves
it as a memory-mapped snapshot, and answers a search by filtering (choose query
positions whose neighborhoods every match must touch) followed by verification
(extend the candidate occurrences with cached edit-distance columns).

The TLA+ modules in this directory model the search, the index, the snapshot
files, the cost policies and their files, the stored embeddings and the
directories of the command line.  TLC checks them on small instances.  TLAPS
proves for every instance that a search keeps its promise (every segment within
the threshold, each with its distance, and nothing else) wherever sums of costs
are exact, and that filtering loses no match under any rounding; the invariants
of built and opened engines, of the snapshot files and their format, of stored
embeddings, of cost policies and of both directories; and that saving a snapshot
is atomic.
`PROJECT.json` maps each definition to the lines it models and lists runs,
theorems and the hazards the properties are for.

Paths below are relative to `src/`; `search/…` stands for `src/search/…`.

## 1. Inventory

Component | State | Operations | Interacts with | What makes it correct
---|---|---|---|---
Range search (`search/range_search.rs`) | the phase of one call, binary search over radii | `search_with_metrics` | calls all of filtering and verification in turn | answers exactly the segments within the threshold, or declines for a documented reason
Distance bound (`search/bound.rs`), costs (`costs.rs`) | none | `from_inclusive`, `admits`, `residual`, `next_up` | every float comparison of a search | no match at the threshold is lost to rounding, none above `f32::MAX` admitted
Filtering (`search/filtering.rs`, `filtering/*`) | payments, picked positions, running total | `select`, `wider_radii`, `count_candidates`, `generate_candidates` | reads the postings index and the policy | every match touches a selected neighborhood; at most twice the least number of candidates; exact count against the limit
Verification (`search/verification.rs`, `verification/*`) | tries of cached columns, best distance per segment | `verify` | corpus store, policy | caches and pruning never show in the results
Postings, corpus store, vocabulary, builder (`postings.rs`, `store.rs`, `vocabulary.rs`, `search/builder.rs`, `search/encoding.rs`, `types.rs`) | flat arrays cut by offsets; which strings were checked | `add_sequence`, `build`, `EncodedQuery::new`, `verify` | searches read them, snapshots hold them | the index is the inverse of the corpus; identifiers are stable; unchecked payload is never trusted
Snapshot files (`persistence/*`) | files, names, what is on disk | `write_file`, `PersistedFile::open` | several processes over one path | atomic durable replacement; an accepted file is memory-safe to read
Embedding costs (`costs/embedding.rs`, `costs/embedding/*`) | rows, token-to-row map, one verdict cell per row | `insert`, `save`, `open`, `get`, `verify` | threads share the cells | a token keeps its embedding; answers do not depend on the interleaving
Cost policies (`costs/custom.rs`, `costs/levenshtein.rs`, the cosine costs of `costs/embedding.rs`, their files) | rules and defaults | `set_*`, lookup, `save`, `open`, `verify` | any search | a policy charges what was configured, before and after its files; a damaged file is read whole or refused
Cost configuration (`cli/src/cost_config.rs`) | the policy read so far, rules seen | `load` | tokenizer of the run, policies | a rule is given once and names whole tokens
CLI (`cli/src/*.rs`) | the files of an index and of a cost snapshot directory | `yurine index`, `yurine costs`, searches | one process after the other, searches meanwhile | a directory is never used as something it is not
Benchmarks (`benchmarks/`), corpus tools (`tools/`) | none of the program's | measurement, data preparation | outside | –

What is hard here, and where (the full list, by line, is `hazards` in
`PROJECT.json`): sums of floats that round and overflow at the threshold; a
binary search whose predicate is a rounded sum; columns cached for one
candidate and read for another; unvalidated mapped payload; offsets and lengths
of a damaged file that overflow when added; power failures between write, sync
and rename; a path replaced between a reader's check and its mapping; several
files published one after the other by a command that may fail in between;
concurrent validation of the same mapped row, where one thread waits for
another; two ways, by configuration and by compiled files, to the same policy;
codecs that do not give every token back.

## 2. Modules

The search, bottom up:

Module | Models
---|---
`F32`, `F32Tables` | non-negative IEEE floats with a few bits: rounding to even, overflow, `next_up`, `add_distance` with its error-free transformation; tables of them for TLC
`DistanceBound` | a distance accumulated by `add_distance` against the strict bound of an inclusive threshold, and the budget `residual` leaves
`Arithmetic` | what selection and verification rely on of floats, as parameters with assumptions: monotone addition, neutral zero, gradual underflow, `next_up` as the successor
`SearchInputs` | one search's corpus, query, policy, threshold and limit; the index as a function of the corpus
`Selection` | `any_radius_can_select`, one step per round of `MinCandidateSelector::select`, `wider_radii`, one step per round of the binary search
`DistanceColumns` | `root_column`, `step_dp`, and the exhaustive verifier's distance
`Filtering` | counting with saturation, the limit, candidate generation
`Verification` | validation of candidates; one step per candidate of the bidirectional-trie verifier
`RangeSearch` | the composition of filtering and verification: a whole call
`EditDistance` | reference definition of the weighted edit distance: the least cost of an alignment, no dynamic program
`SegmentSearch` | abstract specification: a call that is pending and then answers exactly, or declines
`RangeSearchProofs` | lemmas and theorems about `Selection`, `Filtering`, `Verification` and `RangeSearch`: fourteen sections, from the operators of selection to the refinement of `SegmentSearch` and the factor of selection

Data at rest, and the command line:

Module | Models
---|---
`InvertedIndex` | vocabulary, corpus store, postings index as flat arrays with offsets; `verify` of each
`IndexBuilder` | `add_sequence`, `build`, query encoding, refusals at the u32 limits
`Engine` | the composition: an engine built by `IndexBuilder` or opened from a file of unchecked payload, its `verify`, and searches that use its posting lists, verified or not
`SnapshotFormat` | the layout `write_file` gives a file of each of the five kinds, damage to its fields, the structural validation of `open` as any kind
`SnapshotFile` | `write_file` and `PersistedFile::open`, a step per system call, with failing calls, killed processes and power failures
`SnapshotRegister` | abstract specification of a snapshot path: an atomic durable register
`EmbeddingStore` | insertion, saving, damage, opening, concurrent reading and verifying of embeddings
`EditCosts` | the policies: what they charge, what they accept, their `verify`; costs as words of 32 bits made small
`CostConfig` | `load`: the configuration and the lines of its data file, a step per line, with every refusal
`CostFiles` | token codecs; policies as words, and the words read back with every check of `open_with`
`CostPolicies` | the composition: a policy loaded, used, compiled into files, damaged, opened, verified
`Tokenization` | both tokenizers and the byte ranges of tokens
`IndexDirectory` | runs of `yurine index` that replace four files, searches that open them
`CostSnapshot` | runs of `yurine costs` that replace up to three files, searches that open them
`EngineProofs`, `SnapshotFormatProofs`, `SnapshotFileProofs`, `EmbeddingStoreProofs`, `IndexDirectoryProofs` | theorems about the module each is named for; `EngineProofs` also about `IndexBuilder` and `InvertedIndex`, `IndexDirectoryProofs` about `Tokenization`
`CostProofs` | theorems about `CostSnapshot`, and about `CostPolicies` with `CostConfig` and `CostFiles`
`Ordering` | sets in the order of a relation, as sequences
`CommonLemmas` | facts about numbers, sorting, recursion, sequences, finite sums and ordered pairings the proofs share

`MC_*` modules give the small instances; `Instances` holds the corpora, queries
and policies the search runs share.  `RangeSearch` composes `Filtering` (which
extends `Selection`) with `Verification` over shared `stage` and `candidates`;
`RangeSearch!SearchIsExact` refines `SegmentSearch`, and
`SnapshotFile!SavesAreAtomic` refines `SnapshotRegister`.  `Engine` composes
`IndexBuilder` and `InvertedIndex`; `CostPolicies` composes `CostConfig` (which
extends `EditCosts` and `Tokenization`) with `CostFiles`.

### How state and actions correspond to the code

* **Selection.** `stage` is the point the call has reached.  `paid`, `picked`
  and `total` are `paid`, `selected` and `selected_contribution` of `select`;
  `radii`, `low`, `high` and `chosen` are `radii`, `low`, `high` and
  `narrowest` of `select_positions`.  A `Pick` is one whole round of the loop: choice of the
  position of least value, the payments of all useful positions, and the total
  summed anew in position order.  `SelectionSucceeds` and `SelectionFails` are
  what `select_positions` does with `Some` and `None`.
* **Verification.** `forest` holds the cached columns of all tries under the
  key direction, query position, path from the anchor; a candidate's step adds
  the nodes both walks visit and merges its segments into `substrings` with the
  least distance.  Candidates are all validated first (`RejectCandidates`,
  `AcceptCandidates`), as in `verify`.
* **SnapshotFile.** A file is an inode named by the call that writes it.
  `renames` is what the path has named, `settled` how much of that is on disk,
  `written` and `synced` chunks of each file.  A power failure loses any
  unsynced suffix of files and any unsettled suffix of renames, and ends every
  process.
* **IndexDirectory, CostSnapshot.** A directory maps names to files; each
  rename, creation and in-place write is a step, and `Fail` may replace any of
  them.
* **EmbeddingStore.** `cells` are the `OnceLock`s: a validation reads the row
  in one step and publishes its verdict in another, and a thread that comes
  second waits for the first and reads what it published.
* **Engine.** `engine` is a `SearchEngine` of either origin.  `Open` gives it
  any payload with valid offsets; `Generate` takes a symbol's posting list as
  candidates, and `UseCandidate` is `validated_candidate_string` of one of them.
  `AcceptSequence`, `RejectSequence` and `Build` are the builder's calls,
  `EncodeQuery` is `EncodedQuery::new`.
* **CostPolicies.** `stage` is how far a policy has got, from `configured` to
  `verified`, or how it was refused.  `lines` is the data file as far as it has
  been read; `words` is the metadata section of the compiled policy, `rows` the
  store next to it.  `RuleEnds` is the `MetadataReader`'s position after each
  rule, so that a damaged length moves everything after it, as in the code.
* **SnapshotFormat.** A file is the fields of its header and table.  `Open` is
  `PersistedFile::open` with the kind expected, and then the shape checks of the
  store and of the metadata that `open_with` of each kind makes.

### Abstractions

* Symbols, tokens, vectors and texts are small values; positions count from 1
  inside a search and from 0 in `InvertedIndex`.
* Payments and values of MinCand, floats in the code, are naturals in units of
  1/`PaymentScale` candidate.  In the exact runs the scale makes each quotient
  exact; with scale 1 the choice among positions rounds arbitrarily, and no
  property but the approximation factor depends on that choice.
* Error values are outcomes (`invalid`, `unavailable`, `expensive`, `failed`);
  messages and metrics are left out.
* Overflow of `usize` inside selection cannot be reached (a radius list is no
  longer than an allocation); that of the candidate count can and is modelled.
* The buffered writer's bytes count as written at the latest when the file is
  synchronized, which is after the flush.
* Bytes found at a place a damaged field points to are taken to be the expected
  ones, the worst case for validation.  `SnapshotFormat` covers the counts and
  ends of offset arrays, and `Engine!Open` starts from offsets already
  validated.
* A number of a policy is a word: itself up to the largest cost, one word for
  -0.0, every other word negative or not finite.  Rows are whole vectors of
  length 5, which stands for 1.0, so that normalization and cosine are exact;
  the rounding of `f32` products is out.
* A codec gives every character one word.  One of the two codecs takes two
  characters for one; it decodes, as a real one may, to one of them.
* A failing sync of the parent directory makes a save report an error although
  the new snapshot is in place (`unsettled`); the register allows a failed
  save to have been published.
* A store of embeddings is opened once; no save happens while threads read it,
  as the code's borrow rules require.

## 3. Runs

Run | Question | Bounds
---|---|---
`distance_bound` | overflow test of `add_distance`, no match within the threshold pruned by the budget | 3-bit floats, 4 binades; every threshold, every pair of operands that an accumulation reaches
`selection_rounding` | types, availability, narrowest radius, premise of generation, completeness against the exhaustive verifier's own sums, termination | 2-bit floats, 3 binades (0 to 12): sums round and overflow; 32 policies, 10 queries up to length 4, 4 corpora, every threshold
`range_search` | completeness of filtering, two-approximation, the limit, and refinement of `SegmentSearch` | integers of 5 bits, sums exact; 18 policies (asymmetric, free, and dearer-than-deletion-and-insertion ones), 10 queries, 4 corpora, 5 thresholds, limits 2, 5, none; a `usize` of at most 8
`verification` | caches and pruning never show | every list of at most 2 anchors, repeated, in any order, near or not, and an invalid one
`snapshot_file` | whole, durable, consistently mapped; refinement of `SnapshotRegister` | 2 saves of 1 and 3 chunks over a snapshot of 2 or none, 2 readers; any calls fail, are killed, lose power
`snapshot_format` | what is written is accepted; what is accepted has disjoint regions and safe views; no single damaged field changes what is read, or as what kind | `u64` of 5 bits, `usize` one less; 3 engines, 2 stores, costs of each kind; any two fields damaged to any value
`engine` | stable identifiers, exact index, query symbols; what `verify` accepts and refuses, and what a search makes of it | `u32` up to 2; built: 3 tokens in corpora of at most 4 in at most 4 sequences, queries of at most 3; opened: every payload of 3 symbols in 2 strings, at most 3 postings, vocabularies of 1 and 2
`embedding_store` | rows keep their tokens; answers are stable; verification is whole; every lookup returns | 3 tokens sorted differently from their insertion, 2 row numbers, any insertions, saves and openings, 2 threads
`index_directory` | a good run's index is usable, a failing one disturbs nothing before publishing, open files never change, matches are located | 3 runs with 2 tokenizers, each file operation may fail; 1 search
`index_failed_run` | the documented claim that a failed run leaves the previous index usable: **violated** | as above without searches
`cost_snapshot` | a good run's snapshot is usable; a search never uses a policy of another kind or tokenizer than announced | 3 runs of kind embedding or custom and any tokenizer, each file operation may fail; 1 search
`cost_policies` | a search charges what was configured, by configuration or by compiled files; no rule of a damaged file is lost | 3 characters, 4 texts of one or two, 7 embeddings (empty, zero, not finite, of another length among them), 9 configurations, 2 lines, 2 codecs; words up to 31, any two words damaged to one of 4 values, any rows

Why the bounds suffice.  The float runs cover every representable value, and
all effects of rounding (ties, sums below half a unit above the largest value,
sums that depend on their order) appear with two bits.  Query length 4 gives
selections of several rounds, and radius lists long enough for the binary
search to move both ends.  Corpora repeat symbols within and across strings, so
that tries share columns, segments are found from several candidates, and an
empty string and an empty corpus occur.  Two writers are enough for one rename
to overtake another between check and mapping; two threads for both to find a
cell empty.  A third run of a command finds leftovers of a failed one that
itself followed a good one.  Two damaged fields are enough to make a count and
a length agree on a wrong value, or two regions move onto each other.

In `cost_policies` two lines are a rule and its repetition, or two tokens with
an embedding each; texts cover a token of each tokenizer and one that only one
of them takes whole; the damaged values are zero, small counts and lengths, and
-0.0, which is too large as a count: so `LeastWords` overflows, lengths reach beyond
the end, and a rule comes to repeat another.  Opening an engine and building
one are two ways to the same state in `engine`, and both reach posting lists of
every length up to the bound.

No symmetry is used.  `CHECK_DEADLOCK FALSE` is set where the system ends: a search
returns, a builder is used up, a bounded number of runs is over.
`snapshot_file` checks deadlock.

### Fairness

Two specifications state fairness.

`SelectionSpec`: weak fairness of `SelectionNext`.  It is
sequential code inside one call, so while a next statement exists it is
executed; nothing about the environment is assumed.  `SelectionReturns` then
says that neither the selection loop nor the binary search runs for ever.
Verification is a loop over a finite list and gets no liveness property of its
own.

`EmbeddingStore!Spec`: weak fairness of each thread's own steps.  A thread that
has begun a lookup or a verification is scheduled by the operating system, the
initializer it may run is a loop over one row, and a thread that waits for a
`OnceLock` is woken when the cell is set, so that a step that stays enabled is
taken.  `LookupsReturn` then says that no thread waits for ever for another's
verdict.  Beginning a lookup is up to the caller and not fair.

### What the violated run shows

`index_failed_run`: `cli/README.md:118` says that all new files are put in
place "only once every stage has succeeded, so a failed run leaves the previous
index usable".  The engine, the source texts, their offsets and the metadata
are put in place one after the other, and the metadata is truncated and written
in place (`cli/src/index.rs`).  A run that fails in between leaves files of two
runs or an empty description; `SuccessIsUsable` and `OnlyPublishingReplaces`
show the promise does hold for every failure up to the first replacement.

## 4. Proofs

Seven modules hold theorems about the specifications, each next to the module it
is about; `CommonLemmas` holds what they share: least elements, induction over
sets of naturals, sorting, recursive functions, joined sequences, sums over
finite sets, ordered pairings of two sets and the least of their costs.  A theorem
quantifies over all values of the constants its module's assumptions allow.
`PROJECT.json` lists every theorem with the property it states.

Module | Theorem | Says
---|---|---
`RangeSearchProofs` | `SelectionIsInvariant` | `SelectionInv` is an invariant
 | `SelectionIsTyped` | `SelectionTypeOK`
 | `SelectionIsAvailable` | a search is declined for want of a radius only if deleting the whole query is admitted
 | `SelectionIsNarrowest` | an adjusted radius is the narrowest of all costs that select, not only of those tried
 | `SelectionLeavesBound` | the chosen positions are distinct and their contributions leave the bound
 | `SelectionNarrows` | a success of the binary search is only replaced by a narrower one
 | `NoMatchIsLost` | no segment the exhaustive verifier admits avoids the selected neighborhoods, under any rounding
 | `SearchIsInvariant` | `SearchInv` is an invariant: verification is handed candidates it accepts, whatever is searched
 | `SearchLimitIsExact` | the saturating count decides the limit on the candidates generation then yields
 | `SearchFilterIsComplete` | every alignment within the threshold passes through a candidate (exact sums)
 | `SearchCachesAreExact` | every cached column holds weighted edit distances, whatever was verified before (exact sums, distances in range)
 | `SearchResultsAreAnchored` | neither pruning nor caches show in the results, after each candidate (exact sums)
 | `SearchKeepsItsPromise` | `SearchIsExact`: the specification refines `SegmentSearch` (exact sums)
 | `SearchSelectsWithinFactor` | no positions that leave the bound yield fewer than half the candidates of those selected (exact sums, fine payments)
`SnapshotFileProofs` | `SnapshotIsInvariant` | `SnapshotInv` is an invariant
 | `SnapshotsArePublishedWhole` | what the path names is completely written and on disk
 | `SavesAreDurable` | a save that returned success survives every later power failure
 | `MappingsAreChecked` | a reader maps the file whose length it validated, whatever is renamed meanwhile
 | `SavingIsAtomic` | `SavesAreAtomic`: the specification refines `SnapshotRegister`
`SnapshotFormatProofs` | `FormatIsInvariant` | `FormatInv` is an invariant
 | `WrittenOpens` | what `write_file` writes, `open` accepts
 | `AcceptedRegionsAreApart` | regions of an accepted file are pairwise apart and inside it
 | `ViewsSucceed` | every typed view of an accepted file can be made
 | `LengthsAreSafe` | one damaged field never changes, unnoticed, the kind of a file or how much of a section is read
`EmbeddingStoreProofs` | `StoreIsInvariant` | `StoreInv` is an invariant
 | `RowsFollowTheirTokens` | a token keeps the embedding it was given, through saves and reopening
 | `GetsAreStable` | a lookup answers by its token alone, whichever thread validates the row
 | `VerifyingIsExact` | `verify` accepts whole stores only and refuses damaged ones only
`CostProofs` | `CostIsInvariant` | `CostInv` is an invariant
 | `SuccessLeavesTheSnapshot` | after any history of failed runs, one that succeeds leaves exactly its own files
 | `SearchesOpenTheKind` | a search uses a policy of the kind and tokenizer its metadata announced
 | `PolicyIsInvariant` | `PolicyInv` is an invariant
 | `NoRuleOfAFileIsLost` | custom costs opened from a file, damaged or not, have as many rules as it says and charge what each says
`IndexDirectoryProofs` | `DirectoryIsInvariant` | `DirectoryInv` is an invariant
 | `SuccessfulRunsAreComplete` | a run that succeeds leaves an index all of whose files are its own
 | `SearchesLocateTheirMatches` | the byte range reported for a match holds a text that tokenizes to the tokens matched
 | `OpenFilesAreStable` | no step changes a file a search has open
 | `RunsKeepTheIndexUntilTheyPublish` | a usable index stays usable until the first replacement
`EngineProofs` | `EngineIsInvariant` | `EngineInv` is an invariant
 | `SequencesKeepTheirIds` | identifiers count from 0 in the order of acceptance, and the strings decode to the sequences
 | `BuildIsExact` | posting lists are the occurrences of their symbols, each once, in order
 | `QueriesKeepTheirTokens` | a query's symbols stand for its tokens one for one, unknown ones included
 | `VerifyIsSoundAndComplete` | `verify` accepts the inverted indexes of valid stores and nothing else, and no search on an accepted engine fails

### Assumptions

Named assumptions in the modules that declare the constants; TLC evaluates each
on every run of a module that extends them.

* Searches: `CostAssumption` (costs are naturals below infinity, with a largest
  one), `AddAssumption` (addition is closed, monotone, 0 neutral),
  `AddDistanceAssumption` (the same, and `add_distance` is never below plain
  addition: it differs from it only where it overflows to infinity),
  `SubAssumption` (the difference of distinct values is positive: gradual
  underflow), `NextUpAssumption` (the successor), `InputsAssumption` (the
  `EditCosts` contract: finite costs, identical tokens cost nothing; finite
  symbols), `ScaleAssumption`, `MaxUsizeAssumption`, `BudgetAssumption` (what
  the strict bound leaves above a cost covers what the inclusive threshold
  leaves exactly; `distance_bound` checks the same of `add_distance` as
  `BudgetKeepsExactMatches`).  They hold of IEEE addition; TLC evaluates them
  on the toy floats.  Associativity is not assumed: floats do not have it.
* Exact sums.  Three hypotheses of theorems, not of the modules:
  `SumsAreExact(V, M)` says that the costs of all policies lie in a set `V`
  closed under addition, in which sums are exact below `M`, never fall below `M`
  once they reach it, and that thresholds are below `M`.  In `f32` this is so of
  integers, and of multiples of any other power of two, with `M` 2^24 of them:
  unit costs, and every configuration whose costs are such.  Other costs are
  added in one order by filtering, in another by the two walks from an anchor and
  in a third by the exhaustive verifier; the three need not agree in the last
  digit, so that no exact promise could hold of them, and for these
  `NoMatchIsLost` says what does.  `DistancesAreBelow(M)`, which only
  `SearchCachesAreExact` needs, says that the distances in the cached columns
  stay below `M`; the other theorems say only that a column holds either the
  distance or, like it, something from `M` on, which no threshold admits.  TLC
  evaluates both as `ExactnessAssumption` on the instances of `range_search` and
  `verification`, with all values for `V` and infinity for `M`.
  `PaymentsAreFine(V, M)`, which only `SearchSelectsWithinFactor` needs, says
  that thresholds have their successor below `M` too and that what is left of
  it is exact; and that a candidate is at least as many payment units as the
  query's length times that successor, so that all that the divisions of one
  selection round away is less than a candidate.  The unit is the model's: the
  code's payments are `f32`, and how these round is outside the theorem.  TLC
  evaluates it on the instance of `range_search`.
* Engines: `MaxU32` is positive (`MaxU32Assumption`); the bounds on what is
  offered or opened are naturals (`BuilderAssumption`, `SnapshotAssumption`).
* Files: a snapshot has a size and `Previous` is no writer (`FilesAssumption`);
  a host's `usize` is at most `u64`, header and table entries are not empty, a
  word has at least two bytes (`SizesAssumption`); numbers of things are naturals
  (`ContentsAssumption`), and a file fits the host that wrote it (`FilesFit`:
  `write_file` refuses one whose offsets do not fit its integers).
* Directories: runs index texts over `Chars` and a line terminator is not a
  character of two bytes (`RunsAssumption`), `None` is no file
  (`NoneAssumption`); the number of runs of `yurine costs` is a natural
  (`RunsAssumption` of `CostSnapshot`).
* Policies: -0.0 is a word of its own and 1.0 a cost (`NumbersAssumption`), costs
  are words (`WordsAssumption`), codecs give words and texts are characters
  (`CodecsAssumption`, `TextsAssumption`), damage leaves words
  (`DamageAssumption`); a configuration other than none is of one of the two
  kinds and says three numbers, each possibly absent (`ConfigsAssumption`).
* Embeddings: tokens differ in the code they are sorted by, and no vector is the
  invalid row (`VectorsAssumption`).

### Arguments

What the runs check is seldom inductive; each invariant adds what the code
relies on between its steps.

**Selection.**  `SelectionInv` adds that the total is the sum of the selected
contributions *in position order* (`TotalIsOrdered`), that a bound exists and
leaves the deletions of the query outside (`Admissible`), that selection at a
wider radius runs at the middle of the range (`SelectsAtMiddle`), and that the
range is settled outside: selection fails at the radius below `low` and the
last success is the radius at `high` (`RangeIsSettledOutside`).  The two key
lemmas are that a selection with nothing left to gain has contributions, all
together, inside the bound (`residual` is positive while the total is admitted,
so an open position without a gain contributes nothing), and that
contributions, and so the sum of them in a fixed order, are monotone in the
radius, so that a failure at one radius is a failure at every narrower one.  At
the widest radius all contributions are deletions, which
`any_radius_can_select` has found outside the bound in the same order of
summation: hence the search over radii cannot end without a success.

`NoMatchIsLost` compares two sums of floats.  Filtering adds contributions in
query order; the exhaustive verifier takes least values of sums in the order of
its dynamic program, one column per symbol of the segment.  The set of columns
whose entry *k* is at least the sum of what is selected among the first *k*
positions contains the root column and is closed under `step_dp` for a symbol
outside all selected neighborhoods: an entry is a substitution, a deletion (both
at least the way out of the neighborhood) or an insertion (never less than the
entry before it).  Induction over the word then bounds the last entry, by
monotone addition alone.

**Limit.**  Adding with saturation is adding and then capping at `usize::MAX`, so
the count is the capped sum of the lengths of the posting lists of the selected
neighborhoods.  These lists partition the places whose symbol is in a
neighborhood, and generation yields each of them once for each selected position.
A limit below `usize::MAX` tells the capped number from no other.

**Distances.**  `EditDistance` defines the distance without a program: an alignment
is a set of pairs that cross nowhere, its cost is that of its substitutions and of
what it leaves out on either side, and the distance is the least such cost.
`CommonLemmas` shows that the least cost over the pairings of two words satisfies
the recurrence of the program: take away the last pair, or the last symbol of one
word.  By induction over both words each entry of a column agrees (`Agree`: the
same number, or both at least `M`) with the distance of its prefixes.

**Filtering is complete.**  An alignment that touches no selected neighborhood
pays at least its contribution at each selected position (`ChainPaysFor`), and
the contributions together leave the bound (`SelectionLeavesBound`).  So an
alignment within the threshold has a pair at a selected position whose symbol is
in the neighborhood, and that is a candidate.

**Verification.**  `CachingInv` adds `Cached`: the key of a column is a path, and the
column is the program's along it, whoever put it there.  At an anchor an
alignment through it splits into the reversed part before, the substitution, and
the part after, and joins again at the sum of their costs.  A column whose
entries are all outside the budget stays so, whatever follows; and by
`BudgetAssumption` the budget, rounded though it is, leaves out nothing the
threshold admits.  `ResultsInv` adds `Reporting`: after each candidate
a segment is reported exactly when an alignment anchored at a candidate
verified so far is within the threshold, with the least distance of these.

**Factor.**  The loop of `MinCand` is a primal-dual approximation, of which
`SharesOut` is the invariant: with `y` for the sum over all rounds of the least
value times what was still missing, (1) any positions that leave the bound have paid
at least `y` together, because their gains cover what is missing (`GainsReach`);
(2) positions that keep the selection below the bound, the selected ones among
them, have paid at most `y` (`GainsStayBelow`); (3) so the selected ones have paid
at most `2 * y`, the last one `y` at most; (4) nobody pays more than the price, the
candidates, and a selected position has paid it up to less than its gain, the
remainder of the division.  Hence the price of what is selected is less than
twice that of any alternative, plus the remainders; as these are less than a
candidate and both sides are whole candidates, they vanish (`SharesAreHalf`).
`FactorInv` carries this through selection (`Sharing`) and keeps the selection at
the radius finally chosen.

**Promise.**  Under the mapping to `SegmentSearch` a call is pending until it
answers or declines.  When it answers, every segment within the threshold has an
alignment of least cost with a candidate among its pairs (`WithinIsExact`), so
that the least anchored distance is the distance.  An answer of `failed` is
impossible, since `Generate` yields anchors inside strings; one of `unavailable`
is given only where deleting the whole query is within the threshold, and one of
`expensive` only over the limit.

**Saving.**  `SnapshotInv` ties each writer's stage to the disk: a file is
synchronized before its call goes on (`CompleteIsSynced`), is named from its
rename on and not before (`RenamedIsNamed`), and is past recall once saved
(`SavedIsSettled`); readers hold whole files only, which nobody writes to
(`ReadersHoldWhole`).  For the refinement, no published content and no reader's
view is ever torn (`NothingIsTorn`), so that the mapping to the register is
`renames` and the held files themselves; each action is then one of the
register's, or a stutter.

**Format.**  `FormatInv` says that the file is a layout of `write_file` except in
its damaged fields, and that an outcome is what the validation says of the file.
*Acceptance*: the cursor of `write_file` is a recursive function shown to exist,
to be typed and never to go back; each section starts at a multiple of its
alignment, ends where the next may start and inside the file, so every
condition of the validation holds.  *Regions*: `validate_non_overlapping` compares
neighbors of the sorted regions that hold bytes; that this suffices for all pairs
needs that each of them is at least as long as one byte, and that the sort is a
permutation of them.  *Damage*: a damaged number of elements contradicts the
bytes, a damaged number of bytes contradicts the elements, or, for the blobs,
where neither check exists, the end and the number of the offsets next to them;
a damaged kind, in the header or in an entry, contradicts the set of sections
the kind needs or the codec.

**Embeddings.**  `StoreInv` adds that tokens have distinct rows
(`RowsAreDistinct`), that a snapshot holds the latest embedding of each token
once (`SnapshotIsLatest`), that a verdict is the row's (`VerdictsAreTrue`), and
what each thread has seen (`ThreadsKnow`: the rows a running `verify` has passed
are valid).

**Directories.**  `CostInv` and `DirectoryInv` say which files a run has in place
at each of its stages (`InPlace`, `Progress`), under which names, and what a
search has opened and checked at each of its own (`OpenedAgrees`, `OpenOK`,
`Opened`).  A failure drops the premises of its stage only, which is why a later
run succeeds over any leftovers.  `DirectoryInv` moreover keeps temporary files
apart from published and open ones (`NamesOK`), from which
`OpenFilesAreStable` follows.  `SearchesLocateTheirMatches` rests on lemmas
about the tokenizers: tokens are disjoint, their byte ranges in a line are where
their bytes are in the joined texts, and the text between a first and a last
token tokenizes to the tokens from first to last.

**Policies.**  `PolicyInv` says what a policy is at each stage: custom costs are
three finite maps from tokens (`CustomOK`), a saved policy is a sequence of words
long enough for its counts (`WordsOK`), and one opened is what its words decode to
(`OpenedOK`).  `RuleEnds`, a recursive function, is shown to exist and to be
typed; that it ends exactly behind the last word puts every rule inside the file
(`RulesFit`), by induction from the last rule to the first, since a reader that
has run out of words never comes back.  No two rules have the same operation and
encoded tokens, and tokens that decode alike are encoded alike because each of
their words is a character's (`DecodeIsInjective`); so the rules of an operation
name distinct keys of its map, which has as many as the file counts.

**Engine.**  `EngineInv` describes an engine by what it was made from: built from
the accepted sequences (`BuiltFrom`), or opened with valid offsets (`Shaped`);
a verdict is `EngineVerifies`, and a search has stopped at the end of its list or
at a candidate it cannot use.  That `verify` is complete is a counting argument: it checks the
number of postings, that neighbors within a list ascend, and each posting by
itself.  Ascending lists hold no posting twice, and postings of different lists
differ in their symbol, so postings inject into places of the store; as many
postings as places make it a bijection, hence no place is missing.
`BuildIsExact` shows that the occurrences of all symbols, sorted and cut by the
number of each symbol's, are each symbol's own, in order.

Proofs have one step per action and under it one per conjunct the action can
disturb.  Action properties and the steps of the refinement come from the same
invariants.

### Only model-checked

* Liveness (`SelectionReturns`, `LookupsReturn`), which needs fairness.
* `OverflowIsExact` and `BudgetKeepsExactMatches`: rounding of binary floats,
  powers of two.
* `ChargesAsConfigured`: that encoding and decoding a policy undo each other,
  and the exactness of cosine distances.

## 5. Not modelled

* Rounding in the cosine of embeddings: `cost_policies` uses vectors whose
  distances are exact, and a search is checked for policies as arbitrary
  functions within the `EditCosts` contract.
* Setters that change a default of custom costs after rules were set; no code
  of the repository calls them.
* The memory a file makes `CustomCosts::open_with` reserve: only that it is opened
  or refused, and with which rules.  Counts are validated as in the code, before
  the rules; counts that are too large are refused either way.
* A cost snapshot of the Levenshtein policy: no configuration of `yurine costs`
  gives one, so `CostSnapshot` has the other two kinds.  Its file is in
  `CostPolicies` and `SnapshotFormat`.
* The syntax of JSON lines (an unusable line), formatting, timings, metrics,
  benchmarks, the corpus tools.
* Offset arrays that decrease in the middle, and the bytes of vocabulary tokens:
  `validate_offsets` compares every pair, and `Engine` starts behind it.
* Overlapping runs of `yurine index` or `yurine costs`.  They share temporary
  names that both truncate and write, nothing prevents it, and no document says
  anything of it, so there is no claim to check.
* Distances of the two verifiers in rounding arithmetic: they add in different
  orders, and no property claims they agree there.

## 6. Plan

The order of the work, most important behaviour first.  All of it is done.

1. The search: `Selection`, `Filtering`, `Verification`, `RangeSearch`, with the
   abstract `SegmentSearch`; float arithmetic below it.
2. Proofs about selection, and that filtering loses no match to rounding.
3. Snapshots: `SnapshotFile` with `SnapshotRegister`, `SnapshotFormat` for all
   kinds, `IndexBuilder` and `Engine`.
4. The rest of what is persisted: `EmbeddingStore`, `IndexDirectory`,
   `CostSnapshot`.
5. Policies: `EditCosts`, `CostConfig`, `CostFiles`, `CostPolicies`.
6. Proofs about `SnapshotFile` with the refinement of `SnapshotRegister`,
   `SnapshotFormat`, `EmbeddingStore`, `CostSnapshot` and `IndexDirectory`.
7. Proofs about `Engine`, with the indexes it is built from.
8. Proofs about `Verification` and the limit: `LimitIsExact`, `CacheIsExact`,
   `ResultsAreAnchored`.
9. Completeness of filtering, and the refinement of `SegmentSearch`.
10. The approximation factor of selection, from the payments as a lower bound.
11. Proofs about policies: what a damaged file says is read whole or refused.
