# Verification of hips, a search engine for code

This directory is a TLA+ development of the search engine under `src/` (binary `hips`): models of its
stateful parts and of the algorithms they rest on, model-checked with TLC, and proofs checked with TLAPS:
of the segment store and its readers, the incremental build and the watch daemon, the layouts of an index
and its vectors, the MCP server and the command line, scopes, merging and fusion over segments, the
query cache and downloads, and the two exact search algorithms. `PROJECT.json` lists components, runs, mutants (a plausible bug per
property, which the run must catch), the source lines each definition stands for, findings, hazards
and theorems.

## 1. The system

`hips` indexes a source tree into a directory of immutable segments, keeps it up to date with a
background watcher per repository, and answers lexical, semantic and hybrid queries from the command
line or as an MCP server. The Rust sources are in `src/src`.

| Component | State | Operations | Hard because | Correct when |
|---|---|---|---|---|
| Segment writer (`segments.rs`) | `manifest.bin`, segment directories, `.del` bitmaps, `writer.lock`, the writer's manifest in memory | open and recover, add, delete, upsert, merge, commit, retire | a failure or crash between any two file operations; numbers of failed attempts are reused; cached counts | the published manifest names only finished segments; each batch takes effect once, whole, at its commit; counts are exact |
| Segment reader (`segments.rs`, `searcher.rs`) | the opened view, remembered scopes | open: manifest, then each segment, then its bitmap; search all segments at once and merge | takes no lock while a writer merges and removes; segments answer in any order | an open sees one moment, or fails; the merged hits are those of one ranking |
| Incremental build (`codeindex.rs`, `repo.rs`) | `repo.json`, `build.pending`, the index, vectors and keys beside segments | walk, diff by length and mtime, read, encode, publish, merge, record | the tree changes during it; it may die between its commits; cached or damaged vectors | files that are skipped are right; no file is half indexed; a row has its own vector |
| Walk, chunking, extraction (`repo.rs`, `treesit.rs`, `office.rs`, `notebook.rs`) | none kept | list by nested ignore rules; read documents; cut into chunks | directories in any order; precedence of rules; sizes at the limits | what is listed is what the rules say; every line is in one chunk |
| Watch daemon (`daemon.rs`) | leases, `watch.lock`, `watch.json`, the STOP flag | session hooks, spawn, replace, stop, lease checks | many processes check and then act; crashes; timeouts; upgrades | one watcher; it lives while it is needed and no longer |
| Rebuild loop (`daemon.rs`, `watch.rs`) | the dirty flag, event counter, the status file's state | take the flag, announce, wait for quiet, build | edits during all of it; failing builds; searches that wait for it | no edit is lost; noticed edits are in the answers |
| MCP server (`mcp.rs`) | its open index, the mtime of `repo.json` it stands for, its dirty flag, a refresh that is due, the progress sink, the last search | build, reopen, repair, answer lines and batches | a second process builds the same index; calls that fail between steps | answers come from the tree; each message gets its answer or none, and its own progress |
| `hips search` (`cli.rs`) | none kept | find an index upwards, wait, choose a ranking, show locations | builds and watchers come and go meanwhile; work trees in work trees | the nearest index answers as asked, and locations open |
| Block-Max WAND and MaxScore (`block_max_wand.rs`, `maxscore.rs`, over `postings.rs`, `bm25.rs`, `scope.rs`) | cursors, a heap of k hits, block metadata | pivot, score, catch up, skip, leap; gather, probe, give up | pruning on bounds, ties, block ends, hidden documents | exactly the top k of a full scan |
| Index files (`indexer.rs`, `external.rs`, `reorder.rs`, `compress.rs`, `storage.rs`, `migrate.rs`) | postings, dictionary, documents, shards | tokenize in threads, spill, merge, reorder, pack, read, migrate | numbering depends on a race; widths and word boundaries | the index says what the documents say, and is read as it was written |
| Single-layout index (`install`, `migrate_to_segments` in `codeindex.rs`) | index directory, staging, retired directory | build, swap in, migrate to segments | windows between renames | the old or the new index, never a mixture |
| Caches (`embcache.rs`, `query_cache.rs`, `static_query.rs`), download (`fetch.rs`, `grammar.rs`) | vectors and codes by content; query vectors in memory and files; learned words; model files | insert, requantize, save; enqueue, flush; learn; verify and publish | stale codes, a full queue, failing saves, two downloaders | a hit equals recomputation; published files are whole |
| Vectors (`hnsw.rs`, `ivf.rs`, `pq.rs`, `embeddings.rs`), encoder (`embedder.rs`, `ggml.rs`, `wordpiece.rs`) | a routing graph, clusters and codes, a cached compute graph | build, search, train, round; batch, pad, mask, run | thinned-out walks, empty clusters, carries, buffers kept from another batch | never fewer answers than asked for; a text's vector is its own |
| Ranking (`query.rs`, `hybrid.rs`, `spell.rs`, `tokenizer.rs`) | none kept | correct, tokenize, retrieve, fuse, rerank | ties, scopes, damaged vectors | the ranking the mode promises |

How they interact. The watcher, `index-repo` and the MCP server each run incremental builds in their own
process; `.rebuild.lock` admits one at a time, and `writer.lock` one segment writer. A build calls the
writer's `upsert_documents_prepared`, which publishes through the manifest. Searches and the MCP server
read the same directory without a lock. Agent hooks write leases and start the watcher; searches read
its status file and wait for it. A query runs one evaluator per segment, and the vectors' side beside it.

## 2. Modules

Stateful components:

| Module | Models | Extends |
|---|---|---|
| `DocStore` | the contract: a bag of live documents changed by whole batches | |
| `SegmentStore` | the write side of `segments.rs`, implements `DocStore` | |
| `SegmentReaders` | `SegmentedIndex::open` against those writers | `SegmentStore` |
| `WatchSessions` | leases, lock, status, hooks and life of the watcher | |
| `RepoBuild` | `RepoIndexer::build_segmented` over a tree that changes | |
| `WatchLoop` | `run_watch`'s rebuild loop, `TreeWatcher`, `wait_for_idle` | `RepoBuild` |
| `McpRefresh` | freshness of the MCP server beside another builder | `RepoBuild` |
| `McpProtocol` | its lines, batches, tools, repair and progress | |
| `SearchCommand` | `hips search` beside builds and watchers | |
| `Callers` | no model: what the server and the command line together promise | `McpRefresh`, `McpProtocol`, `SearchCommand` |
| `EmbedCache` | the content cache of `embcache.rs` | |
| `SingleLayout` | build, install and migration of a single-layout index | `EmbedCache` |
| `SegmentVectors` | vectors of segments: encoded, repaired, merged | `EmbedCache` |
| `QueryEncoder` | query vectors in memory and on disk, batches of documents | |
| `GrowingWords` | the table of learned words | |
| `Download` | models and grammars fetched by several processes | |

Searching:

| Module | Models | Extends |
|---|---|---|
| `RankedQuery` | posting lists, blocks, cursors, top-k heap, scope | |
| `BlockMaxWand`, `MaxScore` | the two `search` functions | `RankedQuery` |
| `ExactSearch` | the choice between them | `BlockMaxWand`, `MaxScore` |
| `SegmentedSearch` | queries on an opened handle: scopes as bitmaps, correction, statistics, merge | |
| `HybridSearch` | pools, fusion and rerank over segments | `SegmentedSearch` |
| `SingleSearch` | the same over a single layout | `HybridSearch` |
| `VectorIndex` | the routing graph; k-means, clusters, codes, half floats | |
| `TextEncoder` | the encoder's tokenizer; batches through the cached compute graph | |
| `QueryWords` | the index's two tokenizers, and corrections | |

Building and storing:

| Module | Models | Extends |
|---|---|---|
| `IndexBuild` | building an inverted index in memory or through shards | |
| `PostingBlocks` | posting lists on disk | |
| `StoredIndex` | dictionary, documents and metadata on disk, migration; what merging makes of segments | `PostingBlocks` |
| `RepoFiles` | globs, ignore rules, the walk, the watcher's filter; cutting files of every format | |
| `DocumentFiles` | reading office documents and notebooks | |

Proofs:

| Module | Proves theorems about | Extends |
|---|---|---|
| `FiniteLemmas` | none: lemmas on induction, least and greatest elements, finite sums, folds over lists, division | TLAPS |
| `SegmentReadersProofs` | `SegmentStore`, its refinement of `DocStore`, and `SegmentReaders` | `SegmentReaders`, TLAPS |
| `RepoBuildProofs` | `RepoBuild` | `RepoBuild`, TLAPS |
| `WatchLoopProofs` | `WatchLoop`, and that the loop runs builds | `WatchLoop`, `RepoBuildProofs` |
| `WatchSessionsProofs` | `WatchSessions` | `WatchSessions`, TLAPS |
| `CodeIndexProofs` | `SingleLayout` and `SegmentVectors`; `McpRefresh`, `McpProtocol`, `SearchCommand` | these, `RepoBuildProofs` |
| `QueryProofs` | `QueryEncoder`, `Download` and `GrowingWords`; `SegmentedSearch` and `HybridSearch` | these, `FiniteLemmas` |
| `ExactSearchProofs` | `BlockMaxWand`, `MaxScore`, `ExactSearch` | `ExactSearch`, `FiniteLemmas` |

The `MC...` modules hold small instances. Three of them, `MCLexicalIndex`, `MCQueries` and `MCDocuments`,
put several machines side by side that do not act on one another: a behavior is of one of them, chosen in
the initial state, and the others rest. A pure algorithm gets its inputs the same way: the variable `input`
holds one, and a property speaks of the behaviors of its own kind. A property of such a run is a
conjunction of named properties, which the modules state and explain.

Correspondence, and what is abstracted:

- **SegmentStore.** `manifest`, `dirs`, `tombs`, `lock` are the files; `mem[w]` is
  `SegmentedWriter::manifest`; `plan[w]` and `pc[w]` are the local variables and the place of the
  operation a writer is in. Each file operation is one action: clearing an unpublished name,
  creating and filling the directory, its sidecars, linking a replacement segment, writing its
  bitmap, renaming the manifest, removing what a merge retired. `Close` may
  happen anywhere and is a drop, an error and a crash alike; a failed operation keeps the writer open
  with leftovers behind it. A segment is the sequence of its documents, a document an id and a body
  (the body stands for the content hash that upsert compares). Postings and lengths are left out;
  `StoredIndex` has them.
- **SegmentReaders.** A reader reads the manifest, then per segment the directory and the tombstones,
  as separate actions. The history variable `asked` keeps what was live at the manifest read; `late`
  records that a segment was retired before its tombstones were read.
- **WatchSessions.** `lock` is `watch.lock`; a process that looks whether it is held
  (`lock_is_held`) holds it for a moment, because in the code it does. Deadlines and the grace period
  may pass at any time a finite wait can end. Agents come, end and die freely; pids are not reused.
  `raced` is a history variable set by the races of section 5.
- **RepoBuild.** `tree[f]` is a version (its identity is what `stat` shows); the walk takes
  identities one file at a time, then the changed files are read one by one, so any edit may fall
  between. `inventory` is `repo.json`, `pending` is `build.pending`. A chunk's id is its file and
  slot. One commit of the segment store is one step here: that is what `ImplementsDocStore` shows of it.
- **WatchLoop.** Event delivery (`inbox`), the dirty flag and the event count (`burst`: has an event
  come since it was sampled) are separate, since the code has them apart. `failed` is history. A search waits for `idle`
  in the status file or until its deadline.
- **McpRefresh.** `current` says that `repo.json`'s mtime is the one recorded; the marker, the flag
  and `refresh_pending` decide as in `refresh`. Opening the index and reading the mtime are two steps.
- **McpProtocol.** A line is a parsed message or batch; a call goes through its stages (validated, refreshed,
  repaired, answered), each of which may fail; a build reports phases to the sink. What a build finds is
  abstracted to whether vectors are valid, since `McpRefresh` has the rest.
- **SearchCommand.** A directory is the path to it. `search` is the record of the call under way; watchers and
  first builds are sets that other processes change between any two of its steps.
- **SingleLayout, SegmentVectors.** A directory is a function from file names to contents; each write and rename is an
  action, and a crash or an error may come between any two. An absent directory is one without files (`NoDir`), which
  only staging is for a moment while it is there. What the encoder makes of a text is the text, so a
  vector is right if it is its document's.
- **QueryEncoder, GrowingWords, Download.** A process's memory and the shared files are apart; what is written under a
  temporary name is seen only once renamed. Vectors are records of what was asked and by what recipe.
- **TextEncoder.** No arithmetic: a row is the record of all it was computed from, so that a mask or a position
  kept from another batch shows.
- **RankedQuery, BlockMaxWand, MaxScore.** One action is one branch of the loop body. Cursors are a
  function from terms to documents; the block a cursor is in follows from it. BM25's contribution is
  any table that grows with frequency and falls with length; scores are exact naturals. An unstable
  sort's freedom among equal keys is a choice. `End` is `u32::MAX`, `Infinite` is the empty heap's -inf.
- **HybridSearch, SingleSearch, VectorIndex.** Closeness is a natural, and fused scores are fractions over one
  denominator; lists that the code computes in parallel arrive in any order.
- **IndexBuild.** A thread's look in the interner and its insertion are two actions. Reordering is any
  permutation that the partitions allow: which one the bisection finds is a heuristic.
- **PostingBlocks, StoredIndex.** Bytes of 3 bits and words of 3 bytes stand for 8 and 8: the boundaries that
  matter (a value across words, a list that ends on one, too few bytes for a wide load) come with lists of six.
- **RepoFiles, DocumentFiles, TextEncoder, QueryWords.** A line, a character or an XML event is its class; limits are
  small. The operators follow the code's loops as folds and recursive functions, and the properties compare them with
  definitions that say what the result should be.

## 3. Runs

Passing runs:

| Run | Shows | Bounds |
|---|---|---|
| `segment_store` | published segments intact; writer current; counts exact; published files immutable; names not reused; refinement of `DocStore` | 2 writers, 2 ids, 2 bodies, 3 batches, segments 0..3; a fresh directory and one an older writer left with stale counts and an interrupted segment |
| `segment_readers` | a reader not overtaken sees a snapshot; even an overtaken one misses nothing | 1 writer, 1 reader, segments 0..2 |
| `watch_sessions` | the status names the one watcher; sessions are served outside the recorded races | 2 sessions (one without a pid), a search, 3 leased watchers and one by hand, 3 pids, an upgrade, crashes |
| `watch_sessions_live` | watchers are not pinned; open sessions come to be served | 2 sessions, a stop command, 2 watchers, 2 pids, a burst of edits |
| `watch_loop` | with failing builds: what is believed up to date is right; files are whole; no edit lost but by a failed build; undisturbed builds are exact; the index comes to equal the tree; noticed edits are in the answers | 2 files, 3 edits, a search, builds and failures without limit |
| `lexical_index` | exact top k, no document overtaken or half scored, the loop ends (`ResultIsTop`, `TurnsAreSound`, `Terminates`); indexes built in any way say what the documents say (`IndexIsExact`); files are read as written and segments merge exactly (`StoredIsRead`) | below |
| `queries` | `ScopesAreExact`, `MergeIsExact`, `FusionIsExact`, `GraphAnswers`, `WordsAreRead`, `EncoderAnswers`, `FlushedIsWritten`, `LoadedIsWhole`, `NumbersAreClose` | below |
| `documents` | `CallsAreAnswered`, `TreeIsSeen`, `GlobsAreExact`, `FilesAreCut`, `IndexIsWhole`, `NeverLost`, `RowsAreSound` | below |

Bounds of the composed runs:

- `lexical_index`. Block-Max WAND: 2 terms of different weight, 4 documents of 2 lengths, blocks of 2, k of 1 and 2, at
  most one document tombstoned or out of scope; MaxScore: 3 terms and 3 documents, the same otherwise. Builds: streams
  of up to 5 documents, blank and broken lines among them, two tokenized at a time, a spill budget of 3, all orders the
  bisection may give. Storage: lists of 1, 5 and 6 postings (blocks of 5, an exact block and one over it) over gaps of four
  widths; dictionaries of up to 4 words; merges of up to 3 segments with 5 documents and any of them dead.
- `queries`. Segments of 3 and 2 documents, bitmap words of 2 bits, scans of 2 documents; graphs of 5 points,
  degree 1, two layers; words of up to 6 letters, texts of up to 4 characters; two processes with a memory cache of 2
  and a queue of 1; two loaders over two versions of a file; up to 4 vectors in 3 places; all 65536 half
  floats; batches of up to two sequences in four lengths, one of them too long.
- `documents`. 2 files and 2 edits beside a build elsewhere (two in `mcp_refresh_missed`, which is `MCDocuments` begun with the server alone), failures anywhere; the nine-path tree
  with up to 3 rules; every glob of up to 4 characters and braces of one level; files of up to 6 lines; decks of 2 slides with
  notes, sheets of 2 by 3; batches of up to 3 messages over one mishap; 2 texts, 2 stops and one change for the single
  layout; 2 ids, 2 segments, 2 edits and a halt for vectors; a work tree within a work tree, and a directory below both.

Why the bounds are enough for the cases of interest. Four segment numbers allow a segment, a
replacement of it, a new one, and a merge of these, each of which may be a leftover whose number is used again;
two writers are needed for lock handover, and more add nothing since a third is excluded as the second is. Two files and, in the loop, three
edits give an edit before, during and after a build. Three leased watchers let a stale one, its replacement
and a duplicate exist together. Four documents in blocks of two give a list two blocks and
a block end that falls before, on and after a pivot (without `Terminates`, whose check is the
expensive one, every set of hidden documents was also checked); k of 1 and 2 against up to four matches gives a
heap not yet full, full, and tied. MaxScore needs three lists for two to be probed; blocks do not matter to it.
Two stops give a crash during the recovery from a crash.
Files of the server, texts to encode and questions are symmetric: nothing chooses among them. Five points of degree 1 leave some without a way to them.

Deadlock is checked except where the modelled program ends or may rest: the evaluators, builds and queries end,
edits and searches of the loop's run run out, and in `watch_sessions_live` pids and watchers do.

Fairness. `watch_sessions_live`: a process that runs goes on (weak fairness of its steps), and the
finite grace period is eventually found to be over (strong fairness of that exit, since lease checks
come and go); agents, users and crashes are under no obligation. `watch_loop`: the operating system
delivers events and the loop keeps running. The evaluators: the loop runs. Edits and failures are never fair.

`Terminates` matters because the evaluators' invariants alone hold of a cursor that never moves.

## 4. Proofs

Each theorem holds for every value of the constants that the named ASSUMEs admit, and so of any number of processes,
files, documents or faults; TLC evaluates these assumptions in the runs. A proof module starts with its inductive
invariant, part by part; one lemma per action shows that the action keeps it; the theorems at the end draw from it what
the runs check. Every invariant was checked by TLC on a small instance before it was proved.

| Module | Theorems | Establish | Assume |
|---|---|---|---|
| `SegmentReadersProofs` | `Invariance`, `TypeCorrect`, `AlwaysIntact`, `NoLostUpdate`, `CountsStayExact`, `SnapshotsAreStable`, `NamesAreFresh`, `ImplementsTheContract` | `IInv`; `TypeOK`, `PublishedIntact`, `WriterIsCurrent`, `CountsExact`; `PublishedImmutable`, `NamesNeverReused`; the refinement `ImplementsDocStore` | a bound on the names; no empty batch; a well-formed directory to start from |
| | `ReadersInvariance`, `ReadersTypeCorrect`, `UnracedOpensAreSnapshots`, `OpensMissNothing` | `RInv`; `UnracedOpenIsSnapshot`, `OpenMissesNothing` | the same |
| `RepoBuildProofs` | `BuildInvariance`, `BuildTypeCorrect`, `BelievedStaysRight`, `FilesStayWhole`, `BuildsAreExact` | of `RepoBuild` alone: `BuildInv`; `BelievedIsRight`, `FilesAreWhole`, `BuildIsExact` | a version's chunks have slots of their own |
| `WatchLoopProofs` | `LoopInvariance`, `WatchTypeCorrect`, `LoopRunsBuilds`, `NoEditIsLost`, `NoticedEditsStaySeen` | of the rebuild loop: `LoopInv`; it runs builds as `RepoBuild` specifies them; `NoEditLost`, `NoticedEditsAreSeen` | the same |
| `WatchSessionsProofs` | `SessionsInvariance`, `SessionsTypeCorrect`, `StatusNamesTheWatcher`, `ServedUnlessARace` | `SessionsInv`; `StatusNamesWatcher`, `ServedUnlessRaced` | kinds of processes are disjoint |
| `QueryProofs` | `DownloadInvariance`, `LoadsAreWhole` | of `Download`: `DownloadInv`; `LoadedIsWhole` | garbage is not a version that is served |
| | `EncoderInvariance`, `AnswersStayOwn`, `FlushesWrite`, `LatestInvariance`, `LatestStay` | of `QueryEncoder`: `EncoderInv`; `AnswersAreOwn`, `FlushedIsWritten`; `LatestInv`; `KeepsTheLatest` | the warm-up text is not asked; capacities are positive |
| | `WordsInvariance`, `LearnedWordsStay`, `RestartsKnowTheSame`, `LookupsAreKnown` | of `GrowingWords`: `WordsInv`; `LearnedStays`, `RestartKnowsTheSame`, `LookedUpIsKnown` | a row with a direction has one when rounded (one of 768 components of a unit vector is over half a step of 1/127) |
| | `ScopesStayExact`, `MergesStayExact`, `FusionStaysExact` | of an opened handle: `ScopesAreExact`, `MergeIsExact`, `FusionIsExact` | a term in the index weighs something in any text; finitely many terms; tables that cover the index |
| `CodeIndexProofs` | `LayoutInvariance`, `IndexStaysWhole`, `IndexIsNeverLost` | of `SingleLayout`: `LayoutInv`; `IndexIsWhole` (`OpensWhole`, `BuiltIsSound`), `NeverLost` | damaged vectors and missing codes are no texts |
| | `VectorsInvariance`, `RowsStaySound` | of `SegmentVectors`: `VectorInv`; `RowsAreSound` (`VectorsAreTheirs`, `LiveOnce`, `MergeNeverLacks`) | finitely many ids; a damaged vector is no text |
| | `ServerInvariance`, `ServerRunsBuilds`, `ServerAnswersAreExact`; `ProtocolInvariance`, `ProtocolStaysSound`; `CommandInvariance`, `CommandStaysSound`; `CallersAreAnswered` | `ServerInv`, `ProtocolInv`, `CommandInv`; `CallsAreAnswered`, of which the others prove a part each | the calls of a line have progress tokens of their own, as MCP wants it; paths have no `..` |
| `ExactSearchProofs` | `SearchInvariance`, `SearchIsExact`, `TurnsStaySound`, `SearchTypeCorrect` | `SearchInv`; `ResultIsTop`, `TurnsAreSound` (which has `NoneOvertaken`) | contributions are positive, grow with frequency and fall with length; terms are finite |

**The segment store.** `PublishedIntact` is not inductive: a commit publishes the manifest that was built up in
`plan`, so the invariant must say what has been done to it so far. `PlanInv` says of a writer at work
that the manifest under construction is intact, counts exactly and takes all its new names from the
published counter up, and that a segment prepared earlier is finished (`Prepared`). `StepInv` ties the
progress of the segment under construction to `pc`. `RetireInv` says that what a merge removes is no longer
published. `WriterInv` adds that only the lock's holder works and that its memory is the manifest on
disk. `Healable` is what recovery needs and keeps: a count may be stale only where there are tombstones,
because recovery recounts nothing else. Then each action has a lemma (`...Keeps`); `OthersKept` covers the
writers that do not move, `FilesKept` and `InTermsOfFiles` the properties of a manifest whose files do not
change. `NamesAreFresh` needs one more invariant, `Unborn`: before there is a manifest the counter is 0.
The initial directory is assumed to have exact counts wherever there are no tombstones, since older
versions of the code changed a bitmap before the manifest, never a count without one.

**Its contract.** `DocStore` is a bag of documents that a batch changes in one step. `DiskBag`, what the published files
add up to, changes at the commit only, so the invariant must say before it what the commit will do: by `ChangesInv` the
plan of a change is one that `DocStore` allows from the manifest in memory (which `WriterIsCurrent` says is the published
one), a replaced segment loses none but documents with an id to be deleted, and a merge lists each live document as
often as it was live. A bag is the number of rows of the files that a manifest names (`BagOf`), so that a step on other
files leaves it alone; `CommittedBag` computes it across a commit from the bag of the prepared files and the one before.
For an upsert, the last of a batch's documents with one id is the one that is kept (`WinnerIsFinal`), and the segment
that is written lists these winners without repetition.

**Readers.** A reader's manifest soon is an old one, while writers may use its names again only if it never came to be
published. `OldNamesFade`: a name below the published counter keeps its text, and its bitmap until it is retired, when
both go. So each segment that a reader has opened is what the manifest it read said when it read it, for one choice of
texts and bitmaps (`Snapshot`); only a bitmap that was read as missing may make more documents live. This is also why an
overtaken reader still misses nothing. It uses `IInv` and that published files do not change.

**Builds.** That a skipped file is right depends on what may have happened since it was recorded: `FileInv` says of each
file that its live rows are those of one version that it has had, and that if the record names the present version and
the slots are accounted for, of this one. `WalkInv` and `TextInv` carry it through the walk and the reading, during which
the tree may change: a version that was seen may be gone, but a version that is gone does not come back, so a record of
a version that is neither there nor the one walked is never right again. This is how `Edit` models the trees in scope;
the file that is put back with its old length and mtime is in section 7. `StageInv` says how far publishing has got.

**The loop.** While nothing is left to take up (`Still`), a build under way has a clean walk before it (`clean`), and a
loop at rest whose last build did not fail stands for an index that is exact. `LoopRunsBuilds` shows that every step of
`WatchLoop` is one of `RepoBuild` or leaves its variables, so `BuildInvariance` holds of the loop without being proved again.

**Sessions.** `HolderInv` ties the lock to the steps of its holder, by which two watchers never write the status.
`LeaseInv` and `ServeInv` say what an execution without a recorded race keeps: the running agent's lease is there, and
either a hook is still looking for a watcher, or there is one that will not leave (`Staying`).

**The query cache and downloads.** Entries are right because nothing else gets in (`MemoryInv`, `DiskInv`), whatever is evicted
and whichever processes share the files; a flush is the last thing in a queue (`QueueInv`), and what the queue took is
in it or on disk (`AcceptedInv`), so what is flushed is written, even by another process. The words learned between are
what the file has at any rest, since the file comes first and memory follows it (`ResidentInv`); of the table in the making
it is enough that it adds the missing words to all that were learned before (`LookupInv`). For a download, a file that was
verified and renamed stays, and whoever opens it has seen it or put it there.

For the queries in memory `LatestInv` orders them by their last uses, which the history of questions tells, and says of
each one that is not in memory that it was used before all that are and that there is no place left. Eviction keeps this as the head of the
order was used before the others, and a put adds a query that is not there, since between the look and the put only the
same process could add it. A count of those used later (`LatestFirstIsLatest`) makes it the set that `KeepsTheLatest` describes.

**The single layout.** `StageInv` says what staging holds by each step of a build and `MoveInv` by each of a migration, so
that what is swapped in, or completed by the manifest, is whole (`DirOK`). Codes match because a cache has codes of its own
quantizer only (`CacheOK`), which insertion, adoption of another quantizer and saving keep. `SwapInv` counts: without a crash the
index is away only at `place`, with the old one aside; after one stop it is away only if the old one still is aside, or the
staged one is about to be placed.

**Vectors of segments.** A live row may have a damaged vector, or none, as older versions left it, but a build repairs all such
rows, not only those it meets: `PlanInv` says that what it retires has them all, so that after it has published, and
while it merges, every live row has its key and vector (`MergeInv`). A merge looks keys up by id, which is right because an id
is live once (`LiveOnce`) and stays so in a segment that is written from the numbers of live rows: `ArrangedIs` shows
that a finite set has one listing in order, each element once.

**The callers.** Of the server `ServerInv` says what it may be sure of: while it watches and no event is under way or taken
up (`Quiet`, and `Sure` from the moment it looks), the index is the tree, and what it has open is too unless a refresh is
due; what builds meanwhile, here or elsewhere, had a clean walk. `ServerRunsBuilds` lets it use `BuildInv` as it is. Of
the protocol `LineInv` says that the messages of a line that are handled have each what is due to it in turn, `CallInv`
where the call under way is in its stages, and `ProgressInv` that what a token has heard of a build rises and belongs to
its own call. Tokens are assumed to differ within a line, since progress of two calls under one token cannot be told
apart by anyone. `CommandInv` adds to what the command promises which directories it has looked at and passed over so far.

**Scopes, merging and fusion.** What a scope selects is followed through every loop that makes it. A scan of a range adds
runs, and the runs of a file are its documents so far (`ExtendKeeps`, `RangeIsScanned`); adjacent runs are rejoined at
range ends without loss (`RejoinKeeps`); a run is allowed word by word through masks (`MaskIs`, `WordAllows`,
`RangeAllows`), tombstones are taken out word by word, and `matched` counts what is there (`WordExcludes`, `AllExclude`);
`NextBitIs` is the leap to the next bit. The folds of the community modules satisfy the equation of a loop
(`FoldExists`), so an invariant of the loop is proved by induction on how far it has come, a statement about a set of
numbers. `HandleInv` then keeps exact the scopes that are remembered and the one in use (`ScopesInv`), each segment's
answer the top of its own hits (`AnswersInv`), and the ranking the top of all (`RankingInv`). The merge is `TopOfTops`:
whoever is in the top of all is in the top of its own segment, because no more come before it there. That no document
that holds a term is lost and none without one is listed is `WeightIs`: the weights of terms are positive, so a document
weighs something just if it holds one. `PoolsInv` says the same of the lists by closeness, of which a scan in ranges is
one more merge of tops, and `ResultInv` of what is made of both lists.

**Exact search.** Both evaluators share lemmas: sums over finite sets (`FiniteLemmas`), the bounds of a block and of a list,
replacing the worst of a full heap (`KeepsBest`), and the counting argument that a heap of k which every other hit is
beaten by is the top k. Sums and sets by size need induction, which is done in first-order form: `StrongInduction` is
about a set of sets and not about an operator. For WAND, a document that a cursor has left is in the heap or beaten by
it (`WandInv`). For MaxScore, the bounds of the lists that are given up add up to no more than the threshold
(`OrderInv`), no list runs ahead of the essential ones (`InStep`), between turns all that is not in the heap is beaten or ahead
(`BetweenTurns`), and while a candidate is probed its score is the sum over the lists that have passed it (`Probing`).

**What stays with TLC.** Liveness under fairness, which is out of the prover's reach: `Terminates`, `Unpinned`,
`EventuallyServed`, `EventuallyExactOrFailed`. A loop over a list or a number can be proved as above, but induction over
other data cannot, and an operator that is RECURSIVE is out of reach altogether. With these, with folds that nobody has
found short invariants for, and with the decoders and tokenizers, whose invariants would be as long as they are, TLC is alone:
`IndexIsExact`, `StoredIsRead`, `GraphAnswers`, `WordsAreRead`, `NumbersAreClose`, `TreeIsSeen`, `GlobsAreExact`,
`FilesAreCut`; of `EncoderAnswers` what is not of `QueryEncoder` or `GrowingWords`: groups of texts and cached graphs.

## 5. Findings

Each is a run in which TLC finds the quoted statement violated; `PROJECT.json` has the details.

1. `segment_readers_race` (`segments.rs:275`): an open overtaken by a merge's removals succeeds with
   deleted documents live, since a missing bitmap counts as an empty one.
2. `watch_loop_lost` (`daemon.rs:641`): a failed rebuild has consumed the dirty flag; nothing tries again.
   `watch_loop` shows that nothing else loses an edit.
3. `mcp_refresh_missed` (`mcp.rs:519`): a build between opening the index and recording its mtime is never
   noticed by a server that does not watch.
4. `search_rerank` (`query.rs:450`): a rerank over segments that is fused by reciprocal ranks leaves the lexical
   order, since the semantic list it hands to the fusion is empty.

Observed while modelling, and stated in the models as the code has it:

- `WatchSessions` sets `raced` where the code can leave an open session without a watcher until its next hook,
  and `watch_sessions` shows that there is no other way:
  - the hook waiting for its child to hold `watch.lock`, or any other look at the lock, takes the lock to look,
    and the child, trying once, takes it for a running watcher and exits (`daemon.rs:280`, `579-587`);
  - a lease written after the last lease check and before the watcher leaves does not keep it (`daemon.rs:701`);
  - reaping a dead lease by name removes a live one that has replaced it (`daemon.rs:234`);
  - a retired watcher that rebuilds for longer than the 30 s its successor's hook waits keeps the lock, and
    leaves once the successor has given up (`daemon.rs:427`);
  - a watcher that crashes, or is stopped by hand, is not missed until the next hook.
- `RepoBuild` takes a file's identity (length and mtime) never to come back. If an old version may be put back with
  its mtime, `BelievedIsRight` fails: the walk takes the identity and the build reads the text later
  (`codeindex.rs:518`, `593`), so a record may pair the old identity with newer text.
- One crash or failed rename around `install` leaves a complete index in one of three places (`NeverLost`);
  two can lose every copy.
- Semantic search of a single layout probes a few clusters by default, so a scoped search misses documents in
  scope that lie in others, although `query.rs:237-239` calls the fused top k exact within the scope. With forced product
  quantization, approximate and exact scores meet in one fusion. `SingleSearch` states what holds.
- The session hook says that a search waits for the first build (`cli.rs:1401-1407`). From a subdirectory, `resolve_index` waits
  for a watcher of that directory alone (`cli.rs:884`), so it says that there is no index while the root's is being
  built; `NotToldToIndex` is stated for searches from the root. Without `--root`, locations found through an
  ancestor's index are relative to the indexed root; `LocationsOpen` is stated for calls with one.
- A listed file whose name begins with `#` is never noticed when it changes (`watch.rs:121`), nor are changes of the
  user's global excludes file; `ListedIsNoticed` excepts both.
- A call of a tool may build twice, once for the refresh and once to repair vectors; progress grows within each build,
  and may fall back between them.
- Different session ids may share a lease file (`lease_file_name` of `daemon.rs:147` maps `a/b` and `a_b` to one).

## 6. Mutants

Every property of every passing run has a mutant: an operator next to the original, with a comment
that starts "Mutation of", which changes it the way a slip in the code would.

## 7. Hazards not covered

In `PROJECT.json` with a note each: file identities that come back; pid reuse; power loss (no fsync). Beyond those, f32 sums of
bounds and scores in different orders may round a bound below the score it bounds (`block_max_wand.rs:359`): TLC has
no floating point. And while events keep coming faster than the quiet time, the rebuild loop looks at neither
STOP nor the leases (`daemon.rs:668`): a property of clock rates, and time is not modelled.

## 8. Not modelled

- The arithmetic of inference and of distances, and so the recall of approximate searches; the choice and loading of backends, CoreML.
- The BM25 formula beyond its monotonicity.
- Which syntax nodes of each language are definitions, and PDF text, both from external programs and grammars; XML and zip
  parsing by libraries.
- Which order reordering finds, on the processor or the GPU: any is correct.
- Command line arguments of the other subcommands, printing, logs, benchmarks and evaluation; generated bindings (a
  seventh of the source lines), build scripts and grammar crates.

## 9. Plan

What is left to prove: that building in memory and through shards give the same index (`IndexIsExact`), for which the
folds of `IndexBuild` need invariants like those of scopes; and the round trips of `StoredIndex` that are not about packed
bits.

Modules to be proved about use no RECURSIVE operators.
