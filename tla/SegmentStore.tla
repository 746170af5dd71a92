----------------------------- MODULE SegmentStore -----------------------------
(***************************************************************************)
(* The segmented index of src/segments.rs as its files see it: a manifest  *)
(* replaced by rename, immutable segment directories, one tombstone file   *)
(* per segment, and a lock held by the one writer.  Every effect on a file *)
(* is a step of its own, and a writer may stop (crash) between any two.    *)
(*                                                                         *)
(* A document is its external id and a body; the content hash the engine   *)
(* compares is the body.  A segment named seg-NNNNNN is its number.        *)
(* Postings, lengths and dictionaries are left out: a segment is the       *)
(* sequence of its documents, a position in it is a doc_id.                *)
(***************************************************************************)
EXTENDS Naturals, Sequences, FiniteSets, SequencesExt

CONSTANTS Writers,       \* processes that may open the index for writing
          Ids, Bodies,   \* a document is an id and a body
          Batches,       \* the batches of documents handed to a writer
          MaxName,       \* bound: segments are numbered 0 .. MaxName
          NoWriter,      \* the value of a lock nobody holds
          InitialDisks   \* the index directories a run may start from

Docs  == [id : Ids, body : Bodies]
Names == 0 .. MaxName

(* manifest.bin; "live" is the cached count of documents not tombstoned. *)
Entries   == [name : Names, live : Nat]
Manifests == [exists : BOOLEAN, next : Nat, segs : Seq(Entries)]
NoManifest == [exists |-> FALSE, next |-> 0, segs |-> <<>>]

(* A segment directory.  "indexed" has every file of the lexical index but *)
(* not yet its sidecars (embeddings.bin, keys.bin).                        *)
Stages == {"absent", "partial", "indexed", "complete"}
Dirs   == [stage : Stages, docs : Seq(Docs)]
Absent  == [stage |-> "absent", docs |-> <<>>]
Partial == [stage |-> "partial", docs |-> <<>>]

NamesIn(m) == {m.segs[i].name : i \in DOMAIN m.segs}

(* What an index directory left by earlier writers looks like.  Its cached *)
(* counts may be too high: older writers set tombstones in place before    *)
(* they wrote the manifest.                                                *)
WellFormedDisk(d) ==
  /\ d.manifest \in Manifests
  /\ d.dirs \in [Names -> Dirs]
  /\ d.tombs \in [Names -> SUBSET Nat]
  /\ ~d.manifest.exists => d.manifest = NoManifest
  /\ \A n \in NamesIn(d.manifest) : /\ n < d.manifest.next
                                    /\ d.dirs[n].stage = "complete"
                                    /\ d.tombs[n] \subseteq DOMAIN d.dirs[n].docs
  /\ \A i, j \in DOMAIN d.manifest.segs :
       d.manifest.segs[i].name = d.manifest.segs[j].name => i = j
  /\ \A i \in DOMAIN d.manifest.segs :
       LET e == d.manifest.segs[i]
       IN  d.tombs[e.name] = {} => e.live = Len(d.dirs[e.name].docs)

ASSUME MaxNameAssumption  == MaxName \in Nat
ASSUME NoWriterAssumption == NoWriter \notin Writers
ASSUME BatchesAssumption  == Batches \subseteq Seq(Docs) \ {<<>>}
ASSUME DisksAssumption    == \A d \in InitialDisks : WellFormedDisk(d)

VARIABLES
  manifest,  \* manifest.bin on disk
  dirs,      \* dirs[n]: the directory of segment n
  tombs,     \* tombs[n]: the doc_ids set in n's tombstone file; {} without one
  lock,      \* the holder of writer.lock
  pc,        \* pc[w]: what writer w does next
  mem,       \* mem[w]: SegmentedWriter::manifest of w
  plan       \* plan[w]: the change w is carrying out

diskVars == <<manifest, dirs, tombs>>
vars == <<manifest, dirs, tombs, lock, pc, mem, plan>>

Plans == [kind    : {"none", "change", "merge"},
          docs    : Seq(Docs),      \* the documents of the new segment
          fresh   : BOOLEAN,        \* is a new segment still to be prepared?
          ids     : SUBSET Ids,     \* the ids to tombstone
          next    : Manifests,      \* the manifest under construction
          retired : Seq(Names)]     \* merged segments still to be removed

NoPlan == [kind |-> "none", docs |-> <<>>, fresh |-> FALSE, ids |-> {},
           next |-> NoManifest, retired |-> <<>>]

Steps == {"closed", "locked", "recover", "idle", "clear_dir", "clear_del",
          "create", "fill", "sidecars", "stage", "tombstones", "merged",
          "retire_dir", "retire_del"}

TypeOK ==
  /\ manifest \in Manifests
  /\ dirs \in [Names -> Dirs]
  /\ tombs \in [Names -> SUBSET Nat]
  /\ lock \in Writers \cup {NoWriter}
  /\ pc \in [Writers -> Steps]
  /\ mem \in [Writers -> Manifests]
  /\ plan \in [Writers -> Plans]

Init ==
  /\ \E d \in InitialDisks : /\ manifest = d.manifest
                             /\ dirs = d.dirs
                             /\ tombs = d.tombs
  /\ lock = NoWriter
  /\ pc = [w \in Writers |-> "closed"]
  /\ mem = [w \in Writers |-> NoManifest]
  /\ plan = [w \in Writers |-> NoPlan]

-----------------------------------------------------------------------------
(* Rows: <<i, p>> is document p of the i-th segment of a manifest. *)

DocsOf(m, i) == dirs[m.segs[i].name].docs
DocAt(m, r)  == DocsOf(m, r[1])[r[2]]
LiveIn(m, i) == DOMAIN DocsOf(m, i) \ tombs[m.segs[i].name]
LiveRows(m)  == UNION {{<<i, p>> : p \in LiveIn(m, i)} : i \in DOMAIN m.segs}

(* Mutation of Matches: documents already tombstoned are matched again.    *)
MatchesDeleted(m, i, ids) == {p \in DOMAIN DocsOf(m, i) : DocsOf(m, i)[p].id \in ids}

Matches(m, i, ids) == {p \in LiveIn(m, i) : DocsOf(m, i)[p].id \in ids}
Copies(m, id)      == {r \in LiveRows(m) : DocAt(m, r).id = id}

(* The bag of live documents an index directory with manifest m holds. *)
LiveBag(m) == [d \in Docs |-> Cardinality({r \in LiveRows(m) : DocAt(m, r) = d})]

-----------------------------------------------------------------------------
(* SegmentedWriter::open_or_create_ex, recover, drop *)

Goto(w, step) == pc' = [pc EXCEPT ![w] = step]

(* Mutation of LockIndex: the lock is taken over from whoever holds it.    *)
LockIndexAnyway(w) ==
  /\ pc[w] = "closed"
  /\ lock' = w
  /\ Goto(w, "locked")
  /\ UNCHANGED <<diskVars, mem, plan>>

LockIndex(w) ==
  /\ pc[w] = "closed" /\ lock = NoWriter
  /\ lock' = w
  /\ Goto(w, "locked")
  /\ UNCHANGED <<diskVars, mem, plan>>

CreateIndex(w) ==
  /\ pc[w] = "locked" /\ ~manifest.exists
  /\ manifest' = [exists |-> TRUE, next |-> 0, segs |-> <<>>]
  /\ mem' = [mem EXCEPT ![w] = manifest']
  /\ Goto(w, "idle")
  /\ UNCHANGED <<dirs, tombs, lock, plan>>

(* Cached counts of segments with tombstones are recounted from the bitmap. *)
Healed(m) ==
  [m EXCEPT !.segs = [i \in DOMAIN m.segs |->
     IF tombs[m.segs[i].name] = {}
     THEN m.segs[i]
     ELSE [m.segs[i] EXCEPT !.live = Cardinality(LiveIn(m, i))]]]

HealCounts(w) ==
  /\ pc[w] = "locked" /\ manifest.exists
  /\ manifest' = Healed(manifest)
  /\ mem' = [mem EXCEPT ![w] = manifest']
  /\ Goto(w, "recover")
  /\ UNCHANGED <<dirs, tombs, lock, plan>>

(* An ignored failure of remove_dir_all leaves all or part of a directory. *)
AfterRemoval(n) == {Absent, Partial, dirs[n]}

(* recover removes what no entry references, in directory order; a file it *)
(* cannot remove stays.                                                    *)
CollectDir(w, n) ==
  /\ pc[w] = "recover" /\ n \notin NamesIn(mem[w])
  /\ dirs[n].stage # "absent"
  /\ \E left \in AfterRemoval(n) : dirs' = [dirs EXCEPT ![n] = left]
  /\ UNCHANGED <<manifest, tombs, lock, pc, mem, plan>>

CollectTombstones(w, n) ==
  /\ pc[w] = "recover" /\ n \notin NamesIn(mem[w])
  /\ tombs' = [tombs EXCEPT ![n] = {}]
  /\ UNCHANGED <<manifest, dirs, lock, pc, mem, plan>>

FinishRecovery(w) ==
  /\ pc[w] = "recover"
  /\ Goto(w, "idle")
  /\ UNCHANGED <<diskVars, lock, mem, plan>>

(* The writer is dropped, its process dies, or opening it fails: the lock  *)
(* goes, what was in memory is lost, the files stay as they are.           *)
Close(w) ==
  /\ pc[w] # "closed"
  /\ lock' = NoWriter
  /\ Goto(w, "closed")
  /\ mem' = [mem EXCEPT ![w] = NoManifest]
  /\ plan' = [plan EXCEPT ![w] = NoPlan]
  /\ UNCHANGED diskVars

-----------------------------------------------------------------------------
(* Deciding on a change. Published files do not change under the lock, so  *)
(* what the operation reads of them is read in one step.                   *)

Begin(w, kind, docs, fresh, ids) ==
  /\ plan' = [plan EXCEPT ![w] = [kind |-> kind, docs |-> docs, fresh |-> fresh, ids |-> ids,
                                  next |-> mem[w], retired |-> <<>>]]
  /\ Goto(w, IF fresh THEN "clear_dir" ELSE "stage")
  /\ UNCHANGED <<diskVars, lock, mem>>

AddDocuments(w, batch) ==
  /\ pc[w] = "idle" /\ mem[w].next \in Names
  /\ Begin(w, "change", batch, TRUE, {})

DeleteDocuments(w, ids) ==
  /\ pc[w] = "idle" /\ ids # {}
  /\ Begin(w, "change", <<>>, FALSE, ids)

(* Within a batch the last document given for an id wins. *)
Winners(batch) ==
  {k \in DOMAIN batch : \A j \in DOMAIN batch : batch[j].id = batch[k].id => j <= k}

(* Exactly one live copy, with the same content, and not to be deleted. *)
Unchanged(m, d, deleted) ==
  /\ d.id \notin deleted
  /\ \E r \in LiveRows(m) : Copies(m, d.id) = {r} /\ DocAt(m, r).body = d.body

Changed(m, batch, deleted) ==
  {k \in Winners(batch) : ~Unchanged(m, batch[k], deleted)}

Replaced(m, batch, deleted) ==
  {batch[k].id : k \in {c \in Changed(m, batch, deleted) : Copies(m, batch[c].id) # {}}}

(* The elements of f at a set of arguments, in some order. *)
Listed(f, S) == LET order == SetToSeq(S) IN [k \in DOMAIN order |-> f[order[k]]]

UpsertDocuments(w, batch, deleted) ==
  /\ pc[w] = "idle" /\ mem[w].next \in Names
  /\ LET added == Listed(batch, Changed(mem[w], batch, deleted))
     IN  Begin(w, "change", added, added # <<>>,
               deleted \cup Replaced(mem[w], batch, deleted))

NeedsMerge(m) ==
  \/ Len(m.segs) > 1
  \/ Len(m.segs) = 1 /\ m.segs[1].live # Len(DocsOf(m, 1))

(* Live documents are renumbered densely; every other row is dropped. *)
MergedDocs(m) ==
  LET order == SetToSeq(LiveRows(m)) IN [k \in DOMAIN order |-> DocAt(m, order[k])]

MergeAll(w) ==
  /\ pc[w] = "idle" /\ mem[w].next \in Names
  /\ NeedsMerge(mem[w])
  /\ Begin(w, "merge", MergedDocs(mem[w]), TRUE, {})

-----------------------------------------------------------------------------
(* Building a segment under the next unpublished name.                     *)

Target(w) == plan[w].next.next

(* clear_unpublished: a failed attempt may have left files under the name. *)
ClearDir(w) ==
  /\ pc[w] = "clear_dir"
  /\ Target(w) \in Names \ NamesIn(mem[w])
  /\ dirs' = [dirs EXCEPT ![Target(w)] = Absent]
  /\ Goto(w, "clear_del")
  /\ UNCHANGED <<manifest, tombs, lock, mem, plan>>

(* Mutation of ClearTombstones: a stale tombstone file is left in place.   *)
ClearTombstonesSkipped(w) ==
  /\ pc[w] = "clear_del"
  /\ Goto(w, "create")
  /\ UNCHANGED <<diskVars, lock, mem, plan>>

ClearTombstones(w) ==
  /\ pc[w] = "clear_del"
  /\ tombs' = [tombs EXCEPT ![Target(w)] = {}]
  /\ Goto(w, "create")
  /\ UNCHANGED <<manifest, dirs, lock, mem, plan>>

CreateDir(w) ==
  /\ pc[w] = "create"
  /\ dirs' = [dirs EXCEPT ![Target(w)] = Partial]
  /\ Goto(w, "fill")
  /\ UNCHANGED <<manifest, tombs, lock, mem, plan>>

(* Mutation of SaveIndex: the segment is published before its sidecars.    *)
SaveIndexOnly(w) ==
  /\ pc[w] = "fill" /\ plan[w].fresh
  /\ dirs' = [dirs EXCEPT ![Target(w)] = [stage |-> "indexed", docs |-> plan[w].docs]]
  /\ plan' = [plan EXCEPT ![w].fresh = FALSE, ![w].next.next = @ + 1]
  /\ Goto(w, IF plan[w].kind = "merge" THEN "merged" ELSE "stage")
  /\ UNCHANGED <<manifest, tombs, lock, mem>>

(* save_index, or the files merge_all_prepared writes *)
SaveIndex(w) ==
  /\ pc[w] = "fill" /\ plan[w].fresh
  /\ dirs' = [dirs EXCEPT ![Target(w)] = [stage |-> "indexed", docs |-> plan[w].docs]]
  /\ Goto(w, "sidecars")
  /\ UNCHANGED <<manifest, tombs, lock, mem, plan>>

(* The caller's callback writes the sidecars; the name is then taken.      *)
PrepareSidecars(w) ==
  /\ pc[w] = "sidecars"
  /\ dirs' = [dirs EXCEPT ![Target(w)].stage = "complete"]
  /\ plan' = [plan EXCEPT ![w].fresh = FALSE, ![w].next.next = @ + 1]
  /\ Goto(w, IF plan[w].kind = "merge" THEN "merged" ELSE "stage")
  /\ UNCHANGED <<manifest, tombs, lock, mem>>

Abandon(w) == plan' = [plan EXCEPT ![w] = NoPlan] /\ Goto(w, "idle")

PrepareFails(w) ==
  /\ pc[w] = "sidecars"
  /\ \E left \in AfterRemoval(Target(w)) : dirs' = [dirs EXCEPT ![Target(w)] = left]
  /\ Abandon(w)
  /\ UNCHANGED <<manifest, tombs, lock, mem>>

(* An i/o error anywhere in an operation ends it with the files as they    *)
(* are and the writer's manifest unchanged.                                *)
Fail(w) ==
  /\ pc[w] \in {"clear_dir", "clear_del", "create", "fill", "stage", "tombstones", "merged"}
  /\ Abandon(w)
  /\ UNCHANGED <<diskVars, lock, mem>>

-----------------------------------------------------------------------------
(* publish_changes: each segment with a document to delete is replaced, in *)
(* the manifest under construction, by a linked copy with more tombstones. *)

Pending(w) ==
  {i \in DOMAIN plan[w].next.segs : Matches(plan[w].next, i, plan[w].ids) # {}}

First(S) == CHOOSE i \in S : \A j \in S : i <= j

StageReplacement(w) ==
  /\ pc[w] = "stage" /\ Pending(w) # {}
  /\ Goto(w, "clear_dir")
  /\ UNCHANGED <<diskVars, lock, mem, plan>>

LinkFiles(w) ==
  /\ pc[w] = "fill" /\ ~plan[w].fresh
  /\ LET source == plan[w].next.segs[First(Pending(w))].name
     IN  dirs' = [dirs EXCEPT ![Target(w)] = dirs[source]]
  /\ Goto(w, "tombstones")
  /\ UNCHANGED <<manifest, tombs, lock, mem, plan>>

(* Mutation of WriteTombstones: the published bitmap is rewritten.         *)
WriteTombstonesInPlace(w) ==
  /\ pc[w] = "tombstones"
  /\ LET next == plan[w].next
         i    == First(Pending(w))
         hit  == Matches(next, i, plan[w].ids)
     IN  /\ tombs' = [tombs EXCEPT ![next.segs[i].name] = @ \cup hit]
         /\ plan' = [plan EXCEPT ![w].next.segs[i].live = @ - Cardinality(hit)]
  /\ Goto(w, "stage")
  /\ UNCHANGED <<manifest, dirs, lock, mem>>

(* Mutation of WriteTombstones: the cached live count is not lowered.      *)
WriteTombstonesUncounted(w) ==
  /\ pc[w] = "tombstones"
  /\ LET next == plan[w].next
         i    == First(Pending(w))
         hit  == Matches(next, i, plan[w].ids)
     IN  /\ tombs' = [tombs EXCEPT ![Target(w)] = tombs[next.segs[i].name] \cup hit]
         /\ plan' = [plan EXCEPT ![w].next.next = @ + 1,
                                 ![w].next.segs[i].name = Target(w)]
  /\ Goto(w, "stage")
  /\ UNCHANGED <<manifest, dirs, lock, mem>>

WriteTombstones(w) ==
  /\ pc[w] = "tombstones"
  /\ LET next == plan[w].next
         i    == First(Pending(w))
         hit  == Matches(next, i, plan[w].ids)
     IN  /\ tombs' = [tombs EXCEPT ![Target(w)] = tombs[next.segs[i].name] \cup hit]
         /\ plan' = [plan EXCEPT
              ![w].next.next = @ + 1,
              ![w].next.segs[i] = [name |-> Target(w), live |-> @.live - Cardinality(hit)]]
  /\ Goto(w, "stage")
  /\ UNCHANGED <<manifest, dirs, lock, mem>>

(* The manifest to publish: the new segment comes last, and is the only    *)
(* one after a merge.                                                      *)
NewEntry(w) == [name |-> mem[w].next, live |-> Len(plan[w].docs)]

(* Mutation of Committed: a merge restarts the numbering after its segment. *)
CommittedRestarted(w) ==
  IF plan[w].kind = "merge"
  THEN [plan[w].next EXCEPT !.segs = <<NewEntry(w)>>, !.next = 1]
  ELSE [plan[w].next EXCEPT !.segs =
          IF plan[w].docs # <<>> THEN Append(@, NewEntry(w)) ELSE @]

Committed(w) ==
  [plan[w].next EXCEPT !.segs =
     CASE plan[w].kind = "merge"                         -> <<NewEntry(w)>>
       [] plan[w].kind = "change" /\ plan[w].docs # <<>> -> Append(@, NewEntry(w))
       [] OTHER                                          -> @]

(* write_manifest renames the finished file over the old one.              *)
CommitChange(w) ==
  /\ pc[w] = "stage" /\ Pending(w) = {}
  /\ Committed(w) # mem[w]
  /\ manifest' = Committed(w)
  /\ mem' = [mem EXCEPT ![w] = manifest']
  /\ Abandon(w)
  /\ UNCHANGED <<dirs, tombs, lock>>

NothingToCommit(w) ==
  /\ pc[w] = "stage" /\ Pending(w) = {}
  /\ Committed(w) = mem[w]
  /\ Abandon(w)
  /\ UNCHANGED <<diskVars, lock, mem>>

CommitMerge(w) ==
  /\ pc[w] = "merged"
  /\ manifest' = Committed(w)
  /\ mem' = [mem EXCEPT ![w] = manifest']
  /\ plan' = [plan EXCEPT ![w] = [NoPlan EXCEPT
       !.retired = [i \in DOMAIN mem[w].segs |-> mem[w].segs[i].name]]]
  /\ Goto(w, "retire_dir")
  /\ UNCHANGED <<dirs, tombs, lock>>

(* Merged segments go one by one, directory first; failures are ignored.   *)
RetireDir(w) ==
  /\ pc[w] = "retire_dir" /\ plan[w].retired # <<>>
  /\ LET n == Head(plan[w].retired)
     IN  \E left \in AfterRemoval(n) : dirs' = [dirs EXCEPT ![n] = left]
  /\ Goto(w, "retire_del")
  /\ UNCHANGED <<manifest, tombs, lock, mem, plan>>

RetireTombstones(w) ==
  /\ pc[w] = "retire_del"
  /\ LET n == Head(plan[w].retired)
     IN  \E left \in {{}, tombs[n]} : tombs' = [tombs EXCEPT ![n] = left]
  /\ plan' = [plan EXCEPT ![w].retired = Tail(@)]
  /\ Goto(w, "retire_dir")
  /\ UNCHANGED <<manifest, dirs, lock, mem>>

FinishMerge(w) ==
  /\ pc[w] = "retire_dir" /\ plan[w].retired = <<>>
  /\ Abandon(w)
  /\ UNCHANGED <<diskVars, lock, mem>>

-----------------------------------------------------------------------------
OpenOrClose(w) ==
  \/ LockIndex(w) \/ CreateIndex(w) \/ HealCounts(w) \/ FinishRecovery(w) \/ Close(w)
  \/ \E n \in Names : CollectDir(w, n) \/ CollectTombstones(w, n)

Request(w) ==
  \/ \E batch \in Batches : AddDocuments(w, batch)
  \/ \E ids \in SUBSET Ids : DeleteDocuments(w, ids)
  \/ \E batch \in Batches, deleted \in SUBSET Ids : UpsertDocuments(w, batch, deleted)
  \/ MergeAll(w)

Build(w) ==
  \/ ClearDir(w) \/ ClearTombstones(w) \/ CreateDir(w) \/ SaveIndex(w)
  \/ PrepareSidecars(w) \/ PrepareFails(w) \/ Fail(w)

Publish(w) ==
  \/ StageReplacement(w) \/ LinkFiles(w) \/ WriteTombstones(w)
  \/ CommitChange(w) \/ NothingToCommit(w)
  \/ CommitMerge(w) \/ RetireDir(w) \/ RetireTombstones(w) \/ FinishMerge(w)

Next == \E w \in Writers : OpenOrClose(w) \/ Request(w) \/ Build(w) \/ Publish(w)

Spec == Init /\ [][Next]_vars

-----------------------------------------------------------------------------
(* Properties *)

(* Every segment m names is finished, with its sidecars, under its own     *)
(* name, and with tombstones that fall inside it.                          *)
Intact(m) ==
  /\ \A n \in NamesIn(m) : /\ n < m.next
                           /\ dirs[n].stage = "complete"
                           /\ tombs[n] \subseteq DOMAIN dirs[n].docs
  /\ \A i, j \in DOMAIN m.segs : m.segs[i].name = m.segs[j].name => i = j

(* Whatever a writer was doing when it failed or died, the manifest on     *)
(* disk names only intact segments.                                        *)
PublishedIntact == Intact(manifest)

(* No lost update: a writer past opening is alone, and the manifest it     *)
(* will derive the next one from is the one on disk, whatever failed since.*)
WriterIsCurrent ==
  \A w \in Writers :
    /\ pc[w] # "closed" => lock = w
    /\ pc[w] \notin {"closed", "locked"} => mem[w] = manifest

(* The cached counts a writer works with are those of the bitmaps, also    *)
(* when it found stale ones; needs_merge relies on them.                   *)
Exact(m) == \A i \in DOMAIN m.segs : m.segs[i].live = Cardinality(LiveIn(m, i))

CountsExact == \A w \in Writers : pc[w] # "closed" => Exact(mem[w])

(* While a segment stays published nothing touches its files: no bitmap or *)
(* directory a reader can find through the manifest is ever rewritten.     *)
PublishedImmutable ==
  [][\A n \in NamesIn(manifest) \cap NamesIn(manifest)' :
       dirs'[n] = dirs[n] /\ tombs'[n] = tombs[n]]_vars

(* A published name is never published again for other contents, although  *)
(* the numbers of failed attempts are reused.                              *)
NamesNeverReused ==
  [][/\ manifest.next <= manifest'.next
     /\ \A n \in NamesIn(manifest') \ NamesIn(manifest) : n >= manifest.next]_vars

(* Batches take effect whole, once and only by their commit; merging,      *)
(* recovery, failure and crashes never change the live documents.          *)
Contract == INSTANCE DocStore WITH store <- LiveBag(manifest)

ImplementsDocStore == Contract!Spec
===============================================================================
