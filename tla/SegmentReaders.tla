---------------------------- MODULE SegmentReaders ----------------------------
(***************************************************************************)
(* Searches open the segmented index without any lock, in other processes  *)
(* than the writer's: SegmentedIndex::open reads the manifest, then, entry *)
(* by entry, maps the segment's files and reads its tombstones.  This      *)
(* module runs such readers against the writers of SegmentStore.           *)
(***************************************************************************)
EXTENDS SegmentStore

CONSTANT Readers

VARIABLES
  rpc,     \* rpc[r]: what reader r does next
  rman,    \* rman[r]: the manifest it read
  view,    \* view[r]: its segments so far, in manifest order
  asked,   \* history: the live documents when it read the manifest
  late     \* history: it read tombstones of a segment already retired

readerVars == <<rpc, rman, view, asked, late>>

Views == Seq([docs : Seq(Docs), deleted : SUBSET Nat])

ReadersTypeOK ==
  /\ rpc \in [Readers -> {"idle", "index", "tombstones", "open"}]
  /\ rman \in [Readers -> Manifests]
  /\ view \in [Readers -> Views]
  /\ asked \in [Readers -> [Docs -> Nat]]
  /\ late \in [Readers -> BOOLEAN]
  /\ \A r \in Readers :
       Len(view[r]) <= Len(rman[r].segs) /\ (rpc[r] = "open" => Len(view[r]) = Len(rman[r].segs))

ReadersInit ==
  /\ rpc = [r \in Readers |-> "idle"]
  /\ rman = [r \in Readers |-> NoManifest]
  /\ view = [r \in Readers |-> <<>>]
  /\ asked = [r \in Readers |-> [d \in Docs |-> 0]]
  /\ late = [r \in Readers |-> FALSE]

(* The entry the reader is at, and where it goes after entry i. *)
EntryOf(r, i) == rman[r].segs[i].name

After(m, i) == IF i = Len(m.segs) THEN "open" ELSE "index"

ReadManifest(r) ==
  /\ rpc[r] = "idle" /\ manifest.exists
  /\ rman' = [rman EXCEPT ![r] = manifest]
  /\ asked' = [asked EXCEPT ![r] = LiveBag(manifest)]
  /\ rpc' = [rpc EXCEPT ![r] = After(manifest, 0)]
  /\ UNCHANGED <<view, late>>

(* Mutation of LoadIndex: a missing or unfinished segment counts as empty.  *)
LoadWhatIsThere(r) ==
  /\ rpc[r] = "index"
  /\ LET n == EntryOf(r, Len(view[r]) + 1)
     IN  view' = [view EXCEPT ![r] = Append(@, [docs |-> dirs[n].docs, deleted |-> {}])]
  /\ rpc' = [rpc EXCEPT ![r] = "tombstones"]
  /\ UNCHANGED <<rman, asked, late>>

(* load_index maps the files, so removing the directory later is harmless. *)
LoadIndex(r) ==
  /\ rpc[r] = "index"
  /\ LET n == EntryOf(r, Len(view[r]) + 1)
     IN  /\ dirs[n].stage \in {"indexed", "complete"}
         /\ view' = [view EXCEPT ![r] = Append(@, [docs |-> dirs[n].docs, deleted |-> {}])]
  /\ rpc' = [rpc EXCEPT ![r] = "tombstones"]
  /\ UNCHANGED <<rman, asked, late>>

(* read_tombstones: no file, no tombstones. *)
ReadTombstones(r) ==
  /\ rpc[r] = "tombstones"
  /\ LET i == Len(view[r])
         n == EntryOf(r, i)
     IN  /\ view' = [view EXCEPT ![r][i].deleted = tombs[n]]
         /\ late' = [late EXCEPT ![r] = @ \/ n \notin NamesIn(manifest)]
         /\ rpc' = [rpc EXCEPT ![r] = After(rman[r], i)]
  /\ UNCHANGED <<rman, asked>>

(* The reader drops its view, or opening fails: a directory is gone, or a  *)
(* read fails.                                                             *)
CloseView(r) ==
  /\ rpc[r] # "idle"
  /\ rpc' = [rpc EXCEPT ![r] = "idle"]
  /\ rman' = [rman EXCEPT ![r] = NoManifest]
  /\ view' = [view EXCEPT ![r] = <<>>]
  /\ asked' = [asked EXCEPT ![r] = [d \in Docs |-> 0]]
  /\ late' = [late EXCEPT ![r] = FALSE]

ReaderStep(r) == ReadManifest(r) \/ LoadIndex(r) \/ ReadTombstones(r) \/ CloseView(r)

NextWithReaders == \/ Next /\ UNCHANGED readerVars
                   \/ \E r \in Readers : ReaderStep(r) /\ UNCHANGED vars

SpecWithReaders ==
  Init /\ ReadersInit /\ [][NextWithReaders]_<<vars, readerVars>>

-----------------------------------------------------------------------------
(* Properties *)

(* The live documents of an opened view: what a search can return. *)
Rows(r)    == UNION {{<<i, p>> : p \in DOMAIN view[r][i].docs \ view[r][i].deleted} :
                       i \in DOMAIN view[r]}
ViewBag(r) == [d \in Docs |-> Cardinality({row \in Rows(r) : view[r][row[1]].docs[row[2]] = d})]

(* A reader whose tombstone reads all came before the segment was retired  *)
(* sees exactly the documents that were live when it read the manifest,    *)
(* whatever writers published, abandoned or crashed on meanwhile.          *)
UnracedOpenIsSnapshot ==
  \A r \in Readers : rpc[r] = "open" /\ ~late[r] => ViewBag(r) = asked[r]

(* Even a reader overtaken by a merge or a recovery misses no document: an *)
(* open either fails or has every document live when it began.             *)
OpenMissesNothing ==
  \A r \in Readers : rpc[r] = "open" => \A d \in Docs : ViewBag(r)[d] >= asked[r][d]

(* What the module promises of every open: a view over the documents live  *)
(* at one moment, with tombstoned ones hidden.  The code breaks it when    *)
(* the tombstone file goes between load_index and read_tombstones.         *)
OpenIsSnapshot ==
  \A r \in Readers : rpc[r] = "open" => ViewBag(r) = asked[r]
===============================================================================
