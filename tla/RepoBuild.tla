------------------------------ MODULE RepoBuild ------------------------------
(***************************************************************************)
(* The incremental build of src/codeindex.rs: RepoIndexer::build_segmented *)
(* walks a source tree that goes on changing, compares the file identities *)
(* it saw (length and mtime) with those in repo.json, reads and chunks the *)
(* files that differ, publishes the new chunks and drops the stale ones in *)
(* one commit of the segment store, and records what it did.               *)
(*                                                                         *)
(* A version of a file stands for its identity; ChunksOf gives its text as *)
(* a set of chunks.  A chunk's id is its file and its slot (the line       *)
(* range), its text a body.  One build runs at a time: .rebuild.lock and   *)
(* writer.lock keep others out, and SegmentStore models the latter.        *)
(***************************************************************************)
EXTENDS Naturals, FiniteSets

CONSTANTS Files, Slots, Bodies,
          ChunksOf,     \* ChunksOf[v]: the chunks a file has in version v
          Gone,         \* the version of a file that is not there
          MaxEdits      \* bound: how often the tree changes

Versions == DOMAIN ChunksOf
Chunks   == [slot : Slots, body : Bodies]
Rows     == [file : Files, slot : Slots, body : Bodies]

ASSUME ChunksAssumption ==
  /\ Gone \notin Versions
  /\ \A v \in Versions :
       /\ ChunksOf[v] \subseteq Chunks
       /\ \A c, d \in ChunksOf[v] : c.slot = d.slot => c = d
ASSUME EditsAssumption == MaxEdits \in Nat

VARIABLES
  tree,       \* tree[f]: the version of file f on disk, or Gone
  past,       \* past[f]: the versions f has had
  edits,      \* how often the tree has changed
  live,       \* the live rows of the published index
  inventory,  \* repo.json: per file its identity and its chunk ids, or none
  pending,    \* the marker file build.pending
  bpc,        \* what the build does next
  walked,     \* the identities the walk has seen so far
  texts,      \* the chunks of the changed files read so far
  clean       \* history: the tree has not changed since this build began

treeVars  == <<tree, past, edits>>
indexVars == <<live, inventory, pending>>
buildVars == <<bpc, walked, texts, clean>>
vars == <<tree, past, edits, live, inventory, pending, bpc, walked, texts, clean>>

NoInventory == <<>>
Records == [ident : Versions \cup {Gone}, slots : SUBSET Slots]

TypeOK ==
  /\ tree \in [Files -> Versions \cup {Gone}]
  /\ past \in [Files -> SUBSET Versions]
  /\ edits \in 0 .. MaxEdits
  /\ live \subseteq Rows
  /\ inventory = NoInventory \/ inventory \in [Files -> Records]
  /\ pending \in BOOLEAN
  /\ bpc \in {"idle", "walk", "read", "publish", "save", "clear"}
  /\ \E seen \in SUBSET Files : walked \in [seen -> Versions \cup {Gone}]
  /\ \E done \in SUBSET DOMAIN walked : texts \in [done -> SUBSET Chunks]
  /\ clean \in BOOLEAN

Nothing == <<>>

Init ==
  /\ tree \in [Files -> {Gone}]
  /\ past = [f \in Files |-> {}]
  /\ edits = 0
  /\ live = {} /\ inventory = NoInventory /\ pending = FALSE
  /\ bpc = "idle" /\ walked = Nothing /\ texts = Nothing /\ clean = FALSE

-----------------------------------------------------------------------------
(* The tree: a new version or the file removed.  An earlier version does   *)
(* not come back with its old modification time.                           *)

Edit(f) ==
  /\ edits < MaxEdits
  /\ \E v \in (Versions \cup {Gone}) \ (past[f] \cup {tree[f]}) :
       /\ tree' = [tree EXCEPT ![f] = v]
       /\ past' = [past EXCEPT ![f] = (@ \cup {v}) \ {Gone}]
  /\ edits' = edits + 1
  /\ clean' = FALSE
  /\ UNCHANGED <<indexVars, bpc, walked, texts>>

-----------------------------------------------------------------------------
(* build_segmented *)

Row(f, c)   == [file |-> f, slot |-> c.slot, body |-> c.body]
RowsOf(f, chunks) == {Row(f, c) : c \in chunks}
Id(row)     == <<row.file, row.slot>>
LiveIds     == {Id(r) : r \in live}
RecordedIds == IF inventory = NoInventory THEN {}
               ELSE UNION {{<<f, s>> : s \in inventory[f].slots} : f \in Files}

(* Files whose live chunks are not those repo.json says they have.         *)
Reconcile == {id[1] : id \in (LiveIds \ RecordedIds) \cup (RecordedIds \ LiveIds)}

Begin ==
  /\ bpc = "idle"
  /\ bpc' = "walk" /\ walked' = Nothing /\ texts' = Nothing /\ clean' = TRUE
  /\ UNCHANGED <<treeVars, indexVars>>

With(f, x, y) == [e \in DOMAIN f \cup {x} |-> IF e = x THEN y ELSE f[e]]

Stat(f) ==
  /\ bpc = "walk" /\ f \notin DOMAIN walked
  /\ walked' = With(walked, f, tree[f])
  /\ UNCHANGED <<treeVars, indexVars, bpc, texts, clean>>

Recorded(f) == IF inventory = NoInventory THEN Gone ELSE inventory[f].ident

(* Mutation of UpToDate: only the files still there are compared.          *)
PresentUpToDate ==
  /\ inventory # NoInventory /\ ~pending
  /\ \A f \in Files : walked[f] # Gone => Recorded(f) = walked[f]
  /\ Reconcile = {}

(* The tree fingerprint covers the identities of all files.                *)
UpToDate ==
  /\ inventory # NoInventory /\ ~pending
  /\ \A f \in Files : Recorded(f) = walked[f]
  /\ Reconcile = {}

Changed == {f \in Files : walked[f] # Gone /\ (Recorded(f) # walked[f] \/ f \in Reconcile)}

Stop == bpc' = "idle" /\ walked' = Nothing /\ texts' = Nothing

KeepIndex ==
  /\ bpc = "walk" /\ DOMAIN walked = Files
  /\ UpToDate
  /\ Stop
  /\ UNCHANGED <<treeVars, indexVars, clean>>

StartReading ==
  /\ bpc = "walk" /\ DOMAIN walked = Files
  /\ ~UpToDate
  /\ bpc' = "read"
  /\ UNCHANGED <<treeVars, indexVars, walked, texts, clean>>

(* The text read is the one there now, not the one the walk saw.           *)
ReadFile(f) ==
  /\ bpc = "read" /\ f \in Changed \ DOMAIN texts
  /\ tree[f] # Gone
  /\ texts' = With(texts, f, ChunksOf[tree[f]])
  /\ UNCHANGED <<treeVars, indexVars, bpc, walked, clean>>

(* A file removed since the walk fails the build.                          *)
FileVanished(f) ==
  /\ bpc = "read" /\ f \in Changed \ DOMAIN texts
  /\ tree[f] = Gone
  /\ Stop
  /\ UNCHANGED <<treeVars, indexVars, clean>>

MarkPending ==
  /\ bpc = "read" /\ DOMAIN texts = Changed
  /\ pending' = TRUE
  /\ bpc' = "publish"
  /\ UNCHANGED <<treeVars, live, inventory, walked, texts, clean>>

(* Mutation of Stale: the chunks a file lost are forgotten.                *)
StaleFile(row) == walked[row.file] = Gone

(* Live chunks of files no longer there, or that their file lost.          *)
Stale(row) ==
  \/ walked[row.file] = Gone
  \/ row.file \in DOMAIN texts /\ \A c \in texts[row.file] : c.slot # row.slot

(* upsert_documents_prepared: one commit (Replace of DocStore).            *)
Publish ==
  /\ bpc = "publish"
  /\ LET added == UNION {RowsOf(f, texts[f]) : f \in DOMAIN texts}
         kept  == {r \in live : ~Stale(r) /\ \A n \in added : Id(n) # Id(r)}
     IN  live' = kept \cup added
  /\ bpc' = "save"
  /\ UNCHANGED <<treeVars, inventory, pending, walked, texts, clean>>

(* Mutation of NewRecord: the identity is read when the record is made.    *)
NewRecordRestatted(f) ==
  [ident |-> tree[f],
   slots |-> IF f \in DOMAIN texts THEN {c.slot : c \in texts[f]}
             ELSE IF walked[f] = Gone \/ inventory = NoInventory THEN {}
             ELSE inventory[f].slots]

NewRecord(f) ==
  [ident |-> walked[f],
   slots |-> IF f \in DOMAIN texts THEN {c.slot : c \in texts[f]}
             ELSE IF walked[f] = Gone \/ inventory = NoInventory THEN {}
             ELSE inventory[f].slots]

SaveInventory ==
  /\ bpc = "save"
  /\ inventory' = [f \in Files |-> NewRecord(f)]
  /\ bpc' = "clear"
  /\ UNCHANGED <<treeVars, live, pending, walked, texts, clean>>

ClearPending ==
  /\ bpc = "clear"
  /\ pending' = FALSE
  /\ Stop
  /\ UNCHANGED <<treeVars, live, inventory, clean>>

(* An error (the encoder, the disk) or the death of the process ends the   *)
(* build with the files as they are.                                       *)
Fail ==
  /\ bpc # "idle"
  /\ Stop
  /\ UNCHANGED <<treeVars, indexVars, clean>>

Build ==
  \/ \E f \in Files : Stat(f) \/ ReadFile(f) \/ FileVanished(f)
  \/ KeepIndex \/ StartReading \/ MarkPending \/ Publish \/ SaveInventory \/ ClearPending

Next == (\E f \in Files : Edit(f)) \/ Begin \/ Build \/ Fail

Spec == Init /\ [][Next]_vars

-----------------------------------------------------------------------------
(* Properties *)

Text(v)      == IF v = Gone THEN {} ELSE ChunksOf[v]
LiveOf(f)    == {r \in live : r.file = f}
Exact        == \A f \in Files : LiveOf(f) = RowsOf(f, Text(tree[f]))

(* A build during which the tree did not change leaves exactly the tree in *)
(* the index, from whatever earlier builds left when they failed, were     *)
(* killed or raced with edits; also when it decides to do nothing.         *)
BuildIsExact == [][(KeepIndex \/ ClearPending) /\ clean => Exact']_vars

(* The files the next build will not look into are right: their recorded   *)
(* identity is the one on disk and their chunk ids are all accounted for.  *)
BelievedIsRight ==
  \A f \in Files :
    Recorded(f) = tree[f] /\ f \notin Reconcile => LiveOf(f) = RowsOf(f, Text(tree[f]))

(* A search never sees half a file: the live chunks of a file are those of *)
(* one version it has had, or none, in the middle of a build too.          *)
FilesAreWhole ==
  \A f \in Files : \E v \in past[f] \cup {Gone} : LiveOf(f) = RowsOf(f, Text(v))
===============================================================================
