---------------------------- MODULE RepoBuildProofs ----------------------------
(***************************************************************************)
(* Theorems about RepoBuild, for any files, versions and texts, and any    *)
(* number of edits, builds and failures.                                   *)
(***************************************************************************)
EXTENDS RepoBuild, TLAPS

(* A file's part in Reconcile. *)
LiveSlots(f) == {r.slot : r \in LiveOf(f)}
Accounted(f) == IF inventory = NoInventory THEN {} ELSE inventory[f].slots

(* What the walk and the reading of a build know of a file.                *)
WalkInv(f) ==
  /\ walked[f] \in past[f] \cup {Gone}
  /\ Recorded(f) \notin {Gone, walked[f]} => tree[f] # Recorded(f)
  /\ clean => walked[f] = tree[f]

TextInv(f) ==
  /\ f \in DOMAIN walked /\ walked[f] # Gone
  /\ \E v \in past[f] : texts[f] = ChunksOf[v] /\ (walked[f] = tree[f] => v = tree[f])

(* From the commit on the index has what was read, and from its decision   *)
(* on the build has left alone what it believed.                           *)
StageInv(f) ==
  /\ bpc \in {"save", "clear"} => /\ f \in DOMAIN texts => LiveOf(f) = RowsOf(f, texts[f])
                                  /\ walked[f] = Gone => LiveOf(f) = {}
  /\ bpc \in {"publish", "save", "clear"} /\ f \notin DOMAIN texts /\ walked[f] # Gone =>
       Recorded(f) = walked[f] /\ LiveSlots(f) = Accounted(f)
  /\ bpc = "clear" => Recorded(f) = walked[f]

(* A version that is gone does not come back, so a record of another       *)
(* version than the one walked can never be right again.                   *)
FileInv(f) ==
  /\ tree[f] \in past[f] \cup {Gone}
  /\ Recorded(f) \in past[f] \cup {Gone}
  /\ Recorded(f) = Gone => Accounted(f) = {}
  /\ Recorded(f) = tree[f] /\ LiveSlots(f) = Accounted(f) => LiveOf(f) = RowsOf(f, Text(tree[f]))
  /\ \E v \in past[f] \cup {Gone} : LiveOf(f) = RowsOf(f, Text(v))
  /\ f \in DOMAIN walked => WalkInv(f)
  /\ f \in DOMAIN texts => TextInv(f)
  /\ StageInv(f)

BuildInv ==
  /\ TypeOK
  /\ bpc \in {"read", "publish", "save", "clear"} => DOMAIN walked = Files
  /\ bpc = "idle" => walked = Nothing
  /\ bpc \in {"idle", "walk"} => texts = Nothing
  /\ \A f \in Files : FileInv(f)

-----------------------------------------------------------------------------
(* The index, file by file. *)

LEMMA RowTypes ==
  ASSUME NEW r \in Rows
  PROVE  /\ r.file \in Files /\ r.slot \in Slots /\ r.body \in Bodies
         /\ r = [file |-> r.file, slot |-> r.slot, body |-> r.body]
  BY DEF Rows

LEMMA ReconcileByFile ==
  ASSUME TypeOK, NEW f \in Files
  PROVE  f \in Reconcile <=> LiveSlots(f) # Accounted(f)
<1>1. \A s : <<f, s>> \in LiveIds <=> s \in LiveSlots(f)
  BY RowTypes DEF TypeOK, LiveIds, Id, LiveSlots, LiveOf
<1>2. ASSUME NEW s
      PROVE  <<f, s>> \in RecordedIds <=> s \in Accounted(f)
  <2>1. CASE inventory = NoInventory
    BY <2>1 DEF RecordedIds, Accounted
  <2>2. CASE inventory # NoInventory
    <3>1. RecordedIds = UNION {{<<g, t>> : t \in inventory[g].slots} : g \in Files}
      BY <2>2 DEF RecordedIds
    <3>2. <<f, s>> \in RecordedIds <=> \E g \in Files : \E t \in inventory[g].slots : <<f, s>> = <<g, t>>
      BY <3>1
    <3> QED
      BY <2>2, <3>2 DEF Accounted
  <2> QED
    BY <2>1, <2>2
<1>3. \A id \in LiveIds \cup RecordedIds : id = <<id[1], id[2]>>
  <2>1. \A id \in LiveIds : id = <<id[1], id[2]>>
    BY DEF LiveIds, Id
  <2>2. ASSUME NEW id \in RecordedIds
        PROVE  id = <<id[1], id[2]>>
    <3>1. inventory # NoInventory
      BY DEF RecordedIds
    <3>2. PICK g \in Files : id \in {<<g, t>> : t \in inventory[g].slots}
      BY <3>1 DEF RecordedIds
    <3> QED
      BY <3>2
  <2> QED
    BY <2>1, <2>2
<1>4. f \in Reconcile <=> \E s : /\ <<f, s>> \in LiveIds \cup RecordedIds
                                 /\ ~(<<f, s>> \in LiveIds /\ <<f, s>> \in RecordedIds)
  <2> DEFINE D == (LiveIds \ RecordedIds) \cup (RecordedIds \ LiveIds)
  <2>1. f \in Reconcile <=> \E id \in D : f = id[1]
    BY DEF Reconcile
  <2>2. \A id \in D : f = id[1] => id = <<f, id[2]>>
    BY <1>3
  <2>3. \A s : <<f, s>> \in D => <<f, s>>[1] = f
    OBVIOUS
  <2>4. f \in Reconcile <=> \E s : <<f, s>> \in D
    <3> HIDE DEF D
    <3> QED
      BY <2>1, <2>2, <2>3
  <2> QED
    BY <2>4
<1> QED
  BY <1>1, <1>2, <1>4

LEMMA BelievedFromInv == BuildInv => BelievedIsRight /\ FilesAreWhole
<1> SUFFICES ASSUME BuildInv PROVE BelievedIsRight /\ FilesAreWhole
  OBVIOUS
<1>1. TypeOK /\ \A f \in Files : FileInv(f)
  BY DEF BuildInv
<1>2. ASSUME NEW f \in Files, Recorded(f) = tree[f], f \notin Reconcile
      PROVE  LiveOf(f) = RowsOf(f, Text(tree[f]))
  BY <1>1, <1>2, ReconcileByFile DEF FileInv
<1> QED
  BY <1>1, <1>2 DEF BelievedIsRight, FilesAreWhole, FileInv

(* What a commit does to the rows of a file. *)
LEMMA PublishByFile ==
  ASSUME BuildInv, Publish, NEW f \in Files
  PROVE  /\ f \in DOMAIN texts => LiveOf(f)' = RowsOf(f, texts[f])
         /\ f \notin DOMAIN texts => LiveOf(f)' = IF walked[f] = Gone THEN {} ELSE LiveOf(f)
         /\ live' \subseteq Rows
<1> DEFINE added == UNION {RowsOf(g, texts[g]) : g \in DOMAIN texts}
           kept  == {r \in live : ~Stale(r) /\ \A n \in added : Id(n) # Id(r)}
<1>1. live' = kept \cup added /\ live \subseteq Rows
  BY DEF Publish, BuildInv, TypeOK
<1>2. \A g \in DOMAIN texts : g \in Files /\ texts[g] \subseteq Chunks
  BY DEF BuildInv, TypeOK
<1>3. \A g \in DOMAIN texts : \A c \in texts[g] : /\ Row(g, c) \in Rows /\ Row(g, c).file = g
                                                  /\ Row(g, c).slot = c.slot
  BY <1>2 DEF Row, Rows, Chunks
<1>4. added \subseteq Rows
  BY <1>3 DEF RowsOf
<1>5. {r \in added : r.file = f} = IF f \in DOMAIN texts THEN RowsOf(f, texts[f]) ELSE {}
  BY <1>3 DEF RowsOf
<1>6. ASSUME f \in DOMAIN texts
      PROVE  {r \in kept : r.file = f} = {}
  <2> SUFFICES ASSUME NEW r \in kept, r.file = f
               PROVE  FALSE
    OBVIOUS
  <2>1. PICK c \in texts[f] : c.slot = r.slot
    BY <1>6 DEF Stale
  <2>2. Row(f, c) \in added
    BY <1>6 DEF RowsOf
  <2>3. Id(Row(f, c)) = Id(r)
    BY <1>3, <1>6, <2>1 DEF Id
  <2> QED
    BY <2>2, <2>3
<1>7. ASSUME f \notin DOMAIN texts
      PROVE  {r \in kept : r.file = f} = IF walked[f] = Gone THEN {} ELSE LiveOf(f)
  <2>1. \A n \in added : n.file # f
    BY <1>5, <1>7
  <2>2. \A r \in live : r.file = f => \A n \in added : Id(n) # Id(r)
    BY <2>1 DEF Id
  <2> QED
    BY <1>7, <2>2 DEF Stale, LiveOf
<1>8. LiveOf(f)' = {r \in kept : r.file = f} \cup {r \in added : r.file = f}
  BY <1>1 DEF LiveOf
<1> HIDE DEF kept, added
<1>9. kept \subseteq Rows
  BY <1>1 DEF kept
<1> QED
  BY <1>1, <1>4, <1>5, <1>6, <1>7, <1>8, <1>9

-----------------------------------------------------------------------------
(* Every step keeps the invariant of a build. *)

LEMMA InitBuild == Init => BuildInv
<1> SUFFICES ASSUME Init PROVE BuildInv
  OBVIOUS
<1>1. <<>> \in [{} -> Versions \cup {Gone}] /\ <<>> \in [{} -> SUBSET Chunks] /\ DOMAIN <<>> = {}
  OBVIOUS
<1>2. TypeOK
  <2>1. tree \in [Files -> Versions \cup {Gone}] /\ past \in [Files -> SUBSET Versions]
    BY DEF Init
  <2>2. {} \in SUBSET Files /\ {} \in SUBSET DOMAIN walked
    OBVIOUS
  <2>3. edits \in 0 .. MaxEdits
    BY EditsAssumption DEF Init
  <2> QED
    BY <1>1, <2>1, <2>2, <2>3 DEF Init, TypeOK, Nothing
<1>3. ASSUME NEW f \in Files
      PROVE  FileInv(f)
  <2>1. tree[f] = Gone /\ Recorded(f) = Gone /\ Accounted(f) = {} /\ LiveOf(f) = {}
    BY DEF Init, Recorded, Accounted, LiveOf
  <2>2. RowsOf(f, Text(Gone)) = {}
    BY DEF RowsOf, Text
  <2>3. DOMAIN walked = {} /\ DOMAIN texts = {} /\ bpc = "idle"
    BY <1>1 DEF Init, Nothing
  <2> QED
    BY <2>1, <2>2, <2>3 DEF FileInv, StageInv
<1> QED
  BY <1>2, <1>3 DEF BuildInv, Init

(* A file of which nothing changes. *)
LEMMA FileKept ==
  ASSUME NEW f \in Files, FileInv(f), UNCHANGED <<treeVars, indexVars, buildVars>>
  PROVE  FileInv(f)'
  BY DEF FileInv, WalkInv, TextInv, StageInv, Recorded, Accounted, LiveSlots, LiveOf,
         treeVars, indexVars, buildVars

LEMMA EditKeeps ==
  ASSUME BuildInv, NEW g \in Files, Edit(g)
  PROVE  BuildInv'
<1> USE ChunksAssumption, EditsAssumption
<1>1. TypeOK /\ UNCHANGED <<indexVars, bpc, walked, texts>> /\ clean' = FALSE
  BY DEF BuildInv, Edit
<1>2. PICK v \in (Versions \cup {Gone}) \ (past[g] \cup {tree[g]}) :
        /\ tree' = [tree EXCEPT ![g] = v]
        /\ past' = [past EXCEPT ![g] = (@ \cup {v}) \ {Gone}]
  BY DEF Edit
<1>3. TypeOK'
  <2>1. tree' \in [Files -> Versions \cup {Gone}]
    BY <1>1, <1>2 DEF TypeOK
  <2>2. past' \in [Files -> SUBSET Versions]
    <3>1. (past[g] \cup {v}) \ {Gone} \in SUBSET Versions
      BY <1>1, <1>2 DEF TypeOK
    <3> QED
      BY <1>1, <1>2, <3>1 DEF TypeOK
  <2>3. edits' \in 0 .. MaxEdits
    BY <1>1 DEF TypeOK, Edit
  <2> QED
    BY <1>1, <2>1, <2>2, <2>3 DEF TypeOK, indexVars
<1>4. ASSUME NEW f \in Files
      PROVE  FileInv(f)'
  <2>1. FileInv(f)
    BY DEF BuildInv
  <2>2. /\ Recorded(f)' = Recorded(f) /\ Accounted(f)' = Accounted(f) /\ LiveOf(f)' = LiveOf(f)
        /\ LiveSlots(f)' = LiveSlots(f)
    BY <1>1 DEF Recorded, Accounted, LiveOf, LiveSlots, indexVars
  <2>3. past[f] \subseteq past'[f] /\ tree'[f] \in past'[f] \cup {Gone}
    BY <1>1, <1>2, <2>1 DEF FileInv, TypeOK
  <2>4. tree'[f] = tree[f] \/ tree'[f] \notin past[f]
    BY <1>1, <1>2 DEF TypeOK
  <2>5. Recorded(f) = tree'[f] /\ LiveSlots(f) = Accounted(f) => LiveOf(f) = RowsOf(f, Text(tree'[f]))
    <3>1. CASE tree'[f] = tree[f]
      BY <2>1, <3>1 DEF FileInv
    <3>2. CASE tree'[f] # tree[f] /\ Recorded(f) = tree'[f] /\ LiveSlots(f) = Accounted(f)
      <4>1. Recorded(f) = Gone
        BY <2>1, <2>4, <3>2 DEF FileInv
      <4>2. LiveOf(f) = {}
        BY <2>1, <3>2, <4>1 DEF FileInv, LiveSlots
      <4> QED
        BY <3>2, <4>1, <4>2 DEF RowsOf, Text
    <3> QED
      BY <3>1, <3>2
  <2>6. f \in DOMAIN walked => WalkInv(f)'
    BY <1>1, <2>1, <2>2, <2>3, <2>4 DEF FileInv, WalkInv
  <2>7. f \in DOMAIN texts => TextInv(f)'
    BY <1>1, <2>1, <2>3, <2>4 DEF FileInv, TextInv, WalkInv
  <2>8. StageInv(f)'
    BY <1>1, <2>1, <2>2 DEF FileInv, StageInv, LiveOf
  <2> QED
    BY <1>1, <2>1, <2>2, <2>3, <2>5, <2>6, <2>7, <2>8 DEF FileInv
<1> QED
  BY <1>1, <1>3, <1>4 DEF BuildInv

(* Steps that leave tree and index alone. *)
LEMMA FileFrame ==
  ASSUME UNCHANGED <<treeVars, indexVars>>, NEW f \in Files
  PROVE  /\ Recorded(f)' = Recorded(f) /\ Accounted(f)' = Accounted(f)
         /\ LiveOf(f)' = LiveOf(f) /\ LiveSlots(f)' = LiveSlots(f)
         /\ tree'[f] = tree[f] /\ past'[f] = past[f]
  BY DEF Recorded, Accounted, LiveOf, LiveSlots, treeVars, indexVars

(* A build that stops leaves nothing but the index. *)
LEMMA StopKeeps ==
  ASSUME BuildInv, Stop, UNCHANGED <<treeVars, live, inventory>>, pending' \in BOOLEAN, clean' \in BOOLEAN
  PROVE  BuildInv'
<1>1. <<>> \in [{} -> Versions \cup {Gone}] /\ <<>> \in [{} -> SUBSET Chunks] /\ DOMAIN <<>> = {}
  OBVIOUS
<1>2. bpc' = "idle" /\ DOMAIN walked' = {} /\ DOMAIN texts' = {} /\ walked' = Nothing /\ texts' = Nothing
  BY <1>1 DEF Stop, Nothing
<1>3. TypeOK'
  <2>1. {} \in SUBSET Files /\ {} \in SUBSET DOMAIN walked'
    OBVIOUS
  <2> QED
    BY <1>1, <1>2, <2>1 DEF BuildInv, TypeOK, treeVars, Nothing
<1>4. ASSUME NEW f \in Files
      PROVE  FileInv(f)'
  <2>1. FileInv(f)
    BY DEF BuildInv
  <2>2. /\ Recorded(f)' = Recorded(f) /\ Accounted(f)' = Accounted(f) /\ LiveOf(f)' = LiveOf(f)
        /\ LiveSlots(f)' = LiveSlots(f) /\ tree'[f] = tree[f] /\ past'[f] = past[f]
    BY DEF Recorded, Accounted, LiveOf, LiveSlots, treeVars
  <2> QED
    BY <1>2, <2>1, <2>2 DEF FileInv, StageInv
<1> QED
  BY <1>2, <1>3, <1>4 DEF BuildInv

LEMMA StatKeeps ==
  ASSUME BuildInv, NEW g \in Files, Stat(g)
  PROVE  BuildInv'
<1>1. TypeOK /\ bpc = "walk" /\ texts = Nothing /\ g \notin DOMAIN walked
  BY DEF BuildInv, Stat
<1>2. UNCHANGED <<treeVars, indexVars, bpc, texts, clean>>
  BY DEF Stat
<1>3. PICK seen \in SUBSET Files : walked \in [seen -> Versions \cup {Gone}]
  BY <1>1 DEF TypeOK
<1>4. /\ DOMAIN walked' = DOMAIN walked \cup {g} /\ walked'[g] = tree[g]
      /\ \A f \in DOMAIN walked : walked'[f] = walked[f]
      /\ walked' \in [seen \cup {g} -> Versions \cup {Gone}]
  BY <1>1, <1>3 DEF Stat, With, TypeOK
<1>5. DOMAIN texts = {} /\ texts \in [{} -> SUBSET Chunks]
  BY <1>1 DEF Nothing
<1>6. TypeOK'
  <2>1. seen \cup {g} \in SUBSET Files /\ {} \in SUBSET DOMAIN walked'
    BY <1>3
  <2> QED
    BY <1>1, <1>2, <1>4, <1>5, <2>1 DEF TypeOK, treeVars, indexVars
<1>7. ASSUME NEW f \in Files
      PROVE  FileInv(f)'
  <2>1. FileInv(f)
    BY DEF BuildInv
  <2>2. f \in DOMAIN walked' => WalkInv(f)'
    BY <1>2, <1>4, <2>1, FileFrame DEF FileInv, WalkInv
  <2>3. StageInv(f)'
    BY <1>1, <1>2 DEF StageInv
  <2> QED
    BY <1>2, <1>5, <2>1, <2>2, <2>3, FileFrame DEF FileInv
<1> QED
  BY <1>1, <1>2, <1>6, <1>7 DEF BuildInv, Nothing

(* A file that will not be read is as it was believed to be. *)
LEMMA UnchangedFile ==
  ASSUME TypeOK, NEW f \in Files
  PROVE  f \in Changed <=> walked[f] # Gone /\ (Recorded(f) # walked[f] \/ LiveSlots(f) # Accounted(f))
  BY ReconcileByFile DEF Changed

LEMMA ReadFileKeeps ==
  ASSUME BuildInv, NEW g \in Files, ReadFile(g)
  PROVE  BuildInv'
<1>1. TypeOK /\ bpc = "read" /\ g \in Changed /\ g \notin DOMAIN texts /\ tree[g] # Gone /\ DOMAIN walked = Files
  BY DEF BuildInv, ReadFile
<1>2. UNCHANGED <<treeVars, indexVars, bpc, walked, clean>>
  BY DEF ReadFile
<1>3. PICK done \in SUBSET DOMAIN walked : texts \in [done -> SUBSET Chunks]
  BY <1>1 DEF TypeOK
<1>4. tree[g] \in past[g] /\ ChunksOf[tree[g]] \in SUBSET Chunks
  BY <1>1, ChunksAssumption DEF BuildInv, FileInv, TypeOK
<1>5. /\ DOMAIN texts' = DOMAIN texts \cup {g} /\ texts'[g] = ChunksOf[tree[g]]
      /\ \A f \in DOMAIN texts : texts'[f] = texts[f]
      /\ texts' \in [done \cup {g} -> SUBSET Chunks]
  BY <1>1, <1>3, <1>4 DEF ReadFile, With
<1>6. TypeOK'
  <2>1. done \cup {g} \in SUBSET DOMAIN walked'
    BY <1>1, <1>2, <1>3
  <2> QED
    BY <1>1, <1>2, <1>5, <2>1 DEF TypeOK, treeVars, indexVars
<1>7. ASSUME NEW f \in Files
      PROVE  FileInv(f)'
  <2>1. FileInv(f)
    BY DEF BuildInv
  <2>2. f \in DOMAIN texts' => TextInv(f)'
    <3>1. CASE f = g
      BY <1>1, <1>2, <1>4, <1>5, <3>1, FileFrame, UnchangedFile DEF TextInv
    <3>2. CASE f # g
      BY <1>2, <1>5, <2>1, <3>2, FileFrame DEF FileInv, TextInv
    <3> QED
      BY <3>1, <3>2
  <2>3. f \in DOMAIN walked' => WalkInv(f)'
    BY <1>2, <2>1, FileFrame DEF FileInv, WalkInv
  <2>4. StageInv(f)'
    BY <1>1, <1>2 DEF StageInv
  <2> QED
    BY <2>1, <2>2, <2>3, <2>4, <1>2, FileFrame DEF FileInv
<1> QED
  BY <1>1, <1>2, <1>6, <1>7 DEF BuildInv

(* Steps of the build that only decide.                                    *)
LEMMA DecisionKeeps ==
  ASSUME BuildInv, Begin \/ StartReading \/ MarkPending
  PROVE  BuildInv'
<1>1. TypeOK /\ UNCHANGED <<treeVars, live, inventory>>
  BY DEF BuildInv, Begin, StartReading, MarkPending, indexVars
<1>2. CASE Begin
  <2>0. <<>> \in [{} -> Versions \cup {Gone}] /\ <<>> \in [{} -> SUBSET Chunks] /\ DOMAIN <<>> = {}
    OBVIOUS
  <2>1. walked' = Nothing /\ texts' = Nothing /\ bpc' = "walk" /\ DOMAIN walked' = {} /\ DOMAIN texts' = {}
    BY <1>2, <2>0 DEF Begin, Nothing
  <2>2. TypeOK'
    <3>1. {} \in SUBSET Files /\ {} \in SUBSET DOMAIN walked'
      OBVIOUS
    <3> QED
      BY <1>1, <1>2, <2>0, <2>1, <3>1 DEF Begin, TypeOK, treeVars, indexVars, Nothing
  <2>3. ASSUME NEW f \in Files
        PROVE  FileInv(f)'
    BY <1>2, <2>1, FileFrame DEF Begin, BuildInv, FileInv, StageInv
  <2> QED
    BY <2>1, <2>2, <2>3 DEF BuildInv
<1>3. CASE StartReading
  <2>1. TypeOK'
    BY <1>1, <1>3 DEF StartReading, TypeOK, treeVars, indexVars
  <2>2. ASSUME NEW f \in Files
        PROVE  FileInv(f)'
    BY <1>3, FileFrame DEF StartReading, BuildInv, FileInv, StageInv, WalkInv, TextInv
  <2> QED
    BY <1>3, <2>1, <2>2 DEF BuildInv, StartReading
<1>4. CASE MarkPending
  <2>1. TypeOK'
    BY <1>1, <1>4 DEF MarkPending, TypeOK, treeVars
  <2>2. ASSUME NEW f \in Files
        PROVE  FileInv(f)'
    <3>1. FileInv(f)
      BY DEF BuildInv
    <3>2. /\ Recorded(f)' = Recorded(f) /\ Accounted(f)' = Accounted(f) /\ LiveOf(f)' = LiveOf(f)
          /\ LiveSlots(f)' = LiveSlots(f) /\ tree' = tree /\ past' = past
          /\ walked' = walked /\ texts' = texts /\ clean' = clean /\ bpc' = "publish"
      BY <1>4 DEF MarkPending, Recorded, Accounted, LiveOf, LiveSlots, treeVars
    <3>3. f \notin DOMAIN texts /\ walked[f] # Gone => Recorded(f) = walked[f] /\ LiveSlots(f) = Accounted(f)
      BY <1>1, <1>4, UnchangedFile DEF MarkPending
    <3>4. StageInv(f)'
      BY <3>2, <3>3 DEF StageInv
    <3> QED
      BY <3>1, <3>2, <3>4 DEF FileInv, WalkInv, TextInv
  <2> QED
    BY <1>4, <2>1, <2>2 DEF BuildInv, MarkPending
<1> QED
  BY <1>2, <1>3, <1>4

LEMMA PublishKeeps ==
  ASSUME BuildInv, Publish
  PROVE  BuildInv'
<1>1. TypeOK /\ bpc = "publish" /\ bpc' = "save" /\ UNCHANGED <<treeVars, inventory, pending, walked, texts, clean>>
  BY DEF BuildInv, Publish
<1>2. TypeOK'
  <2>1. live' \subseteq Rows
    <3>1. Files # {} => live' \subseteq Rows
      BY PublishByFile
    <3>2. Files = {} => live' = {}
      BY <1>1 DEF Publish, TypeOK, Rows
    <3> QED
      BY <3>1, <3>2
  <2> QED
    BY <1>1, <2>1 DEF TypeOK, treeVars
<1>3. ASSUME NEW f \in Files
      PROVE  FileInv(f)'
  <2>1. FileInv(f) /\ f \in DOMAIN walked
    BY <1>1 DEF BuildInv
  <2>2. /\ Recorded(f)' = Recorded(f) /\ Accounted(f)' = Accounted(f) /\ tree' = tree /\ past' = past
        /\ walked' = walked /\ texts' = texts /\ clean' = clean
    BY <1>1 DEF Recorded, Accounted, treeVars
  <2>3. WalkInv(f) /\ WalkInv(f)' /\ (f \in DOMAIN texts => TextInv(f) /\ TextInv(f)')
    BY <2>1, <2>2 DEF FileInv, WalkInv, TextInv
  <2>4. CASE f \in DOMAIN texts
    <3>1. LiveOf(f)' = RowsOf(f, texts[f])
      BY <2>4, PublishByFile
    <3>2. PICK v \in past[f] : texts[f] = ChunksOf[v] /\ (walked[f] = tree[f] => v = tree[f])
      BY <2>3, <2>4 DEF TextInv
    <3>3. v # Gone /\ Text(v) = ChunksOf[v]
      BY <1>1, ChunksAssumption DEF TypeOK, Text
    <3>4. ASSUME Recorded(f) = tree[f], LiveSlots(f)' = Accounted(f)
          PROVE  LiveOf(f)' = RowsOf(f, Text(tree[f]))
      <4>1. CASE Recorded(f) = Gone
        <5>1. LiveOf(f)' = {}
          BY <2>1, <3>4, <4>1 DEF FileInv, LiveSlots
        <5> QED
          BY <3>4, <4>1, <5>1 DEF RowsOf, Text
      <4>2. CASE Recorded(f) # Gone
        BY <2>3, <3>1, <3>2, <3>3, <3>4, <4>2 DEF WalkInv
      <4> QED
        BY <4>1, <4>2
    <3>5. StageInv(f)'
      BY <1>1, <2>2, <2>3, <2>4, <3>1 DEF StageInv, TextInv
    <3>6. LiveOf(f)' = RowsOf(f, Text(v))
      BY <3>1, <3>2, <3>3
    <3> QED
      BY <2>1, <2>2, <2>3, <3>4, <3>5, <3>6 DEF FileInv
  <2>5. CASE f \notin DOMAIN texts /\ walked[f] = Gone
    <3>1. LiveOf(f)' = {} /\ RowsOf(f, Text(Gone)) = {}
      BY <2>5, PublishByFile DEF RowsOf, Text
    <3>2. ASSUME Recorded(f) = tree[f]
          PROVE  LiveOf(f)' = RowsOf(f, Text(tree[f]))
      BY <2>3, <2>5, <3>1, <3>2 DEF WalkInv
    <3>3. StageInv(f)'
      BY <1>1, <2>2, <2>5, <3>1 DEF StageInv
    <3> QED
      BY <2>1, <2>2, <2>3, <2>5, <3>1, <3>2, <3>3 DEF FileInv
  <2>6. CASE f \notin DOMAIN texts /\ walked[f] # Gone
    <3>1. LiveOf(f)' = LiveOf(f) /\ LiveSlots(f)' = LiveSlots(f)
      BY <2>6, PublishByFile DEF LiveSlots
    <3>2. StageInv(f)'
      BY <1>1, <2>1, <2>2, <2>6, <3>1 DEF FileInv, StageInv
    <3> QED
      BY <2>1, <2>2, <2>3, <2>6, <3>1, <3>2 DEF FileInv
  <2> QED
    BY <2>4, <2>5, <2>6
<1> QED
  BY <1>1, <1>2, <1>3 DEF BuildInv

LEMMA SaveInventoryKeeps ==
  ASSUME BuildInv, SaveInventory
  PROVE  BuildInv'
<1>1. TypeOK /\ bpc = "save" /\ bpc' = "clear" /\ UNCHANGED <<treeVars, live, pending, walked, texts, clean>>
  BY DEF BuildInv, SaveInventory
<1>2. inventory' = [f \in Files |-> NewRecord(f)] /\ DOMAIN walked = Files
  BY <1>1 DEF BuildInv, SaveInventory
<1>3. ASSUME NEW f \in Files
      PROVE  NewRecord(f) \in Records
  <2>1. walked[f] \in Versions \cup {Gone}
    BY <1>1, <1>2 DEF TypeOK
  <2>2. f \in DOMAIN texts => {c.slot : c \in texts[f]} \in SUBSET Slots
    BY <1>1 DEF TypeOK, Chunks
  <2>3. inventory # NoInventory => inventory[f].slots \in SUBSET Slots
    BY <1>1 DEF TypeOK, Records
  <2> QED
    BY <2>1, <2>2, <2>3 DEF NewRecord, Records
<1>4. TypeOK'
  BY <1>1, <1>2, <1>3 DEF TypeOK, treeVars
<1>5. ASSUME NEW f \in Files
      PROVE  FileInv(f)'
  <2>1. FileInv(f) /\ f \in DOMAIN walked /\ WalkInv(f)
    BY <1>2 DEF BuildInv, FileInv
  <2>2. inventory' # NoInventory
    BY <1>2 DEF NoInventory
  <2>3. /\ Recorded(f)' = walked[f]
        /\ Accounted(f)' = IF f \in DOMAIN texts THEN {c.slot : c \in texts[f]}
                           ELSE IF walked[f] = Gone THEN {} ELSE Accounted(f)
    BY <1>2, <2>2 DEF Recorded, Accounted, NewRecord
  <2>4. /\ LiveOf(f)' = LiveOf(f) /\ LiveSlots(f)' = LiveSlots(f) /\ tree' = tree /\ past' = past
        /\ walked' = walked /\ texts' = texts /\ clean' = clean
    BY <1>1 DEF LiveOf, LiveSlots, treeVars
  <2>5. f \in DOMAIN texts => TextInv(f) /\ TextInv(f)'
    BY <2>1, <2>4 DEF FileInv, TextInv
  <2>6. WalkInv(f)'
    BY <2>1, <2>3, <2>4 DEF WalkInv
  <2>7. StageInv(f)'
    BY <1>1, <2>1, <2>3, <2>4 DEF FileInv, StageInv
  <2>8. ASSUME walked[f] = tree[f]
        PROVE  LiveOf(f) = RowsOf(f, Text(tree[f])) \/ LiveSlots(f) # Accounted(f)'
    <3>1. CASE f \in DOMAIN texts
      BY <1>1, <2>1, <2>5, <2>8, <3>1 DEF FileInv, StageInv, TextInv, Text
    <3>2. CASE f \notin DOMAIN texts /\ walked[f] = Gone
      BY <1>1, <2>1, <2>8, <3>2 DEF FileInv, StageInv, Text, RowsOf
    <3>3. CASE f \notin DOMAIN texts /\ walked[f] # Gone
      BY <1>1, <2>1, <2>8, <3>3 DEF FileInv, StageInv
    <3> QED
      BY <3>1, <3>2, <3>3
  <2>9. walked[f] = Gone => Accounted(f)' = {}
    BY <2>3, <2>5 DEF TextInv
  <2> QED
    BY <2>1, <2>3, <2>4, <2>5, <2>6, <2>7, <2>8, <2>9 DEF FileInv, WalkInv
<1> QED
  BY <1>1, <1>2, <1>4, <1>5 DEF BuildInv

LEMMA BuildNextKeeps == BuildInv /\ [Next]_vars => BuildInv'
<1> SUFFICES ASSUME BuildInv, [Next]_vars PROVE BuildInv'
  OBVIOUS
<1>0. TypeOK
  BY DEF BuildInv
<1>1. CASE UNCHANGED vars
  <2>1. UNCHANGED <<treeVars, indexVars, buildVars>>
    BY <1>1 DEF vars, treeVars, indexVars, buildVars
  <2>2. TypeOK'
    BY <1>0, <2>1 DEF TypeOK, treeVars, indexVars, buildVars
  <2> QED
    BY <2>1, <2>2, FileKept DEF BuildInv, buildVars
<1>2. ASSUME NEW f \in Files, Edit(f) \/ Stat(f) \/ ReadFile(f)
      PROVE  BuildInv'
  BY <1>2, EditKeeps, StatKeeps, ReadFileKeeps
<1>3. CASE Begin \/ StartReading \/ MarkPending
  BY <1>3, DecisionKeeps
<1>4. CASE Publish \/ SaveInventory
  BY <1>4, PublishKeeps, SaveInventoryKeeps
<1>5. CASE KeepIndex \/ ClearPending \/ Fail \/ \E f \in Files : FileVanished(f)
  <2>1. Stop /\ UNCHANGED <<treeVars, live, inventory>>
    BY <1>5 DEF KeepIndex, ClearPending, Fail, FileVanished, indexVars
  <2>2. pending' \in BOOLEAN /\ clean' \in BOOLEAN
    BY <1>0, <1>5 DEF KeepIndex, ClearPending, Fail, FileVanished, indexVars, TypeOK
  <2> QED
    BY <2>1, <2>2, StopKeeps
<1> QED
  BY <1>1, <1>2, <1>3, <1>4, <1>5 DEF Next, Build

(* How a build that was not raced ends. *)
LEMMA CleanEnd ==
  ASSUME BuildInv, KeepIndex \/ ClearPending, clean
  PROVE  Exact'
<1> SUFFICES ASSUME NEW f \in Files
             PROVE  (LiveOf(f) = RowsOf(f, Text(tree[f])))'
  BY DEF Exact
<1>1. /\ FileInv(f) /\ LiveOf(f)' = LiveOf(f) /\ tree'[f] = tree[f] /\ f \in DOMAIN walked /\ TypeOK
  BY DEF BuildInv, KeepIndex, ClearPending, treeVars, indexVars, LiveOf
<1>2. walked[f] = tree[f]
  BY <1>1 DEF FileInv, WalkInv
<1>3. LiveOf(f) = RowsOf(f, Text(tree[f]))
  <2>1. CASE KeepIndex
    BY <1>1, <1>2, <2>1, ReconcileByFile DEF FileInv, KeepIndex, UpToDate
  <2>2. CASE ClearPending
    <3>1. CASE f \in DOMAIN texts
      BY <1>1, <1>2, <2>2, <3>1 DEF ClearPending, FileInv, StageInv, TextInv, Text
    <3>2. CASE f \notin DOMAIN texts /\ walked[f] = Gone
      BY <1>1, <1>2, <2>2, <3>2 DEF ClearPending, FileInv, StageInv, Text, RowsOf
    <3>3. CASE f \notin DOMAIN texts /\ walked[f] # Gone
      BY <1>1, <1>2, <2>2, <3>3 DEF ClearPending, FileInv, StageInv
    <3> QED
      BY <3>1, <3>2, <3>3
  <2> QED
    BY <2>1, <2>2
<1> QED
  BY <1>1, <1>3

(* In a build that was not raced no file can have gone.                    *)
LEMMA NothingVanishes ==
  ASSUME BuildInv, NEW f \in Files, FileVanished(f)
  PROVE  ~clean
<1>1. FileInv(f) /\ f \in DOMAIN walked /\ walked[f] # Gone /\ tree[f] = Gone
  BY DEF BuildInv, FileVanished, Changed
<1> QED
  BY <1>1 DEF FileInv, WalkInv

LEMMA ExactIsTheTree ==
  ASSUME TypeOK, Exact
  PROVE  live = UNION {RowsOf(f, Text(tree[f])) : f \in Files}
<1>1. \A r \in live : r.file \in Files /\ r \in LiveOf(r.file)
  BY RowTypes DEF TypeOK, LiveOf
<1>2. \A f \in Files : LiveOf(f) \subseteq live
  BY DEF LiveOf
<1> QED
  BY <1>1, <1>2 DEF Exact

(* Steps that leave tree and index as they are keep an exact index exact.  *)
LEMMA ExactKept ==
  ASSUME UNCHANGED <<tree, live>>
  PROVE  /\ Exact' = Exact
         /\ UNION {RowsOf(f, Text(tree[f])) : f \in Files}' = UNION {RowsOf(f, Text(tree[f])) : f \in Files}
  BY DEF Exact, LiveOf

(* A step of a build: it goes on, ends well, or finds a file gone.         *)
LEMMA BuildSteps ==
  ASSUME BuildInv, Build
  PROVE  /\ BuildInv' /\ UNCHANGED <<tree, clean>> /\ bpc # "idle"
         /\ bpc' # "idle" \/ (clean => Exact') \/ \E f \in Files : FileVanished(f)
<1>1. BuildInv'
  BY BuildNextKeeps DEF Next
<1>2. UNCHANGED <<tree, clean>> /\ bpc # "idle"
  BY DEF Build, Stat, ReadFile, FileVanished, KeepIndex, StartReading, MarkPending, Publish,
         SaveInventory, ClearPending, treeVars
<1>3. CASE KeepIndex \/ ClearPending
  BY <1>3, <1>1, <1>2, CleanEnd
<1>4. CASE \E f \in Files : FileVanished(f)
  BY <1>4, <1>1, <1>2
<1>5. CASE StartReading \/ MarkPending \/ Publish \/ SaveInventory \/ \E f \in Files : Stat(f) \/ ReadFile(f)
  <2>1. bpc' # "idle"
    BY <1>5 DEF StartReading, MarkPending, Publish, SaveInventory, Stat, ReadFile
  <2> QED
    BY <1>1, <1>2, <2>1
<1> QED
  BY <1>3, <1>4, <1>5 DEF Build

(* A step of a build that is not raced keeps an exact index exact.         *)
LEMMA BuildKeepsExact ==
  ASSUME BuildInv, Build, clean, Exact
  PROVE  Exact'
<1>1. tree' = tree
  BY DEF Build, Stat, ReadFile, FileVanished, KeepIndex, StartReading, MarkPending, Publish,
         SaveInventory, ClearPending, treeVars
<1>2. CASE Publish
  <2> SUFFICES ASSUME NEW f \in Files
               PROVE  LiveOf(f)' = RowsOf(f, Text(tree[f]))
    BY <1>1 DEF Exact
  <2>1. TypeOK /\ FileInv(f) /\ f \in DOMAIN walked /\ LiveOf(f) = RowsOf(f, Text(tree[f]))
    BY <1>2 DEF BuildInv, Publish, Exact
  <2>2. walked[f] = tree[f]
    BY <2>1 DEF FileInv, WalkInv
  <2>3. CASE f \in DOMAIN texts
    <3>1. texts[f] = ChunksOf[tree[f]] /\ tree[f] # Gone
      BY <2>1, <2>2, <2>3 DEF FileInv, TextInv
    <3> QED
      BY <1>2, <2>3, <3>1, PublishByFile DEF Text
  <2>4. CASE f \notin DOMAIN texts
    <3>1. walked[f] = Gone => LiveOf(f) = {}
      BY <2>1, <2>2 DEF RowsOf, Text
    <3>2. LiveOf(f)' = LiveOf(f)
      BY <1>2, <2>4, <3>1, PublishByFile
    <3> QED
      BY <2>1, <3>2
  <2> QED
    BY <2>3, <2>4
<1>3. CASE ~Publish
  <2>1. live' = live
    BY <1>3 DEF Build, Stat, ReadFile, FileVanished, KeepIndex, StartReading, MarkPending,
                SaveInventory, ClearPending, treeVars, indexVars
  <2> QED
    BY <1>1, <2>1, ExactKept
<1> QED
  BY <1>2, <1>3

-----------------------------------------------------------------------------
(* The builds alone. *)

(* The invariant of the incremental build: per file, what the index, the   *)
(* record and a build under way know, tied together by the fact that no    *)
(* version of a file comes back with its old identity.                     *)
THEOREM BuildInvariance == Spec => []BuildInv
  BY InitBuild, BuildNextKeeps, PTL DEF Spec

(* Identities, rows and records stay well-typed through every build.       *)
THEOREM BuildTypeCorrect == Spec => []TypeOK
<1>1. BuildInv => TypeOK
  BY DEF BuildInv
<1> QED
  BY <1>1, BuildInvariance, PTL

(* What the next build will not look into is right.                        *)
THEOREM BelievedStaysRight == Spec => []BelievedIsRight
  BY BelievedFromInv, BuildInvariance, PTL

(* The index never has part of a file, or parts of two versions of it.     *)
THEOREM FilesStayWhole == Spec => []FilesAreWhole
  BY BelievedFromInv, BuildInvariance, PTL

(* A build that nobody raced with ends with exactly the tree indexed.      *)
THEOREM BuildsAreExact == Spec => BuildIsExact
<1>1. BuildInv => [(KeepIndex \/ ClearPending) /\ clean => Exact']_vars
  BY CleanEnd
<1> QED
  BY <1>1, BuildInvariance, PTL DEF BuildIsExact
===============================================================================
