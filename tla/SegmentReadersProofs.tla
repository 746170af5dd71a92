------------------------- MODULE SegmentReadersProofs -------------------------
(***************************************************************************)
(* Theorems about SegmentStore, for any number of writers, any documents,  *)
(* batches and initial directories; and about SegmentReaders: what         *)
(* searches that open the index beside its writers see, for any number of  *)
(* both.                                                                   *)
(***************************************************************************)
EXTENDS SegmentReaders, FiniteSetTheorems, TLAPS

(* The strengthening.  While a writer works, the manifest it is building   *)
(* names intact segments only; the ones that are not published yet have    *)
(* numbers from the published counter up; and what the writer has done so  *)
(* far to the segment under construction is recorded step by step.         *)

Working == {"clear_dir", "clear_del", "create", "fill", "sidecars", "stage",
            "tombstones", "merged"}

(* The steps that act on the segment under construction. *)
Building == {"clear_del", "create", "fill", "sidecars", "tombstones"}

(* The new segment of a plan is finished and waits for the commit. *)
Prepared(w) ==
  /\ mem[w].next \in Names
  /\ mem[w].next < plan[w].next.next
  /\ mem[w].next \notin NamesIn(plan[w].next)
  /\ dirs[mem[w].next] = [stage |-> "complete", docs |-> plan[w].docs]
  /\ tombs[mem[w].next] = {}

PlanInv(w) ==
  /\ plan[w].next.next >= mem[w].next
  /\ Intact(plan[w].next)
  /\ plan[w].next.exists
  /\ Exact(plan[w].next)
  /\ \A n \in NamesIn(plan[w].next) : n \in NamesIn(mem[w]) \/ n >= mem[w].next
  /\ plan[w].kind \in {"change", "merge"}
  /\ plan[w].fresh => plan[w].next = mem[w]
  /\ ~plan[w].fresh /\ (plan[w].kind = "merge" \/ plan[w].docs # <<>>) => Prepared(w)
  /\ plan[w].kind = "merge" /\ ~plan[w].fresh => pc[w] = "merged"

StepInv(w) ==
  /\ pc[w] \in Building => Target(w) \in Names
  /\ pc[w] \in {"create", "fill", "sidecars"} => tombs[Target(w)] = {}
  /\ pc[w] = "sidecars" =>
       plan[w].fresh /\ dirs[Target(w)] = [stage |-> "indexed", docs |-> plan[w].docs]
  /\ pc[w] \in {"stage", "tombstones", "merged"} => ~plan[w].fresh
  /\ pc[w] = "merged" => plan[w].kind = "merge"
  /\ pc[w] \in Building \cup {"clear_dir"} /\ ~plan[w].fresh => Pending(w) # {}
  /\ pc[w] = "tombstones" =>
       dirs[Target(w)] = dirs[plan[w].next.segs[First(Pending(w))].name]

RetireInv(w) ==
  /\ \A i \in DOMAIN plan[w].retired : plan[w].retired[i] \notin NamesIn(manifest)
  /\ pc[w] = "retire_del" => plan[w].retired # <<>>

WriterInv(w) ==
  /\ pc[w] # "closed" => lock = w
  /\ pc[w] \notin {"closed", "locked"} =>
       mem[w] = manifest /\ manifest.exists /\ Exact(mem[w])
  /\ pc[w] \in {"closed", "locked"} => mem[w] = NoManifest
  /\ pc[w] \in Working => PlanInv(w) /\ StepInv(w)
  /\ pc[w] \in {"retire_dir", "retire_del"} => RetireInv(w)

(* A cached count may be stale for a segment with tombstones only, since   *)
(* recovery recounts no other.                                             *)
Healable ==
  \A i \in DOMAIN manifest.segs :
    tombs[manifest.segs[i].name] = {} =>
      manifest.segs[i].live = Len(dirs[manifest.segs[i].name].docs)

IInv == TypeOK /\ PublishedIntact /\ Healable /\ \A w \in Writers : WriterInv(w)

-----------------------------------------------------------------------------
(* Data: listing a finite set, and the documents of a new segment. *)

(* SetToSeq lists every finite set, each element once. *)
LEMMA SetToSeqLists ==
  ASSUME NEW S, IsFiniteSet(S)
  PROVE  SetToSeq(S) \in [1..Cardinality(S) -> S] /\ IsInjective(SetToSeq(S))
<1>1. PICK f \in Bijection(1..Cardinality(S), S) : TRUE
  BY FS_CardinalityType DEF ExistsBijection
<1>2. f \in [1..Cardinality(S) -> S] /\ IsInjective(f)
  BY <1>1 DEF Bijection, Injection
<1> QED
  BY <1>2 DEF SetToSeq

(* Reading a sequence of documents in the order of a listing gives a       *)
(* sequence of documents again.                                            *)
LEMMA ListingOfDocs ==
  ASSUME NEW S, IsFiniteSet(S), NEW f, \A x \in S : f[x] \in Docs
  PROVE  [k \in DOMAIN SetToSeq(S) |-> f[SetToSeq(S)[k]]] \in Seq(Docs)
<1>1. Cardinality(S) \in Nat
  BY FS_CardinalityType
<1>2. SetToSeq(S) \in [1..Cardinality(S) -> S]
  BY SetToSeqLists
<1>3. [k \in DOMAIN SetToSeq(S) |-> f[SetToSeq(S)[k]]] \in [1..Cardinality(S) -> Docs]
  BY <1>2
<1> QED
  BY <1>1, <1>3

(* A segment has finitely many doc_ids. *)
LEMMA DomainFinite ==
  ASSUME NEW T, NEW s \in Seq(T)
  PROVE  IsFiniteSet(DOMAIN s) /\ Cardinality(DOMAIN s) = Len(s)
<1>1. DOMAIN s = 1..Len(s) /\ Len(s) \in Nat
  OBVIOUS
<1>2. IsFiniteSet(1..Len(s)) /\ Cardinality(1..Len(s)) = Len(s)
  BY <1>1, FS_Interval
<1> QED
  BY <1>1, <1>2

(* What the segments of a manifest are made of. *)
LEMMA EntryTypes ==
  ASSUME NEW m \in Manifests, NEW i \in DOMAIN m.segs
  PROVE  /\ m.segs \in Seq(Entries)
         /\ i \in 1..Len(m.segs) /\ Len(m.segs) \in Nat
         /\ m.segs[i] = [name |-> m.segs[i].name, live |-> m.segs[i].live]
         /\ m.segs[i].name \in Names
         /\ m.segs[i].live \in Nat
         /\ m.segs[i].name \in NamesIn(m)
<1>1. m.segs \in Seq(Entries)
  BY DEF Manifests
<1>2. i \in 1..Len(m.segs) /\ Len(m.segs) \in Nat
  BY <1>1
<1>3. m.segs[i] \in Entries
  BY <1>1, <1>2
<1> QED
  BY <1>1, <1>2, <1>3 DEF Entries, NamesIn

LEMMA SegmentTypes ==
  ASSUME TypeOK, NEW m \in Manifests, NEW i \in DOMAIN m.segs
  PROVE  /\ DocsOf(m, i) \in Seq(Docs)
         /\ LiveIn(m, i) \subseteq DOMAIN DocsOf(m, i)
<1>1. dirs[m.segs[i].name] \in Dirs
  BY EntryTypes DEF TypeOK
<1> QED
  BY <1>1 DEF Dirs, DocsOf, LiveIn

LEMMA LiveFinite ==
  ASSUME TypeOK, NEW m \in Manifests, NEW i \in DOMAIN m.segs
  PROVE  IsFiniteSet(LiveIn(m, i)) /\ Cardinality(LiveIn(m, i)) \in Nat
<1>1. IsFiniteSet(DOMAIN DocsOf(m, i))
  BY SegmentTypes, DomainFinite
<1>2. IsFiniteSet(LiveIn(m, i))
  BY <1>1, SegmentTypes, FS_Subset
<1> QED
  BY <1>2, FS_CardinalityType

(* Live rows of a manifest are finitely many. *)
LEMMA LiveRowsFinite ==
  ASSUME TypeOK, NEW m \in Manifests
  PROVE  IsFiniteSet(LiveRows(m))
<1> DEFINE RowsOf(i) == {<<i, p>> : p \in LiveIn(m, i)}
           All       == {RowsOf(i) : i \in DOMAIN m.segs}
<1>1. ASSUME NEW i \in DOMAIN m.segs
      PROVE  IsFiniteSet(RowsOf(i))
  <2> DEFINE f == [p \in LiveIn(m, i) |-> <<i, p>>]
  <2>1. f \in Surjection(LiveIn(m, i), RowsOf(i))
    BY DEF Surjection
  <2> QED
    BY <2>1, LiveFinite, FS_Surjection
<1>2. IsFiniteSet(DOMAIN m.segs)
  <2>1. m.segs \in Seq(Entries)
    BY DEF Manifests
  <2> QED
    BY <2>1, DomainFinite
<1>3. IsFiniteSet(All)
  <2> DEFINE f == [i \in DOMAIN m.segs |-> RowsOf(i)]
  <2> HIDE DEF RowsOf
  <2>1. f \in Surjection(DOMAIN m.segs, All)
    BY DEF Surjection
  <2> QED
    BY <2>1, <1>2, FS_Surjection
<1>4. \A T \in All : IsFiniteSet(T)
  BY <1>1
<1>5. IsFiniteSet(UNION All)
  BY <1>3, <1>4, FS_UNION
<1> QED
  BY <1>5 DEF LiveRows

LEMMA MergedDocsType ==
  ASSUME TypeOK, NEW m \in Manifests
  PROVE  MergedDocs(m) \in Seq(Docs)
<1> DEFINE S == LiveRows(m)
           f == [r \in S |-> DocAt(m, r)]
<1>1. IsFiniteSet(S)
  BY LiveRowsFinite
<1>2. ASSUME NEW r \in S
      PROVE  f[r] \in Docs
  <2>0. PICK i \in DOMAIN m.segs : r \in {<<i, p>> : p \in LiveIn(m, i)}
    BY DEF LiveRows
  <2>1. PICK p \in LiveIn(m, i) : r = <<i, p>>
    BY <2>0
  <2>2. DocsOf(m, i) \in Seq(Docs) /\ p \in DOMAIN DocsOf(m, i)
    BY SegmentTypes
  <2>3. DocsOf(m, i)[p] \in Docs
    BY <2>2
  <2> QED
    BY <2>1, <2>3 DEF DocAt
<1>3. [k \in DOMAIN SetToSeq(S) |-> f[SetToSeq(S)[k]]] \in Seq(Docs)
  BY <1>1, <1>2, ListingOfDocs
<1>4. Cardinality(S) \in Nat /\ SetToSeq(S) \in [1..Cardinality(S) -> S]
  BY <1>1, SetToSeqLists, FS_CardinalityType
<1>5. MergedDocs(m) = [k \in DOMAIN SetToSeq(S) |-> f[SetToSeq(S)[k]]]
  BY <1>4 DEF MergedDocs
<1> QED
  BY <1>3, <1>5

LEMMA ListedType ==
  ASSUME NEW batch \in Seq(Docs), NEW S \in SUBSET DOMAIN batch
  PROVE  Listed(batch, S) \in Seq(Docs)
<1>1. IsFiniteSet(S)
  BY DomainFinite, FS_Subset
<1>2. \A k \in S : batch[k] \in Docs
  OBVIOUS
<1> QED
  BY <1>1, <1>2, ListingOfDocs DEF Listed

-----------------------------------------------------------------------------
(* Frame: what is said of a manifest depends on the files it names only.   *)

IntactIn(m, ds, ts) ==
  /\ \A n \in NamesIn(m) : /\ n < m.next
                           /\ ds[n].stage = "complete"
                           /\ ts[n] \subseteq DOMAIN ds[n].docs
  /\ \A i, j \in DOMAIN m.segs : m.segs[i].name = m.segs[j].name => i = j

ExactIn(m, ds, ts) ==
  \A i \in DOMAIN m.segs :
    m.segs[i].live = Cardinality(DOMAIN ds[m.segs[i].name].docs \ ts[m.segs[i].name])

LEMMA Frame ==
  ASSUME NEW m, NEW ds, NEW ts, NEW ds2, NEW ts2,
         \A n \in NamesIn(m) : ds2[n] = ds[n] /\ ts2[n] = ts[n]
  PROVE  /\ IntactIn(m, ds, ts) => IntactIn(m, ds2, ts2)
         /\ ExactIn(m, ds, ts) => ExactIn(m, ds2, ts2)
<1>1. \A i \in DOMAIN m.segs : m.segs[i].name \in NamesIn(m)
  BY DEF NamesIn
<1>2. IntactIn(m, ds, ts) => IntactIn(m, ds2, ts2)
  BY DEF IntactIn
<1>3. ExactIn(m, ds, ts) => ExactIn(m, ds2, ts2)
  BY <1>1 DEF ExactIn
<1> QED
  BY <1>2, <1>3

LEMMA InTermsOfFiles ==
  ASSUME NEW m
  PROVE  /\ Intact(m) <=> IntactIn(m, dirs, tombs)
         /\ Exact(m) <=> ExactIn(m, dirs, tombs)
BY DEF Intact, IntactIn, Exact, ExactIn, LiveIn, DocsOf

(* A manifest whose files a step leaves alone keeps both. *)
LEMMA FilesKept ==
  ASSUME NEW w \in Writers,
         plan'[w].next = plan[w].next,
         \A n \in NamesIn(plan[w].next) : dirs'[n] = dirs[n] /\ tombs'[n] = tombs[n]
  PROVE  /\ Intact(plan[w].next) => Intact(plan[w].next)'
         /\ Exact(plan[w].next) => Exact(plan[w].next)'
<1>1. /\ IntactIn(plan[w].next, dirs, tombs) => IntactIn(plan[w].next, dirs', tombs')
      /\ ExactIn(plan[w].next, dirs, tombs) => ExactIn(plan[w].next, dirs', tombs')
  BY Frame
<1> QED
  BY <1>1 DEF Intact, IntactIn, Exact, ExactIn, LiveIn, DocsOf

LEMMA MemKept ==
  ASSUME NEW w \in Writers, mem'[w] = mem[w],
         \A n \in NamesIn(mem[w]) : dirs'[n] = dirs[n] /\ tombs'[n] = tombs[n]
  PROVE  Exact(mem[w]) => Exact(mem[w])'
<1>1. ExactIn(mem[w], dirs, tombs) => ExactIn(mem[w], dirs', tombs')
  BY Frame
<1> QED
  BY <1>1 DEF Exact, ExactIn, LiveIn, DocsOf

LEMMA PublishedKept ==
  ASSUME PublishedIntact, Healable, manifest' = manifest,
         \A n \in NamesIn(manifest) : dirs'[n] = dirs[n] /\ tombs'[n] = tombs[n]
  PROVE  PublishedIntact' /\ Healable'
<1>1. IntactIn(manifest, dirs', tombs')
  BY Frame DEF PublishedIntact, Intact, IntactIn
<1> QED
  BY <1>1 DEF PublishedIntact, Intact, IntactIn, Healable, NamesIn

(* An exact manifest is healable. *)
LEMMA ExactIsHealable ==
  ASSUME TypeOK', Exact(manifest)'
  PROVE  Healable'
<1> SUFFICES ASSUME NEW i \in DOMAIN manifest'.segs,
                    tombs'[manifest'.segs[i].name] = {}
             PROVE  manifest'.segs[i].live = Len(dirs'[manifest'.segs[i].name].docs)
  BY DEF Healable
<1> DEFINE docs == dirs'[manifest'.segs[i].name].docs
<1>1. docs \in Seq(Docs)
  <2>1. manifest'.segs[i].name \in Names
    BY EntryTypes DEF TypeOK
  <2>2. dirs'[manifest'.segs[i].name] \in Dirs
    BY <2>1 DEF TypeOK
  <2> QED
    BY <2>2 DEF Dirs
<1>2. Cardinality(DOMAIN docs) = Len(docs)
  BY <1>1, DomainFinite
<1>3. DOMAIN docs \ {} = DOMAIN docs
  OBVIOUS
<1> QED
  BY <1>2, <1>3 DEF Exact, LiveIn, DocsOf

(* Only the holder of the lock acts: the others are closed and stay so. *)
LEMMA OthersKept ==
  ASSUME IInv, NEW w \in Writers, pc[w] # "closed" \/ lock = NoWriter,
         \A v \in Writers \ {w} : pc'[v] = pc[v] /\ mem'[v] = mem[v]
  PROVE  \A v \in Writers \ {w} : WriterInv(v)'
<1> TAKE v \in Writers \ {w}
<1>1. pc[v] = "closed" /\ mem[v] = NoManifest
  BY NoWriterAssumption DEF IInv, WriterInv
<1> QED
  BY <1>1 DEF WriterInv, Working

(* A step that changes no file, no manifest and not the lock.              *)
LEMMA ProgressStep ==
  ASSUME IInv, NEW w \in Writers, pc[w] \notin {"closed", "locked"},
         UNCHANGED <<manifest, dirs, tombs, lock, mem>>,
         NEW s \in Steps \ {"closed", "locked"}, pc' = [pc EXCEPT ![w] = s],
         NEW p \in Plans, plan' = [plan EXCEPT ![w] = p],
         s \in Working => (PlanInv(w) /\ StepInv(w))',
         s \in {"retire_dir", "retire_del"} => RetireInv(w)'
  PROVE  IInv'
<1>1. TypeOK'
  BY DEF IInv, TypeOK
<1>2. PublishedIntact' /\ Healable'
  BY PublishedKept DEF IInv
<1>3. Exact(mem[w])'
  BY MemKept DEF IInv, WriterInv
<1>4. WriterInv(w)'
  BY <1>3 DEF IInv, WriterInv, TypeOK
<1>5. \A v \in Writers \ {w} : WriterInv(v)'
  BY OthersKept DEF IInv, TypeOK
<1> QED
  BY <1>1, <1>2, <1>4, <1>5 DEF IInv

(* What holds of a working writer's plan; its target is a name that neither *)
(* the published manifest nor the one under construction has.               *)
LEMMA PlanFacts ==
  ASSUME IInv, NEW w \in Writers, pc[w] \in Working
  PROVE  /\ mem[w] = manifest /\ manifest.exists /\ lock = w
         /\ PlanInv(w) /\ StepInv(w) /\ Exact(mem[w])
         /\ plan[w] \in Plans /\ mem[w] \in Manifests
         /\ plan[w].next \in Manifests
         /\ plan[w].next.next \in Nat /\ mem[w].next \in Nat
         /\ \A n \in NamesIn(plan[w].next) : n \in Names /\ n # Target(w)
         /\ \A n \in NamesIn(manifest) : n \in Names /\ n # Target(w)
<1> USE DEF IInv
<1>1. /\ mem[w] = manifest /\ manifest.exists /\ lock = w
      /\ PlanInv(w) /\ StepInv(w) /\ plan[w] \in Plans /\ mem[w] \in Manifests
      /\ Exact(mem[w])
  BY DEF WriterInv, Working, TypeOK
<1>2. plan[w].next \in Manifests /\ plan[w].next.next \in Nat /\ mem[w].next \in Nat
  BY <1>1 DEF Plans, Manifests
<1>3. \A n \in NamesIn(plan[w].next) : n \in Names /\ n # Target(w)
  <2>1. \A n \in NamesIn(plan[w].next) : n \in Names
    BY <1>2, EntryTypes DEF NamesIn
  <2> QED
    BY <2>1, <1>1, <1>2, MaxNameAssumption DEF PlanInv, Intact, Target, Names
<1>4. \A n \in NamesIn(manifest) : n \in Names /\ n # Target(w)
  <2>1. \A n \in NamesIn(mem[w]) : n \in Names
    BY <1>1, EntryTypes DEF NamesIn
  <2> QED
    BY <2>1, <1>1, <1>2, MaxNameAssumption DEF PlanInv, PublishedIntact, Intact, Target, Names
<1> QED
  BY <1>1, <1>2, <1>3, <1>4

(* A step on the files of the segment under construction.                  *)
LEMMA BuildingStep ==
  ASSUME IInv, NEW w \in Writers, pc[w] \in Building \cup {"clear_dir"},
         Target(w) \in Names,
         UNCHANGED <<manifest, lock, mem, plan>>,
         dirs' \in [Names -> Dirs], tombs' \in [Names -> SUBSET Nat],
         \A n \in Names \ {Target(w)} : dirs'[n] = dirs[n] /\ tombs'[n] = tombs[n],
         NEW s \in Building, pc' = [pc EXCEPT ![w] = s],
         StepInv(w)'
  PROVE  IInv'
<1> USE DEF IInv
<1>a. /\ mem[w] = manifest /\ manifest.exists /\ lock = w
      /\ PlanInv(w) /\ Exact(mem[w]) /\ plan[w].next.next \in Nat /\ mem[w].next \in Nat
      /\ \A n \in NamesIn(plan[w].next) : n \in Names /\ n # Target(w)
      /\ \A n \in NamesIn(manifest) : n \in Names /\ n # Target(w)
  <2>1. pc[w] \in Working
    BY DEF Building, Working
  <2> QED
    BY <2>1, PlanFacts
<1>1. TypeOK'
  BY DEF TypeOK, Building, Steps
<1>2. PublishedIntact' /\ Healable'
  BY <1>a, PublishedKept
<1>3. Exact(mem[w])'
  BY <1>a, MemKept
<1>4. Intact(plan[w].next)' /\ Exact(plan[w].next)'
  BY <1>a, FilesKept DEF PlanInv
<1>5. Prepared(w) => mem[w].next # Target(w)
  BY <1>a DEF Prepared, Target
<1>6. PlanInv(w)'
  BY <1>a, <1>4, <1>5 DEF PlanInv, Prepared, Building
<1>7. WriterInv(w)'
  BY <1>a, <1>3, <1>6 DEF WriterInv, TypeOK, Building
<1>8. \A v \in Writers \ {w} : WriterInv(v)'
  BY OthersKept DEF TypeOK, Building
<1> QED
  BY <1>1, <1>2, <1>7, <1>8

-----------------------------------------------------------------------------
(* Opening and closing. *)

LEMMA InitEstablishes == Init => IInv
<1> SUFFICES ASSUME Init PROVE IInv
  OBVIOUS
<1>1. PICK d \in InitialDisks : manifest = d.manifest /\ dirs = d.dirs /\ tombs = d.tombs
  BY DEF Init
<1>2. WellFormedDisk(d)
  BY <1>1, DisksAssumption
<1>3. NoManifest \in Manifests
  BY DEF NoManifest, Manifests
<1>4. NoPlan \in Plans
  BY <1>3 DEF NoPlan, Plans
<1>5. TypeOK
  BY <1>1, <1>2, <1>3, <1>4 DEF WellFormedDisk, Init, TypeOK, Steps
<1>6. PublishedIntact /\ Healable
  BY <1>1, <1>2 DEF WellFormedDisk, PublishedIntact, Intact, Healable
<1>7. \A w \in Writers : WriterInv(w)
  BY DEF Init, WriterInv, Working
<1> QED
  BY <1>5, <1>6, <1>7 DEF IInv

LEMMA LockIndexKeeps ==
  ASSUME IInv, NEW w \in Writers, LockIndex(w)
  PROVE  IInv'
<1> USE DEF LockIndex, diskVars, Goto
<1>1. TypeOK'
  BY DEF IInv, TypeOK, Steps
<1>2. PublishedIntact' /\ Healable'
  BY PublishedKept DEF IInv
<1>3. WriterInv(w)'
  BY DEF IInv, WriterInv, TypeOK, Working
<1>4. \A v \in Writers \ {w} : WriterInv(v)'
  BY OthersKept DEF IInv, TypeOK
<1> QED
  BY <1>1, <1>2, <1>3, <1>4 DEF IInv

LEMMA CreateIndexKeeps ==
  ASSUME IInv, NEW w \in Writers, CreateIndex(w)
  PROVE  IInv'
<1> USE DEF CreateIndex, Goto
<1>0. manifest' \in Manifests /\ manifest'.segs = <<>> /\ manifest'.exists
  BY DEF Manifests
<1>1. TypeOK'
  BY <1>0 DEF IInv, TypeOK, Steps
<1>2. PublishedIntact' /\ Healable'
  BY <1>0 DEF PublishedIntact, Intact, NamesIn, Healable
<1>3. WriterInv(w)'
  BY <1>0 DEF IInv, WriterInv, TypeOK, Working, Exact
<1>4. \A v \in Writers \ {w} : WriterInv(v)'
  BY OthersKept DEF IInv, TypeOK
<1> QED
  BY <1>1, <1>2, <1>3, <1>4 DEF IInv

(* Recounting from the bitmaps makes every cached count exact.             *)
LEMMA HealedIsExact ==
  ASSUME TypeOK, PublishedIntact, Healable
  PROVE  /\ Healed(manifest) \in Manifests
         /\ NamesIn(Healed(manifest)) = NamesIn(manifest)
         /\ Intact(Healed(manifest))
         /\ Exact(Healed(manifest))
         /\ Healed(manifest).exists = manifest.exists
<1> DEFINE m == manifest
           h == Healed(manifest)
           live(i) == IF tombs[m.segs[i].name] = {} THEN m.segs[i].live
                                                    ELSE Cardinality(LiveIn(m, i))
<1>0. m \in Manifests /\ m.segs \in Seq(Entries)
  BY DEF TypeOK, Manifests
<1>1. ASSUME NEW i \in DOMAIN m.segs
      PROVE  live(i) = Cardinality(LiveIn(m, i)) /\ live(i) \in Nat
  <2>1. Cardinality(LiveIn(m, i)) \in Nat
    BY <1>0, LiveFinite
  <2>2. CASE tombs[m.segs[i].name] = {}
    <3>1. m.segs[i].live = Len(DocsOf(m, i))
      BY <2>2 DEF Healable, DocsOf
    <3>2. LiveIn(m, i) = DOMAIN DocsOf(m, i)
      BY <2>2 DEF LiveIn
    <3>3. Cardinality(DOMAIN DocsOf(m, i)) = Len(DocsOf(m, i))
      BY <1>0, SegmentTypes, DomainFinite
    <3> QED
      BY <2>1, <2>2, <3>1, <3>2, <3>3
  <2>3. CASE tombs[m.segs[i].name] # {}
    BY <2>1, <2>3
  <2> QED
    BY <2>2, <2>3
<1> DEFINE hs == [i \in DOMAIN m.segs |-> [name |-> m.segs[i].name, live |-> live(i)]]
<1>2. h = [exists |-> m.exists, next |-> m.next, segs |-> hs]
  <2>1. \A i \in DOMAIN m.segs :
          (IF tombs[m.segs[i].name] = {} THEN m.segs[i]
           ELSE [m.segs[i] EXCEPT !.live = Cardinality(LiveIn(m, i))]) = hs[i]
    <3> SUFFICES ASSUME NEW i \in DOMAIN m.segs
                 PROVE  (IF tombs[m.segs[i].name] = {} THEN m.segs[i]
                         ELSE [m.segs[i] EXCEPT !.live = Cardinality(LiveIn(m, i))]) = hs[i]
      OBVIOUS
    <3>1. m.segs[i] = [name |-> m.segs[i].name, live |-> m.segs[i].live]
      BY <1>0, EntryTypes
    <3> QED
      BY <3>1
  <2>2. h = [m EXCEPT !.segs = hs]
    <3> DEFINE gs == [i \in DOMAIN m.segs |-> IF tombs[m.segs[i].name] = {} THEN m.segs[i]
                                              ELSE [m.segs[i] EXCEPT !.live = Cardinality(LiveIn(m, i))]]
    <3>1. gs = hs
      <4> HIDE DEF m, live
      <4> QED
        BY <2>1
    <3>2. h = [m EXCEPT !.segs = gs]
      BY DEF Healed
    <3> HIDE DEF gs, hs
    <3> QED
      BY <3>1, <3>2
  <2>3. m = [exists |-> m.exists, next |-> m.next, segs |-> m.segs]
    BY <1>0 DEF Manifests
  <2> QED
    BY <2>2, <2>3
<1>3. hs \in Seq(Entries)
  <2>1. \A i \in DOMAIN m.segs : hs[i] \in Entries
    BY <1>0, <1>1, EntryTypes DEF Entries
  <2>2. DOMAIN m.segs = 1..Len(m.segs) /\ Len(m.segs) \in Nat
    BY <1>0
  <2>3. hs \in [1..Len(m.segs) -> Entries]
    BY <2>1, <2>2
  <2> QED
    BY <2>2, <2>3
<1> HIDE DEF live, h
<1>4. h \in Manifests
  BY <1>0, <1>2, <1>3 DEF Manifests
<1>5. DOMAIN h.segs = DOMAIN m.segs /\ \A i \in DOMAIN m.segs : h.segs[i].name = m.segs[i].name
  BY <1>2
<1>6. NamesIn(h) = NamesIn(m)
  BY <1>5 DEF NamesIn
<1>7. Intact(h)
  BY <1>2, <1>5, <1>6 DEF PublishedIntact, Intact
<1>8. Exact(h)
  BY <1>1, <1>2, <1>5 DEF Exact, LiveIn, DocsOf
<1> QED
  BY <1>2, <1>4, <1>6, <1>7, <1>8 DEF h

LEMMA HealCountsKeeps ==
  ASSUME IInv, NEW w \in Writers, HealCounts(w)
  PROVE  IInv'
<1> USE DEF HealCounts, Goto
<1>0. /\ manifest' \in Manifests /\ manifest'.exists
      /\ Intact(manifest)' /\ Exact(manifest)'
  <2>1. TypeOK /\ PublishedIntact /\ Healable
    BY DEF IInv
  <2>2. /\ manifest' \in Manifests /\ manifest'.exists
        /\ IntactIn(manifest', dirs, tombs) /\ ExactIn(manifest', dirs, tombs)
    BY <2>1, HealedIsExact DEF Intact, IntactIn, Exact, ExactIn, LiveIn, DocsOf
  <2> QED
    BY <2>2 DEF Intact, IntactIn, Exact, ExactIn, LiveIn, DocsOf
<1>1. TypeOK'
  BY <1>0 DEF IInv, TypeOK, Steps
<1>2. PublishedIntact' /\ Healable'
  BY <1>0, <1>1, ExactIsHealable DEF PublishedIntact
<1>3. WriterInv(w)'
  BY <1>0 DEF IInv, WriterInv, TypeOK, Working, Exact, LiveIn, DocsOf
<1>4. \A v \in Writers \ {w} : WriterInv(v)'
  BY OthersKept DEF IInv, TypeOK
<1> QED
  BY <1>1, <1>2, <1>3, <1>4 DEF IInv

(* A step that removes or alters files no published segment has, before or *)
(* after a change.                                                         *)
LEMMA GarbageStep ==
  ASSUME IInv, NEW w \in Writers, pc[w] \notin {"closed", "locked"},
         UNCHANGED <<manifest, lock, mem>>,
         dirs' \in [Names -> Dirs], tombs' \in [Names -> SUBSET Nat],
         \A n \in NamesIn(manifest) : dirs'[n] = dirs[n] /\ tombs'[n] = tombs[n],
         NEW s \in Steps \ (Working \cup {"closed", "locked"}), pc' = [pc EXCEPT ![w] = s],
         NEW p \in Plans, plan' = [plan EXCEPT ![w] = p],
         s \in {"retire_dir", "retire_del"} => RetireInv(w)'
  PROVE  IInv'
<1>1. TypeOK'
  BY DEF IInv, TypeOK
<1>2. PublishedIntact' /\ Healable'
  BY PublishedKept DEF IInv
<1>3. Exact(mem[w])'
  BY MemKept DEF IInv, WriterInv
<1>4. WriterInv(w)'
  BY <1>3 DEF IInv, WriterInv, TypeOK
<1>5. \A v \in Writers \ {w} : WriterInv(v)'
  BY OthersKept DEF IInv, TypeOK
<1> QED
  BY <1>1, <1>2, <1>4, <1>5 DEF IInv

LEMMA AfterRemovalType ==
  ASSUME TypeOK, NEW n \in Names
  PROVE  AfterRemoval(n) \subseteq Dirs
BY DEF TypeOK, AfterRemoval, Absent, Partial, Dirs, Stages

LEMMA CollectKeeps ==
  ASSUME IInv, NEW w \in Writers, NEW n \in Names,
         CollectDir(w, n) \/ CollectTombstones(w, n)
  PROVE  IInv'
<1>1. pc[w] = "recover" /\ mem[w] = manifest /\ n \notin NamesIn(manifest)
  BY DEF CollectDir, CollectTombstones, IInv, WriterInv
<1>2. pc' = [pc EXCEPT ![w] = "recover"] /\ plan' = [plan EXCEPT ![w] = plan[w]]
  BY <1>1 DEF CollectDir, CollectTombstones, IInv, TypeOK
<1>3. /\ dirs' \in [Names -> Dirs] /\ tombs' \in [Names -> SUBSET Nat]
      /\ \A k \in Names \ {n} : dirs'[k] = dirs[k] /\ tombs'[k] = tombs[k]
  <2>1. CASE CollectDir(w, n)
    BY <2>1, AfterRemovalType DEF CollectDir, IInv, TypeOK
  <2>2. CASE CollectTombstones(w, n)
    BY <2>2 DEF CollectTombstones, IInv, TypeOK
  <2> QED
    BY <2>1, <2>2
<1>5. \A k \in NamesIn(manifest) : k \in Names \ {n}
  <2>1. manifest \in Manifests
    BY DEF IInv, TypeOK
  <2> QED
    BY <1>1, <2>1, EntryTypes DEF NamesIn
<1>4. plan[w] \in Plans /\ "recover" \in Steps \ (Working \cup {"closed", "locked"})
  BY DEF IInv, TypeOK, Steps, Working
<1> QED
  BY <1>1, <1>2, <1>3, <1>4, <1>5, GarbageStep DEF CollectDir, CollectTombstones, Working

LEMMA FinishRecoveryKeeps ==
  ASSUME IInv, NEW w \in Writers, FinishRecovery(w)
  PROVE  IInv'
<1>1. plan' = [plan EXCEPT ![w] = plan[w]] /\ plan[w] \in Plans
  BY DEF FinishRecovery, IInv, TypeOK
<1>2. "idle" \in Steps \ {"closed", "locked"} /\ "idle" \notin Working
  BY DEF Steps, Working
<1> QED
  BY <1>1, <1>2, ProgressStep DEF FinishRecovery, Goto, diskVars

LEMMA CloseKeeps ==
  ASSUME IInv, NEW w \in Writers, Close(w)
  PROVE  IInv'
<1> USE DEF Close, Goto, diskVars
<1>1. TypeOK'
  BY DEF IInv, TypeOK, Steps, NoManifest, NoPlan, Manifests, Plans
<1>2. PublishedIntact' /\ Healable'
  BY PublishedKept DEF IInv
<1>3. WriterInv(w)'
  BY DEF IInv, WriterInv, TypeOK, Working
<1>4. \A v \in Writers \ {w} : WriterInv(v)'
  BY OthersKept DEF IInv, TypeOK
<1> QED
  BY <1>1, <1>2, <1>3, <1>4 DEF IInv

-----------------------------------------------------------------------------
(* Deciding on a change. *)

LEMMA BeginKeeps ==
  ASSUME IInv, NEW w \in Writers, pc[w] = "idle",
         NEW kind \in {"change", "merge"}, NEW docs \in Seq(Docs),
         NEW fresh \in BOOLEAN, NEW ids \in SUBSET Ids,
         ~fresh => kind = "change" /\ docs = <<>>,
         Begin(w, kind, docs, fresh, ids)
  PROVE  IInv'
<1> DEFINE p == [kind |-> kind, docs |-> docs, fresh |-> fresh, ids |-> ids,
                 next |-> mem[w], retired |-> <<>>]
           s == IF fresh THEN "clear_dir" ELSE "stage"
<1>1. /\ mem[w] = manifest /\ manifest.exists /\ Exact(mem[w])
      /\ mem[w] \in Manifests /\ mem[w].next \in Nat
  BY DEF IInv, WriterInv, TypeOK, Manifests
<1>2. p \in Plans
  BY <1>1 DEF Plans
<1>3. plan' = [plan EXCEPT ![w] = p] /\ pc' = [pc EXCEPT ![w] = s]
      /\ UNCHANGED <<manifest, dirs, tombs, lock, mem>>
  BY DEF Begin, Goto, diskVars
<1>4. plan'[w] = p /\ pc'[w] = s /\ mem'[w] = mem[w]
  BY <1>3 DEF IInv, TypeOK
<1>5. Intact(plan[w].next)' /\ Exact(plan[w].next)'
  <2>1. IntactIn(mem[w], dirs, tombs) /\ ExactIn(mem[w], dirs, tombs)
    BY <1>1, InTermsOfFiles DEF IInv, PublishedIntact
  <2>2. plan'[w].next = mem[w]
    BY <1>4
  <2>3. IntactIn(plan'[w].next, dirs', tombs') /\ ExactIn(plan'[w].next, dirs', tombs')
    BY <1>3, <2>1, <2>2
  <2> QED
    BY <2>3 DEF Intact, IntactIn, Exact, ExactIn, LiveIn, DocsOf
<1>6. PlanInv(w)'
  BY <1>1, <1>4, <1>5 DEF PlanInv
<1>7. StepInv(w)'
  BY <1>4 DEF StepInv, Building
<1>8. s \in Steps \ {"closed", "locked"} /\ s \notin {"retire_dir", "retire_del"}
  BY DEF Steps
<1> QED
  BY <1>2, <1>3, <1>6, <1>7, <1>8, ProgressStep

LEMMA RequestKeeps ==
  ASSUME IInv, NEW w \in Writers, Request(w)
  PROVE  IInv'
<1>1. ASSUME NEW batch \in Batches, AddDocuments(w, batch)
      PROVE  IInv'
  <2>1. batch \in Seq(Docs) /\ {} \in SUBSET Ids
    BY BatchesAssumption
  <2> DEFINE fresh == TRUE
  <2>2. pc[w] = "idle" /\ Begin(w, "change", batch, fresh, {})
    BY <1>1 DEF AddDocuments
  <2>3. fresh \in BOOLEAN /\ fresh
    OBVIOUS
  <2> HIDE DEF fresh
  <2> QED
    BY <2>1, <2>2, <2>3, BeginKeeps
<1>2. ASSUME NEW ids \in SUBSET Ids, DeleteDocuments(w, ids)
      PROVE  IInv'
  <2> DEFINE fresh == FALSE
             none  == <<>>
  <2>1. pc[w] = "idle" /\ Begin(w, "change", none, fresh, ids)
    BY <1>2 DEF DeleteDocuments
  <2>2. fresh \in BOOLEAN /\ ~fresh /\ none = <<>> /\ none \in Seq(Docs)
    OBVIOUS
  <2> HIDE DEF fresh, none
  <2> QED
    BY <2>1, <2>2, BeginKeeps
<1>3. ASSUME NEW batch \in Batches, NEW deleted \in SUBSET Ids,
             UpsertDocuments(w, batch, deleted)
      PROVE  IInv'
  <2> DEFINE kept  == Changed(mem[w], batch, deleted)
             added == Listed(batch, kept)
             gone  == deleted \cup Replaced(mem[w], batch, deleted)
  <2>1. batch \in Seq(Docs)
    BY BatchesAssumption
  <2>2. kept \in SUBSET DOMAIN batch
    BY DEF Changed, Winners
  <2>3. added \in Seq(Docs)
    BY <2>1, <2>2, ListedType
  <2>4. gone \in SUBSET Ids
    <3>1. \A k \in DOMAIN batch : batch[k] \in Docs
      BY <2>1
    <3>2. \A k \in DOMAIN batch : batch[k].id \in Ids
      BY <3>1 DEF Docs
    <3> QED
      BY <2>2, <3>2 DEF Replaced
  <2>5. pc[w] = "idle" /\ Begin(w, "change", added, added # <<>>, gone)
    BY <1>3 DEF UpsertDocuments
  <2> HIDE DEF added, gone
  <2> QED
    BY <2>3, <2>4, <2>5, BeginKeeps
<1>4. ASSUME MergeAll(w)
      PROVE  IInv'
  <2>1. mem[w] \in Manifests
    BY DEF IInv, TypeOK
  <2>2. MergedDocs(mem[w]) \in Seq(Docs)
    BY <2>1, MergedDocsType DEF IInv
  <2> DEFINE fresh == TRUE
  <2>3. pc[w] = "idle" /\ Begin(w, "merge", MergedDocs(mem[w]), fresh, {})
    BY <1>4 DEF MergeAll
  <2>4. fresh \in BOOLEAN /\ fresh /\ {} \in SUBSET Ids
    OBVIOUS
  <2> HIDE DEF fresh
  <2> QED
    BY <2>2, <2>3, <2>4, BeginKeeps
<1> QED
  BY <1>1, <1>2, <1>3, <1>4 DEF Request

-----------------------------------------------------------------------------
(* Building the segment under construction. *)

(* Steps on other files leave the segments still to be replaced the same.  *)
LEMMA PendingKept ==
  ASSUME NEW w \in Writers, plan'[w] = plan[w],
         \A n \in NamesIn(plan[w].next) : dirs'[n] = dirs[n] /\ tombs'[n] = tombs[n]
  PROVE  Pending(w)' = Pending(w)
<1>1. \A i \in DOMAIN plan[w].next.segs : plan[w].next.segs[i].name \in NamesIn(plan[w].next)
  BY DEF NamesIn
<1> DEFINE m == plan[w].next
           ids == plan[w].ids
<1>2. plan'[w].next = m /\ plan'[w].ids = ids
  OBVIOUS
<1>3. ASSUME NEW i \in DOMAIN m.segs
      PROVE  Matches(m, i, ids)' = Matches(m, i, ids)
  <2>1. dirs'[m.segs[i].name] = dirs[m.segs[i].name] /\ tombs'[m.segs[i].name] = tombs[m.segs[i].name]
    BY <1>1
  <2>2. m' = m /\ ids' = ids
    BY <1>2
  <2> HIDE DEF m, ids
  <2> QED
    BY <2>1, <2>2 DEF Matches, LiveIn, DocsOf
<1>4. Pending(w) = {i \in DOMAIN m.segs : Matches(m, i, ids) # {}}
      /\ Pending(w)' = {i \in DOMAIN m'.segs : Matches(m, i, ids)' # {}}
  BY DEF Pending
<1>5. m' = m
  BY <1>2
<1> HIDE DEF m, ids
<1> QED
  BY <1>3, <1>4, <1>5

(* The segment to be replaced next exists: a nonempty set of positions of  *)
(* a sequence has a least element.                                         *)
LEMMA PendingHasFirst ==
  ASSUME NEW w \in Writers, plan[w].next \in Manifests, Pending(w) # {}
  PROVE  First(Pending(w)) \in Pending(w)
<1>1. Pending(w) \subseteq Nat
  <2>1. plan[w].next.segs \in Seq(Entries)
    BY DEF Manifests
  <2>2. DOMAIN plan[w].next.segs \subseteq Nat
    BY <2>1
  <2> QED
    BY <2>2 DEF Pending
<1>2. PICK i \in Pending(w) : \A j \in Pending(w) : ~(<<j, i>> \in OpToRel(<, Nat))
  BY <1>1, NatLessThanWellFounded, WFMin
<1>3. ASSUME NEW j \in Pending(w)
      PROVE  i <= j
  <2>1. <<j, i>> \notin {ss \in Nat \X Nat : ss[1] < ss[2]}
    BY <1>2 DEF OpToRel
  <2>2. i \in Nat /\ j \in Nat
    BY <1>1
  <2>3. ~(j < i)
    BY <2>1, <2>2
  <2> QED
    BY <2>2, <2>3
<1> QED
  BY <1>3 DEF First

LEMMA BuildKeeps ==
  ASSUME IInv, NEW w \in Writers,
         ClearDir(w) \/ ClearTombstones(w) \/ CreateDir(w) \/ SaveIndex(w) \/ LinkFiles(w)
  PROVE  IInv'
<1> DEFINE t == Target(w)
<1>0. pc[w] \in Building \cup {"clear_dir"}
  BY DEF ClearDir, ClearTombstones, CreateDir, SaveIndex, LinkFiles, Building
<1>1. pc[w] \in Working
  BY <1>0 DEF Building, Working
<1>2. /\ PlanInv(w) /\ StepInv(w) /\ plan[w] \in Plans /\ plan[w].next \in Manifests
      /\ \A n \in NamesIn(plan[w].next) : n \in Names /\ n # t
  BY <1>1, PlanFacts
<1>3. t \in Names
  BY <1>2 DEF ClearDir, ClearTombstones, CreateDir, SaveIndex, LinkFiles, StepInv, Building
<1>4. /\ UNCHANGED <<manifest, lock, mem, plan>>
      /\ \A n \in Names \ {t} : dirs'[n] = dirs[n] /\ tombs'[n] = tombs[n]
  BY DEF ClearDir, ClearTombstones, CreateDir, SaveIndex, LinkFiles, IInv, TypeOK
<1>5. Pending(w)' = Pending(w) /\ Target(w)' = t
  BY <1>2, <1>4, PendingKept DEF Target
<1>6. TypeOK
  BY DEF IInv
<1>a. CASE ClearDir(w)
  <2>1. dirs' \in [Names -> Dirs] /\ tombs' \in [Names -> SUBSET Nat]
    BY <1>a, <1>3, <1>6 DEF ClearDir, TypeOK, Absent, Dirs, Stages
  <2>2. pc' = [pc EXCEPT ![w] = "clear_del"] /\ "clear_del" \in Building /\ pc'[w] = "clear_del"
    BY <1>a, <1>6 DEF ClearDir, Goto, Building, TypeOK
  <2>3. StepInv(w)'
    BY <1>a, <1>2, <1>3, <1>4, <1>5, <2>2 DEF StepInv, Building, ClearDir
  <2> QED
    BY <1>0, <1>3, <1>4, <2>1, <2>2, <2>3, BuildingStep
<1>b. CASE ClearTombstones(w)
  <2>1. dirs' \in [Names -> Dirs] /\ tombs' \in [Names -> SUBSET Nat] /\ tombs'[t] = {}
    BY <1>b, <1>3, <1>6 DEF ClearTombstones, TypeOK
  <2>2. pc' = [pc EXCEPT ![w] = "create"] /\ "create" \in Building /\ pc'[w] = "create"
    BY <1>b, <1>6 DEF ClearTombstones, Goto, Building, TypeOK
  <2>3. StepInv(w)'
    BY <1>b, <1>2, <1>3, <1>4, <1>5, <2>1, <2>2 DEF StepInv, Building, ClearTombstones
  <2> QED
    BY <1>0, <1>3, <1>4, <2>1, <2>2, <2>3, BuildingStep
<1>c. CASE CreateDir(w)
  <2>1. dirs' \in [Names -> Dirs] /\ tombs' \in [Names -> SUBSET Nat] /\ tombs' = tombs
    BY <1>c, <1>3, <1>6 DEF CreateDir, TypeOK, Partial, Dirs, Stages
  <2>2. pc' = [pc EXCEPT ![w] = "fill"] /\ "fill" \in Building /\ pc'[w] = "fill"
    BY <1>c, <1>6 DEF CreateDir, Goto, Building, TypeOK
  <2>3. StepInv(w)'
    BY <1>c, <1>2, <1>3, <1>4, <1>5, <2>1, <2>2 DEF StepInv, Building, CreateDir
  <2> QED
    BY <1>0, <1>3, <1>4, <2>1, <2>2, <2>3, BuildingStep
<1>d. CASE SaveIndex(w)
  <2>1. /\ dirs' \in [Names -> Dirs] /\ tombs' \in [Names -> SUBSET Nat] /\ tombs' = tombs
        /\ dirs'[t] = [stage |-> "indexed", docs |-> plan[w].docs]
    BY <1>d, <1>2, <1>3, <1>6 DEF SaveIndex, TypeOK, Dirs, Stages, Plans
  <2>2. pc' = [pc EXCEPT ![w] = "sidecars"] /\ "sidecars" \in Building /\ pc'[w] = "sidecars"
    BY <1>d, <1>6 DEF SaveIndex, Goto, Building, TypeOK
  <2>3. StepInv(w)'
    BY <1>d, <1>2, <1>3, <1>4, <1>5, <2>1, <2>2 DEF StepInv, Building, SaveIndex
  <2> QED
    BY <1>0, <1>3, <1>4, <2>1, <2>2, <2>3, BuildingStep
<1>e. CASE LinkFiles(w)
  <2> DEFINE source == plan[w].next.segs[First(Pending(w))].name
  <2>0. Pending(w) # {}
    BY <1>e, <1>2 DEF StepInv, LinkFiles, Building
  <2>1. First(Pending(w)) \in Pending(w)
    BY <1>2, <2>0, PendingHasFirst
  <2>2. source \in Names /\ source # t
    BY <1>2, <2>1 DEF Pending, NamesIn
  <2>3. /\ dirs' \in [Names -> Dirs] /\ tombs' \in [Names -> SUBSET Nat]
        /\ dirs'[t] = dirs[source] /\ dirs'[source] = dirs[source]
    BY <1>e, <1>3, <1>6, <2>2 DEF LinkFiles, TypeOK
  <2>4. pc' = [pc EXCEPT ![w] = "tombstones"] /\ "tombstones" \in Building
        /\ pc'[w] = "tombstones"
    BY <1>e, <1>6 DEF LinkFiles, Goto, Building, TypeOK
  <2>5. StepInv(w)'
    BY <1>e, <1>2, <1>3, <1>4, <1>5, <2>0, <2>3, <2>4 DEF StepInv, Building, LinkFiles
  <2> QED
    BY <1>0, <1>3, <1>4, <2>3, <2>4, <2>5, BuildingStep
<1> QED
  BY <1>a, <1>b, <1>c, <1>d, <1>e

(* The finished new segment takes its name. *)
LEMMA PrepareSidecarsKeeps ==
  ASSUME IInv, NEW w \in Writers, PrepareSidecars(w)
  PROVE  IInv'
<1> DEFINE t == Target(w)
           m == plan[w].next
           p == [plan[w] EXCEPT !.fresh = FALSE, !.next = [m EXCEPT !.next = t + 1]]
           s == IF plan[w].kind = "merge" THEN "merged" ELSE "stage"
<1>1. pc[w] = "sidecars" /\ pc[w] \in Working /\ TypeOK
  BY DEF PrepareSidecars, Working, IInv
<1>2. /\ mem[w] = manifest /\ manifest.exists /\ lock = w
      /\ PlanInv(w) /\ StepInv(w) /\ Exact(mem[w])
      /\ plan[w] \in Plans /\ mem[w] \in Manifests
      /\ m \in Manifests /\ t \in Nat /\ mem[w].next \in Nat
      /\ \A n \in NamesIn(m) : n \in Names /\ n # t
      /\ \A n \in NamesIn(manifest) : n \in Names /\ n # t
  BY <1>1, PlanFacts DEF Target
<1>3. /\ t \in Names /\ tombs[t] = {} /\ plan[w].fresh /\ m = mem[w] /\ t = mem[w].next
      /\ dirs[t] = [stage |-> "indexed", docs |-> plan[w].docs]
  BY <1>1, <1>2 DEF StepInv, PlanInv, Building, Target
<1>4. /\ dirs' = [dirs EXCEPT ![t] = [stage |-> "complete", docs |-> plan[w].docs]]
      /\ UNCHANGED <<manifest, tombs, lock, mem>>
      /\ pc' = [pc EXCEPT ![w] = s]
  <2>1. [dirs[t] EXCEPT !.stage = "complete"] = [stage |-> "complete", docs |-> plan[w].docs]
    BY <1>3
  <2> QED
    BY <2>1 DEF PrepareSidecars, Goto
<1>5. plan' = [plan EXCEPT ![w] = p]
  BY <1>1, <1>2 DEF PrepareSidecars, Target, TypeOK, Plans, Manifests
<1>6. p \in Plans
  <2>1. [m EXCEPT !.next = t + 1] \in Manifests
    BY <1>2 DEF Manifests
  <2> QED
    BY <1>2, <2>1 DEF Plans
<1>7. /\ p.next.next = t + 1 /\ p.next.segs = m.segs /\ p.next.exists = m.exists
      /\ ~p.fresh /\ p.docs = plan[w].docs /\ p.kind = plan[w].kind
      /\ NamesIn(p.next) = NamesIn(m)
  <2>1. /\ p.next.next = t + 1 /\ p.next.segs = m.segs /\ p.next.exists = m.exists
        /\ ~p.fresh /\ p.docs = plan[w].docs /\ p.kind = plan[w].kind
    BY <1>2 DEF Plans, Manifests
  <2> QED
    BY <2>1 DEF NamesIn
<1>8. plan'[w] = p /\ pc'[w] = s /\ mem'[w] = mem[w] /\ dirs'[t] = [stage |-> "complete", docs |-> plan[w].docs]
      /\ \A n \in NamesIn(m) : dirs'[n] = dirs[n] /\ tombs'[n] = tombs[n]
  BY <1>1, <1>2, <1>3, <1>4, <1>5 DEF TypeOK
<1> HIDE DEF p, s, t
<1>9. IntactIn(p.next, dirs', tombs') /\ ExactIn(p.next, dirs', tombs')
  <2>1. IntactIn(m, dirs, tombs) /\ ExactIn(m, dirs, tombs)
    BY <1>2, InTermsOfFiles DEF PlanInv
  <2>2. IntactIn(m, dirs', tombs') /\ ExactIn(m, dirs', tombs')
    BY <1>8, <2>1, Frame
  <2>3. \A n \in NamesIn(m) : n < t + 1
    BY <1>2, MaxNameAssumption DEF PlanInv, Intact, t, Target, Names
  <2> QED
    BY <1>7, <2>2, <2>3 DEF IntactIn, ExactIn
<1>10. Intact(plan[w].next)' /\ Exact(plan[w].next)'
  BY <1>8, <1>9 DEF Intact, IntactIn, Exact, ExactIn, LiveIn, DocsOf
<1>11. Prepared(w)'
  BY <1>2, <1>3, <1>4, <1>7, <1>8 DEF Prepared
<1>12. PlanInv(w)'
  <2>1. mem'[w].next <= plan'[w].next.next
    BY <1>2, <1>3, <1>7, <1>8
  <2>2. plan'[w].kind \in {"change", "merge"} /\ (pc'[w] = "merged" <=> p.kind = "merge")
    BY <1>2, <1>7, <1>8 DEF PlanInv, s
  <2> QED
    BY <1>2, <1>3, <1>7, <1>8, <1>10, <1>11, <2>1, <2>2 DEF PlanInv, s
<1>13. StepInv(w)'
  BY <1>7, <1>8 DEF StepInv, Building, s
<1>14. s \in Steps /\ s \in {"stage", "merged"}
  BY DEF Steps, s
<1>15. TypeOK'
  BY <1>1, <1>2, <1>3, <1>4, <1>5, <1>6, <1>14 DEF TypeOK, Dirs, Stages, Plans
<1>16. PublishedIntact' /\ Healable'
  BY <1>2, <1>3, <1>4, <1>8, PublishedKept DEF IInv
<1>17. Exact(mem[w])'
  BY <1>2, <1>3, <1>8, MemKept
<1>18. WriterInv(w)'
  BY <1>2, <1>4, <1>8, <1>12, <1>13, <1>14, <1>17 DEF WriterInv
<1>19. \A v \in Writers \ {w} : WriterInv(v)'
  BY <1>1, <1>4, OthersKept DEF TypeOK
<1> QED
  BY <1>15, <1>16, <1>18, <1>19 DEF IInv

(* Steps that give up or finish an operation, or remove merged segments.   *)
LEMMA CleanupKeeps ==
  ASSUME IInv, NEW w \in Writers,
         \/ PrepareFails(w) \/ Fail(w) \/ NothingToCommit(w)
         \/ RetireDir(w) \/ RetireTombstones(w) \/ FinishMerge(w)
  PROVE  IInv'
<1> USE DEF Abandon, Goto, diskVars
<1>1. TypeOK
  BY DEF IInv
<1>2. NoPlan \in Plans /\ {"idle", "retire_dir", "retire_del"} \subseteq Steps \ (Working \cup {"closed", "locked"})
  BY DEF NoPlan, Plans, NoManifest, Manifests, Steps, Working
<1>3. \A k \in NamesIn(manifest) : k \in Names
  <2>1. manifest \in Manifests
    BY <1>1 DEF TypeOK
  <2>2. \A i \in DOMAIN manifest.segs : manifest.segs[i].name \in Names
    BY <2>1, EntryTypes
  <2> QED
    BY <2>2 DEF NamesIn
<1>a. CASE PrepareFails(w)
  <2>1. pc[w] = "sidecars" /\ pc[w] \in Working
    BY <1>a DEF PrepareFails, Working
  <2>2. Target(w) \in Names /\ \A n \in NamesIn(manifest) : n \in Names /\ n # Target(w)
    BY <2>1, PlanFacts DEF StepInv, Building
  <2>3. dirs' \in [Names -> Dirs] /\ \A n \in NamesIn(manifest) : dirs'[n] = dirs[n]
    BY <1>a, <1>1, <2>2, AfterRemovalType DEF PrepareFails, TypeOK
  <2> QED
    BY <1>a, <1>1, <1>2, <2>1, <2>3, GarbageStep DEF PrepareFails, TypeOK
<1>b. CASE Fail(w) \/ NothingToCommit(w) \/ FinishMerge(w)
  <2>1. pc[w] \notin {"closed", "locked"} /\ dirs' = dirs /\ tombs' = tombs
    BY <1>b DEF Fail, NothingToCommit, FinishMerge
  <2> QED
    BY <1>b, <1>1, <1>2, <2>1, GarbageStep DEF Fail, NothingToCommit, FinishMerge, TypeOK
<1>c. CASE RetireDir(w)
  <2> DEFINE n == Head(plan[w].retired)
  <2>1. pc[w] = "retire_dir" /\ plan[w].retired # <<>> /\ RetireInv(w)
        /\ plan[w] \in Plans /\ plan[w].retired \in Seq(Names)
    BY <1>c, <1>1 DEF RetireDir, IInv, WriterInv, TypeOK, Plans
  <2>2. n \in Names /\ 1 \in DOMAIN plan[w].retired /\ n = plan[w].retired[1]
    BY <2>1
  <2>3. n \notin NamesIn(manifest)
    BY <2>1, <2>2 DEF RetireInv
  <2>4. dirs' \in [Names -> Dirs] /\ \A k \in NamesIn(manifest) : dirs'[k] = dirs[k]
    BY <1>c, <1>1, <1>3, <2>2, <2>3, AfterRemovalType DEF RetireDir, TypeOK
  <2>5. plan' = [plan EXCEPT ![w] = plan[w]] /\ pc' = [pc EXCEPT ![w] = "retire_del"]
    BY <1>c, <1>1 DEF RetireDir, TypeOK
  <2>6. RetireInv(w)'
    BY <1>c, <2>1 DEF RetireDir, RetireInv, NamesIn
  <2>7. pc[w] \notin {"closed", "locked"} /\ UNCHANGED <<manifest, lock, mem>> /\ tombs' = tombs /\ tombs' \in [Names -> SUBSET Nat]
    BY <1>c, <1>1, <2>1 DEF RetireDir, TypeOK
  <2>8. "retire_del" \in Steps \ (Working \cup {"closed", "locked"})
    BY <1>2
  <2> QED
    BY <2>1, <2>4, <2>5, <2>6, <2>7, <2>8, GarbageStep
<1>d. CASE RetireTombstones(w)
  <2> DEFINE n == Head(plan[w].retired)
             p == [plan[w] EXCEPT !.retired = Tail(plan[w].retired)]
  <2>1. pc[w] = "retire_del" /\ plan[w].retired # <<>> /\ RetireInv(w)
        /\ plan[w] \in Plans /\ plan[w].retired \in Seq(Names)
    BY <1>d, <1>1 DEF RetireTombstones, IInv, WriterInv, RetireInv, TypeOK, Plans
  <2>2. n \in Names /\ 1 \in DOMAIN plan[w].retired /\ n = plan[w].retired[1]
    BY <2>1
  <2>3. n \notin NamesIn(manifest)
    BY <2>1, <2>2 DEF RetireInv
  <2>4. tombs' \in [Names -> SUBSET Nat] /\ \A k \in NamesIn(manifest) : tombs'[k] = tombs[k]
    BY <1>d, <1>1, <1>3, <2>2, <2>3 DEF RetireTombstones, TypeOK
  <2>5. plan' = [plan EXCEPT ![w] = p] /\ p \in Plans /\ p.retired = Tail(plan[w].retired)
    <3>1. Tail(plan[w].retired) \in Seq(Names)
      BY <2>1
    <3>2. plan' = [plan EXCEPT ![w] = p]
      BY <1>d, <1>1 DEF RetireTombstones, TypeOK
    <3> QED
      BY <2>1, <3>1, <3>2 DEF Plans
  <2>6. RetireInv(w)'
    <3>1. plan'[w].retired = Tail(plan[w].retired) /\ pc'[w] = "retire_dir"
      BY <1>d, <1>1, <2>5 DEF RetireTombstones, TypeOK
    <3>2. \A i \in DOMAIN Tail(plan[w].retired) :
            i + 1 \in DOMAIN plan[w].retired /\ Tail(plan[w].retired)[i] = plan[w].retired[i + 1]
      BY <2>1
    <3>3. manifest' = manifest
      BY <1>d DEF RetireTombstones
    <3> QED
      BY <2>1, <3>1, <3>2, <3>3 DEF RetireInv, NamesIn
  <2> QED
    BY <1>d, <1>1, <1>2, <2>1, <2>4, <2>5, <2>6, GarbageStep DEF RetireTombstones, TypeOK
<1> QED
  BY <1>a, <1>b, <1>c, <1>d

-----------------------------------------------------------------------------
(* Replacing a segment by a copy with more tombstones, and publishing. *)

LEMMA StageReplacementKeeps ==
  ASSUME IInv, NEW w \in Writers, StageReplacement(w)
  PROVE  IInv'
<1> USE DEF StageReplacement, Goto, diskVars
<1>1. pc[w] \in Working /\ pc[w] = "stage" /\ TypeOK
  BY DEF Working, IInv
<1>2. PlanInv(w) /\ StepInv(w) /\ plan[w] \in Plans
  BY <1>1, PlanFacts
<1>3. pc'[w] = "clear_dir" /\ plan' = [plan EXCEPT ![w] = plan[w]] /\ plan'[w] = plan[w]
  BY <1>1 DEF TypeOK
<1>4. Pending(w)' = Pending(w)
  BY <1>3, PendingKept
<1>5. Intact(plan[w].next)' /\ Exact(plan[w].next)'
  BY <1>2, <1>3, FilesKept DEF PlanInv
<1>6. PlanInv(w)'
  BY <1>1, <1>2, <1>3, <1>5 DEF PlanInv, StepInv, Prepared
<1>7. StepInv(w)'
  BY <1>1, <1>2, <1>3, <1>4 DEF StepInv, Building
<1> QED
  BY <1>1, <1>2, <1>3, <1>6, <1>7, ProgressStep DEF Steps

(* The copy with more tombstones: finished, exact and under a new number.  *)
LEMMA WriteTombstonesKeeps ==
  ASSUME IInv, NEW w \in Writers, WriteTombstones(w)
  PROVE  IInv'
<1> DEFINE t == Target(w)
           m == plan[w].next
           i == First(Pending(w))
           n == m.segs[i].name
           hit == Matches(m, i, plan[w].ids)
           e == [name |-> t, live |-> m.segs[i].live - Cardinality(hit)]
           q == [exists |-> TRUE, next |-> t + 1, segs |-> [m.segs EXCEPT ![i] = e]]
           p == [plan[w] EXCEPT !.next = q]
<1>1. pc[w] = "tombstones" /\ pc[w] \in Working /\ TypeOK
  BY DEF WriteTombstones, Working, IInv
<1>2. /\ mem[w] = manifest /\ manifest.exists /\ lock = w
      /\ PlanInv(w) /\ StepInv(w) /\ Exact(mem[w])
      /\ plan[w] \in Plans /\ mem[w] \in Manifests
      /\ m \in Manifests /\ t \in Nat /\ mem[w].next \in Nat
      /\ \A k \in NamesIn(m) : k \in Names /\ k # t
      /\ \A k \in NamesIn(manifest) : k \in Names /\ k # t
  BY <1>1, PlanFacts DEF Target
<1>3. /\ t \in Names /\ ~plan[w].fresh /\ Pending(w) # {} /\ dirs[t] = dirs[n]
      /\ m.exists /\ mem[w].next <= t /\ plan[w].kind = "change"
  BY <1>1, <1>2 DEF StepInv, PlanInv, Building, Target
<1>4. i \in Pending(w) /\ i \in DOMAIN m.segs /\ hit # {}
  BY <1>2, <1>3, PendingHasFirst DEF Pending
<1>5. /\ m.segs \in Seq(Entries) /\ n \in NamesIn(m) /\ n \in Names /\ n # t
      /\ m.segs[i].live \in Nat
  BY <1>2, <1>4, EntryTypes DEF NamesIn, Manifests
<1>6. DocsOf(m, i) \in Seq(Docs) /\ hit \subseteq LiveIn(m, i) /\ hit \subseteq Nat
      /\ DocsOf(m, i) = dirs[n].docs /\ LiveIn(m, i) = DOMAIN dirs[n].docs \ tombs[n]
  <2>1. DocsOf(m, i) \in Seq(Docs)
    BY <1>1, <1>2, <1>4, SegmentTypes
  <2>2. hit \subseteq LiveIn(m, i) /\ LiveIn(m, i) \subseteq DOMAIN DocsOf(m, i)
    BY DEF Matches, LiveIn
  <2>3. DOMAIN DocsOf(m, i) \subseteq Nat
    BY <2>1
  <2> QED
    BY <2>1, <2>2, <2>3 DEF LiveIn, DocsOf
<1>7. /\ e.live = Cardinality(LiveIn(m, i) \ hit)
      /\ e.live \in Nat
  <2>1. IsFiniteSet(LiveIn(m, i))
    BY <1>1, <1>2, <1>4, LiveFinite
  <2>2. m.segs[i].live = Cardinality(LiveIn(m, i))
    BY <1>2, <1>4 DEF PlanInv, Exact
  <2>3. LiveIn(m, i) \cap hit = hit
    BY <1>6
  <2>4. /\ IsFiniteSet(LiveIn(m, i) \ hit)
        /\ Cardinality(LiveIn(m, i) \ hit) = Cardinality(LiveIn(m, i)) - Cardinality(hit)
    BY <2>1, <2>3, FS_Difference
  <2>5. Cardinality(LiveIn(m, i) \ hit) \in Nat
    BY <2>4, FS_CardinalityType
  <2> QED
    BY <2>2, <2>4, <2>5
<1>8. tombs' = [tombs EXCEPT ![t] = tombs[n] \cup hit] /\ UNCHANGED <<manifest, dirs, lock, mem>>
      /\ pc' = [pc EXCEPT ![w] = "stage"]
  BY DEF WriteTombstones, Goto
<1>9. plan' = [plan EXCEPT ![w] = p]
  <2> DEFINE segs == [m.segs EXCEPT ![i] = e]
             numbered == [m EXCEPT !.next = t + 1]
             next == [numbered EXCEPT !.segs = segs]
  <2>1. plan \in [Writers -> Plans] /\ m.segs[i] = [name |-> m.segs[i].name, live |-> m.segs[i].live]
    BY <1>1, <1>2, <1>4, EntryTypes DEF TypeOK
  <2>2. plan' = [plan EXCEPT ![w] = [plan[w] EXCEPT !.next = next]]
    BY <1>2, <1>4, <1>5, <2>1 DEF WriteTombstones, Plans, Manifests, Target
  <2>3. next = q
    <3> DEFINE k == t + 1
    <3>1. m = [exists |-> m.exists, next |-> m.next, segs |-> m.segs] /\ m.exists = TRUE
      BY <1>2, <1>3 DEF Manifests
    <3>2. q = [exists |-> m.exists, next |-> k, segs |-> segs]
      BY <3>1
    <3> HIDE DEF m, segs, k, q
    <3>3. numbered = [exists |-> m.exists, next |-> k, segs |-> m.segs]
      BY <3>1 DEF k
    <3> HIDE DEF numbered
    <3> QED
      BY <3>2, <3>3
  <2> HIDE DEF next, q
  <2> QED
    BY <2>2, <2>3
<1>10. q.segs \in Seq(Entries) /\ DOMAIN q.segs = DOMAIN m.segs
       /\ \A j \in DOMAIN m.segs : q.segs[j] = IF j = i THEN e ELSE m.segs[j]
  <2>1. e \in Entries
    BY <1>3, <1>7 DEF Entries
  <2>2. \A j \in DOMAIN m.segs : q.segs[j] = IF j = i THEN e ELSE m.segs[j]
    BY <1>4, <1>5
  <2> HIDE DEF e
  <2>3. q.segs \in Seq(Entries)
    BY <1>4, <1>5, <2>1
  <2> QED
    BY <1>5, <2>2, <2>3
<1>11. p \in Plans /\ plan'[w] = p /\ pc'[w] = "stage" /\ mem'[w] = mem[w]
       /\ p.next = q /\ p.kind = plan[w].kind /\ p.fresh = plan[w].fresh /\ p.docs = plan[w].docs
  <2>1. q \in Manifests
    BY <1>2, <1>10 DEF Manifests
  <2> HIDE DEF q
  <2>2. p \in Plans
    BY <1>2, <2>1 DEF Plans
  <2> QED
    BY <1>1, <1>2, <1>8, <1>9, <2>2 DEF TypeOK, Plans
<1>12. /\ dirs' = dirs /\ tombs'[t] = tombs[n] \cup hit
       /\ \A k \in Names \ {t} : tombs'[k] = tombs[k]
  BY <1>1, <1>3, <1>8 DEF TypeOK
<1>13. \A k \in NamesIn(q) : k = t \/ k \in NamesIn(m)
  BY <1>10 DEF NamesIn
<1>14. IntactIn(m, dirs, tombs) /\ ExactIn(m, dirs, tombs)
  BY <1>2, InTermsOfFiles DEF PlanInv
<1> HIDE DEF hit, p, i, n, t, m
<1>15. IntactIn(q, dirs', tombs')
  <2>1. dirs[t].stage = "complete" /\ tombs'[t] \subseteq DOMAIN dirs[t].docs
    BY <1>3, <1>5, <1>6, <1>12, <1>14 DEF IntactIn
  <2>2. ASSUME NEW k \in NamesIn(q)
        PROVE  k < t + 1 /\ dirs'[k].stage = "complete" /\ tombs'[k] \subseteq DOMAIN dirs'[k].docs
    <3>1. CASE k = t
      BY <1>2, <1>12, <2>1, <3>1
    <3>2. CASE k \in NamesIn(m)
      <4>1. k < m.next /\ dirs[k].stage = "complete" /\ tombs[k] \subseteq DOMAIN dirs[k].docs
        BY <1>14, <3>2 DEF IntactIn
      <4>2. k \in Nat /\ m.next = t /\ k \in Names \ {t}
        BY <1>2, <3>2, MaxNameAssumption DEF Names, t, m, Target
      <4> QED
        BY <1>2, <1>12, <4>1, <4>2
    <3> QED
      BY <1>13, <3>1, <3>2
  <2>3. ASSUME NEW j \in DOMAIN q.segs, NEW k \in DOMAIN q.segs,
               q.segs[j].name = q.segs[k].name
        PROVE  j = k
    <3>1. \A l \in DOMAIN m.segs : m.segs[l].name \in NamesIn(m)
      BY DEF NamesIn
    <3>2. \A l \in DOMAIN m.segs : m.segs[l].name # t
      BY <1>2, <3>1
    <3>3. e.name = t
      OBVIOUS
    <3> HIDE DEF e, q
    <3> QED
      BY <1>10, <1>14, <2>3, <3>2, <3>3 DEF IntactIn
  <2>4. q.next = t + 1
    OBVIOUS
  <2> HIDE DEF q
  <2> QED
    BY <2>2, <2>3, <2>4 DEF IntactIn
<1>16. ExactIn(q, dirs', tombs')
  <2> SUFFICES ASSUME NEW j \in DOMAIN q.segs
               PROVE  q.segs[j].live = Cardinality(DOMAIN dirs[q.segs[j].name].docs \ tombs'[q.segs[j].name])
    BY <1>12 DEF ExactIn
  <2>1. CASE j = i
    <3>1. q.segs[j] = e /\ e.name = t
      BY <1>10, <2>1
    <3>2. LiveIn(m, i) \ hit = DOMAIN dirs[t].docs \ tombs'[t]
      BY <1>3, <1>6, <1>12
    <3> HIDE DEF e, q
    <3> QED
      BY <1>7, <3>1, <3>2
  <2>2. CASE j # i
    <3>1. q.segs[j] = m.segs[j] /\ m.segs[j].name \in NamesIn(m)
      BY <1>10, <2>2 DEF NamesIn
    <3>2. tombs'[m.segs[j].name] = tombs[m.segs[j].name]
      BY <1>2, <1>12, <3>1
    <3> HIDE DEF q
    <3> QED
      BY <1>10, <1>14, <3>1, <3>2 DEF ExactIn
  <2> QED
    BY <2>1, <2>2
<1>17. Intact(plan[w].next)' /\ Exact(plan[w].next)'
  <2>1. plan'[w].next = q
    BY <1>11
  <2> HIDE DEF q
  <2>2. Intact(plan[w].next)' <=> IntactIn(plan'[w].next, dirs', tombs')
    BY DEF Intact, IntactIn
  <2>3. Exact(plan[w].next)' <=> ExactIn(plan'[w].next, dirs', tombs')
    BY DEF Exact, ExactIn, LiveIn, DocsOf
  <2> QED
    BY <1>15, <1>16, <2>1, <2>2, <2>3
<1>18. q.next = t + 1 /\ q.exists
  OBVIOUS
<1> HIDE DEF q, e
<1>19. plan[w].docs # <<>> => Prepared(w)'
  <2> SUFFICES ASSUME plan[w].docs # <<>>
               PROVE  Prepared(w)'
    OBVIOUS
  <2>1. Prepared(w)
    BY <1>2, <1>3 DEF PlanInv
  <2>2. mem[w].next < t /\ mem[w].next \in Names \ {t} /\ mem[w].next \notin NamesIn(m)
    BY <1>2, <2>1 DEF Prepared, t, m, Target
  <2>3. mem[w].next \notin NamesIn(q) /\ mem[w].next < q.next
    BY <1>2, <1>13, <1>18, <2>2
  <2> QED
    BY <1>11, <1>12, <2>1, <2>2, <2>3 DEF Prepared
<1>20. PlanInv(w)'
  <2>1. mem[w].next <= q.next
    BY <1>2, <1>3, <1>18
  <2>2. \A k \in NamesIn(q) : k \in NamesIn(mem[w]) \/ k >= mem[w].next
    BY <1>2, <1>3, <1>13 DEF PlanInv, m
  <2>3. NamesIn(plan[w].next)' = NamesIn(q) /\ NamesIn(mem[w])' = NamesIn(mem[w])
    BY <1>11 DEF NamesIn
  <2> QED
    BY <1>3, <1>11, <1>17, <1>18, <1>19, <2>1, <2>2, <2>3 DEF PlanInv
<1>21. StepInv(w)'
  BY <1>3, <1>11 DEF StepInv, Building
<1>22. TypeOK'
  <2>1. tombs[n] \cup hit \in SUBSET Nat
    BY <1>1, <1>5, <1>6 DEF TypeOK
  <2> QED
    BY <1>1, <1>3, <1>8, <1>9, <1>11, <2>1 DEF TypeOK, Steps
<1>23. PublishedIntact' /\ Healable' /\ Exact(mem[w])'
  <2>1. \A k \in NamesIn(manifest) : dirs'[k] = dirs[k] /\ tombs'[k] = tombs[k]
    BY <1>2, <1>12
  <2>2. PublishedIntact' /\ Healable'
    BY <1>8, <2>1, PublishedKept DEF IInv
  <2>3. Exact(mem[w])'
    BY <1>2, <1>11, <2>1, MemKept
  <2> QED
    BY <2>2, <2>3
<1>24. WriterInv(w)'
  BY <1>2, <1>8, <1>11, <1>20, <1>21, <1>23 DEF WriterInv
<1>25. \A v \in Writers \ {w} : WriterInv(v)'
  BY <1>1, <1>8, OthersKept DEF TypeOK
<1> QED
  BY <1>22, <1>23, <1>24, <1>25 DEF IInv

(* What a writer that has staged its whole change is about to publish.     *)
LEMMA CommittedFacts ==
  ASSUME IInv, NEW w \in Writers, pc[w] \in {"stage", "merged"}
  PROVE  /\ Committed(w) \in Manifests /\ Committed(w).exists
         /\ Committed(w).next = plan[w].next.next
         /\ IntactIn(Committed(w), dirs, tombs) /\ ExactIn(Committed(w), dirs, tombs)
         /\ \A n \in NamesIn(Committed(w)) : n \in NamesIn(mem[w]) \/ n >= mem[w].next
         /\ plan[w].kind = "merge" => NamesIn(Committed(w)) = {mem[w].next}
<1> DEFINE m == plan[w].next
           e == NewEntry(w)
           c == Committed(w)
           merged == plan[w].kind = "merge"
           extended == ~merged /\ plan[w].docs # <<>>
<1>1. TypeOK /\ pc[w] \in Working
  BY DEF IInv, Working
<1>2. /\ PlanInv(w) /\ StepInv(w) /\ plan[w] \in Plans /\ mem[w] \in Manifests
      /\ m \in Manifests /\ m.next \in Nat /\ mem[w].next \in Nat
  BY <1>1, PlanFacts
<1>3. ~plan[w].fresh /\ (merged \/ extended => Prepared(w))
  BY <1>2 DEF StepInv, PlanInv
<1>4. IntactIn(m, dirs, tombs) /\ ExactIn(m, dirs, tombs)
  BY <1>2, InTermsOfFiles DEF PlanInv
<1>5. m.segs \in Seq(Entries) /\ m = [exists |-> m.exists, next |-> m.next, segs |-> m.segs] /\ m.exists
  BY <1>2 DEF Manifests, PlanInv
<1> DEFINE segs == CASE merged -> <<e>> [] extended -> Append(m.segs, e) [] OTHER -> m.segs
<1>6. c = [exists |-> m.exists, next |-> m.next, segs |-> segs]
  <2>1. c = [m EXCEPT !.segs = segs]
    BY <1>5 DEF Committed
  <2> HIDE DEF segs, c, m
  <2> QED
    BY <1>5, <2>1
<1>7. ASSUME merged \/ extended
      PROVE  /\ e.name = mem[w].next /\ e.live = Len(plan[w].docs) /\ e \in Entries
             /\ e.name < m.next /\ e.name \notin NamesIn(m)
             /\ dirs[e.name].stage = "complete" /\ tombs[e.name] = {}
             /\ e.live = Cardinality(DOMAIN dirs[e.name].docs \ tombs[e.name])
  <2>1. Prepared(w) /\ plan[w].docs \in Seq(Docs)
    BY <1>2, <1>3, <1>7 DEF Plans
  <2>2. Cardinality(DOMAIN plan[w].docs) = Len(plan[w].docs) /\ Len(plan[w].docs) \in Nat
    BY <2>1, DomainFinite
  <2>3. e.name = mem[w].next /\ e.live = Len(plan[w].docs) /\ e \in Entries
    BY <2>1, <2>2 DEF NewEntry, Entries, Prepared
  <2>4. dirs[e.name].docs = plan[w].docs /\ tombs[e.name] = {} /\ dirs[e.name].stage = "complete"
    BY <2>1, <2>3 DEF Prepared
  <2>5. DOMAIN dirs[e.name].docs \ tombs[e.name] = DOMAIN plan[w].docs
    BY <2>4
  <2> QED
    BY <2>1, <2>2, <2>3, <2>4, <2>5 DEF Prepared
<1> HIDE DEF e, m, c
<1>a. CASE merged
  <2>1. segs = <<e>> /\ c.segs = <<e>> /\ c.next = m.next /\ c.exists
    BY <1>5, <1>6, <1>a
  <2>2. DOMAIN c.segs = {1} /\ c.segs[1] = e
    BY <2>1
  <2>3. NamesIn(c) = {e.name}
    BY <2>2 DEF NamesIn
  <2>4. c \in Manifests
    <3>1. <<e>> \in Seq(Entries)
      BY <1>7, <1>a
    <3> QED
      BY <1>2, <1>5, <1>6, <2>1, <3>1 DEF Manifests
  <2>5. e.name \in Nat
    BY <1>2, <1>7, <1>a
  <2>6. IntactIn(c, dirs, tombs) /\ ExactIn(c, dirs, tombs)
    BY <1>7, <1>a, <2>1, <2>2, <2>3 DEF IntactIn, ExactIn
  <2> QED
    BY <1>2, <1>7, <1>a, <2>1, <2>3, <2>4, <2>5, <2>6 DEF m, c
<1>b. CASE extended
  <2>1. c.segs = Append(m.segs, e) /\ c.next = m.next /\ c.exists
    BY <1>5, <1>6, <1>b
  <2>2. /\ c.segs \in Seq(Entries) /\ DOMAIN c.segs = DOMAIN m.segs \cup {Len(m.segs) + 1}
        /\ c.segs[Len(m.segs) + 1] = e /\ Len(m.segs) + 1 \notin DOMAIN m.segs
        /\ \A i \in DOMAIN m.segs : c.segs[i] = m.segs[i]
    BY <1>5, <1>7, <1>b, <2>1
  <2>3. \A n \in NamesIn(c) : n = e.name \/ n \in NamesIn(m)
    BY <2>2 DEF NamesIn
  <2>4. c \in Manifests
    BY <1>2, <1>5, <1>6, <2>1, <2>2 DEF Manifests
  <2>5. e.name \in Nat /\ e.name >= mem[w].next
    BY <1>2, <1>7, <1>b
  <2>6. IntactIn(c, dirs, tombs)
    <3>1. \A i \in DOMAIN m.segs : m.segs[i].name \in NamesIn(m)
      BY DEF NamesIn
    <3>2. \A i, j \in DOMAIN c.segs : c.segs[i].name = c.segs[j].name => i = j
      BY <1>4, <1>7, <1>b, <2>2, <3>1 DEF IntactIn
    <3>3. \A n \in NamesIn(c) : n < c.next /\ dirs[n].stage = "complete"
                                /\ tombs[n] \subseteq DOMAIN dirs[n].docs
      BY <1>4, <1>7, <1>b, <2>1, <2>3 DEF IntactIn
    <3> QED
      BY <3>2, <3>3 DEF IntactIn
  <2>7. ExactIn(c, dirs, tombs)
    BY <1>4, <1>7, <1>b, <2>2 DEF ExactIn
  <2>8. \A n \in NamesIn(c) : n \in NamesIn(mem[w]) \/ n >= mem[w].next
    BY <1>2, <1>7, <1>b, <2>3, <2>5 DEF PlanInv, m
  <2> QED
    BY <1>b, <2>1, <2>4, <2>6, <2>7, <2>8 DEF m, c
<1>c. CASE ~merged /\ ~extended
  <2>1. c = m
    BY <1>5, <1>6, <1>c
  <2> QED
    BY <1>2, <1>4, <1>5, <1>c, <2>1 DEF PlanInv, m, c
<1> QED
  BY <1>a, <1>b, <1>c

LEMMA CommitKeeps ==
  ASSUME IInv, NEW w \in Writers, CommitChange(w) \/ CommitMerge(w)
  PROVE  IInv'
<1> DEFINE c == Committed(w)
<1>1. TypeOK /\ pc[w] \in {"stage", "merged"} /\ pc[w] \in Working
  BY DEF IInv, Working, CommitChange, CommitMerge
<1>2. /\ mem[w] = manifest /\ manifest.exists /\ lock = w
      /\ PlanInv(w) /\ StepInv(w) /\ plan[w] \in Plans /\ mem[w] \in Manifests
      /\ mem[w].next \in Nat
      /\ \A n \in NamesIn(mem[w]) : n \in Names
  BY <1>1, PlanFacts
<1>3. /\ c \in Manifests /\ c.exists
      /\ IntactIn(c, dirs, tombs) /\ ExactIn(c, dirs, tombs)
      /\ plan[w].kind = "merge" => NamesIn(c) = {mem[w].next}
  BY <1>1, CommittedFacts
<1>4. /\ manifest' = c /\ mem' = [mem EXCEPT ![w] = c] /\ UNCHANGED <<dirs, tombs, lock>>
      /\ mem'[w] = c
  BY <1>1 DEF CommitChange, CommitMerge, TypeOK
<1> HIDE DEF c
<1>5. \E p \in Plans : plan' = [plan EXCEPT ![w] = p]
  <2>1. NoPlan \in Plans
    BY DEF NoPlan, Plans, NoManifest, Manifests
  <2>2. CASE CommitChange(w)
    BY <2>1, <2>2 DEF CommitChange, Abandon
  <2>3. CASE CommitMerge(w)
    <3> DEFINE r == [i \in DOMAIN mem[w].segs |-> mem[w].segs[i].name]
    <3>1. r \in Seq(Names)
      <4>1. mem[w].segs \in Seq(Entries)
        BY <1>2 DEF Manifests
      <4>2. DOMAIN mem[w].segs = 1..Len(mem[w].segs) /\ Len(mem[w].segs) \in Nat
        BY <4>1
      <4>3. \A i \in DOMAIN mem[w].segs : mem[w].segs[i].name \in Names
        BY <1>2 DEF NamesIn
      <4>4. r \in [1..Len(mem[w].segs) -> Names]
        BY <4>2, <4>3
      <4> QED
        BY <4>2, <4>4
    <3>2. plan' = [plan EXCEPT ![w] = [NoPlan EXCEPT !.retired = r]]
      BY <2>3 DEF CommitMerge
    <3> HIDE DEF r
    <3>3. [NoPlan EXCEPT !.retired = r] \in Plans
      BY <2>1, <3>1 DEF Plans
    <3> QED
      BY <3>2, <3>3
  <2> QED
    BY <2>2, <2>3
<1>6. /\ pc'[w] \in {"idle", "retire_dir"}
      /\ pc' = [pc EXCEPT ![w] = pc'[w]]
      /\ pc'[w] = "retire_dir" => CommitMerge(w)
  BY <1>1 DEF CommitChange, CommitMerge, Abandon, Goto, TypeOK
<1>7. TypeOK'
  BY <1>1, <1>3, <1>4, <1>5, <1>6 DEF TypeOK, Steps
<1>8. Intact(manifest)' /\ Exact(manifest)' /\ Exact(mem[w])'
  BY <1>3, <1>4 DEF Intact, IntactIn, Exact, ExactIn, LiveIn, DocsOf
<1>9. PublishedIntact' /\ Healable'
  BY <1>7, <1>8, ExactIsHealable DEF PublishedIntact
<1>10. pc'[w] = "retire_dir" => RetireInv(w)'
  <2> SUFFICES ASSUME CommitMerge(w), pc'[w] = "retire_dir" PROVE RetireInv(w)'
    BY <1>6
  <2>1. plan[w].kind = "merge"
    BY <1>2 DEF CommitMerge, StepInv
  <2>2. NamesIn(manifest)' = {mem[w].next}
    BY <1>3, <1>4, <2>1 DEF NamesIn
  <2>3. plan'[w].retired = [i \in DOMAIN mem[w].segs |-> mem[w].segs[i].name]
    BY <1>1 DEF CommitMerge, TypeOK, NoPlan
  <2>4. \A i \in DOMAIN mem[w].segs : mem[w].segs[i].name < mem[w].next
                                     /\ mem[w].segs[i].name \in Nat
    BY <1>2, MaxNameAssumption DEF IInv, PublishedIntact, Intact, NamesIn, Names
  <2>5. \A i \in DOMAIN mem[w].segs : mem[w].segs[i].name # mem[w].next
    BY <1>2, <2>4
  <2> QED
    BY <2>2, <2>3, <2>5 DEF RetireInv
<1>11. WriterInv(w)'
  BY <1>2, <1>3, <1>4, <1>6, <1>8, <1>10 DEF WriterInv, Working
<1>12. \A v \in Writers \ {w} : WriterInv(v)'
  BY <1>1, <1>4, <1>6, OthersKept DEF TypeOK, Working
<1> QED
  BY <1>7, <1>9, <1>11, <1>12 DEF IInv

-----------------------------------------------------------------------------
(* The theorems. *)

LEMMA NextKeeps == IInv /\ [Next]_vars => IInv'
<1> SUFFICES ASSUME IInv, [Next]_vars PROVE IInv'
  OBVIOUS
<1>1. CASE UNCHANGED vars
  <2> USE <1>1 DEF vars, diskVars
  <2>1. TypeOK' /\ PublishedIntact' /\ Healable'
    BY PublishedKept DEF IInv, TypeOK
  <2>2. ASSUME NEW w \in Writers
        PROVE  WriterInv(w)'
    <3>1. WriterInv(w)
      BY DEF IInv
    <3>2. Exact(mem[w])' = Exact(mem[w]) /\ Pending(w)' = Pending(w)
      BY DEF Exact, Pending, Matches, LiveIn, DocsOf
    <3>3. PlanInv(w)' = PlanInv(w)
      BY DEF PlanInv, Prepared, Intact, Exact, LiveIn, DocsOf, NamesIn
    <3>4. StepInv(w)' = StepInv(w) /\ RetireInv(w)' = RetireInv(w)
      BY <3>2 DEF StepInv, RetireInv, Target, NamesIn
    <3> QED
      BY <3>1, <3>2, <3>3, <3>4 DEF WriterInv
  <2> QED
    BY <2>1, <2>2 DEF IInv
<1>2. ASSUME NEW w \in Writers, OpenOrClose(w)
      PROVE  IInv'
  BY <1>2, LockIndexKeeps, CreateIndexKeeps, HealCountsKeeps, FinishRecoveryKeeps,
     CloseKeeps, CollectKeeps DEF OpenOrClose
<1>3. ASSUME NEW w \in Writers, Request(w)
      PROVE  IInv'
  BY <1>3, RequestKeeps
<1>4. ASSUME NEW w \in Writers, Build(w)
      PROVE  IInv'
  BY <1>4, BuildKeeps, PrepareSidecarsKeeps, CleanupKeeps DEF Build
<1>5. ASSUME NEW w \in Writers, Publish(w)
      PROVE  IInv'
  BY <1>5, StageReplacementKeeps, BuildKeeps, WriteTombstonesKeeps, CommitKeeps,
     CleanupKeeps DEF Publish
<1> QED
  BY <1>1, <1>2, <1>3, <1>4, <1>5 DEF Next

(* The inductive invariant holds in every reachable state: writers of the  *)
(* index, for any number of them, keep every recorded fact of open, build, *)
(* publish and recover.                                                    *)
THEOREM Invariance == Spec => []IInv
BY InitEstablishes, NextKeeps, PTL DEF Spec

(* Every variable keeps its type: in particular no cached live count of a  *)
(* manifest is ever decremented below zero.                                *)
THEOREM TypeCorrect == Spec => []TypeOK
<1>1. IInv => TypeOK
  BY DEF IInv
<1> QED
  BY <1>1, Invariance, PTL

(* Whatever a writer was doing when it failed or died, the manifest on     *)
(* disk names only finished segments with tombstones that fall inside them.*)
THEOREM AlwaysIntact == Spec => []PublishedIntact
<1>1. IInv => PublishedIntact
  BY DEF IInv
<1> QED
  BY <1>1, Invariance, PTL

(* A writer past opening is alone and derives its next manifest from the   *)
(* one on disk: no update is lost.                                         *)
THEOREM NoLostUpdate == Spec => []WriterIsCurrent
<1>1. IInv => WriterIsCurrent
  BY DEF IInv, WriterInv, WriterIsCurrent
<1> QED
  BY <1>1, Invariance, PTL

(* The cached live counts of a writer are those of the bitmaps. *)
THEOREM CountsStayExact == Spec => []CountsExact
<1>1. IInv => CountsExact
  BY DEF IInv, WriterInv, CountsExact, Exact, NoManifest
<1> QED
  BY <1>1, Invariance, PTL

-----------------------------------------------------------------------------
(* What a step may never do. *)

(* No step touches a file that the manifest names before and after it: a   *)
(* writer's target, garbage and retired segments are all unpublished.      *)
LEMMA ImmutableStep ==
  ASSUME IInv, [Next]_vars, NEW n \in NamesIn(manifest)
  PROVE  dirs'[n] = dirs[n] /\ tombs'[n] = tombs[n]
<1>1. TypeOK /\ n \in Names
  BY EntryTypes DEF IInv, TypeOK, NamesIn
<1>2. CASE UNCHANGED vars
  BY <1>2 DEF vars, diskVars
<1>3. ASSUME NEW w \in Writers, OpenOrClose(w)
      PROVE  dirs'[n] = dirs[n] /\ tombs'[n] = tombs[n]
  <2>1. CASE \E k \in Names : CollectDir(w, k) \/ CollectTombstones(w, k)
    <3>1. PICK k \in Names : CollectDir(w, k) \/ CollectTombstones(w, k)
      BY <2>1
    <3>2. k # n
      BY <3>1 DEF CollectDir, CollectTombstones, IInv, WriterInv
    <3> QED
      BY <1>1, <3>1, <3>2 DEF CollectDir, CollectTombstones, TypeOK
  <2>2. CASE LockIndex(w) \/ CreateIndex(w) \/ HealCounts(w) \/ FinishRecovery(w) \/ Close(w)
    BY <2>2 DEF LockIndex, CreateIndex, HealCounts, FinishRecovery, Close, diskVars
  <2> QED
    BY <1>3, <2>1, <2>2 DEF OpenOrClose
<1>4. ASSUME NEW w \in Writers, Request(w)
      PROVE  dirs'[n] = dirs[n] /\ tombs'[n] = tombs[n]
  BY <1>4 DEF Request, AddDocuments, DeleteDocuments, UpsertDocuments, MergeAll, Begin, diskVars
<1>5. ASSUME NEW w \in Writers, pc[w] \in Working, Build(w) \/ LinkFiles(w) \/ WriteTombstones(w)
      PROVE  dirs'[n] = dirs[n] /\ tombs'[n] = tombs[n]
  <2>1. n # Target(w)
    BY <1>5, PlanFacts
  <2>2. CASE ClearDir(w) \/ ClearTombstones(w) \/ CreateDir(w) \/ SaveIndex(w)
    BY <1>1, <2>1, <2>2 DEF TypeOK, ClearDir, ClearTombstones, CreateDir, SaveIndex
  <2>3. CASE PrepareSidecars(w) \/ PrepareFails(w)
    BY <1>1, <2>1, <2>3 DEF TypeOK, PrepareSidecars, PrepareFails
  <2>4. CASE Fail(w)
    BY <2>4 DEF Fail, diskVars
  <2>5. CASE LinkFiles(w) \/ WriteTombstones(w)
    BY <1>1, <2>1, <2>5 DEF TypeOK, LinkFiles, WriteTombstones
  <2> QED
    BY <1>5, <2>2, <2>3, <2>4, <2>5 DEF Build
<1>6. ASSUME NEW w \in Writers, RetireDir(w) \/ RetireTombstones(w)
      PROVE  dirs'[n] = dirs[n] /\ tombs'[n] = tombs[n]
  <2>1. /\ pc[w] \in {"retire_dir", "retire_del"} /\ RetireInv(w) /\ plan[w].retired # <<>>
        /\ plan[w].retired \in Seq(Names)
    BY <1>1, <1>6 DEF RetireDir, RetireTombstones, RetireInv, IInv, WriterInv, TypeOK, Plans
  <2>2. Head(plan[w].retired) = plan[w].retired[1] /\ 1 \in DOMAIN plan[w].retired
    BY <2>1
  <2>3. n # Head(plan[w].retired)
    BY <2>1, <2>2 DEF RetireInv
  <2> QED
    BY <1>1, <1>6, <2>3 DEF RetireDir, RetireTombstones, TypeOK
<1>7. ASSUME NEW w \in Writers, Publish(w)
      PROVE  dirs'[n] = dirs[n] /\ tombs'[n] = tombs[n]
  <2>1. CASE LinkFiles(w) \/ WriteTombstones(w)
    BY <1>5, <2>1 DEF LinkFiles, WriteTombstones, Working
  <2>2. CASE RetireDir(w) \/ RetireTombstones(w)
    BY <1>6, <2>2
  <2>3. CASE \/ StageReplacement(w) \/ CommitChange(w) \/ NothingToCommit(w)
             \/ CommitMerge(w) \/ FinishMerge(w)
    BY <2>3 DEF StageReplacement, CommitChange, NothingToCommit, CommitMerge, FinishMerge, diskVars
  <2> QED
    BY <1>7, <2>1, <2>2, <2>3 DEF Publish
<1>8. ASSUME NEW w \in Writers, Build(w)
      PROVE  dirs'[n] = dirs[n] /\ tombs'[n] = tombs[n]
  <2>1. pc[w] \in Working
    BY <1>8 DEF Build, ClearDir, ClearTombstones, CreateDir, SaveIndex, PrepareSidecars,
                PrepareFails, Fail, Working
  <2> QED
    BY <1>5, <1>8, <2>1
<1> QED
  BY <1>2, <1>3, <1>4, <1>7, <1>8 DEF Next

(* A bitmap or directory that a reader can find through the manifest is    *)
(* never rewritten, by any of any number of writers.                       *)
THEOREM SnapshotsAreStable == Spec => PublishedImmutable
<1>1. IInv /\ [Next]_vars =>
        [\A n \in NamesIn(manifest) \cap NamesIn(manifest)' :
           dirs'[n] = dirs[n] /\ tombs'[n] = tombs[n]]_vars
  BY ImmutableStep
<1> QED
  BY <1>1, Invariance, PTL DEF Spec, PublishedImmutable

(* Every way the manifest on disk changes. *)
LEMMA ManifestMoves ==
  ASSUME IInv, [Next]_vars
  PROVE  \/ manifest' = manifest
         \/ \E w \in Writers : CreateIndex(w)
         \/ \E w \in Writers : HealCounts(w)
         \/ \E w \in Writers : /\ pc[w] \in {"stage", "merged"}
                               /\ manifest' = Committed(w)
                               /\ CommitChange(w) \/ CommitMerge(w)
<1>1. CASE UNCHANGED vars
  BY <1>1 DEF vars, diskVars
<1>2. ASSUME NEW w \in Writers, OpenOrClose(w)
      PROVE  manifest' = manifest \/ CreateIndex(w) \/ HealCounts(w)
  BY <1>2 DEF OpenOrClose, LockIndex, FinishRecovery, Close, CollectDir, CollectTombstones, diskVars
<1>3. ASSUME NEW w \in Writers, Request(w)
      PROVE  manifest' = manifest
  BY <1>3 DEF Request, AddDocuments, DeleteDocuments, UpsertDocuments, MergeAll, Begin, diskVars
<1>4. ASSUME NEW w \in Writers, Build(w)
      PROVE  manifest' = manifest
  BY <1>4 DEF Build, ClearDir, ClearTombstones, CreateDir, SaveIndex, PrepareSidecars,
              PrepareFails, Fail, diskVars
<1>5. ASSUME NEW w \in Writers, Publish(w)
      PROVE  \/ manifest' = manifest
             \/ /\ pc[w] \in {"stage", "merged"} /\ manifest' = Committed(w)
                /\ CommitChange(w) \/ CommitMerge(w)
  BY <1>5 DEF Publish, StageReplacement, LinkFiles, WriteTombstones, CommitChange,
              NothingToCommit, CommitMerge, RetireDir, RetireTombstones, FinishMerge, diskVars
<1> QED
  BY <1>1, <1>2, <1>3, <1>4, <1>5 DEF Next

(* An index directory without a manifest has no segment and no counter. *)
Unborn == ~manifest.exists => manifest = NoManifest

LEMMA UnbornKept == IInv /\ Unborn /\ [Next]_vars => Unborn'
<1> SUFFICES ASSUME IInv, Unborn, [Next]_vars PROVE Unborn'
  OBVIOUS
<1>1. CASE manifest' = manifest
  BY <1>1 DEF Unborn
<1>2. ASSUME NEW w \in Writers, CreateIndex(w)
      PROVE  Unborn'
  BY <1>2 DEF CreateIndex, Unborn
<1>3. ASSUME NEW w \in Writers, HealCounts(w)
      PROVE  Unborn'
  BY <1>3, HealedIsExact DEF HealCounts, Unborn, IInv
<1>4. ASSUME NEW w \in Writers, pc[w] \in {"stage", "merged"}, manifest' = Committed(w)
      PROVE  Unborn'
  BY <1>4, CommittedFacts DEF Unborn
<1> QED
  BY <1>1, <1>2, <1>3, <1>4, ManifestMoves

(* The counter never goes back, and names enter from the counter up. *)
LEMMA FreshStep ==
  ASSUME IInv, Unborn, [Next]_vars
  PROVE  /\ manifest.next <= manifest'.next
         /\ \A n \in NamesIn(manifest') \ NamesIn(manifest) : n >= manifest.next
<1> DEFINE Step == /\ manifest.next <= manifest'.next
                   /\ \A n \in NamesIn(manifest') \ NamesIn(manifest) : n >= manifest.next
<1> SUFFICES Step
  OBVIOUS
<1>1. manifest \in Manifests /\ manifest.next \in Nat
  BY DEF IInv, TypeOK, Manifests
<1>2. CASE manifest' = manifest
  BY <1>1, <1>2
<1>3. ASSUME NEW w \in Writers, CreateIndex(w)
      PROVE  Step
  BY <1>3 DEF CreateIndex, Unborn, NoManifest, NamesIn
<1>4. ASSUME NEW w \in Writers, HealCounts(w)
      PROVE  Step
  <2>1. manifest' = Healed(manifest) /\ NamesIn(Healed(manifest)) = NamesIn(manifest)
    BY <1>4, HealedIsExact DEF HealCounts, IInv
  <2>2. Healed(manifest).next = manifest.next
    BY <1>1 DEF Healed, Manifests
  <2> QED
    BY <1>1, <2>1, <2>2
<1>5. ASSUME NEW w \in Writers, pc[w] \in {"stage", "merged"}, manifest' = Committed(w)
      PROVE  Step
  <2>1. mem[w] = manifest /\ plan[w].next.next >= mem[w].next
    BY <1>5, PlanFacts DEF Working, PlanInv
  <2>2. /\ Committed(w).next = plan[w].next.next
        /\ \A n \in NamesIn(Committed(w)) : n \in NamesIn(mem[w]) \/ n >= mem[w].next
    BY <1>5, CommittedFacts
  <2>3. plan[w].next.next \in Nat
    BY <1>5, PlanFacts DEF Working
  <2> QED
    BY <1>1, <1>5, <2>1, <2>2, <2>3
<1> QED
  BY <1>2, <1>3, <1>4, <1>5, ManifestMoves

LEMMA InitUnborn == Init => Unborn
BY DisksAssumption DEF Init, WellFormedDisk, Unborn

(* The counter never goes back, and a name enters the manifest only from   *)
(* the counter up: no published name is given to other contents.           *)
THEOREM NamesAreFresh == Spec => NamesNeverReused
<1> DEFINE Step == /\ manifest.next <= manifest'.next
                   /\ \A n \in NamesIn(manifest') \ NamesIn(manifest) : n >= manifest.next
<1>1. IInv /\ Unborn /\ [Next]_vars => [Step]_vars
  BY FreshStep
<1> HIDE DEF Step
<1>2. Spec => [][Step]_vars
  BY <1>1, InitUnborn, UnbornKept, Invariance, PTL DEF Spec
<1> QED
  BY <1>2, PTL DEF NamesNeverReused, Step

-----------------------------------------------------------------------------
(* The refinement of DocStore.  Bags are written over the files they are   *)
(* read from, so that a step on other files visibly leaves them alone.     *)

RowsOf(m, ds, ts) ==
  UNION {{<<i, p>> : p \in DOMAIN ds[m.segs[i].name].docs \ ts[m.segs[i].name]} :
           i \in DOMAIN m.segs}

BagOf(m, ds, ts) ==
  [d \in Docs |-> Cardinality({r \in RowsOf(m, ds, ts) :
                                ds[m.segs[r[1]].name].docs[r[2]] = d})]

(* The same rows, segment by segment. *)
Placed(m, ds, ts, d) ==
  UNION {{<<i, p>> : p \in {k \in DOMAIN ds[m.segs[i].name].docs \ ts[m.segs[i].name] :
                              ds[m.segs[i].name].docs[k] = d}} : i \in DOMAIN m.segs}

(* How often a batch has a document. *)
Given(docs, d) == Cardinality({k \in DOMAIN docs : docs[k] = d})

(* The bag after the deletion of ids and the addition of docs.             *)
Promised(bag, docs, ids) ==
  [d \in Docs |-> (IF d.id \in ids THEN 0 ELSE bag[d]) + Given(docs, d)]

(* The two ways in which DocStore lets a bag change. *)
Added(bag, batch) == [d \in Docs |-> bag[d] + Given(batch, d)]

Upserted(bag, batch, deleted) ==
  [d \in Docs |->
     CASE d.id \in {batch[k].id : k \in DOMAIN batch} ->
            IF d = Contract!Final(batch, d.id) THEN 1 ELSE 0
       [] d.id \in deleted \ {batch[k].id : k \in DOMAIN batch} -> 0
       [] OTHER -> bag[d]]

Allowed(bag, after) ==
  \/ \E batch \in Batches : after = Added(bag, batch)
  \/ \E batch \in Batches \cup {<<>>}, deleted \in SUBSET Ids :
       after = Upserted(bag, batch, deleted)

(* What a writer at work keeps to: publishing its documents and deletions  *)
(* is a change DocStore allows; replacing segments takes no other document *)
(* away; and a merge carries every live document over.                     *)
ChangeInv(w) ==
  IF plan[w].kind = "merge"
  THEN \A d \in Docs : Given(plan[w].docs, d) = LiveBag(mem[w])[d]
  ELSE /\ Allowed(LiveBag(mem[w]), Promised(LiveBag(mem[w]), plan[w].docs, plan[w].ids))
       /\ \A d \in Docs : d.id \notin plan[w].ids =>
            LiveBag(plan[w].next)[d] = LiveBag(mem[w])[d]

ChangesInv == \A w \in Writers : pc[w] \in Working => ChangeInv(w)

(* What a bag counts, segment by segment. *)
LEMMA BagAt ==
  ASSUME NEW m, NEW ds, NEW ts, NEW d \in Docs
  PROVE  BagOf(m, ds, ts)[d] = Cardinality(Placed(m, ds, ts, d))
<1> DEFINE S == {r \in RowsOf(m, ds, ts) : ds[m.segs[r[1]].name].docs[r[2]] = d}
<1>1. ASSUME NEW r \in S
      PROVE  r \in Placed(m, ds, ts, d)
  <2>1. PICK i \in DOMAIN m.segs :
          r \in {<<i, p>> : p \in DOMAIN ds[m.segs[i].name].docs \ ts[m.segs[i].name]}
    BY DEF RowsOf
  <2>2. PICK p \in DOMAIN ds[m.segs[i].name].docs \ ts[m.segs[i].name] : r = <<i, p>>
    BY <2>1
  <2>3. ds[m.segs[i].name].docs[p] = d
    BY <2>2
  <2> QED
    BY <2>2, <2>3 DEF Placed
<1>2. ASSUME NEW r \in Placed(m, ds, ts, d)
      PROVE  r \in S
  <2>1. PICK i \in DOMAIN m.segs :
          \E p \in DOMAIN ds[m.segs[i].name].docs \ ts[m.segs[i].name] :
            r = <<i, p>> /\ ds[m.segs[i].name].docs[p] = d
    BY DEF Placed
  <2> QED
    BY <2>1 DEF RowsOf
<1>3. S = Placed(m, ds, ts, d)
  BY <1>1, <1>2
<1> QED
  BY <1>3 DEF BagOf

(* LiveBag, of the files before and after a step. *)
LEMMA BagOfFiles ==
  ASSUME NEW m
  PROVE  /\ LiveBag(m) = BagOf(m, dirs, tombs)
         /\ LiveBag(m)' = BagOf(m, dirs', tombs')
BY DEF LiveBag, BagOf, LiveRows, RowsOf, LiveIn, DocAt, DocsOf

(* A bag depends on the files a manifest names only. *)
LEMMA BagKept ==
  ASSUME NEW m, NEW ds, NEW ts, NEW m2, NEW ds2, NEW ts2,
         DOMAIN m2.segs = DOMAIN m.segs,
         \A i \in DOMAIN m.segs : m2.segs[i].name = m.segs[i].name,
         \A n \in NamesIn(m) : ds2[n] = ds[n] /\ ts2[n] = ts[n]
  PROVE  BagOf(m2, ds2, ts2) = BagOf(m, ds, ts)
<1>1. \A i \in DOMAIN m.segs : m.segs[i].name \in NamesIn(m)
  BY DEF NamesIn
<1>2. ASSUME NEW d \in Docs
      PROVE  BagOf(m2, ds2, ts2)[d] = BagOf(m, ds, ts)[d]
  <2>1. Placed(m2, ds2, ts2, d) = Placed(m, ds, ts, d)
    BY <1>1 DEF Placed
  <2> QED
    BY <2>1, BagAt
<1> QED
  BY <1>2 DEF BagOf

(* A bag counts finitely many rows of each document. *)
LEMMA BagType ==
  ASSUME TypeOK, NEW m \in Manifests
  PROVE  /\ LiveBag(m) \in [Docs -> Nat]
         /\ \A d \in Docs : IsFiniteSet(Placed(m, dirs, tombs, d))
<1>1. ASSUME NEW d \in Docs
      PROVE  IsFiniteSet(Placed(m, dirs, tombs, d)) /\ Cardinality(Placed(m, dirs, tombs, d)) \in Nat
  <2>1. Placed(m, dirs, tombs, d) \in SUBSET LiveRows(m)
    BY DEF Placed, LiveRows, LiveIn, DocsOf
  <2>2. IsFiniteSet(Placed(m, dirs, tombs, d))
    BY <2>1, LiveRowsFinite, FS_Subset
  <2> QED
    BY <2>2, FS_CardinalityType
<1>2. BagOf(m, dirs, tombs) \in [Docs -> Nat]
  <2>1. \A d \in Docs : BagOf(m, dirs, tombs)[d] \in Nat
    BY <1>1, BagAt
  <2> QED
    BY <2>1 DEF BagOf
<1> QED
  BY <1>1, <1>2, BagOfFiles

(* A batch has finitely many of each document. *)
LEMMA GivenType ==
  ASSUME NEW docs \in Seq(Docs), NEW d
  PROVE  /\ IsFiniteSet({k \in DOMAIN docs : docs[k] = d})
         /\ Given(docs, d) \in Nat
<1>1. IsFiniteSet({k \in DOMAIN docs : docs[k] = d})
  BY DomainFinite, FS_Subset
<1> QED
  BY <1>1, FS_CardinalityType DEF Given

(* A listing has every element once: it is a bijection. *)
LEMMA SetToSeqCovers ==
  ASSUME NEW S, IsFiniteSet(S)
  PROVE  SetToSeq(S) \in Bijection(1..Cardinality(S), S)
<1> DEFINE n == Cardinality(S)
           f == SetToSeq(S)
<1>1. n \in Nat /\ f \in [1..n -> S] /\ IsInjective(f)
  BY SetToSeqLists, FS_CardinalityType
<1>2. f \in Injection(1..n, S)
  BY <1>1 DEF Injection
<1>3. Cardinality(1..n) = n
  BY <1>1, FS_Interval
<1> HIDE DEF f
<1>4. f \in Surjection(1..n, S)
  BY <1>2, <1>3, FS_Injection
<1> QED
  BY <1>2, <1>4 DEF Bijection, f

(* A listing gives each document as often as the set listed does.          *)
LEMMA ListingCounts ==
  ASSUME NEW S, IsFiniteSet(S), NEW f, NEW d
  PROVE  Given([k \in DOMAIN SetToSeq(S) |-> f[SetToSeq(S)[k]]], d) =
           Cardinality({x \in S : f[x] = d})
<1> DEFINE o == SetToSeq(S)
           A == {k \in DOMAIN o : f[o[k]] = d}
           B == {x \in S : f[x] = d}
           g == [k \in A |-> o[k]]
<1>1. o \in Bijection(1..Cardinality(S), S)
  BY SetToSeqCovers
<1>2. DOMAIN o = 1..Cardinality(S) /\ (\A k \in DOMAIN o : o[k] \in S)
      /\ (\A x \in S : \E k \in DOMAIN o : o[k] = x)
      /\ (\A j, k \in DOMAIN o : o[j] = o[k] => j = k)
  BY <1>1 DEF Bijection, Injection, Surjection, IsInjective
<1>3. IsFiniteSet(A)
  <2>1. Cardinality(S) \in Nat
    BY FS_CardinalityType
  <2>2. IsFiniteSet(DOMAIN o)
    BY <1>2, <2>1, FS_Interval
  <2> QED
    BY <2>2, FS_Subset
<1> HIDE DEF o
<1>4. g \in Bijection(A, B)
  BY <1>2 DEF Bijection, Injection, Surjection, IsInjective
<1>5. Cardinality(B) = Cardinality(A)
  BY <1>3, <1>4, FS_Bijection DEF ExistsBijection
<1>6. {k \in DOMAIN [j \in DOMAIN o |-> f[o[j]]] : [j \in DOMAIN o |-> f[o[j]]][k] = d} = A
  OBVIOUS
<1> QED
  BY <1>5, <1>6 DEF Given, o

-----------------------------------------------------------------------------
(* What the requests ask for is what DocStore allows. *)

(* add_documents *)
LEMMA AddIsAllowed ==
  ASSUME NEW bag, NEW batch \in Batches
  PROVE  Allowed(bag, Promised(bag, batch, {}))
<1>1. Promised(bag, batch, {}) = Added(bag, batch)
  BY DEF Promised, Added
<1> QED
  BY <1>1 DEF Allowed

(* delete_documents *)
LEMMA DeleteIsAllowed ==
  ASSUME NEW bag \in [Docs -> Nat], NEW ids \in SUBSET Ids
  PROVE  Allowed(bag, Promised(bag, <<>>, ids))
<1>1. ASSUME NEW d
      PROVE  Given(<<>>, d) = 0
  <2>1. {k \in DOMAIN <<>> : <<>>[k] = d} = {}
    OBVIOUS
  <2> QED
    BY <2>1, FS_EmptySet DEF Given
<1>2. {<<>>[k].id : k \in DOMAIN <<>>} = {}
  OBVIOUS
<1>3. Promised(bag, <<>>, ids) = [d \in Docs |-> IF d.id \in ids THEN 0 ELSE bag[d]]
  BY <1>1 DEF Promised
<1>4. Upserted(bag, <<>>, ids) = [d \in Docs |-> IF d.id \in ids THEN 0 ELSE bag[d]]
  BY <1>2 DEF Upserted
<1> QED
  BY <1>3, <1>4 DEF Allowed

(* Every id of a batch has one winner, which is the final document for it. *)
LEMMA WinnerIsFinal ==
  ASSUME NEW batch \in Seq(Docs), NEW j \in DOMAIN batch
  PROVE  \E k \in Winners(batch) :
           /\ batch[k].id = batch[j].id
           /\ batch[k] = Contract!Final(batch, batch[j].id)
           /\ \A l \in Winners(batch) : batch[l].id = batch[j].id => l = k
<1> DEFINE G == {k \in DOMAIN batch : batch[k].id = batch[j].id}
<1>1. DOMAIN batch = 1..Len(batch) /\ Len(batch) \in Nat /\ j \in G
  OBVIOUS
<1>2. \E k \in G : \A l \in G : l <= k
  <2> DEFINE R == {Len(batch) - k : k \in G}
  <2>1. R \subseteq Nat /\ Len(batch) - j \in R
    BY <1>1
  <2>2. PICK x \in R : \A y \in R : ~(<<y, x>> \in OpToRel(<, Nat))
    BY <2>1, NatLessThanWellFounded, WFMin
  <2>3. \A y \in R : x <= y
    <3> TAKE y \in R
    <3>1. <<y, x>> \notin {ss \in Nat \X Nat : ss[1] < ss[2]}
      BY <2>2 DEF OpToRel
    <3>2. ~(y < x) /\ x \in Nat /\ y \in Nat
      BY <2>1, <3>1
    <3> QED
      BY <3>2
  <2>4. PICK k \in G : x = Len(batch) - k
    OBVIOUS
  <2>5. ASSUME NEW l \in G
        PROVE  l <= k
    <3>1. Len(batch) - k <= Len(batch) - l
      BY <2>3, <2>4
    <3> QED
      BY <1>1, <3>1
  <2> QED
    BY <2>5
<1>3. PICK k \in G : k = (CHOOSE i \in G : \A l \in G : l <= i) /\ \A l \in G : l <= k
  BY <1>2
<1>4. k \in Winners(batch) /\ batch[k].id = batch[j].id
  BY <1>3 DEF Winners
<1>5. batch[k] = Contract!Final(batch, batch[j].id)
  BY <1>3 DEF Contract!Final
<1>6. ASSUME NEW l \in Winners(batch), batch[l].id = batch[j].id
      PROVE  l = k
  <2>1. l \in G /\ k <= l
    BY <1>3, <1>6 DEF Winners
  <2>2. l <= k
    BY <1>3, <2>1
  <2>3. l \in Nat /\ k \in Nat
    <3>1. l \in DOMAIN batch /\ k \in DOMAIN batch
      BY <2>1
    <3> HIDE DEF G
    <3> QED
      BY <1>1, <3>1
  <2> QED
    BY <2>1, <2>2, <2>3
<1> QED
  BY <1>4, <1>5, <1>6

(* Copies of an id, and how the bag counts them. *)
LEMMA CopiesInBag ==
  ASSUME TypeOK, NEW m \in Manifests, NEW d \in Docs
  PROVE  /\ Copies(m, d.id) = {} => LiveBag(m)[d] = 0
         /\ \A r \in LiveRows(m) : DocAt(m, r) \in Docs
         /\ \A r \in LiveRows(m) : Copies(m, d.id) = {r} =>
              LiveBag(m)[d] = IF DocAt(m, r) = d THEN 1 ELSE 0
<1> DEFINE S == {r \in LiveRows(m) : DocAt(m, r) = d}
<1>1. LiveBag(m)[d] = Cardinality(S)
  BY DEF LiveBag
<1>2. S \subseteq Copies(m, d.id)
  BY DEF Copies
<1>3. Copies(m, d.id) = {} => LiveBag(m)[d] = 0
  BY <1>1, <1>2, FS_EmptySet
<1>4. ASSUME NEW r \in LiveRows(m)
      PROVE  DocAt(m, r) \in Docs
  <2>1. PICK i \in DOMAIN m.segs : r \in {<<i, p>> : p \in LiveIn(m, i)}
    BY DEF LiveRows
  <2>2. PICK p \in LiveIn(m, i) : r = <<i, p>>
    BY <2>1
  <2>3. DocsOf(m, i) \in Seq(Docs) /\ p \in DOMAIN DocsOf(m, i)
    BY SegmentTypes
  <2> QED
    BY <2>2, <2>3 DEF DocAt
<1>5. ASSUME NEW r \in LiveRows(m), Copies(m, d.id) = {r}
      PROVE  LiveBag(m)[d] = IF DocAt(m, r) = d THEN 1 ELSE 0
  <2>1. S = IF DocAt(m, r) = d THEN {r} ELSE {}
    BY <1>2, <1>5
  <2> HIDE DEF S
  <2> QED
    BY <1>1, <2>1, FS_EmptySet, FS_Singleton
<1> QED
  BY <1>3, <1>4, <1>5

(* A batch lists a document once if it is among the changed ones.          *)
LEMMA ListedCounts ==
  ASSUME NEW batch \in Seq(Docs), NEW C \in SUBSET Winners(batch), NEW d
  PROVE  /\ \A k \in C : batch[k] = d => Given(Listed(batch, C), d) = 1
         /\ (\A k \in C : batch[k] # d) => Given(Listed(batch, C), d) = 0
<1> DEFINE S == {k \in C : batch[k] = d}
<1>1. IsFiniteSet(C) /\ C \subseteq DOMAIN batch
  BY DomainFinite, FS_Subset DEF Winners
<1>2. Given(Listed(batch, C), d) = Cardinality(S)
  BY <1>1, ListingCounts DEF Listed
<1>3. ASSUME NEW k \in C, batch[k] = d
      PROVE  S = {k}
  <2>1. ASSUME NEW l \in S
        PROVE  l = k
    <3>1. l <= k /\ k <= l
      BY <1>3 DEF Winners
    <3>2. l \in Nat /\ k \in Nat
      BY <1>1
    <3> QED
      BY <3>1, <3>2
  <2> QED
    BY <1>3, <2>1
<1>4. (\A k \in C : batch[k] # d) => S = {}
  OBVIOUS
<1> HIDE DEF S
<1> QED
  BY <1>2, <1>3, <1>4, FS_EmptySet, FS_Singleton

(* upsert_documents: skipping what is unchanged and listing what is new in *)
(* any order comes to the same bag.                                        *)
LEMMA UpsertIsAllowed ==
  ASSUME TypeOK, NEW m \in Manifests, NEW batch \in Batches, NEW deleted \in SUBSET Ids
  PROVE  Allowed(LiveBag(m),
                 Promised(LiveBag(m), Listed(batch, Changed(m, batch, deleted)),
                          deleted \cup Replaced(m, batch, deleted)))
<1> DEFINE bag  == LiveBag(m)
           C    == Changed(m, batch, deleted)
           docs == Listed(batch, C)
           gone == Replaced(m, batch, deleted)
           ids  == deleted \cup gone
<1>1. batch \in Seq(Docs) /\ C \in SUBSET Winners(batch) /\ Winners(batch) \subseteq DOMAIN batch
  BY BatchesAssumption DEF Changed, Winners
<1>2. bag \in [Docs -> Nat]
  BY BagType
<1>3. \A k \in DOMAIN batch : batch[k] \in Docs /\ batch[k].id \in Ids
  <2>1. \A k \in DOMAIN batch : batch[k] \in Docs
    BY <1>1
  <2> QED
    BY <2>1 DEF Docs
<1>4. \A x : x \in gone <=> \E c \in C : batch[c].id = x /\ Copies(m, x) # {}
  BY DEF Replaced
<1> HIDE DEF gone, docs
<1>5. ASSUME NEW d \in Docs
      PROVE  (IF d.id \in ids THEN 0 ELSE bag[d]) + Given(docs, d) = Upserted(bag, batch, deleted)[d]
  <2>1. Upserted(bag, batch, deleted)[d] =
          CASE d.id \in {batch[k].id : k \in DOMAIN batch} ->
                 IF d = Contract!Final(batch, d.id) THEN 1 ELSE 0
            [] d.id \in deleted \ {batch[k].id : k \in DOMAIN batch} -> 0
            [] OTHER -> bag[d]
    BY DEF Upserted
  <2>2. CASE \E j \in DOMAIN batch : batch[j].id = d.id
    <3>1. PICK k \in Winners(batch) :
            /\ batch[k].id = d.id /\ batch[k] = Contract!Final(batch, d.id)
            /\ \A l \in Winners(batch) : batch[l].id = d.id => l = k
      BY <1>1, <2>2, WinnerIsFinal
    <3>2. Upserted(bag, batch, deleted)[d] = IF d = batch[k] THEN 1 ELSE 0
      BY <2>1, <3>1, <1>1
    <3>3. Given(docs, d) = IF k \in C /\ d = batch[k] THEN 1 ELSE 0
      <4>1. \A l \in C : batch[l] = d => l = k
        BY <1>1, <3>1
      <4> QED
        BY <1>1, <4>1, ListedCounts DEF docs
    <3>4. CASE k \in C
      <4>1. (IF d.id \in ids THEN 0 ELSE bag[d]) = 0
        BY <1>4, <3>1, <3>4, CopiesInBag
      <4> QED
        BY <3>2, <3>3, <3>4, <4>1
    <3>5. CASE k \notin C
      <4>1. Unchanged(m, batch[k], deleted)
        BY <3>5 DEF Changed
      <4>2. PICK r \in LiveRows(m) : Copies(m, d.id) = {r} /\ DocAt(m, r).body = batch[k].body
        BY <3>1, <4>1 DEF Unchanged
      <4>3. DocAt(m, r) = batch[k]
        <5>1. DocAt(m, r).id = d.id
          BY <4>2 DEF Copies
        <5>2. DocAt(m, r) \in Docs /\ batch[k] \in Docs
          BY <1>1, <1>3, CopiesInBag
        <5> QED
          BY <3>1, <4>2, <5>1, <5>2 DEF Docs
      <4>4. bag[d] = IF d = batch[k] THEN 1 ELSE 0
        BY <4>2, <4>3, CopiesInBag
      <4>5. d.id \notin ids
        <5>1. d.id \notin deleted
          BY <3>1, <4>1 DEF Unchanged
        <5>2. d.id \notin gone
          BY <1>1, <1>4, <3>1, <3>5
        <5> QED
          BY <5>1, <5>2
      <4> QED
        BY <3>2, <3>3, <3>5, <4>4, <4>5
    <3> QED
      BY <3>4, <3>5
  <2>3. CASE ~\E j \in DOMAIN batch : batch[j].id = d.id
    <3>1. d.id \notin gone
      BY <1>1, <1>4, <2>3
    <3>2. Given(docs, d) = 0
      BY <1>1, <2>3, ListedCounts DEF docs
    <3>3. Upserted(bag, batch, deleted)[d] = IF d.id \in deleted THEN 0 ELSE bag[d]
      BY <2>1, <2>3
    <3> QED
      BY <1>2, <3>1, <3>2, <3>3
  <2> QED
    BY <2>2, <2>3
<1>6. Promised(bag, docs, ids) = Upserted(bag, batch, deleted)
  <2>1. Upserted(bag, batch, deleted) = [d \in Docs |-> Upserted(bag, batch, deleted)[d]]
    BY DEF Upserted
  <2>2. Promised(bag, docs, ids) = [d \in Docs |-> Upserted(bag, batch, deleted)[d]]
    BY <1>5 DEF Promised
  <2> QED
    BY <2>1, <2>2
<1> QED
  BY <1>6 DEF Allowed, docs, gone

(* merge_all lists every live document as often as it is live. *)
LEMMA MergeKeepsBag ==
  ASSUME TypeOK, NEW m \in Manifests, NEW d \in Docs
  PROVE  Given(MergedDocs(m), d) = LiveBag(m)[d]
<1> DEFINE S == LiveRows(m)
           f == [r \in S |-> DocAt(m, r)]
<1>1. IsFiniteSet(S)
  BY LiveRowsFinite
<1>2. Given([k \in DOMAIN SetToSeq(S) |-> f[SetToSeq(S)[k]]], d) = Cardinality({r \in S : f[r] = d})
  <2> HIDE DEF S, f
  <2> QED
    BY <1>1, ListingCounts
<1>3. Cardinality(S) \in Nat /\ SetToSeq(S) \in [1..Cardinality(S) -> S]
  BY <1>1, SetToSeqLists, FS_CardinalityType
<1>4. MergedDocs(m) = [k \in DOMAIN SetToSeq(S) |-> f[SetToSeq(S)[k]]]
  BY <1>3 DEF MergedDocs
<1>5. {r \in S : f[r] = d} = {r \in S : DocAt(m, r) = d}
  OBVIOUS
<1> HIDE DEF f
<1> QED
  BY <1>2, <1>4, <1>5 DEF LiveBag

-----------------------------------------------------------------------------
(* What a commit publishes. *)

(* The rows of one segment are as many as their positions. *)
LEMMA SegmentRows ==
  ASSUME NEW K, IsFiniteSet(K), NEW i
  PROVE  /\ IsFiniteSet({<<i, k>> : k \in K})
         /\ Cardinality({<<i, k>> : k \in K}) = Cardinality(K)
<1> DEFINE R == {<<i, k>> : k \in K}
           g == [k \in K |-> <<i, k>>]
<1>1. g \in Bijection(K, R)
  BY DEF Bijection, Injection, Surjection, IsInjective
<1> QED
  BY <1>1, FS_Bijection DEF ExistsBijection

(* Once every segment with a document to delete is replaced, no copy of a  *)
(* deleted id is live.                                                     *)
LEMMA NonePending ==
  ASSUME NEW w \in Writers, Pending(w) = {}, NEW d \in Docs, d.id \in plan[w].ids
  PROVE  Placed(plan[w].next, dirs, tombs, d) = {}
<1> DEFINE m == plan[w].next
<1>1. SUFFICES ASSUME NEW r \in Placed(m, dirs, tombs, d)
               PROVE  FALSE
  OBVIOUS
<1>2. PICK i \in DOMAIN m.segs :
        \E p \in LiveIn(m, i) : DocsOf(m, i)[p] = d
  BY <1>1 DEF Placed, LiveIn, DocsOf
<1>3. Matches(m, i, plan[w].ids) # {}
  BY <1>2 DEF Matches
<1> QED
  BY <1>2, <1>3 DEF Pending

(* The manifest to publish holds the documents kept and the ones prepared. *)
LEMMA CommittedBag ==
  ASSUME IInv, NEW w \in Writers, ChangeInv(w),
         \/ pc[w] = "stage" /\ Pending(w) = {}
         \/ pc[w] = "merged"
  PROVE  BagOf(Committed(w), dirs, tombs) =
           IF plan[w].kind = "merge" THEN LiveBag(mem[w])
           ELSE Promised(LiveBag(mem[w]), plan[w].docs, plan[w].ids)
<1> DEFINE m == plan[w].next
           e == NewEntry(w)
           c == Committed(w)
           docs == plan[w].docs
           bag  == LiveBag(mem[w])
           merged == plan[w].kind = "merge"
           extended == ~merged /\ docs # <<>>
           New(d) == {k \in DOMAIN docs : docs[k] = d}
<1>1. TypeOK /\ pc[w] \in Working
  BY DEF IInv, Working
<1>2. /\ PlanInv(w) /\ StepInv(w) /\ plan[w] \in Plans /\ mem[w] \in Manifests
      /\ m \in Manifests
  BY <1>1, PlanFacts
<1>3. /\ ~plan[w].fresh
      /\ merged \/ extended =>
           e.name = mem[w].next /\ dirs[e.name].docs = docs /\ tombs[e.name] = {}
      /\ merged <=> pc[w] = "merged"
  BY <1>2 DEF StepInv, PlanInv, Prepared, NewEntry
<1>4. docs \in Seq(Docs) /\ m.segs \in Seq(Entries)
      /\ m = [exists |-> m.exists, next |-> m.next, segs |-> m.segs]
  BY <1>2 DEF Plans, Manifests
<1>5. /\ merged => c.segs = <<e>>
      /\ extended => c.segs = Append(m.segs, e)
      /\ ~merged /\ ~extended => c.segs = m.segs
  BY <1>2, <1>4 DEF Committed, PlanInv
<1>6. bag \in [Docs -> Nat] /\ DOMAIN BagOf(c, dirs, tombs) = Docs
  BY <1>1, <1>2, BagType DEF BagOf
<1>7. \A d \in Docs : IsFiniteSet(New(d)) /\ Given(docs, d) = Cardinality(New(d)) /\ Given(docs, d) \in Nat
  BY <1>4, GivenType DEF Given
<1> HIDE DEF e, m, c, docs, bag, New
<1>a. CASE merged
  <2>1. c.segs = <<e>>
    BY <1>5, <1>a
  <2>2. DOMAIN c.segs = {1} /\ c.segs[1] = e
    BY <2>1
  <2>3. ASSUME NEW d \in Docs
        PROVE  BagOf(c, dirs, tombs)[d] = bag[d]
    <3>1. Placed(c, dirs, tombs, d) = {<<1, k>> : k \in New(d)}
      BY <1>3, <1>a, <2>2 DEF Placed, New
    <3>2. BagOf(c, dirs, tombs)[d] = Given(docs, d)
      <4>1. Cardinality({<<1, k>> : k \in New(d)}) = Cardinality(New(d))
        BY <1>7, SegmentRows
      <4>2. BagOf(c, dirs, tombs)[d] = Cardinality(Placed(c, dirs, tombs, d))
        BY BagAt
      <4> QED
        BY <1>7, <3>1, <4>1, <4>2
    <3>3. Given(docs, d) = bag[d]
      BY <1>a DEF ChangeInv, docs, bag
    <3> QED
      BY <3>2, <3>3
  <2>4. BagOf(c, dirs, tombs) = bag
    BY <1>6, <2>3 DEF BagOf
  <2> QED
    BY <1>a, <2>4 DEF c, bag
<1>b. CASE ~merged
  <2>1. pc[w] = "stage" /\ Pending(w) = {}
    BY <1>3, <1>b
  <2>2. ASSUME NEW d \in Docs
        PROVE  Cardinality(Placed(m, dirs, tombs, d)) = IF d.id \in plan[w].ids THEN 0 ELSE bag[d]
    <3>1. CASE d.id \in plan[w].ids
      <4>1. Placed(m, dirs, tombs, d) = {}
        BY <2>1, <3>1, NonePending DEF m
      <4> QED
        BY <3>1, <4>1, FS_EmptySet
    <3>2. CASE d.id \notin plan[w].ids
      <4>1. LiveBag(m)[d] = bag[d]
        BY <1>b, <3>2 DEF ChangeInv, m, bag
      <4> QED
        BY <3>2, <4>1, BagOfFiles, BagAt
    <3> QED
      BY <3>1, <3>2
  <2>3. ASSUME NEW d \in Docs
        PROVE  BagOf(c, dirs, tombs)[d] = (IF d.id \in plan[w].ids THEN 0 ELSE bag[d]) + Given(docs, d)
    <3>a. CASE extended
      <4> DEFINE L == Len(m.segs) + 1
                 R == {<<L, k>> : k \in New(d)}
                 P == Placed(m, dirs, tombs, d)
      <4>1. c.segs = Append(m.segs, e)
        BY <1>5, <3>a
      <4>2. /\ DOMAIN c.segs = DOMAIN m.segs \cup {L} /\ L \notin DOMAIN m.segs
            /\ c.segs[L] = e /\ \A i \in DOMAIN m.segs : c.segs[i] = m.segs[i]
        BY <1>4, <4>1
      <4> HIDE DEF L
      <4>3. Placed(c, dirs, tombs, d) = P \cup R
        BY <1>3, <3>a, <4>2 DEF Placed, New
      <4>4. P \cap R = {}
        BY <4>2 DEF Placed
      <4>5. IsFiniteSet(P) /\ IsFiniteSet(R) /\ Cardinality(R) = Given(docs, d)
        <5>1. IsFiniteSet(P)
          BY <1>1, <1>2, BagType
        <5> DEFINE K == New(d)
        <5>2. IsFiniteSet(K) /\ Cardinality(K) = Given(docs, d)
          BY <1>7
        <5>3. R = {<<L, k>> : k \in K}
          OBVIOUS
        <5> HIDE DEF K, R
        <5>4. IsFiniteSet(R) /\ Cardinality(R) = Cardinality(K)
          BY <5>2, <5>3, SegmentRows
        <5> QED
          BY <5>1, <5>2, <5>4
      <4>7. Cardinality(P) = IF d.id \in plan[w].ids THEN 0 ELSE bag[d]
        BY <2>2
      <4>8. BagOf(c, dirs, tombs)[d] = Cardinality(P \cup R)
        BY <4>3, BagAt
      <4> HIDE DEF P, R
      <4>6. Cardinality(P \cup R) = Cardinality(P) + Cardinality(R)
        <5>1. Cardinality(P \cup R) = Cardinality(P) + Cardinality(R) - Cardinality(P \cap R)
          BY <4>5, FS_Union
        <5>2. Cardinality(P) \in Nat /\ Cardinality(R) \in Nat /\ Cardinality(P \cap R) = 0
          BY <4>4, <4>5, FS_CardinalityType, FS_EmptySet
        <5> QED
          BY <5>1, <5>2
      <4> QED
        BY <4>5, <4>6, <4>7, <4>8
    <3>b. CASE ~extended
      <4>1. c.segs = m.segs
        BY <1>5, <1>b, <3>b
      <4>2. Placed(c, dirs, tombs, d) = Placed(m, dirs, tombs, d)
        BY <4>1 DEF Placed
      <4>3. New(d) = {}
        BY <1>b, <3>b DEF New
      <4>4. Given(docs, d) = 0
        BY <1>7, <4>3, FS_EmptySet
      <4>5. (IF d.id \in plan[w].ids THEN 0 ELSE bag[d]) \in Nat
        BY <1>6
      <4> QED
        BY <2>2, <4>2, <4>4, <4>5, BagAt
    <3> QED
      BY <3>a, <3>b
  <2>4. BagOf(c, dirs, tombs) = Promised(bag, docs, plan[w].ids)
    BY <1>6, <2>3 DEF BagOf, Promised
  <2> QED
    BY <1>b, <2>4 DEF c, bag, docs
<1> QED
  BY <1>a, <1>b

-----------------------------------------------------------------------------
(* The invariant of changes under way. *)

(* Only one writer is past the lock. *)
LEMMA OneWorks ==
  ASSUME IInv, NEW w \in Writers, pc[w] # "closed" \/ lock = NoWriter,
         NEW v \in Writers \ {w}
  PROVE  pc[v] = "closed"
BY NoWriterAssumption DEF IInv, WriterInv

(* A step that keeps the plan but for the counter of its manifest, and the *)
(* files of its two manifests. *)
LEMMA PlanStays ==
  ASSUME NEW w \in Writers, ChangeInv(w),
         mem'[w] = mem[w],
         plan'[w].kind = plan[w].kind, plan'[w].docs = plan[w].docs, plan'[w].ids = plan[w].ids,
         plan'[w].next.segs = plan[w].next.segs,
         \A n \in NamesIn(mem[w]) \cup NamesIn(plan[w].next) :
           dirs'[n] = dirs[n] /\ tombs'[n] = tombs[n]
  PROVE  ChangeInv(w)'
<1>1. LiveBag(mem[w])' = LiveBag(mem[w])
  <2>1. LiveBag(mem[w])' = BagOf(mem'[w], dirs', tombs')
    BY DEF LiveBag, BagOf, LiveRows, RowsOf, LiveIn, DocAt, DocsOf
  <2>2. BagOf(mem'[w], dirs', tombs') = BagOf(mem[w], dirs, tombs)
    BY BagKept
  <2> QED
    BY <2>1, <2>2, BagOfFiles
<1>2. LiveBag(plan[w].next)' = LiveBag(plan[w].next)
  <2>1. LiveBag(plan[w].next)' = BagOf(plan'[w].next, dirs', tombs')
    BY DEF LiveBag, BagOf, LiveRows, RowsOf, LiveIn, DocAt, DocsOf
  <2>2. BagOf(plan'[w].next, dirs', tombs') = BagOf(plan[w].next, dirs, tombs)
    BY BagKept
  <2> QED
    BY <2>1, <2>2, BagOfFiles
<1> QED
  BY <1>1, <1>2 DEF ChangeInv

(* Deciding on a change. *)
LEMMA BeginChanges ==
  ASSUME IInv, NEW w \in Writers, pc[w] = "idle",
         NEW kind, NEW docs, NEW fresh, NEW ids,
         Begin(w, kind, docs, fresh, ids),
         IF kind = "merge" THEN \A d \in Docs : Given(docs, d) = LiveBag(mem[w])[d]
                           ELSE Allowed(LiveBag(mem[w]), Promised(LiveBag(mem[w]), docs, ids))
  PROVE  ChangeInv(w)'
<1>1. /\ plan'[w].kind = kind /\ plan'[w].docs = docs /\ plan'[w].ids = ids
      /\ plan'[w].next = mem[w] /\ mem' = mem /\ dirs' = dirs /\ tombs' = tombs
  BY DEF IInv, TypeOK, Begin, diskVars
<1>2. LiveBag(mem[w])' = LiveBag(mem[w])
  <2>1. LiveBag(mem[w])' = BagOf(mem'[w], dirs', tombs')
    BY DEF LiveBag, BagOf, LiveRows, RowsOf, LiveIn, DocAt, DocsOf
  <2> QED
    BY <1>1, <2>1, BagOfFiles
<1>3. LiveBag(plan[w].next)' = LiveBag(mem[w])
  <2>1. LiveBag(plan[w].next)' = BagOf(plan'[w].next, dirs', tombs')
    BY DEF LiveBag, BagOf, LiveRows, RowsOf, LiveIn, DocAt, DocsOf
  <2> QED
    BY <1>1, <2>1, BagOfFiles
<1> QED
  BY <1>1, <1>2, <1>3 DEF ChangeInv

(* What a writer decides to do is a change DocStore allows. *)
LEMMA RequestChanges ==
  ASSUME IInv, NEW w \in Writers, Request(w)
  PROVE  ChangeInv(w)'
<1> DEFINE m == mem[w]
           bag == LiveBag(m)
<1>0. TypeOK /\ m \in Manifests /\ bag \in [Docs -> Nat]
  BY BagType DEF IInv, TypeOK
<1>1. ASSUME NEW batch \in Batches, AddDocuments(w, batch)
      PROVE  ChangeInv(w)'
  <2>1. pc[w] = "idle" /\ Begin(w, "change", batch, TRUE, {})
    BY <1>1 DEF AddDocuments
  <2>2. Allowed(bag, Promised(bag, batch, {}))
    BY AddIsAllowed
  <2> DEFINE fresh == TRUE
  <2> HIDE DEF fresh, bag
  <2>3. Begin(w, "change", batch, fresh, {})
    BY <2>1 DEF fresh
  <2> QED
    BY <2>1, <2>2, <2>3, BeginChanges DEF bag
<1>2. ASSUME NEW ids \in SUBSET Ids, DeleteDocuments(w, ids)
      PROVE  ChangeInv(w)'
  <2> DEFINE fresh == FALSE
             none  == <<>>
  <2>1. pc[w] = "idle" /\ Begin(w, "change", none, fresh, ids)
    BY <1>2 DEF DeleteDocuments
  <2>2. Allowed(bag, Promised(bag, none, ids))
    BY <1>0, DeleteIsAllowed
  <2> HIDE DEF fresh, none, bag
  <2> QED
    BY <2>1, <2>2, BeginChanges DEF bag
<1>3. ASSUME NEW batch \in Batches, NEW deleted \in SUBSET Ids,
             UpsertDocuments(w, batch, deleted)
      PROVE  ChangeInv(w)'
  <2> DEFINE added == Listed(batch, Changed(m, batch, deleted))
             gone  == deleted \cup Replaced(m, batch, deleted)
             fresh == added # <<>>
  <2>1. pc[w] = "idle" /\ Begin(w, "change", added, fresh, gone)
    BY <1>3 DEF UpsertDocuments
  <2>2. Allowed(bag, Promised(bag, added, gone))
    BY <1>0, UpsertIsAllowed
  <2> HIDE DEF fresh, added, gone, bag
  <2> QED
    BY <2>1, <2>2, BeginChanges DEF bag
<1>4. ASSUME MergeAll(w)
      PROVE  ChangeInv(w)'
  <2> DEFINE fresh == TRUE
             docs  == MergedDocs(m)
  <2>1. pc[w] = "idle" /\ Begin(w, "merge", docs, fresh, {})
    BY <1>4 DEF MergeAll
  <2>2. \A d \in Docs : Given(docs, d) = LiveBag(mem[w])[d]
    BY <1>0, MergeKeepsBag
  <2> HIDE DEF fresh, docs, bag
  <2> QED
    BY <2>1, <2>2, BeginChanges
<1> QED
  BY <1>1, <1>2, <1>3, <1>4 DEF Request

(* A replaced segment loses only documents with an id to delete. *)
LEMMA ReplacementChanges ==
  ASSUME IInv, NEW w \in Writers, ChangeInv(w), WriteTombstones(w)
  PROVE  ChangeInv(w)'
<1> DEFINE m == plan[w].next
           t == Target(w)
           i == First(Pending(w))
           n == m.segs[i].name
           hit == Matches(m, i, plan[w].ids)
<1>1. TypeOK /\ pc[w] = "tombstones" /\ pc[w] \in Working
  BY DEF IInv, WriteTombstones, Working
<1>2. /\ PlanInv(w) /\ StepInv(w) /\ plan[w] \in Plans /\ m \in Manifests
      /\ mem[w] = manifest
      /\ \A k \in NamesIn(m) : k \in Names /\ k # t
      /\ \A k \in NamesIn(manifest) : k \in Names /\ k # t
  BY <1>1, PlanFacts
<1>3. t \in Names /\ dirs[t] = dirs[n] /\ Pending(w) # {} /\ plan[w].kind # "merge"
  BY <1>1, <1>2 DEF StepInv, PlanInv, Building
<1>4. i \in Pending(w) /\ i \in DOMAIN m.segs
  BY <1>2, <1>3, PendingHasFirst DEF Pending
<1>5. /\ mem' = mem /\ dirs' = dirs /\ tombs' = [tombs EXCEPT ![t] = tombs[n] \cup hit]
      /\ tombs'[t] = tombs[n] \cup hit
      /\ \A k \in Names \ {t} : tombs'[k] = tombs[k]
  BY <1>1, <1>3 DEF WriteTombstones, TypeOK
<1>6. /\ plan'[w].kind = plan[w].kind /\ plan'[w].docs = plan[w].docs /\ plan'[w].ids = plan[w].ids
      /\ DOMAIN plan'[w].next.segs = DOMAIN m.segs
      /\ plan'[w].next.segs[i].name = t
      /\ \A j \in DOMAIN m.segs \ {i} : plan'[w].next.segs[j] = m.segs[j]
  BY <1>1, <1>2, <1>4 DEF WriteTombstones, TypeOK, Plans, Manifests, Target
<1>7. LiveBag(mem[w])' = LiveBag(mem[w])
  <2>1. LiveBag(mem[w])' = BagOf(mem[w], dirs', tombs')
    BY <1>5 DEF LiveBag, BagOf, LiveRows, RowsOf, LiveIn, DocAt, DocsOf
  <2>2. BagOf(mem[w], dirs', tombs') = BagOf(mem[w], dirs, tombs)
    <3>1. \A k \in NamesIn(mem[w]) : dirs'[k] = dirs[k] /\ tombs'[k] = tombs[k]
      BY <1>2, <1>5
    <3> QED
      BY <3>1, BagKept
  <2> QED
    BY <2>1, <2>2, BagOfFiles
<1>8. LiveBag(plan[w].next)' = BagOf(plan'[w].next, dirs', tombs')
  BY DEF LiveBag, BagOf, LiveRows, RowsOf, LiveIn, DocAt, DocsOf
<1> HIDE DEF i, m
<1>9. ASSUME NEW d \in Docs, d.id \notin plan[w].ids
      PROVE  BagOf(plan'[w].next, dirs', tombs')[d] = LiveBag(m)[d]
  <2>0. \A p \in hit : DocsOf(m, i)[p] # d
    BY <1>9 DEF Matches
  <2> DEFINE Here(ds, ts, k) == {p \in DOMAIN ds[k].docs \ ts[k] : ds[k].docs[p] = d}
  <2>1. Here(dirs', tombs', t) = Here(dirs, tombs, n)
    BY <1>3, <1>5, <2>0 DEF DocsOf
  <2>2. \A j \in DOMAIN m.segs \ {i} :
          Here(dirs', tombs', plan'[w].next.segs[j].name) = Here(dirs, tombs, m.segs[j].name)
    <3> TAKE j \in DOMAIN m.segs \ {i}
    <3>1. m.segs[j].name \in Names \ {t}
      BY <1>2 DEF NamesIn
    <3> QED
      BY <1>5, <1>6, <3>1
  <2>3. \A j \in DOMAIN m.segs :
          Here(dirs', tombs', plan'[w].next.segs[j].name) = Here(dirs, tombs, m.segs[j].name)
    BY <1>4, <1>6, <2>1, <2>2
  <2>4. Placed(plan'[w].next, dirs', tombs', d) =
          UNION {{<<j, p>> : p \in Here(dirs', tombs', plan'[w].next.segs[j].name)} : j \in DOMAIN m.segs}
    BY <1>6 DEF Placed
  <2>5. Placed(m, dirs, tombs, d) =
          UNION {{<<j, p>> : p \in Here(dirs, tombs, m.segs[j].name)} : j \in DOMAIN m.segs}
    BY DEF Placed
  <2> HIDE DEF Here
  <2>6. Placed(plan'[w].next, dirs', tombs', d) = Placed(m, dirs, tombs, d)
    BY <2>3, <2>4, <2>5
  <2> QED
    BY <2>6, BagAt, BagOfFiles
<1> QED
  BY <1>3, <1>6, <1>7, <1>8, <1>9 DEF ChangeInv, m

(* The steps of a writer that goes on working. *)
LEMMA WorkChanges ==
  ASSUME IInv, NEW w \in Writers, ChangeInv(w), pc[w] \in Working,
         \/ ClearDir(w) \/ ClearTombstones(w) \/ CreateDir(w) \/ SaveIndex(w)
         \/ PrepareSidecars(w) \/ StageReplacement(w) \/ LinkFiles(w)
  PROVE  ChangeInv(w)'
<1>1. /\ \A n \in NamesIn(plan[w].next) : n \in Names /\ n # Target(w)
      /\ \A n \in NamesIn(mem[w]) : n \in Names /\ n # Target(w)
      /\ TypeOK /\ plan[w] \in Plans /\ plan[w].next \in Manifests
  BY PlanFacts DEF IInv
<1>2. \A n \in Names \ {Target(w)} : dirs'[n] = dirs[n] /\ tombs'[n] = tombs[n]
  BY <1>1 DEF ClearDir, ClearTombstones, CreateDir, SaveIndex, PrepareSidecars, StageReplacement,
              LinkFiles, TypeOK, diskVars
<1>3. mem' = mem
  BY DEF ClearDir, ClearTombstones, CreateDir, SaveIndex, PrepareSidecars, StageReplacement, LinkFiles
<1>4. /\ plan'[w].kind = plan[w].kind /\ plan'[w].docs = plan[w].docs /\ plan'[w].ids = plan[w].ids
      /\ plan'[w].next.segs = plan[w].next.segs
  <2>1. CASE PrepareSidecars(w)
    BY <1>1, <2>1 DEF PrepareSidecars, TypeOK, Plans, Manifests
  <2>2. CASE ~PrepareSidecars(w)
    BY <2>2 DEF ClearDir, ClearTombstones, CreateDir, SaveIndex, StageReplacement, LinkFiles
  <2> QED
    BY <2>1, <2>2
<1> QED
  BY <1>1, <1>2, <1>3, <1>4, PlanStays

(* Every step keeps what is known of the changes under way. *)
LEMMA ChangesKept == IInv /\ ChangesInv /\ [Next]_vars => ChangesInv'
<1> SUFFICES ASSUME IInv, ChangesInv, [Next]_vars
             PROVE  ChangesInv'
  OBVIOUS
<1>1. TypeOK
  BY DEF IInv
<1>2. CASE UNCHANGED vars
  <2> SUFFICES ASSUME NEW v \in Writers, pc'[v] \in Working
               PROVE  ChangeInv(v)'
    BY DEF ChangesInv
  <2> QED
    BY <1>2, PlanStays DEF ChangesInv, vars, diskVars
<1>3. ASSUME NEW w \in Writers, pc[w] # "closed" \/ lock = NoWriter,
             \A v \in Writers \ {w} : pc'[v] = pc[v],
             pc'[w] \in Working => ChangeInv(w)'
      PROVE  ChangesInv'
  <2>1. \A v \in Writers \ {w} : pc'[v] \notin Working
    BY <1>3, OneWorks DEF Working
  <2> QED
    BY <1>3, <2>1 DEF ChangesInv
<1>4. ASSUME NEW w \in Writers, OpenOrClose(w)
      PROVE  ChangesInv'
  <2>1. /\ pc[w] # "closed" \/ lock = NoWriter
        /\ \A v \in Writers \ {w} : pc'[v] = pc[v]
        /\ pc'[w] \notin Working
    BY <1>1, <1>4 DEF OpenOrClose, LockIndex, CreateIndex, HealCounts, FinishRecovery, Close,
                      CollectDir, CollectTombstones, Goto, TypeOK, Working
  <2> QED
    BY <1>3, <2>1
<1>5. ASSUME NEW w \in Writers, Request(w)
      PROVE  ChangesInv'
  <2>1. pc[w] # "closed" /\ \A v \in Writers \ {w} : pc'[v] = pc[v]
    BY <1>1, <1>5 DEF Request, AddDocuments, DeleteDocuments, UpsertDocuments, MergeAll, Begin, Goto, TypeOK
  <2> QED
    BY <1>3, <1>5, <2>1, RequestChanges
<1>6. ASSUME NEW w \in Writers,
             \/ ClearDir(w) \/ ClearTombstones(w) \/ CreateDir(w) \/ SaveIndex(w)
             \/ PrepareSidecars(w) \/ StageReplacement(w) \/ LinkFiles(w) \/ WriteTombstones(w)
      PROVE  ChangesInv'
  <2>1. pc[w] \in Working /\ \A v \in Writers \ {w} : pc'[v] = pc[v]
    BY <1>1, <1>6 DEF ClearDir, ClearTombstones, CreateDir, SaveIndex, PrepareSidecars,
                      StageReplacement, LinkFiles, WriteTombstones, Goto, TypeOK, Working
  <2>2. ChangeInv(w)
    BY <2>1 DEF ChangesInv
  <2>3. ChangeInv(w)'
    BY <1>6, <2>1, <2>2, WorkChanges, ReplacementChanges
  <2>4. pc[w] # "closed"
    BY <2>1 DEF Working
  <2> QED
    BY <1>3, <2>1, <2>3, <2>4
<1>7. ASSUME NEW w \in Writers,
             \/ PrepareFails(w) \/ Fail(w) \/ CommitChange(w) \/ NothingToCommit(w)
             \/ CommitMerge(w) \/ RetireDir(w) \/ RetireTombstones(w) \/ FinishMerge(w)
      PROVE  ChangesInv'
  <2>1. /\ pc[w] # "closed" /\ pc'[w] \notin Working
        /\ \A v \in Writers \ {w} : pc'[v] = pc[v]
    BY <1>1, <1>7 DEF PrepareFails, Fail, CommitChange, NothingToCommit, CommitMerge, RetireDir,
                      RetireTombstones, FinishMerge, Abandon, Goto, TypeOK, Working
  <2> QED
    BY <1>3, <2>1
<1> QED
  BY <1>2, <1>4, <1>5, <1>6, <1>7 DEF Next, Build, Publish

(* Every step of the files changes the bag as DocStore lets it, or not.    *)
LEMMA ContractStep ==
  ASSUME IInv, Unborn, ChangesInv, [Next]_vars
  PROVE  Contract!Next \/ LiveBag(manifest)' = LiveBag(manifest)
<1> DEFINE bag == LiveBag(manifest)
<1>0. /\ LiveBag(manifest) = BagOf(manifest, dirs, tombs)
      /\ LiveBag(manifest)' = BagOf(manifest', dirs', tombs')
  BY DEF LiveBag, BagOf, LiveRows, RowsOf, LiveIn, DocAt, DocsOf
<1>1. ASSUME DOMAIN manifest'.segs = DOMAIN manifest.segs,
             \A i \in DOMAIN manifest.segs : manifest'.segs[i].name = manifest.segs[i].name
      PROVE  LiveBag(manifest)' = LiveBag(manifest)
  <2>1. \A n \in NamesIn(manifest) : dirs'[n] = dirs[n] /\ tombs'[n] = tombs[n]
    BY ImmutableStep
  <2> QED
    BY <1>0, <1>1, <2>1, BagKept
<1>2. CASE manifest' = manifest
  BY <1>1, <1>2
<1>3. ASSUME NEW w \in Writers, CreateIndex(w)
      PROVE  LiveBag(manifest)' = LiveBag(manifest)
  BY <1>1, <1>3 DEF CreateIndex, Unborn, NoManifest
<1>4. ASSUME NEW w \in Writers, HealCounts(w)
      PROVE  LiveBag(manifest)' = LiveBag(manifest)
  <2>1. manifest' = Healed(manifest) /\ manifest \in Manifests
    BY <1>4 DEF HealCounts, IInv, TypeOK
  <2>2. /\ DOMAIN manifest'.segs = DOMAIN manifest.segs
        /\ \A i \in DOMAIN manifest.segs : manifest'.segs[i].name = manifest.segs[i].name
    <3>1. manifest'.segs = [i \in DOMAIN manifest.segs |->
             IF tombs[manifest.segs[i].name] = {}
             THEN manifest.segs[i]
             ELSE [manifest.segs[i] EXCEPT !.live = Cardinality(LiveIn(manifest, i))]]
      BY <2>1 DEF Healed, Manifests
    <3>2. \A i \in DOMAIN manifest.segs : manifest.segs[i] \in Entries
      BY <2>1 DEF Manifests
    <3> QED
      BY <3>1, <3>2 DEF Entries
  <2> QED
    BY <1>1, <2>2
<1>5. ASSUME NEW w \in Writers, CommitChange(w) \/ CommitMerge(w)
      PROVE  Contract!Next \/ LiveBag(manifest)' = LiveBag(manifest)
  <2>1. /\ pc[w] \in Working
        /\ \/ pc[w] = "stage" /\ Pending(w) = {}
           \/ pc[w] = "merged"
        /\ manifest' = Committed(w) /\ dirs' = dirs /\ tombs' = tombs
    BY <1>5 DEF CommitChange, CommitMerge, Working
  <2>2. ChangeInv(w) /\ mem[w] = manifest
    BY <2>1, PlanFacts DEF ChangesInv
  <2>3. LiveBag(manifest)' = IF plan[w].kind = "merge" THEN bag
                             ELSE Promised(bag, plan[w].docs, plan[w].ids)
    BY <1>0, <2>1, <2>2, CommittedBag
  <2>4. CASE plan[w].kind = "merge"
    BY <2>3, <2>4
  <2>5. CASE plan[w].kind # "merge"
    <3>1. Allowed(bag, LiveBag(manifest)')
      BY <2>2, <2>3, <2>5 DEF ChangeInv
    <3>2. ASSUME NEW batch \in Batches, LiveBag(manifest)' = Added(bag, batch)
          PROVE  Contract!Add(batch)
      <4>1. \A S : Contract!Cardinality(S) = Cardinality(S)
        BY DEF Contract!Cardinality, Cardinality
      <4>2. Contract!Docs = Docs
        BY DEF Contract!Docs, Docs
      <4> QED
        BY <3>2, <4>1, <4>2 DEF Contract!Add, Added, Given
    <3>3. ASSUME NEW batch \in Batches \cup {<<>>}, NEW deleted \in SUBSET Ids,
                 LiveBag(manifest)' = Upserted(bag, batch, deleted)
          PROVE  Contract!Replace(batch, deleted)
      <4>1. Contract!Docs = Docs
        BY DEF Contract!Docs, Docs
      <4>2. LiveBag(manifest)' =
              [d \in Docs |->
                 CASE d.id \in {batch[k].id : k \in DOMAIN batch} ->
                        IF d = Contract!Final(batch, d.id) THEN 1 ELSE 0
                   [] d.id \in deleted \ {batch[k].id : k \in DOMAIN batch} -> 0
                   [] OTHER -> LiveBag(manifest)[d]]
        BY <3>3 DEF Upserted
      <4>3. LiveBag(manifest)' =
              [d \in Contract!Docs |->
                 CASE d.id \in {batch[k].id : k \in DOMAIN batch} ->
                        IF d = Contract!Final(batch, d.id) THEN 1 ELSE 0
                   [] d.id \in deleted \ {batch[k].id : k \in DOMAIN batch} -> 0
                   [] OTHER -> LiveBag(manifest)[d]]
        BY <4>1, <4>2
      <4> QED
        BY <4>3 DEF Contract!Replace
    <3> QED
      BY <3>1, <3>2, <3>3 DEF Allowed, Contract!Next
  <2> QED
    BY <2>4, <2>5
<1> QED
  BY <1>2, <1>3, <1>4, <1>5, ManifestMoves

(* Initially nobody works, and the directory holds some bag. *)
LEMMA InitChanges == Init => ChangesInv /\ Contract!Init
<1> SUFFICES ASSUME Init PROVE ChangesInv /\ Contract!Init
  OBVIOUS
<1>1. TypeOK
  BY InitEstablishes DEF IInv
<1>2. LiveBag(manifest) \in [Docs -> Nat]
  BY <1>1, BagType DEF TypeOK
<1>3. Contract!Init
  BY <1>2 DEF Contract!Init, Contract!Docs, Docs
<1> QED
  BY <1>3 DEF Init, ChangesInv, Working

(* Whatever writers do to the files, however often they fail, crash and    *)
(* recover: the live documents change by whole batches, each at once by    *)
(* its commit; merging, healing and cleaning up never change them.         *)
THEOREM ImplementsTheContract == Spec => ImplementsDocStore
<1>1. IInv /\ Unborn /\ ChangesInv /\ [Next]_vars => [Contract!Next]_(LiveBag(manifest))
  BY ContractStep
<1>2. Spec => []IInv
  BY Invariance
<1>3. Spec => []Unborn
  BY InitUnborn, UnbornKept, <1>2, PTL DEF Spec
<1>4. Spec => []ChangesInv
  BY InitChanges, ChangesKept, <1>2, PTL DEF Spec
<1>5. Spec => Contract!Init
  BY InitChanges DEF Spec
<1>6. Spec => [][Contract!Next]_(LiveBag(manifest))
  BY <1>1, <1>2, <1>3, <1>4, PTL DEF Spec
<1> QED
  BY <1>5, <1>6 DEF ImplementsDocStore, Contract!Spec

-----------------------------------------------------------------------------
(* The readers. *)

(* The bag of the documents of segments with texts D and bitmaps T.        *)
RowsWith(D, T) == UNION {{<<i, p>> : p \in DOMAIN D[i] \ T[i]} : i \in DOMAIN D}
BagWith(D, T)  == [d \in Docs |-> Cardinality({row \in RowsWith(D, T) : D[row[1]][row[2]] = d})]

(* A name a manifest had once keeps its contents or loses them: no writer  *)
(* puts others under it, and its bitmap goes only when it is retired.      *)
Keeps(n, docs, deleted) ==
  /\ n < manifest.next
  /\ dirs[n].stage \in {"indexed", "complete"} => dirs[n].docs = docs
  /\ tombs[n] \in {deleted, {}}
  /\ n \in NamesIn(manifest) => tombs[n] = deleted

(* What a reader has read so far is what the manifest it read named.       *)
Snapshot(r, D, T) ==
  /\ asked[r] = BagWith(D, T)
  /\ \A i \in DOMAIN D : /\ EntryOf(r, i) \in Names
                         /\ Keeps(EntryOf(r, i), D[i], T[i])
  /\ \A i \in DOMAIN view[r] :
       /\ view[r][i].docs = D[i]
       /\ i < Len(view[r]) \/ rpc[r] # "tombstones" =>
            /\ view[r][i].deleted \subseteq T[i]
            /\ ~late[r] => view[r][i].deleted = T[i]

SnapshotsOf(r) == [DOMAIN rman[r].segs -> Seq(Docs)] \X [DOMAIN rman[r].segs -> SUBSET Nat]

ReaderInv(r) ==
  /\ rpc[r] = "idle" => view[r] = <<>> /\ ~late[r]
  /\ rpc[r] = "index" => Len(view[r]) < Len(rman[r].segs)
  /\ rpc[r] = "tombstones" => view[r] # <<>>
  /\ rpc[r] # "idle" => \E S \in SnapshotsOf(r) : Snapshot(r, S[1], S[2])

RInv == IInv /\ Unborn /\ ReadersTypeOK /\ \A r \in Readers : ReaderInv(r)

-----------------------------------------------------------------------------
(* Writers: what they leave of a name the manifest has had.                *)

LEMMA OldNamesFade ==
  ASSUME IInv, [Next]_vars, NEW n \in Names, n < manifest.next
  PROVE  /\ dirs'[n] = dirs[n] \/ dirs'[n] \in {Absent, Partial}
         /\ tombs'[n] \in {tombs[n], {}}
<1> DEFINE Fades == /\ dirs'[n] = dirs[n] \/ dirs'[n] \in {Absent, Partial}
                    /\ tombs'[n] \in {tombs[n], {}}
<1> SUFFICES Fades
  OBVIOUS
<1>1. TypeOK
  BY DEF IInv
<1>2. CASE UNCHANGED vars
  BY <1>2 DEF vars, diskVars
<1>3. ASSUME NEW w \in Writers, OpenOrClose(w)
      PROVE  Fades
  <2>1. ASSUME NEW k \in Names, CollectDir(w, k) \/ CollectTombstones(w, k)
        PROVE  Fades
    BY <1>1, <2>1 DEF CollectDir, CollectTombstones, AfterRemoval, TypeOK
  <2>2. CASE LockIndex(w) \/ CreateIndex(w) \/ HealCounts(w) \/ FinishRecovery(w) \/ Close(w)
    BY <2>2 DEF LockIndex, CreateIndex, HealCounts, FinishRecovery, Close, diskVars
  <2> QED
    BY <1>3, <2>1, <2>2 DEF OpenOrClose
<1>4. ASSUME NEW w \in Writers, Request(w)
      PROVE  Fades
  BY <1>4 DEF Request, AddDocuments, DeleteDocuments, UpsertDocuments, MergeAll, Begin, diskVars
<1>5. ASSUME NEW w \in Writers, pc[w] \in Working, Build(w) \/ LinkFiles(w) \/ WriteTombstones(w)
      PROVE  Fades
  <2>1. n # Target(w)
    <3>1. mem[w] = manifest /\ PlanInv(w) /\ plan[w].next.next \in Nat /\ mem[w].next \in Nat
      BY <1>5, PlanFacts
    <3> QED
      BY <3>1 DEF PlanInv, Target, Names
  <2>2. CASE ClearDir(w) \/ ClearTombstones(w) \/ CreateDir(w) \/ SaveIndex(w)
    BY <1>1, <2>1, <2>2 DEF TypeOK, ClearDir, ClearTombstones, CreateDir, SaveIndex
  <2>3. CASE PrepareSidecars(w) \/ PrepareFails(w)
    BY <1>1, <2>1, <2>3 DEF TypeOK, PrepareSidecars, PrepareFails
  <2>4. CASE Fail(w)
    BY <2>4 DEF Fail, diskVars
  <2>5. CASE LinkFiles(w) \/ WriteTombstones(w)
    BY <1>1, <2>1, <2>5 DEF TypeOK, LinkFiles, WriteTombstones
  <2> QED
    BY <1>5, <2>2, <2>3, <2>4, <2>5 DEF Build
<1>6. ASSUME NEW w \in Writers, Build(w)
      PROVE  Fades
  <2>1. pc[w] \in Working
    BY <1>6 DEF Build, ClearDir, ClearTombstones, CreateDir, SaveIndex, PrepareSidecars,
                PrepareFails, Fail, Working
  <2> QED
    BY <1>5, <1>6, <2>1
<1>7. ASSUME NEW w \in Writers, Publish(w)
      PROVE  Fades
  <2>1. CASE LinkFiles(w) \/ WriteTombstones(w)
    BY <1>5, <2>1 DEF LinkFiles, WriteTombstones, Working
  <2>2. CASE RetireDir(w) \/ RetireTombstones(w)
    BY <1>1, <2>2 DEF RetireDir, RetireTombstones, AfterRemoval, TypeOK
  <2>3. CASE \/ StageReplacement(w) \/ CommitChange(w) \/ NothingToCommit(w)
             \/ CommitMerge(w) \/ FinishMerge(w)
    BY <2>3 DEF StageReplacement, CommitChange, NothingToCommit, CommitMerge, FinishMerge, diskVars
  <2> QED
    BY <1>7, <2>1, <2>2, <2>3 DEF Publish
<1> QED
  BY <1>2, <1>3, <1>4, <1>6, <1>7 DEF Next

LEMMA KeepsKept ==
  ASSUME IInv, Unborn, [Next]_vars, NEW n \in Names, NEW docs, NEW deleted, Keeps(n, docs, deleted)
  PROVE  Keeps(n, docs, deleted)'
<1>1. manifest.next \in Nat /\ manifest'.next \in Nat /\ n \in Nat
  BY NextKeeps DEF IInv, TypeOK, Manifests, Names
<1>2. manifest.next <= manifest'.next
  BY FreshStep
<1>3. n < manifest'.next
  BY <1>1, <1>2 DEF Keeps
<1>4. n \in NamesIn(manifest') => n \in NamesIn(manifest)
  BY <1>1, FreshStep DEF Keeps
<1>5. n \in NamesIn(manifest') => tombs'[n] = tombs[n]
  BY <1>4, ImmutableStep
<1>6. /\ dirs'[n] = dirs[n] \/ dirs'[n] \in {Absent, Partial}
      /\ tombs'[n] \in {tombs[n], {}}
  BY OldNamesFade DEF Keeps
<1> QED
  BY <1>3, <1>4, <1>5, <1>6 DEF Keeps, Absent, Partial

-----------------------------------------------------------------------------
(* The invariant of readers. *)

LEMMA LiveBagType ==
  ASSUME TypeOK, NEW m \in Manifests
  PROVE  LiveBag(m) \in [Docs -> Nat]
<1> SUFFICES ASSUME NEW d \in Docs
             PROVE  Cardinality({r \in LiveRows(m) : DocAt(m, r) = d}) \in Nat
  BY DEF LiveBag
<1>1. IsFiniteSet({r \in LiveRows(m) : DocAt(m, r) = d})
  BY LiveRowsFinite, FS_Subset
<1> QED
  BY <1>1, FS_CardinalityType

LEMMA ReadersInitEstablishes == Init /\ ReadersInit => RInv
<1> SUFFICES ASSUME Init, ReadersInit PROVE RInv
  OBVIOUS
<1>1. NoManifest \in Manifests /\ NoManifest.segs = <<>>
  BY DEF NoManifest, Manifests
<1>2. ReadersTypeOK
  BY <1>1 DEF ReadersInit, ReadersTypeOK, Views
<1>3. \A r \in Readers : ReaderInv(r)
  BY DEF ReadersInit, ReaderInv
<1> QED
  BY <1>2, <1>3, InitEstablishes, InitUnborn DEF RInv

(* Neither writers nor other readers disturb a reader. *)
LEMMA ReaderUndisturbed ==
  ASSUME RInv, [Next]_vars, NEW r \in Readers,
         rpc'[r] = rpc[r], rman'[r] = rman[r], view'[r] = view[r],
         asked'[r] = asked[r], late'[r] = late[r]
  PROVE  ReaderInv(r)'
<1>1. ReaderInv(r) /\ (SnapshotsOf(r))' = SnapshotsOf(r)
  BY DEF RInv, SnapshotsOf
<1>2. CASE rpc[r] = "idle"
  BY <1>1, <1>2 DEF ReaderInv
<1>3. CASE rpc[r] # "idle"
  <2>1. PICK S \in SnapshotsOf(r) : Snapshot(r, S[1], S[2])
    BY <1>1, <1>3 DEF ReaderInv
  <2>2. \A i \in DOMAIN S[1] : Keeps(EntryOf(r, i), S[1][i], S[2][i])'
    BY <2>1, KeepsKept DEF Snapshot, RInv, EntryOf
  <2>3. Snapshot(r, S[1], S[2])'
    BY <2>1, <2>2 DEF Snapshot, EntryOf
  <2> QED
    BY <1>1, <2>3 DEF ReaderInv
<1> QED
  BY <1>2, <1>3

LEMMA WritersKeepReaders ==
  ASSUME RInv, [Next]_vars, UNCHANGED readerVars
  PROVE  RInv'
<1>1. IInv' /\ Unborn' /\ ReadersTypeOK'
  BY NextKeeps, UnbornKept DEF RInv, ReadersTypeOK, readerVars
<1>2. \A r \in Readers : ReaderInv(r)'
  BY ReaderUndisturbed DEF readerVars
<1> QED
  BY <1>1, <1>2 DEF RInv

LEMMA SeqFacts ==
  ASSUME NEW T, NEW s \in Seq(T)
  PROVE  Len(s) \in Nat /\ DOMAIN s = 1 .. Len(s) /\ \A i \in DOMAIN s : s[i] \in T
  OBVIOUS

(* What readers hold. *)
LEMMA ViewTypes ==
  ASSUME ReadersTypeOK, NEW r \in Readers
  PROVE  /\ view[r] \in Views /\ Len(view[r]) \in Nat /\ DOMAIN view[r] = 1 .. Len(view[r])
         /\ \A i \in DOMAIN view[r] : view[r][i] \in [docs : Seq(Docs), deleted : SUBSET Nat]
         /\ rman[r] \in Manifests /\ Len(rman[r].segs) \in Nat
         /\ DOMAIN rman[r].segs = 1 .. Len(rman[r].segs)
<1>1. view[r] \in Views /\ rman[r] \in Manifests
  BY DEF ReadersTypeOK
<1>2. rman[r].segs \in Seq(Entries)
  BY <1>1 DEF Manifests
<1>3. Len(rman[r].segs) \in Nat /\ DOMAIN rman[r].segs = 1 .. Len(rman[r].segs)
  BY <1>2, SeqFacts
<1>4. view[r] \in Seq([docs : Seq(Docs), deleted : SUBSET Nat])
  BY <1>1 DEF Views
<1>5. /\ Len(view[r]) \in Nat /\ DOMAIN view[r] = 1 .. Len(view[r])
      /\ \A i \in DOMAIN view[r] : view[r][i] \in [docs : Seq(Docs), deleted : SUBSET Nat]
  BY <1>4, SeqFacts
<1> QED
  BY <1>1, <1>3, <1>5

(* What a step of a reader has to show.                                    *)
LEMMA ReaderStepKeeps ==
  ASSUME RInv, UNCHANGED vars, NEW r \in Readers, ReaderStep(r), ReadersTypeOK', ReaderInv(r)'
  PROVE  RInv'
<1>1. ASSUME NEW q \in Readers \ {r}
      PROVE  ReaderInv(q)'
  <2>1. /\ rpc'[q] = rpc[q] /\ rman'[q] = rman[q] /\ view'[q] = view[q]
        /\ asked'[q] = asked[q] /\ late'[q] = late[q]
    BY DEF RInv, ReadersTypeOK, ReaderStep, ReadManifest, LoadIndex, ReadTombstones, CloseView
  <2> QED
    BY <2>1, ReaderUndisturbed
<1> QED
  BY <1>1, NextKeeps, UnbornKept DEF RInv

LEMMA ReadManifestKeeps ==
  ASSUME RInv, UNCHANGED vars, NEW r \in Readers, ReadManifest(r)
  PROVE  RInv'
<1> DEFINE D0 == [i \in DOMAIN manifest.segs |-> dirs[manifest.segs[i].name].docs]
           T0 == [i \in DOMAIN manifest.segs |-> tombs[manifest.segs[i].name]]
<1> USE DEF ReadManifest, vars
<1>1. TypeOK /\ ReadersTypeOK /\ manifest \in Manifests /\ ReaderInv(r)
  BY DEF RInv, IInv, TypeOK
<1>2. view[r] = <<>> /\ view'[r] = <<>> /\ rman'[r] = manifest /\ asked'[r] = LiveBag(manifest)
  BY <1>1 DEF ReaderInv, ReadersTypeOK
<1>3. rpc'[r] = After(manifest, 0) /\ Len(manifest.segs) \in Nat
  BY <1>1 DEF ReadersTypeOK, Manifests
<1>4. ReadersTypeOK'
  <2>1. rpc' \in [Readers -> {"idle", "index", "tombstones", "open"}]
    BY <1>1 DEF ReadersTypeOK, After
  <2>2. /\ rman' \in [Readers -> Manifests] /\ view' \in [Readers -> Views]
        /\ asked' \in [Readers -> [Docs -> Nat]] /\ late' \in [Readers -> BOOLEAN]
    BY <1>1, LiveBagType DEF ReadersTypeOK
  <2>3. ASSUME NEW q \in Readers
        PROVE  /\ Len(view'[q]) <= Len(rman'[q].segs)
               /\ rpc'[q] = "open" => Len(view'[q]) = Len(rman'[q].segs)
    <3>1. CASE q = r
      BY <1>2, <1>3, <3>1 DEF After
    <3>2. CASE q # r
      BY <1>1, <3>2 DEF ReadersTypeOK
    <3> QED
      BY <3>1, <3>2
  <2> QED
    BY <2>1, <2>2, <2>3 DEF ReadersTypeOK
<1>5. ReaderInv(r)'
  <2>1. D0 \in [DOMAIN manifest.segs -> Seq(Docs)] /\ T0 \in [DOMAIN manifest.segs -> SUBSET Nat]
    <3>1. ASSUME NEW i \in DOMAIN manifest.segs
          PROVE  dirs[manifest.segs[i].name].docs \in Seq(Docs) /\ tombs[manifest.segs[i].name] \in SUBSET Nat
      BY <1>1, EntryTypes DEF TypeOK, Dirs
    <3> QED
      BY <3>1
  <2>2. PICK D \in [DOMAIN manifest.segs -> Seq(Docs)], T \in [DOMAIN manifest.segs -> SUBSET Nat] :
          D = D0 /\ T = T0
    BY <2>1
  <2>3. LiveBag(manifest) = BagWith(D, T)
    <3>1. \A i \in DOMAIN manifest.segs : LiveIn(manifest, i) = DOMAIN D[i] \ T[i]
      BY <2>2 DEF LiveIn, DocsOf
    <3>2. LiveRows(manifest) = RowsWith(D, T)
      BY <3>1 DEF LiveRows, RowsWith
    <3>3. \A row \in LiveRows(manifest) : DocAt(manifest, row) = D[row[1]][row[2]]
      <4>1. ASSUME NEW i \in DOMAIN manifest.segs, NEW k
            PROVE  DocAt(manifest, <<i, k>>) = D[i][k]
        BY <2>2 DEF DocAt, DocsOf
      <4>2. \A row \in LiveRows(manifest) : \E i \in DOMAIN manifest.segs : \E k : row = <<i, k>>
        BY DEF LiveRows
      <4> QED
        BY <4>1, <4>2
    <3>4. ASSUME NEW d \in Docs
          PROVE  {row \in LiveRows(manifest) : DocAt(manifest, row) = d}
                   = {row \in RowsWith(D, T) : D[row[1]][row[2]] = d}
      BY <3>2, <3>3
    <3> QED
      BY <3>4 DEF LiveBag, BagWith
  <2>4. ASSUME NEW i \in DOMAIN manifest.segs
        PROVE  manifest.segs[i].name \in Names /\ Keeps(manifest.segs[i].name, D[i], T[i])'
    <3>1. manifest.segs[i].name \in NamesIn(manifest) /\ manifest.segs[i].name \in Names
      BY <1>1, EntryTypes
    <3>2. manifest.segs[i].name < manifest.next
      BY <3>1 DEF RInv, IInv, PublishedIntact, Intact
    <3> QED
      BY <2>2, <3>1, <3>2 DEF Keeps, NamesIn
  <2>5. Snapshot(r, D, T)'
    <3>1. asked'[r] = BagWith(D, T)
      BY <1>2, <2>3
    <3>2. \A i \in DOMAIN D : EntryOf(r, i)' \in Names /\ Keeps(EntryOf(r, i), D[i], T[i])'
      BY <1>2, <2>4 DEF EntryOf
    <3>3. \A i \in DOMAIN view'[r] : FALSE
      BY <1>2
    <3> QED
      BY <3>1, <3>2, <3>3 DEF Snapshot
  <2>6. (<<D, T>> \in SnapshotsOf(r))'
    BY <1>2 DEF SnapshotsOf
  <2>7. \E S \in (SnapshotsOf(r))' : Snapshot(r, S[1], S[2])'
    BY <2>5, <2>6
  <2> QED
    BY <1>2, <1>3, <2>7 DEF ReaderInv, After
<1> QED
  BY <1>4, <1>5, ReaderStepKeeps DEF ReaderStep

LEMMA LoadIndexKeeps ==
  ASSUME RInv, UNCHANGED vars, NEW r \in Readers, LoadIndex(r)
  PROVE  RInv'
<1> DEFINE i == Len(view[r]) + 1
           n == EntryOf(r, i)
           loaded == [docs |-> dirs[n].docs, deleted |-> {}]
<1>1. TypeOK /\ ReadersTypeOK /\ ReaderInv(r) /\ rpc[r] = "index"
  BY DEF RInv, IInv, LoadIndex
<1>2. /\ view[r] \in Views /\ Len(view[r]) \in Nat
      /\ rman[r] \in Manifests /\ Len(rman[r].segs) \in Nat /\ DOMAIN rman[r].segs = 1 .. Len(rman[r].segs)
  BY <1>1, ViewTypes
<1>3. i \in DOMAIN rman[r].segs
  BY <1>1, <1>2 DEF ReaderInv
<1>4. PICK S \in SnapshotsOf(r) : Snapshot(r, S[1], S[2])
  BY <1>1 DEF ReaderInv
<1>5. DOMAIN S[1] = DOMAIN rman[r].segs
  BY <1>4 DEF SnapshotsOf
<1>6. n \in Names /\ Keeps(n, S[1][i], S[2][i])
  BY <1>3, <1>4, <1>5 DEF Snapshot
<1>7. dirs[n].docs = S[1][i] /\ dirs[n].docs \in Seq(Docs)
  BY <1>1, <1>6 DEF Keeps, LoadIndex, TypeOK, Dirs
<1>8. view'[r] = Append(view[r], loaded) /\ rpc'[r] = "tombstones"
  BY <1>1 DEF LoadIndex, ReadersTypeOK
<1>9. /\ loaded \in [docs : Seq(Docs), deleted : SUBSET Nat]
      /\ view'[r] \in Views /\ Len(view'[r]) = i
      /\ \A k \in DOMAIN view[r] : k \in DOMAIN view'[r] /\ view'[r][k] = view[r][k]
      /\ view'[r][i] = loaded /\ DOMAIN view'[r] = DOMAIN view[r] \cup {i}
  BY <1>2, <1>7, <1>8 DEF Views
<1>10. ReadersTypeOK'
  <2>1. /\ rman' = rman /\ asked' = asked /\ late' = late
        /\ rpc' \in [Readers -> {"idle", "index", "tombstones", "open"}]
        /\ view' \in [Readers -> Views]
    BY <1>1, <1>9, <1>8 DEF ReadersTypeOK, LoadIndex
  <2>2. ASSUME NEW q \in Readers
        PROVE  /\ Len(view'[q]) <= Len(rman'[q].segs)
               /\ rpc'[q] = "open" => Len(view'[q]) = Len(rman'[q].segs)
    <3>1. CASE q = r
      BY <1>2, <1>3, <1>8, <1>9, <2>1, <3>1
    <3>2. CASE q # r
      BY <1>1, <3>2 DEF ReadersTypeOK, LoadIndex
    <3> QED
      BY <3>1, <3>2
  <2> QED
    BY <1>1, <2>1, <2>2 DEF ReadersTypeOK
<1>11. ReaderInv(r)'
  <2>1. rman' = rman /\ asked' = asked /\ late' = late
    BY DEF LoadIndex
  <2>2. ASSUME NEW k \in DOMAIN view'[r]
        PROVE  /\ view'[r][k].docs = S[1][k]
               /\ k < Len(view'[r]) =>
                    /\ view'[r][k].deleted \subseteq S[2][k]
                    /\ ~late'[r] => view'[r][k].deleted = S[2][k]
    <3>1. CASE k \in DOMAIN view[r]
      BY <1>1, <1>4, <1>9, <2>1, <3>1 DEF Snapshot
    <3>2. CASE k = i
      BY <1>2, <1>7, <1>9, <3>2
    <3> QED
      BY <1>9, <3>1, <3>2
  <2>3. Snapshot(r, S[1], S[2])'
    <3>1. asked'[r] = BagWith(S[1], S[2])
      BY <1>4, <2>1 DEF Snapshot
    <3>2. \A k \in DOMAIN S[1] : EntryOf(r, k)' \in Names /\ Keeps(EntryOf(r, k), S[1][k], S[2][k])'
      BY <1>4, <2>1 DEF Snapshot, EntryOf, Keeps, vars
    <3> QED
      BY <1>8, <2>2, <3>1, <3>2 DEF Snapshot
  <2>4. (SnapshotsOf(r))' = SnapshotsOf(r)
    BY <2>1 DEF SnapshotsOf
  <2>5. view'[r] # <<>>
    BY <1>2, <1>9
  <2> HIDE DEF loaded
  <2> QED
    BY <1>8, <2>3, <2>4, <2>5 DEF ReaderInv
<1> QED
  BY <1>10, <1>11, ReaderStepKeeps DEF ReaderStep

LEMMA ReadTombstonesKeeps ==
  ASSUME RInv, UNCHANGED vars, NEW r \in Readers, ReadTombstones(r)
  PROVE  RInv'
<1> DEFINE i == Len(view[r])
           n == EntryOf(r, i)
<1>1. TypeOK /\ ReadersTypeOK /\ ReaderInv(r) /\ rpc[r] = "tombstones"
  BY DEF RInv, IInv, ReadTombstones
<1>2. /\ view[r] \in Views /\ Len(view[r]) \in Nat /\ DOMAIN view[r] = 1 .. Len(view[r])
      /\ \A k \in DOMAIN view[r] : view[r][k] \in [docs : Seq(Docs), deleted : SUBSET Nat]
      /\ rman[r] \in Manifests /\ Len(rman[r].segs) \in Nat /\ DOMAIN rman[r].segs = 1 .. Len(rman[r].segs)
  BY <1>1, ViewTypes
<1>3. i \in DOMAIN view[r] /\ i \in DOMAIN rman[r].segs
  <2>1. view[r] # <<>>
    BY <1>1 DEF ReaderInv
  <2>2. Len(view[r]) # 0
    BY <1>2, <2>1 DEF Views
  <2> QED
    BY <1>1, <1>2, <2>2 DEF ReadersTypeOK
<1>4. PICK S \in SnapshotsOf(r) : Snapshot(r, S[1], S[2])
  BY <1>1 DEF ReaderInv
<1>5. DOMAIN S[1] = DOMAIN rman[r].segs
  BY <1>4 DEF SnapshotsOf
<1>6. n \in Names /\ Keeps(n, S[1][i], S[2][i])
  BY <1>3, <1>4, <1>5 DEF Snapshot
<1>7. /\ view'[r] = [view[r] EXCEPT ![i].deleted = tombs[n]]
      /\ late'[r] = (late[r] \/ n \notin NamesIn(manifest))
      /\ rpc'[r] = After(rman[r], i)
  BY <1>1 DEF ReadTombstones, ReadersTypeOK
<1>8. /\ view'[r] \in Views /\ Len(view'[r]) = i /\ DOMAIN view'[r] = DOMAIN view[r]
      /\ \A k \in DOMAIN view[r] : /\ view'[r][k].docs = view[r][k].docs
                                   /\ k # i => view'[r][k] = view[r][k]
      /\ view'[r][i].deleted = tombs[n]
  <2>1. tombs[n] \in SUBSET Nat
    BY <1>1, <1>6 DEF TypeOK
  <2>2. [view[r][i] EXCEPT !.deleted = tombs[n]] \in [docs : Seq(Docs), deleted : SUBSET Nat]
    BY <1>2, <1>3, <2>1
  <2>3. /\ view'[r] = [view[r] EXCEPT ![i] = [view[r][i] EXCEPT !.deleted = tombs[n]]]
        /\ [view[r][i] EXCEPT !.deleted = tombs[n]].deleted = tombs[n]
        /\ [view[r][i] EXCEPT !.deleted = tombs[n]].docs = view[r][i].docs
    BY <1>2, <1>3, <1>7
  <2> HIDE DEF n
  <2> QED
    BY <1>2, <1>3, <2>2, <2>3 DEF Views
<1>9. ReadersTypeOK'
  <2>1. /\ rman' = rman /\ asked' = asked
        /\ rpc' \in [Readers -> {"idle", "index", "tombstones", "open"}]
        /\ view' \in [Readers -> Views]
    BY <1>1, <1>8 DEF ReadersTypeOK, ReadTombstones, After
  <2>2. late' \in [Readers -> BOOLEAN]
    BY <1>1 DEF ReadersTypeOK, ReadTombstones
  <2>3. ASSUME NEW q \in Readers
        PROVE  /\ Len(view'[q]) <= Len(rman'[q].segs)
               /\ rpc'[q] = "open" => Len(view'[q]) = Len(rman'[q].segs)
    <3>1. CASE q = r
      BY <1>2, <1>3, <1>7, <1>8, <2>1, <3>1 DEF After
    <3>2. CASE q # r
      BY <1>1, <3>2 DEF ReadersTypeOK, ReadTombstones
    <3> QED
      BY <3>1, <3>2
  <2> QED
    BY <1>1, <2>1, <2>2, <2>3 DEF ReadersTypeOK
<1>10. ReaderInv(r)'
  <2>1. rman' = rman /\ asked' = asked /\ (late[r] => late'[r])
    BY <1>7 DEF ReadTombstones
  <2>2. ASSUME NEW k \in DOMAIN view'[r]
        PROVE  /\ view'[r][k].docs = S[1][k]
               /\ view'[r][k].deleted \subseteq S[2][k]
               /\ ~late'[r] => view'[r][k].deleted = S[2][k]
    <3>0. k \in DOMAIN view[r] /\ view'[r][k].docs = view[r][k].docs
      BY <1>8
    <3>1. view'[r][k].docs = S[1][k]
      BY <1>4, <3>0 DEF Snapshot
    <3>2. CASE k # i
      BY <1>2, <1>4, <1>8, <2>1, <3>1, <3>2 DEF Snapshot
    <3>3. CASE k = i
      BY <1>6, <1>7, <1>8, <3>1, <3>3 DEF Keeps
    <3> QED
      BY <3>2, <3>3
  <2>3. Snapshot(r, S[1], S[2])'
    <3>1. asked'[r] = BagWith(S[1], S[2])
      BY <1>4, <2>1 DEF Snapshot
    <3>2. \A k \in DOMAIN S[1] : EntryOf(r, k)' \in Names /\ Keeps(EntryOf(r, k), S[1][k], S[2][k])'
      BY <1>4, <2>1 DEF Snapshot, EntryOf, Keeps, vars
    <3> QED
      BY <2>2, <3>1, <3>2 DEF Snapshot
  <2>4. (SnapshotsOf(r))' = SnapshotsOf(r)
    BY <2>1 DEF SnapshotsOf
  <2>5. rpc'[r] = "index" => i < Len(rman[r].segs)
    BY <1>2, <1>3, <1>7 DEF After
  <2>6. rpc'[r] \in {"index", "open"}
    BY <1>7 DEF After
  <2> QED
    BY <1>8, <2>1, <2>3, <2>4, <2>5, <2>6 DEF ReaderInv
<1> QED
  BY <1>9, <1>10, ReaderStepKeeps DEF ReaderStep

LEMMA CloseViewKeeps ==
  ASSUME RInv, UNCHANGED vars, NEW r \in Readers, CloseView(r)
  PROVE  RInv'
<1>1. ReadersTypeOK
  BY DEF RInv
<1>2. /\ rpc'[r] = "idle" /\ rman'[r] = NoManifest /\ view'[r] = <<>> /\ late'[r] = FALSE
  BY <1>1 DEF CloseView, ReadersTypeOK
<1>3. NoManifest \in Manifests /\ NoManifest.segs = <<>> /\ <<>> \in Views /\ [d \in Docs |-> 0] \in [Docs -> Nat]
  BY DEF NoManifest, Manifests, Views
<1>4. ReadersTypeOK'
  <2>1. /\ rpc' \in [Readers -> {"idle", "index", "tombstones", "open"}]
        /\ rman' \in [Readers -> Manifests] /\ view' \in [Readers -> Views]
        /\ asked' \in [Readers -> [Docs -> Nat]] /\ late' \in [Readers -> BOOLEAN]
    BY <1>1, <1>3 DEF ReadersTypeOK, CloseView
  <2>2. ASSUME NEW q \in Readers
        PROVE  /\ Len(view'[q]) <= Len(rman'[q].segs)
               /\ rpc'[q] = "open" => Len(view'[q]) = Len(rman'[q].segs)
    <3>1. CASE q = r
      BY <1>2, <1>3, <3>1
    <3>2. CASE q # r
      BY <1>1, <3>2 DEF ReadersTypeOK, CloseView
    <3> QED
      BY <3>1, <3>2
  <2> QED
    BY <2>1, <2>2 DEF ReadersTypeOK
<1>5. ReaderInv(r)'
  BY <1>2 DEF ReaderInv
<1> QED
  BY <1>4, <1>5, ReaderStepKeeps DEF ReaderStep

LEMMA NextReadersKeeps ==
  RInv /\ [NextWithReaders]_<<vars, readerVars>> => RInv'
<1> SUFFICES ASSUME RInv, [NextWithReaders]_<<vars, readerVars>>
             PROVE  RInv'
  OBVIOUS
<1>1. CASE Next /\ UNCHANGED readerVars
  BY <1>1, WritersKeepReaders
<1>2. CASE UNCHANGED <<vars, readerVars>>
  BY <1>2, WritersKeepReaders
<1>3. ASSUME NEW r \in Readers, ReaderStep(r), UNCHANGED vars
      PROVE  RInv'
  BY <1>3, ReadManifestKeeps, LoadIndexKeeps, ReadTombstonesKeeps, CloseViewKeeps DEF ReaderStep
<1> QED
  BY <1>1, <1>2, <1>3 DEF NextWithReaders

-----------------------------------------------------------------------------
(* What an opened view holds. *)

(* Rows of fewer tombstones over the same documents. *)
LEMMA FewerTombstones ==
  ASSUME NEW I, IsFiniteSet(I), NEW D \in [I -> Seq(Docs)], NEW T, NEW U,
         \A i \in I : U[i] \subseteq T[i], NEW d \in Docs
  PROVE  BagWith(D, U)[d] >= BagWith(D, T)[d]
<1> DEFINE Hits(V) == {row \in RowsWith(D, V) : D[row[1]][row[2]] = d}
           Of(i)   == {<<i, p>> : p \in DOMAIN D[i]}
           All     == {Of(i) : i \in I}
<1>1. Hits(T) \subseteq Hits(U)
  BY DEF RowsWith
<1>2. IsFiniteSet(UNION All)
  <2>1. ASSUME NEW i \in I
        PROVE  IsFiniteSet(Of(i))
    <3> DEFINE f == [p \in DOMAIN D[i] |-> <<i, p>>]
    <3>1. f \in Surjection(DOMAIN D[i], Of(i))
      BY DEF Surjection
    <3>2. D[i] \in Seq(Docs)
      OBVIOUS
    <3> QED
      BY <3>1, <3>2, DomainFinite, FS_Surjection
  <2>2. IsFiniteSet(All)
    <3> DEFINE f == [i \in I |-> Of(i)]
    <3> HIDE DEF Of
    <3>1. f \in Surjection(I, All)
      BY DEF Surjection
    <3> QED
      BY <3>1, FS_Surjection
  <2> QED
    BY <2>1, <2>2, FS_UNION
<1>3. Hits(U) \subseteq UNION All
  BY DEF RowsWith
<1>4. IsFiniteSet(Hits(U)) /\ Cardinality(Hits(T)) <= Cardinality(Hits(U))
  BY <1>1, <1>2, <1>3, FS_Subset
<1>5. Cardinality(Hits(T)) \in Nat /\ Cardinality(Hits(U)) \in Nat
  BY <1>1, <1>4, FS_Subset, FS_CardinalityType
<1> QED
  BY <1>4, <1>5 DEF BagWith

LEMMA SameTombstones ==
  ASSUME NEW I, NEW D \in [I -> Seq(Docs)], NEW T, NEW U, \A i \in I : U[i] = T[i]
  PROVE  BagWith(D, U) = BagWith(D, T)
<1>1. RowsWith(D, U) = RowsWith(D, T)
  BY DEF RowsWith
<1> QED
  BY <1>1 DEF BagWith

LEMMA ViewAsRows ==
  ASSUME NEW r \in Readers, NEW D \in [DOMAIN view[r] -> Seq(Docs)], NEW U,
         \A i \in DOMAIN view[r] : view[r][i].docs = D[i] /\ view[r][i].deleted = U[i]
  PROVE  ViewBag(r) = BagWith(D, U)
<1>1. \A i \in DOMAIN view[r] :
        {<<i, p>> : p \in DOMAIN view[r][i].docs \ view[r][i].deleted} = {<<i, p>> : p \in DOMAIN D[i] \ U[i]}
  OBVIOUS
<1>2. Rows(r) = RowsWith(D, U)
  BY <1>1 DEF Rows, RowsWith
<1>3. ASSUME NEW row \in Rows(r)
      PROVE  view[r][row[1]].docs[row[2]] = D[row[1]][row[2]]
  <2>1. PICK i \in DOMAIN view[r] : row \in {<<i, p>> : p \in DOMAIN view[r][i].docs \ view[r][i].deleted}
    BY DEF Rows
  <2>2. row[1] = i
    BY <2>1
  <2> QED
    BY <2>2
<1>4. ASSUME NEW d \in Docs
      PROVE  {row \in Rows(r) : view[r][row[1]].docs[row[2]] = d}
               = {row \in RowsWith(D, U) : D[row[1]][row[2]] = d}
  BY <1>2, <1>3
<1> QED
  BY <1>4 DEF ViewBag, BagWith

(* A finished view in terms of what it was read from. *)
LEMMA OpenedView ==
  ASSUME RInv, NEW r \in Readers, rpc[r] = "open"
  PROVE  \E D \in [DOMAIN view[r] -> Seq(Docs)] : \E T, U :
           /\ asked[r] = BagWith(D, T)
           /\ ViewBag(r) = BagWith(D, U)
           /\ \A i \in DOMAIN view[r] : U[i] \subseteq T[i]
           /\ ~late[r] => BagWith(D, U) = BagWith(D, T)
           /\ IsFiniteSet(DOMAIN view[r])
<1>1. ReadersTypeOK /\ ReaderInv(r)
  BY DEF RInv
<1>2. /\ view[r] \in Views /\ DOMAIN view[r] = 1 .. Len(view[r])
      /\ DOMAIN rman[r].segs = 1 .. Len(rman[r].segs)
  BY <1>1, ViewTypes
<1>3. DOMAIN view[r] = DOMAIN rman[r].segs
  BY <1>1, <1>2 DEF ReadersTypeOK
<1>4. PICK S \in SnapshotsOf(r) : Snapshot(r, S[1], S[2])
  BY <1>1 DEF ReaderInv
<1>5. S[1] \in [DOMAIN view[r] -> Seq(Docs)]
  BY <1>3, <1>4 DEF SnapshotsOf
<1>5a. PICK D \in [DOMAIN view[r] -> Seq(Docs)] : D = S[1]
  BY <1>5
<1>6. PICK T, U : T = S[2] /\ U = [i \in DOMAIN view[r] |-> view[r][i].deleted]
  OBVIOUS
<1>7. \A i \in DOMAIN view[r] : /\ view[r][i].docs = D[i] /\ view[r][i].deleted = U[i]
                                /\ U[i] \subseteq T[i]
                                /\ ~late[r] => U[i] = T[i]
  BY <1>5a, <1>4, <1>6 DEF Snapshot
<1>8. ViewBag(r) = BagWith(D, U)
  BY <1>7, ViewAsRows
<1>9. ~late[r] => BagWith(D, U) = BagWith(D, T)
  BY <1>7, SameTombstones
<1>10. IsFiniteSet(DOMAIN view[r])
  <2>1. view[r] \in Seq([docs : Seq(Docs), deleted : SUBSET Nat])
    BY <1>2 DEF Views
  <2> QED
    BY <2>1, DomainFinite
<1>11. asked[r] = BagWith(D, T)
  BY <1>5a, <1>4, <1>6 DEF Snapshot
<1> QED
  BY <1>7, <1>8, <1>9, <1>10, <1>11

-----------------------------------------------------------------------------
(* The invariant: besides the writers' one, what each reader has read so   *)
(* far is what its manifest named when it was read, and the names of that  *)
(* manifest keep their contents or lose them, however writers go on.       *)
THEOREM ReadersInvariance == SpecWithReaders => []RInv
<1>1. Init /\ ReadersInit => RInv
  BY ReadersInitEstablishes
<1> QED
  BY <1>1, NextReadersKeeps, PTL DEF SpecWithReaders

(* Manifests, views and documents stay well-typed, and no reader has more  *)
(* segments than its manifest names.                                       *)
THEOREM ReadersTypeCorrect == SpecWithReaders => []ReadersTypeOK
<1>1. RInv => ReadersTypeOK
  BY DEF RInv
<1> QED
  BY <1>1, ReadersInvariance, PTL

(* An open not overtaken by the retirement of one of its segments returns  *)
(* the documents live at the moment it read the manifest.                  *)
THEOREM UnracedOpensAreSnapshots == SpecWithReaders => []UnracedOpenIsSnapshot
<1>1. RInv => UnracedOpenIsSnapshot
  BY OpenedView DEF UnracedOpenIsSnapshot
<1> QED
  BY <1>1, ReadersInvariance, PTL

(* Whatever is merged, recovered or removed while a search opens the index,*)
(* an open that succeeds has every document that was live when it began.   *)
THEOREM OpensMissNothing == SpecWithReaders => []OpenMissesNothing
<1>1. ASSUME RInv, NEW r \in Readers, rpc[r] = "open", NEW d \in Docs
      PROVE  ViewBag(r)[d] >= asked[r][d]
  <2>1. PICK D \in [DOMAIN view[r] -> Seq(Docs)] : \E T, U :
           /\ asked[r] = BagWith(D, T)
           /\ ViewBag(r) = BagWith(D, U)
           /\ \A i \in DOMAIN view[r] : U[i] \subseteq T[i]
           /\ IsFiniteSet(DOMAIN view[r])
    BY <1>1, OpenedView
  <2>2. PICK T, U : /\ asked[r] = BagWith(D, T) /\ ViewBag(r) = BagWith(D, U)
                    /\ \A i \in DOMAIN view[r] : U[i] \subseteq T[i]
    BY <2>1
  <2>3. BagWith(D, U)[d] >= BagWith(D, T)[d]
    BY <2>1, <2>2, FewerTombstones
  <2> QED
    BY <2>2, <2>3
<1>2. RInv => OpenMissesNothing
  BY <1>1 DEF OpenMissesNothing
<1> QED
  BY <1>2, ReadersInvariance, PTL
===============================================================================
