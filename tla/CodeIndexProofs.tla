--------------------------- MODULE CodeIndexProofs ----------------------------
(***************************************************************************)
(* Theorems about a code index: its layout and its vectors, SingleLayout   *)
(* and SegmentVectors, for any texts, any trees of the source, any number  *)
(* of changes, segments, crashes and failed renames; then about those who  *)
(* search it, Callers: the MCP server's freshness, its protocol, and the   *)
(* command line, for any files and edits, any lines and any places.        *)
(***************************************************************************)
EXTENDS Callers, SingleLayout, SegmentVectors, RepoBuildProofs, FiniteLemmas, SequenceTheorems

(* A cache has codes of its own quantizer only, and a text's vector unless *)
(* it is a damaged one.                                                    *)
CacheOK(c) ==
  /\ c = [quantizer |-> c.quantizer, entries |-> c.entries]
  /\ \A t \in DOMAIN c.entries :
       /\ c.entries[t] = [vector |-> c.entries[t].vector, code |-> c.entries[t].code]
       /\ c.entries[t].vector \in {t, Damaged}
       /\ c.entries[t].code \in {NoCode, CodeOf(c.quantizer, c.entries[t].vector)}
Pure(c) == \A t \in DOMAIN c.entries : c.entries[t].vector = t

(* What is at the path of the index, or was, is a whole index.             *)
DirOK(dir) ==
  /\ dir # NoDir => Whole(dir)
  /\ Has(dir, "embcache") => CacheOK(dir["embcache"])
  /\ IsSegmented(dir) => dir["manifest"] = {"segment"}

Installs  == {"drop", "retire", "place"}
Building  == {"lexical", "vectors", "quantize", "cache", "repo", "done"} \cup Installs
Migrating == {"m_pending", "segment", "embcache", "manifest", "m_repo", "m_clean"}

LayoutTypes ==
  /\ corpus \in Seq(Contents) /\ docs \in Seq(Contents)
  /\ pc \in {"idle"} \cup Building \cup Migrating
  /\ crashes \in Nat /\ stops \in Nat /\ crashes <= stops
  /\ had \in BOOLEAN /\ (~had => index = NoDir /\ retired = NoDir)

(* What a build has put in staging so far, and what it has in memory.      *)
LayoutStage ==
  /\ pc = "lexical" => staging = NoDir
  /\ pc \in {"vectors", "quantize", "cache", "repo"} \cup Installs =>
       ~IsSegmented(staging) /\ Has(staging, "lexical") /\ staging["lexical"] = docs
  /\ pc \in {"quantize", "cache", "repo"} \cup Installs =>
       Has(staging, "vectors") /\ staging["vectors"] = docs
  /\ pc \in {"quantize", "cache"} => CacheOK(cache)
  /\ pc = "quantize" => Pure(cache) /\ ToSet(docs) \subseteq DOMAIN cache.entries
  /\ pc \in {"cache", "repo"} \cup Installs =>
       /\ Has(staging, "quantizer") /\ Has(staging, "codes")
       /\ staging["codes"] = [i \in DOMAIN docs |-> CodeOf(staging["quantizer"], docs[i])]
  /\ pc \in {"repo"} \cup Installs => Has(staging, "embcache") /\ CacheOK(staging["embcache"])
  /\ pc \in Installs => Has(staging, "repo")

(* What a migration has moved, and what is left to move: until the         *)
(* manifest comes the files in the directory are those of one layout.      *)
MoveInv ==
  /\ pc \in {"m_pending", "segment", "embcache", "manifest"} =>
       /\ ~IsSegmented(index) /\ index # NoDir
       /\ Has(staging, "manifest") /\ staging["manifest"] = {"segment"}
  /\ pc \in {"m_pending", "segment"} =>
       Has(staging, "segment") /\ OfTexts(staging["segment"].vectors, staging["segment"].docs)
  /\ pc \in {"m_pending", "segment", "embcache"} => Has(staging, "embcache") /\ CacheOK(staging["embcache"])
  /\ pc \in {"embcache", "manifest"} =>
       Has(index, "segment") /\ OfTexts(index["segment"].vectors, index["segment"].docs)
  /\ pc \in {"m_repo", "m_clean"} => IsSegmented(index)

(* When the index can be away, and where the old one is then.              *)
SwapInv ==
  /\ pc \in {"retire", "done"} => index # NoDir
  /\ had /\ crashes = 0 => (IF pc = "place" THEN retired ELSE index) # NoDir
  /\ had /\ index = NoDir /\ stops = 0 => pc = "place" /\ retired # NoDir
  /\ had /\ index = NoDir /\ stops <= 1 => pc = "place" \/ retired # NoDir

LayoutInv ==
  LayoutTypes /\ DirOK(index) /\ DirOK(retired) /\ LayoutStage /\ MoveInv /\ SwapInv /\ BuiltIsSound

-----------------------------------------------------------------------------
(* Directories and caches. *)

LEMMA NoDirIsBare == ASSUME NEW file PROVE ~Has(NoDir, file)
  BY DEF NoDir, Has

LEMMA WithFileHas ==
  ASSUME NEW dir, NEW file, NEW content, NEW other
  PROVE  /\ Has(WithFile(dir, file, content), other) <=> other = file \/ Has(dir, other)
         /\ WithFile(dir, file, content)[file] = content
         /\ Has(dir, other) /\ other # file => WithFile(dir, file, content)[other] = dir[other]
  BY DEF WithFile, Has

LEMMA WithoutHas ==
  ASSUME NEW dir, NEW files, NEW other
  PROVE  /\ Has(Without(dir, files), other) <=> other \notin files /\ Has(dir, other)
         /\ Has(dir, other) /\ other \notin files => Without(dir, files)[other] = dir[other]
  BY DEF Without, Restrict, Has

LEMMA TreesAreSequences ==
  ASSUME NEW t \in Trees
  PROVE  t \in Seq(Contents) /\ t # <<>> /\ Len(t) \in 1 .. 2
<1>1. PICK m \in 0 .. 2 : t \in [1 .. m -> Contents]
  BY DEF Trees, BoundedSeq, SeqOf
<1>2. t \in Seq(Contents) /\ Len(t) = m
  BY <1>1
<1>3. t # <<>>
  BY DEF Trees
<1> QED  BY <1>2, <1>3

LEMMA LoadableIsPure ==
  ASSUME NEW c, CacheOK(c)
  PROVE  CacheOK(Loadable(c)) /\ Pure(Loadable(c))
  BY DEF CacheOK, Pure, Loadable, Restrict, CodeOf

LEMMA CacheOfIsPure ==
  ASSUME NEW dir, DirOK(dir)
  PROVE  CacheOK(CacheOf(dir)) /\ Pure(CacheOf(dir))
<1>1. CacheOK(NoCache) /\ Pure(NoCache)
  BY DEF CacheOK, Pure, NoCache
<1> QED  BY <1>1, LoadableIsPure DEF CacheOf, DirOK

LEMMA InsertIsPure ==
  ASSUME NEW c, CacheOK(c), Pure(c), NEW keys
  PROVE  /\ CacheOK(Insert(c, keys)) /\ Pure(Insert(c, keys))
         /\ DOMAIN Insert(c, keys).entries = keys \cup DOMAIN c.entries
  BY DEF CacheOK, Pure, Insert, CodeOf

(* What is encoded and what the cache has make up all texts.               *)
LEMMA EncodedIsWhole ==
  ASSUME NEW dir, DirOK(dir), NEW words \in Seq(Contents),
         NEW c, c = Insert(CacheOf(dir), Misses(CacheOf(dir), words))
  PROVE  /\ CacheOK(c) /\ Pure(c) /\ ToSet(words) \subseteq DOMAIN c.entries
         /\ Vectors(c, words) = words
<1>1. CacheOK(c) /\ Pure(c) /\ DOMAIN c.entries = Misses(CacheOf(dir), words) \cup DOMAIN CacheOf(dir).entries
  BY CacheOfIsPure, InsertIsPure
<1>2. ToSet(words) \subseteq DOMAIN c.entries
  BY <1>1 DEF Misses
<1>3. \A i \in DOMAIN words : c.entries[words[i]].vector = words[i]
  BY <1>1, <1>2 DEF Pure, ToSet
<1>4. Vectors(c, words) = [i \in DOMAIN words |-> words[i]]
  BY <1>3 DEF Vectors
<1>5. words = [i \in DOMAIN words |-> words[i]]
  OBVIOUS
<1> QED  BY <1>1, <1>2, <1>4, <1>5

LEMMA OwnTextsFit == ASSUME NEW words \in Seq(Contents) PROVE OfTexts(words, words)
  BY DEF OfTexts

(* Codes that a cache keeps are those of the quantizer it is given.        *)
LEMMA SetQuantizerOK ==
  ASSUME NEW c, CacheOK(c), Pure(c), NEW q
  PROVE  /\ CacheOK(SetQuantizer(c, q)) /\ Pure(SetQuantizer(c, q))
         /\ SetQuantizer(c, q).quantizer = q
         /\ DOMAIN SetQuantizer(c, q).entries = DOMAIN c.entries
<1>1. CASE c.quantizer = q
  BY <1>1 DEF SetQuantizer
<1>2. CASE c.quantizer # q
  BY <1>2 DEF SetQuantizer, CacheOK, Pure
<1> QED  BY <1>1, <1>2

LEMMA SetCodesOK ==
  ASSUME NEW c, CacheOK(c), Pure(c), NEW codeOf, \A t \in DOMAIN codeOf : codeOf[t] = CodeOf(c.quantizer, t)
  PROVE  CacheOK(SetCodes(c, codeOf)) /\ Pure(SetCodes(c, codeOf))
  BY DEF CacheOK, Pure, SetCodes

LEMMA RetainKeysOK ==
  ASSUME NEW c, CacheOK(c), NEW alive
  PROVE  CacheOK(RetainKeys(c, alive))
  BY DEF CacheOK, RetainKeys, Restrict

(* An index that an older runtime left.                                    *)
LEMMA OldIndexOK ==
  ASSUME NEW t \in Trees, NEW bad
  PROVE  DirOK(OldIndex(t, bad)) /\ OldIndex(t, bad) # NoDir
<1> DEFINE vector == [i \in DOMAIN t |-> IF t[i] \in bad THEN Damaged ELSE t[i]]
           code   == [i \in DOMAIN t |-> CodeOf(vector, vector[i])]
           at(u)  == SelectInSeq(t, LAMBDA v : v = u)
           entries == [u \in ToSet(t) |-> [vector |-> vector[at(u)], code |-> code[at(u)]]]
           old == [lexical |-> t, vectors |-> vector, quantizer |-> vector, codes |-> code,
                   embcache |-> [quantizer |-> vector, entries |-> entries], repo |-> t]
<1>1. OldIndex(t, bad) = old
  BY DEF OldIndex
<1>2. t \in Seq(Contents) /\ Len(t) \in 1 .. 2
  BY TreesAreSequences
<1>3. ASSUME NEW u \in ToSet(t)
      PROVE  at(u) \in DOMAIN t /\ t[at(u)] = u
  <2> DEFINE I == {i \in 1 .. Len(t) : t[i] = u}
  <2>1. I \subseteq {1, 2} /\ I # {} /\ \A i \in I : i \in DOMAIN t /\ t[i] = u
    BY <1>2, <1>3 DEF ToSet
  <2>2. \E i \in I : \A j \in I : i <= j
    <3> HIDE DEF I
    <3>1. CASE 1 \in I
      BY <2>1, <3>1
    <3>2. CASE 1 \notin I
      <4>1. I = {2}
        BY <2>1, <3>2
      <4> QED  BY <4>1
    <3> QED  BY <3>1, <3>2
  <2>3. at(u) = Min(I)
    BY <2>1 DEF SelectInSeq
  <2>4. at(u) \in I
    <3> HIDE DEF I
    <3> QED  BY <2>2, <2>3 DEF Min
  <2> QED  BY <2>1, <2>4
<1> HIDE DEF at
<1>4. Has(old, "lexical") /\ ~IsSegmented(old) /\ Whole(old)
  <2>1. OfTexts(vector, t)
    BY <1>2 DEF OfTexts
  <2> QED  BY <2>1 DEF Has, IsSegmented, Whole, SingleFiles
<1>5. CacheOK(old["embcache"])
  <2>1. ASSUME NEW u \in ToSet(t)
        PROVE  entries[u] = [vector |-> vector[at(u)], code |-> code[at(u)]]
               /\ vector[at(u)] \in {u, Damaged} /\ code[at(u)] = CodeOf(vector, vector[at(u)])
    BY <1>3
  <2> HIDE DEF vector, code
  <2>2. old["embcache"] = [quantizer |-> vector, entries |-> entries]
    OBVIOUS
  <2>3. \A u \in DOMAIN entries : /\ entries[u] = [vector |-> entries[u].vector, code |-> entries[u].code]
                                  /\ entries[u].vector \in {u, Damaged}
                                  /\ entries[u].code = CodeOf(vector, entries[u].vector)
    BY <2>1
  <2> HIDE DEF entries, old
  <2> QED  BY <2>2, <2>3 DEF CacheOK
<1> QED  BY <1>1, <1>4, <1>5, NoDirIsBare DEF DirOK, IsSegmented

-----------------------------------------------------------------------------
(* The steps of a build. *)

LEMMA InitLayout == LayoutInit => LayoutInv
<1> SUFFICES ASSUME LayoutInit PROVE LayoutInv
  OBVIOUS
<1>1. corpus \in Seq(Contents) /\ docs = <<>> /\ docs \in Seq(Contents)
  BY TreesAreSequences DEF LayoutInit, LayoutRests
<1>2. DirOK(NoDir)
  BY NoDirIsBare DEF DirOK, IsSegmented
<1>3. DirOK(index)
  BY <1>2, OldIndexOK DEF LayoutInit
<1>4. LayoutTypes
  <2>1. had \in BOOLEAN /\ (~had => index = NoDir /\ retired = NoDir)
    BY DEF LayoutInit, LayoutRests
  <2> QED  BY <1>1, <2>1 DEF LayoutInit, LayoutRests, LayoutTypes
<1>5. SwapInv
  <2>1. had => index # NoDir
    BY DEF LayoutInit, LayoutRests
  <2> QED  BY <2>1 DEF LayoutInit, LayoutRests, SwapInv
<1>6. LayoutStage /\ MoveInv /\ BuiltIsSound
  BY DEF LayoutInit, LayoutRests, LayoutStage, MoveInv, BuiltIsSound, Installs
<1> QED
  BY <1>2, <1>3, <1>4, <1>5, <1>6 DEF LayoutInit, LayoutRests, LayoutInv

LEMMA ChangeKeeps == LayoutInv /\ Change => LayoutInv'
  BY TreesAreSequences DEF Change, LayoutInv, LayoutTypes, LayoutStage, MoveInv, SwapInv, BuiltIsSound

LEMMA BeginBuildKeeps == ASSUME LayoutInv, NEW retrain, BeginBuild(retrain) PROVE LayoutInv'
  BY NoDirIsBare DEF BeginBuild, LayoutInv, LayoutTypes, LayoutStage, MoveInv, SwapInv, BuiltIsSound, Building, Migrating,
     Installs, counters

LEMMA SaveLexicalKeeps == LayoutInv /\ SaveLexical => LayoutInv'
  BY WithFileHas, NoDirIsBare DEF SaveLexical, LayoutInv, LayoutTypes, LayoutStage, MoveInv, SwapInv, BuiltIsSound, Building, Migrating,
     Installs, counters, IsSegmented

LEMMA SaveVectorsKeeps == LayoutInv /\ SaveVectors => LayoutInv'
<1> SUFFICES ASSUME LayoutInv, SaveVectors PROVE LayoutInv'
  OBVIOUS
<1>1. CacheOK(cache') /\ Pure(cache') /\ ToSet(docs) \subseteq DOMAIN cache'.entries /\ Vectors(cache', docs) = docs
  BY EncodedIsWhole DEF SaveVectors, LayoutInv, LayoutTypes
<1> QED
  BY <1>1, WithFileHas DEF SaveVectors, LayoutInv, LayoutTypes, LayoutStage, MoveInv, SwapInv, BuiltIsSound, Building,
     Migrating, Installs, counters, IsSegmented

LEMMA RequantizeKeeps == LayoutInv /\ Requantize => LayoutInv'
<1> SUFFICES ASSUME LayoutInv, Requantize PROVE LayoutInv'
  OBVIOUS
<1> DEFINE q == index["quantizer"]
           c == SetQuantizer(cache, q)
           codeOf == [t \in ToSet(docs) |->
                        IF c.entries[t].code # NoCode THEN c.entries[t].code ELSE CodeOf(q, c.entries[t].vector)]
           codes == [i \in DOMAIN docs |-> codeOf[docs[i]]]
<1>1. pc = "quantize" /\ CacheOK(cache) /\ Pure(cache) /\ ToSet(docs) \subseteq DOMAIN cache.entries
  BY DEF Requantize, LayoutInv, LayoutStage
<1>2. CacheOK(c) /\ Pure(c) /\ c.quantizer = q /\ ToSet(docs) \subseteq DOMAIN c.entries
  BY <1>1, SetQuantizerOK
<1>3. \A t \in DOMAIN codeOf : codeOf[t] = CodeOf(c.quantizer, t)
  <2> HIDE DEF c, q
  <2> QED  BY <1>2 DEF CacheOK, Pure
<1>4. cache' = SetCodes(c, codeOf) /\ CacheOK(cache')
  BY <1>2, <1>3, SetCodesOK DEF Requantize
<1>5. codes = [i \in DOMAIN docs |-> CodeOf(q, docs[i])]
  BY <1>2, <1>3 DEF ToSet
<1>6. staging' = WithFile(WithFile(staging, "quantizer", q), "codes", codes)
  BY DEF Requantize
<1>7. UNCHANGED <<corpus, index, retired, docs, fresh, counters>> /\ pc' = "cache"
  BY DEF Requantize
<1> HIDE DEF codes, q
<1>8. /\ \A f : Has(staging', f) <=> f \in {"quantizer", "codes"} \/ Has(staging, f)
      /\ staging'["quantizer"] = q /\ staging'["codes"] = codes
      /\ \A f \in {"lexical", "vectors"} : Has(staging, f) => staging'[f] = staging[f]
  BY <1>6, WithFileHas
<1>9. LayoutStage'
  BY <1>1, <1>4, <1>5, <1>7, <1>8 DEF LayoutInv, LayoutStage, Installs, IsSegmented
<1> QED
  BY <1>1, <1>7, <1>9 DEF LayoutInv, LayoutTypes, MoveInv, SwapInv, BuiltIsSound, Building, Migrating, counters

LEMMA TrainKeeps == LayoutInv /\ Train => LayoutInv'
<1> SUFFICES ASSUME LayoutInv, Train PROVE LayoutInv'
  OBVIOUS
<1> DEFINE codeOf == [t \in ToSet(docs) |-> CodeOf(docs, t)]
           codes  == [i \in DOMAIN docs |-> CodeOf(docs, docs[i])]
<1>1. pc = "quantize" /\ CacheOK(cache) /\ Pure(cache) /\ staging["vectors"] = docs
  BY DEF Train, LayoutInv, LayoutStage, Installs
<1>2. CacheOK(SetQuantizer(cache, docs)) /\ Pure(SetQuantizer(cache, docs)) /\ SetQuantizer(cache, docs).quantizer = docs
  BY <1>1, SetQuantizerOK
<1>3. cache' = SetCodes(SetQuantizer(cache, docs), codeOf) /\ CacheOK(cache')
  BY <1>1, <1>2, SetCodesOK DEF Train
<1>4. staging' = WithFile(WithFile(staging, "quantizer", docs), "codes", codes)
  BY <1>1 DEF Train
<1>5. UNCHANGED <<corpus, index, retired, docs, fresh, counters>> /\ pc' = "cache"
  BY DEF Train
<1> HIDE DEF codes
<1>6. codes = [i \in DOMAIN docs |-> CodeOf(docs, docs[i])]
  BY DEF codes
<1>7. /\ \A f : Has(staging', f) <=> f \in {"quantizer", "codes"} \/ Has(staging, f)
      /\ staging'["quantizer"] = docs /\ staging'["codes"] = codes
      /\ \A f \in {"lexical", "vectors"} : Has(staging, f) => staging'[f] = staging[f]
  BY <1>4, WithFileHas
<1>8. LayoutStage'
  BY <1>1, <1>3, <1>5, <1>6, <1>7 DEF LayoutInv, LayoutStage, Installs, IsSegmented
<1> QED
  BY <1>1, <1>5, <1>8 DEF LayoutInv, LayoutTypes, MoveInv, SwapInv, BuiltIsSound, Building, Migrating, counters

LEMMA SaveCacheKeeps == LayoutInv /\ SaveCache => LayoutInv'
  BY RetainKeysOK, WithFileHas DEF SaveCache, LayoutInv, LayoutTypes, LayoutStage, MoveInv, SwapInv, BuiltIsSound,
     Building, Migrating, Installs, counters, IsSegmented

LEMMA SaveRepoKeeps == LayoutInv /\ SaveRepo => LayoutInv'
  BY WithFileHas DEF SaveRepo, LayoutInv, LayoutTypes, LayoutStage, MoveInv, SwapInv, BuiltIsSound,
     Building, Migrating, Installs, counters, IsSegmented

-----------------------------------------------------------------------------
(* install, and what may stop it. *)

LEMMA StagedIsWhole ==
  ASSUME LayoutInv, pc \in Installs
  PROVE  DirOK(staging) /\ staging # NoDir
<1>1. /\ \A file \in SingleFiles \cup {"embcache", "repo"} : Has(staging, file)
      /\ ~IsSegmented(staging) /\ CacheOK(staging["embcache"])
      /\ staging["lexical"] = docs /\ staging["vectors"] = docs
      /\ staging["codes"] = [i \in DOMAIN docs |-> CodeOf(staging["quantizer"], docs[i])]
  BY DEF LayoutInv, LayoutStage, SingleFiles
<1>2. Whole(staging)
  BY <1>1, OwnTextsFit DEF Whole, LayoutInv, LayoutTypes
<1> QED  BY <1>1, <1>2, NoDirIsBare DEF DirOK, SingleFiles

LEMMA NoDirOK == DirOK(NoDir)
  BY NoDirIsBare DEF DirOK, IsSegmented

LEMMA DropRetiredKeeps == LayoutInv /\ DropRetired => LayoutInv'
  BY NoDirOK DEF DropRetired, LayoutInv, LayoutTypes, LayoutStage, MoveInv, SwapInv, BuiltIsSound, Building, Migrating,
     Installs, counters

LEMMA RetireKeeps == LayoutInv /\ Retire => LayoutInv'
  BY NoDirOK DEF Retire, LayoutInv, LayoutTypes, LayoutStage, MoveInv, SwapInv, BuiltIsSound, Building, Migrating,
     Installs, counters

LEMMA PlaceKeeps == LayoutInv /\ Place => LayoutInv'
<1> SUFFICES ASSUME LayoutInv, Place PROVE LayoutInv'
  OBVIOUS
<1>1. DirOK(index') /\ index' # NoDir
  BY StagedIsWhole DEF Place, Installs
<1>2. BuiltIsSound'
  BY DEF Place, LayoutInv, LayoutStage, Installs, BuiltIsSound
<1> QED
  BY <1>1, <1>2 DEF Place, LayoutInv, LayoutTypes, LayoutStage, MoveInv, SwapInv, Building, Migrating, Installs

LEMMA FinishInstallKeeps == LayoutInv /\ FinishInstall => LayoutInv'
  BY NoDirOK DEF FinishInstall, Idle, LayoutInv, LayoutTypes, LayoutStage, MoveInv, SwapInv, BuiltIsSound, Building,
     Migrating, Installs, counters

LEMMA PlaceFailsKeeps == LayoutInv /\ PlaceFails => LayoutInv'
<1> SUFFICES ASSUME LayoutInv, PlaceFails PROVE LayoutInv'
  OBVIOUS
<1>1. /\ pc = "place" /\ pc' = "idle" /\ docs' = <<>> /\ stops' = stops + 1
      /\ index' = retired /\ retired' = NoDir /\ UNCHANGED <<corpus, staging, changes, crashes, had>>
  BY DEF PlaceFails, Fails, Idle
<1>2. LayoutTypes'
  BY <1>1 DEF LayoutInv, LayoutTypes, SwapInv
<1>3. SwapInv'
  BY <1>1 DEF LayoutInv, LayoutTypes, SwapInv
<1>4. LayoutStage' /\ MoveInv' /\ BuiltIsSound'
  BY <1>1 DEF LayoutStage, MoveInv, BuiltIsSound, Installs
<1> QED  BY <1>1, <1>2, <1>3, <1>4, NoDirOK DEF LayoutInv

LEMMA CrashKeeps == LayoutInv /\ Crash => LayoutInv'
  BY DEF Crash, Fails, Idle, LayoutInv, LayoutTypes, LayoutStage, MoveInv, SwapInv, BuiltIsSound, Building,
     Migrating, Installs

-----------------------------------------------------------------------------
(* migrate_to_segments. *)

LEMMA BeginMigrationKeeps == LayoutInv /\ BeginMigration => LayoutInv'
<1> SUFFICES ASSUME LayoutInv, BeginMigration PROVE LayoutInv'
  OBVIOUS
<1> DEFINE c == Insert(CacheOf(index), Misses(CacheOf(index), corpus))
<1>1. CacheOK(c) /\ Vectors(c, corpus) = corpus
  BY EncodedIsWhole DEF LayoutInv, LayoutTypes
<1>2. staging' = [segment |-> [docs |-> corpus, vectors |-> Vectors(c, corpus)], embcache |-> c, manifest |-> {"segment"}]
  BY DEF BeginMigration
<1>3. OfTexts(staging'["segment"].vectors, staging'["segment"].docs)
  BY <1>1, <1>2, OwnTextsFit DEF LayoutInv, LayoutTypes
<1> HIDE DEF c
<1>4. Has(staging', "segment") /\ Has(staging', "embcache") /\ Has(staging', "manifest")
  BY <1>2 DEF Has
<1>5. staging'["embcache"] = c /\ staging'["manifest"] = {"segment"}
  BY <1>2
<1> QED
  BY <1>1, <1>3, <1>4, <1>5, NoDirIsBare DEF BeginMigration, LayoutInv, LayoutTypes, LayoutStage, MoveInv, SwapInv,
     BuiltIsSound, Building, Migrating, Installs, counters

(* A file that neither layout needs, or any after the manifest, changes    *)
(* nothing of an index.                                                    *)
LEMMA OtherFileFits ==
  ASSUME NEW dir, dir # NoDir, DirOK(dir), NEW file, NEW content,
         file \notin SingleFiles \cup {"manifest", "embcache", "segment"}
  PROVE  DirOK(WithFile(dir, file, content)) /\ WithFile(dir, file, content) # NoDir
         /\ (IsSegmented(WithFile(dir, file, content)) <=> IsSegmented(dir))
  BY WithFileHas, NoDirIsBare DEF DirOK, Whole, IsSegmented, SingleFiles

LEMMA MarkKeeps == LayoutInv /\ Mark => LayoutInv'
  BY OtherFileFits DEF Mark, SingleFiles, LayoutInv, LayoutTypes, LayoutStage, MoveInv, SwapInv, BuiltIsSound, Building,
     Migrating, Installs, counters

LEMMA MigrateRepoKeeps == LayoutInv /\ MigrateRepo => LayoutInv'
<1> SUFFICES ASSUME LayoutInv, MigrateRepo PROVE LayoutInv'
  OBVIOUS
<1>1. index # NoDir
  BY NoDirIsBare DEF MigrateRepo, LayoutInv, MoveInv, IsSegmented
<1> QED
  BY <1>1, OtherFileFits DEF MigrateRepo, SingleFiles, LayoutInv, LayoutTypes, LayoutStage, MoveInv, SwapInv, BuiltIsSound,
     Building, Migrating, Installs, counters

LEMMA MoveKeeps == LayoutInv /\ Move => LayoutInv'
<1> SUFFICES ASSUME LayoutInv, Move PROVE LayoutInv'
  OBVIOUS
<1>1. /\ pc \in {"segment", "embcache", "manifest"} /\ index' = WithFile(index, pc, staging[pc])
      /\ staging' = Without(staging, {pc}) /\ pc' = NextMove(pc)
      /\ UNCHANGED <<corpus, retired, docs, cache, fresh, counters>>
  BY DEF Move
<1>2. /\ pc = "segment" => pc' = "embcache"
      /\ pc = "embcache" => pc' = "manifest"
      /\ pc = "manifest" => pc' = "m_repo"
  BY <1>1 DEF NextMove
<1>3. ~IsSegmented(index) /\ index # NoDir /\ Whole(index) /\ DirOK(index)
  BY <1>1 DEF LayoutInv, MoveInv, DirOK
<1>4. index' # NoDir
  BY <1>1, WithFileHas, NoDirIsBare
<1>5. DirOK(index')
  <2>1. CASE pc = "segment"
    <3>1. ~IsSegmented(index') /\ Whole(index')
      BY <1>1, <1>3, <2>1, WithFileHas DEF Whole, IsSegmented, SingleFiles
    <3> QED  BY <1>1, <1>3, <2>1, <3>1, WithFileHas DEF DirOK
  <2>2. CASE pc = "embcache"
    <3>1. ~IsSegmented(index') /\ Whole(index')
      BY <1>1, <1>3, <2>2, WithFileHas DEF Whole, IsSegmented, SingleFiles
    <3>2. CacheOK(index'["embcache"])
      BY <1>1, <2>2, WithFileHas DEF LayoutInv, MoveInv
    <3> QED  BY <3>1, <3>2 DEF DirOK
  <2>3. CASE pc = "manifest"
    <3>1. IsSegmented(index') /\ index'["manifest"] = {"segment"}
      BY <1>1, <2>3, WithFileHas DEF LayoutInv, MoveInv, IsSegmented
    <3>2. Has(index', "segment") /\ OfTexts(index'["segment"].vectors, index'["segment"].docs) /\ Has(index', "repo")
      BY <1>1, <1>3, <2>3, WithFileHas DEF LayoutInv, MoveInv, Whole
    <3>3. Whole(index')
      BY <3>1, <3>2 DEF Whole
    <3> QED  BY <1>1, <1>3, <2>3, <3>1, <3>3, WithFileHas DEF DirOK
  <2> QED  BY <1>1, <2>1, <2>2, <2>3
<1>6. MoveInv'
  <2>1. CASE pc = "segment"
    BY <1>1, <1>2, <1>3, <1>4, <2>1, WithFileHas, WithoutHas DEF LayoutInv, MoveInv, IsSegmented
  <2>2. CASE pc = "embcache"
    BY <1>1, <1>2, <1>3, <1>4, <2>2, WithFileHas, WithoutHas DEF LayoutInv, MoveInv, IsSegmented
  <2>3. CASE pc = "manifest"
    BY <1>1, <1>2, <2>3, WithFileHas DEF MoveInv, IsSegmented
  <2> QED  BY <1>1, <2>1, <2>2, <2>3
<1>7. pc' \in {"embcache", "manifest", "m_repo"} /\ had
  BY <1>1, <1>2, <1>3 DEF LayoutInv, LayoutTypes
<1>8. LayoutTypes'
  BY <1>1, <1>4, <1>7 DEF LayoutInv, LayoutTypes, Migrating, counters
<1>9. LayoutStage' /\ SwapInv' /\ BuiltIsSound'
  BY <1>4, <1>7 DEF LayoutStage, SwapInv, BuiltIsSound, Installs
<1> QED  BY <1>1, <1>5, <1>6, <1>8, <1>9 DEF LayoutInv

(* Once there are segments nothing needs the files of the single layout.   *)
LEMMA CleanUpKeeps == LayoutInv /\ CleanUp => LayoutInv'
<1> SUFFICES ASSUME LayoutInv, CleanUp PROVE LayoutInv'
  OBVIOUS
<1>1. pc = "m_clean" /\ IsSegmented(index) /\ index # NoDir /\ Whole(index) /\ DirOK(index)
  BY NoDirIsBare DEF CleanUp, LayoutInv, MoveInv, DirOK, IsSegmented
<1>2. PICK file \in SingleFiles \cup {"pending"} : index' = Without(index, {file})
  BY DEF CleanUp
<1>3. file \notin {"manifest", "segment", "embcache", "repo"}
  BY DEF SingleFiles
<1>4. IsSegmented(index') /\ index' # NoDir
  BY <1>1, <1>2, <1>3, WithoutHas, NoDirIsBare DEF IsSegmented
<1>5. DirOK(index')
  <2>1. index["manifest"] = {"segment"} /\ index'["manifest"] = {"segment"}
    BY <1>1, <1>2, <1>3, WithoutHas DEF DirOK, IsSegmented
  <2>2. Whole(index')
    BY <1>1, <1>2, <1>3, <1>4, <2>1, WithoutHas DEF Whole
  <2> QED  BY <1>1, <1>2, <1>3, <2>1, <2>2, WithoutHas DEF DirOK
<1>6. UNCHANGED <<corpus, staging, retired, counters>> /\ (UNCHANGED <<pc, docs>> \/ (pc' = "idle" /\ docs' = <<>>))
  BY DEF CleanUp, Idle
<1> QED
  BY <1>1, <1>4, <1>5, <1>6 DEF LayoutInv, LayoutTypes, LayoutStage, MoveInv, SwapInv, BuiltIsSound, Building, Migrating,
     Installs, counters

-----------------------------------------------------------------------------
(* Theorems *)

LEMMA LayoutStep == LayoutInv /\ [LayoutNext]_layoutVars => LayoutInv'
<1> SUFFICES ASSUME LayoutInv, [LayoutNext]_layoutVars PROVE LayoutInv'
  OBVIOUS
<1>1. CASE UNCHANGED layoutVars
  BY <1>1 DEF layoutVars, LayoutInv, LayoutTypes, LayoutStage, MoveInv, SwapInv, BuiltIsSound
<1>2. CASE LayoutNext
  BY <1>2, ChangeKeeps, BeginBuildKeeps, SaveLexicalKeeps, SaveVectorsKeeps, RequantizeKeeps, TrainKeeps, SaveCacheKeeps,
     SaveRepoKeeps, DropRetiredKeeps, RetireKeeps, PlaceKeeps, FinishInstallKeeps, PlaceFailsKeeps, CrashKeeps,
     BeginMigrationKeeps, MarkKeeps, MoveKeeps, MigrateRepoKeeps, CleanUpKeeps
  DEF LayoutNext
<1> QED  BY <1>1, <1>2

(* The inductive invariant: what the three directories hold at each step.  *)
THEOREM LayoutInvariance == LayoutSpec => []LayoutInv
  BY InitLayout, LayoutStep, PTL DEF LayoutSpec

(* Whatever a build or a migration stopped in, the directory opens as one  *)
(* complete index, and no build installs a damaged vector.                 *)
THEOREM IndexStaysWhole == LayoutSpec => []IndexIsWhole
<1>1. LayoutInv => OpensWhole
  BY DEF LayoutInv, DirOK, OpensWhole, CacheOK, Range
<1>2. LayoutInv => IndexIsWhole
  BY <1>1 DEF LayoutInv, IndexIsWhole
<1> QED  BY <1>2, LayoutInvariance, PTL

(* Without a crash the directory is away for one rename only, and after    *)
(* one crash or failed rename there is a complete index in one of the      *)
(* three places of install.                                                *)
THEOREM IndexIsNeverLost == LayoutSpec => []NeverLost
<1>1. LayoutInv => NeverLost
  <2> SUFFICES ASSUME LayoutInv, had PROVE NeverLost
    BY DEF NeverLost
  <2>1. crashes = 0 /\ pc # "place" => index # NoDir
    BY DEF LayoutInv, SwapInv
  <2>2. CASE index # NoDir
    BY <2>1, <2>2 DEF NeverLost, LayoutInv, DirOK
  <2>3. CASE index = NoDir /\ retired # NoDir
    BY <2>1, <2>3 DEF NeverLost, LayoutInv, DirOK
  <2>4. CASE index = NoDir /\ pc = "place"
    BY <2>1, <2>4, StagedIsWhole DEF NeverLost, DirOK, Installs
  <2>5. CASE stops > 1
    BY <2>1, <2>5 DEF NeverLost, LayoutInv, LayoutTypes
  <2>6. stops \in Nat
    BY DEF LayoutInv, LayoutTypes
  <2> QED  BY <2>2, <2>3, <2>4, <2>5, <2>6 DEF LayoutInv, SwapInv
<1> QED  BY <1>1, LayoutInvariance, PTL

-----------------------------------------------------------------------------
(* SegmentVectors *)

(* Whatever a segment holds, it is in these sets.                          *)
SegTypes == [ids : Seq(Ids), texts : Seq(Contents), vectors : Seq(Contents \cup {Damaged}),
             keys : Seq(Contents), dead : SUBSET Nat]

(* A segment's rows have the keys and vectors of their texts, so far as it *)
(* has sidecars.                                                           *)
OwnRows(s) ==
  /\ Len(s.texts) = Len(s.ids)
  /\ s.keys \in {<<>>, s.texts}
  /\ s.vectors = <<>> \/ (Len(s.vectors) = Len(s.ids) /\ \A i \in DOMAIN s.ids : s.vectors[i] \in {s.texts[i], Damaged})

Repaired(s) == LiveRows(s) \cap InvalidRows(s) = {}

VectorTypes ==
  /\ source \in SourceTrees
  /\ segs \in Seq(SegTypes)
  /\ \A n \in DOMAIN segs : OwnRows(segs[n])
  /\ vpc \in {"idle", "encode", "publish", "capture", "merge"}

StoredInv ==
  \A k \in DOMAIN stored : k \in Contents /\ stored[k] \in {k, Damaged}

(* What a build is about to publish: it repairs every row that is not      *)
(* sound, and its new segment has every document that it adds, once.       *)
PlanInv ==
  /\ vpc \in {"encode", "publish"} =>
       /\ plan = [add |-> plan.add, stale |-> plan.stale, texts |-> plan.texts, new |-> plan.new]
       /\ plan.add \subseteq Ids /\ plan.texts \in [plan.add -> Contents]
       /\ ToRepair \subseteq plan.stale
  /\ vpc = "publish" =>
       \/ plan.new = <<>>
       \/ \E s \in SegTypes :
            /\ plan.new = <<s>> /\ OwnRows(s) /\ Repaired(s)
            /\ \A i \in LiveRows(s) : s.ids[i] \in plan.add
            /\ \A i, j \in LiveRows(s) : s.ids[i] = s.ids[j] => i = j

(* A merge that has begun has sound rows only, and their keys and vectors. *)
MergeInv ==
  /\ vpc \in {"capture", "merge"} => \A n \in DOMAIN segs : Repaired(segs[n])
  /\ vpc = "merge" =>
       /\ DOMAIN keyOf = IdsLive
       /\ \A n \in DOMAIN segs : \A i \in LiveRows(segs[n]) :
            /\ keyOf[segs[n].ids[i]] = segs[n].texts[i]
            /\ segs[n].texts[i] \in DOMAIN Loaded

VectorInv == VectorTypes /\ StoredInv /\ PlanInv /\ MergeInv /\ LiveOnce

-----------------------------------------------------------------------------
(* A collection that holds the empty set, and each subset of a finite set  *)
(* from which it holds what is left without any one element, holds the set.*)
LEMMA RemovalInduction ==
  ASSUME NEW S, IsFiniteSet(S), NEW G, {} \in G,
         \A T \in SUBSET S : T # {} /\ (\A x \in T : T \ {x} \in G) => T \in G
  PROVE  S \in G
<1> DEFINE Bad == {n \in Nat : \E T \in SUBSET S : T \notin G /\ Cardinality(T) = n}
<1> SUFFICES ASSUME S \notin G PROVE FALSE
  OBVIOUS
<1>1. Cardinality(S) \in Bad
  BY FS_CardinalityType
<1>2. PICK n \in Bad : \A m \in Bad : <<m, n>> \notin OpToRel(<, Nat)
  <2>1. IsWellFoundedOn(OpToRel(<, Nat), Nat)
    BY NatLessThanWellFounded
  <2>2. Bad \subseteq Nat /\ Bad # {}
    BY <1>1
  <2> HIDE DEF Bad
  <2> QED
    BY <2>1, <2>2, WFMin
<1>3. PICK T \in SUBSET S : T \notin G /\ Cardinality(T) = n
  OBVIOUS
<1>4. IsFiniteSet(T)
  BY FS_Subset
<1>5. ASSUME NEW x \in T
      PROVE  T \ {x} \in G
  <2>1. Cardinality(T \ {x}) = n - 1 /\ Cardinality(T \ {x}) \in Nat
    BY <1>3, <1>4, FS_RemoveElement, FS_CardinalityType
  <2>2. n - 1 \in Nat /\ n - 1 < n
    BY <2>1
  <2>3. <<n - 1, n>> \in OpToRel(<, Nat)
    BY <2>2, Zenon DEF OpToRel
  <2>4. n - 1 \notin Bad
    BY <1>2, <2>3
  <2> QED
    BY <2>1, <2>2, <2>4, <1>3
<1> QED
  BY <1>3, <1>5

(* before tells of any two different elements of S which is the earlier.   *)
Orders(before, S) ==
  /\ \A x, y \in S : x = y \/ <<x, y>> \in before \/ <<y, x>> \in before
  /\ \A x, y, z \in S : <<x, y>> \in before /\ <<y, z>> \in before => <<x, z>> \in before
  /\ \A x \in S : <<x, x>> \notin before

LEMMA LastExists ==
  ASSUME NEW S, IsFiniteSet(S), NEW before, Orders(before, S), S # {}
  PROVE  \E m \in S : \A x \in S : x = m \/ <<x, m>> \in before
<1> DEFINE G == {T \in SUBSET S : T # {} => \E m \in T : \A x \in T : x = m \/ <<x, m>> \in before}
<1>1. ASSUME NEW T \in SUBSET S, T # {}, \A x \in T : T \ {x} \in G
      PROVE  T \in G
  <2>1. PICK y \in T : TRUE
    BY <1>1
  <2>2. CASE T \ {y} = {}
    BY <2>1, <2>2
  <2>3. CASE T \ {y} # {}
    <3>1. PICK m \in T \ {y} : \A x \in T \ {y} : x = m \/ <<x, m>> \in before
      BY <1>1, <2>1, <2>3
    <3>2. CASE <<y, m>> \in before
      BY <2>1, <3>1, <3>2
    <3>3. CASE <<m, y>> \in before
      <4>1. \A x \in T : x = y \/ <<x, y>> \in before
        BY <2>1, <3>1, <3>3 DEF Orders
      <4> QED
        BY <2>1, <4>1
    <3> QED
      BY <2>1, <3>1, <3>2, <3>3 DEF Orders
  <2> QED
    BY <2>2, <2>3
<1>2. {} \in G
  OBVIOUS
<1> HIDE DEF G
<1>3. S \in G
  BY <1>1, <1>2, RemovalInduction
<1> QED
  BY <1>3 DEF G

(* Arranged lists every element once, and so is not left open.             *)
LEMMA ArrangedIs ==
  ASSUME NEW S, IsFiniteSet(S), NEW before, Orders(before, S)
  PROVE  /\ Arranged(S, before) \in Seq(S)
         /\ \A i, j \in DOMAIN Arranged(S, before) :
              Arranged(S, before)[i] = Arranged(S, before)[j] => i = j
         /\ \A x \in S : \E i \in DOMAIN Arranged(S, before) : Arranged(S, before)[i] = x
<1> DEFINE Sorted(T, seq) == \A i, j \in DOMAIN seq : i < j => <<seq[i], seq[j]>> \in before
           G == {T \in SUBSET S : \E seq \in [1 .. Cardinality(T) -> T] : Sorted(T, seq)}
<1>1. ASSUME NEW T \in SUBSET S, T # {}, \A x \in T : T \ {x} \in G
      PROVE  T \in G
  <2>1. IsFiniteSet(T) /\ Orders(before, T)
    BY FS_Subset DEF Orders
  <2>2. PICK m \in T : \A x \in T : x = m \/ <<x, m>> \in before
    BY <1>1, <2>1, LastExists
  <2>3. PICK seq \in [1 .. Cardinality(T \ {m}) -> T \ {m}] : Sorted(T \ {m}, seq)
    BY <1>1
  <2> DEFINE n == Cardinality(T)
             longer == [i \in 1 .. n |-> IF i = n THEN m ELSE seq[i]]
  <2>4. n \in Nat /\ Cardinality(T \ {m}) = n - 1
    BY <2>1, <2>2, FS_RemoveElement, FS_CardinalityType
  <2> HIDE DEF n
  <2>5. \A i \in 1 .. n : i # n => i \in 1 .. n - 1 /\ seq[i] \in T \ {m}
    <3>1. seq \in [1 .. n - 1 -> T \ {m}]
      BY <2>3, <2>4
    <3> QED
      BY <2>4, <3>1
  <2>6. longer \in [1 .. n -> T]
    BY <2>5
  <2>7. ASSUME NEW i \in 1 .. n, NEW j \in 1 .. n, i < j
        PROVE  <<longer[i], longer[j]>> \in before
    <3>1. i # n
      BY <2>4, <2>7
    <3>2. longer[i] = seq[i] /\ seq[i] \in T \ {m} /\ i \in 1 .. n - 1
      BY <2>5, <3>1
    <3>3. CASE j = n
      BY <2>2, <3>2, <3>3
    <3>4. CASE j # n
      BY <2>3, <2>4, <2>5, <2>7, <3>2, <3>4
    <3> QED
      BY <3>3, <3>4
  <2>8. Sorted(T, longer)
    BY <2>6, <2>7
  <2> QED
    BY <2>6, <2>8 DEF n
<1>2. {} \in G
  <2>1. [i \in {} |-> i] \in [1 .. Cardinality({}) -> {}]
    BY FS_EmptySet
  <2> QED
    BY <2>1
<1>3. S \in G
  <2> HIDE DEF G
  <2> QED
    BY <1>1, <1>2, RemovalInduction
<1> DEFINE n == Cardinality(S)
           seq == Arranged(S, before)
<1>4. seq \in [1 .. n -> S] /\ Sorted(S, seq)
  BY <1>3 DEF Arranged
<1>5. n \in Nat /\ IsFiniteSet(1 .. n) /\ Cardinality(1 .. n) = n
  BY FS_CardinalityType, FS_Interval
<1> HIDE DEF seq, G
<1>6. ASSUME NEW i \in DOMAIN seq, NEW j \in DOMAIN seq, seq[i] = seq[j]
      PROVE  i = j
  <2>1. i \in 1 .. n /\ j \in 1 .. n
    BY <1>4
  <2>2. ~(i < j) /\ ~(j < i)
    BY <1>4, <1>6, <2>1 DEF Orders
  <2> QED
    BY <1>5, <2>1, <2>2
<1>7. seq \in Injection(1 .. n, S)
  BY <1>4, <1>6 DEF Injection, IsInjective
<1>8. seq \in Surjection(1 .. n, S)
  BY <1>5, <1>7, FS_Injection
<1>9. \A x \in S : \E i \in 1 .. n : seq[i] = x
  BY <1>8 DEF Surjection
<1>10. seq \in Seq(S) /\ DOMAIN seq = 1 .. n
  BY <1>4, <1>5
<1> QED
  BY <1>6, <1>9, <1>10 DEF seq

LEMMA InOrderIs ==
  ASSUME NEW S \in SUBSET Ids
  PROVE  /\ InOrder(S) \in Seq(S)
         /\ \A i, j \in DOMAIN InOrder(S) : InOrder(S)[i] = InOrder(S)[j] => i = j
<1> DEFINE before == {pair \in S \X S : pair[1] < pair[2]}
<1>1. IsFiniteSet(S) /\ S \subseteq Nat
  BY VectorAssumption, FS_Subset
<1>2. \A x, y \in S : <<x, y>> \in before <=> x < y
  OBVIOUS
<1> HIDE DEF before
<1>3. Orders(before, S)
  BY <1>1, <1>2 DEF Orders
<1>4. InOrder(S) = Arranged(S, before)
  BY DEF InOrder, before
<1> QED
  BY <1>1, <1>3, <1>4, ArrangedIs

-----------------------------------------------------------------------------
(* What VectorInv says of a segment, by its fields.                        *)
LEMMA SegmentFields ==
  ASSUME NEW s \in SegTypes
  PROVE  /\ s = [ids |-> s.ids, texts |-> s.texts, vectors |-> s.vectors, keys |-> s.keys, dead |-> s.dead]
         /\ s.ids \in Seq(Ids) /\ s.texts \in Seq(Contents) /\ s.vectors \in Seq(Contents \cup {Damaged})
         /\ s.keys \in Seq(Contents) /\ s.dead \subseteq Nat
         /\ DOMAIN s.ids = 1 .. Len(s.ids) /\ Len(s.ids) \in Nat
         /\ LiveRows(s) \subseteq DOMAIN s.ids
         /\ \A i \in DOMAIN s.ids : s.ids[i] \in Ids
BY DEF SegTypes, LiveRows

LEMMA RowsHold ==
  ASSUME VectorTypes, NEW n \in DOMAIN segs
  PROVE  /\ segs[n] \in SegTypes /\ OwnRows(segs[n])
         /\ \A i \in LiveRows(segs[n]) : /\ i \in DOMAIN segs[n].ids /\ i \in DOMAIN segs[n].texts
                                        /\ segs[n].ids[i] \in Ids /\ segs[n].texts[i] \in Contents
<1>1. segs[n] \in SegTypes /\ OwnRows(segs[n])
  BY DEF VectorTypes
<1> QED
  BY <1>1, SegmentFields DEF OwnRows

LEMMA InIdsLive ==
  \A id : id \in IdsLive <=> \E n \in DOMAIN segs : \E i \in LiveRows(segs[n]) : segs[n].ids[i] = id
BY DEF IdsLive, ToSet

(* A live row that needs no repair has its key and its vector.             *)
LEMMA RepairedRow ==
  ASSUME NEW s \in SegTypes, OwnRows(s), Repaired(s), NEW i \in LiveRows(s)
  PROVE  /\ Len(s.keys) = Len(s.ids) /\ Len(s.vectors) = Len(s.ids)
         /\ s.keys[i] = s.texts[i] /\ s.vectors[i] = s.texts[i] /\ s.texts[i] \in Contents
<1>1. i \in DOMAIN s.ids /\ i \notin InvalidRows(s)
  BY SegmentFields DEF Repaired
<1>2. Len(s.keys) = Len(s.ids) /\ Len(s.vectors) = Len(s.ids) /\ s.vectors[i] # Damaged
  BY <1>1 DEF InvalidRows
<1>3. s.keys # <<>> /\ s.vectors # <<>>
  BY <1>1, <1>2, SegmentFields
<1> QED
  BY <1>1, <1>2, <1>3, SegmentFields DEF OwnRows

LEMMA LoadedIs ==
  ASSUME StoredInv
  PROVE  /\ DOMAIN Loaded = {k \in DOMAIN stored : stored[k] # Damaged}
         /\ DOMAIN Loaded \subseteq Contents
         /\ \A k \in DOMAIN Loaded : Loaded[k] = k
BY DEF StoredInv, Loaded, Restrict

(* A segment whose rows all have keys and vectors.                         *)
LEMMA NewSegment ==
  ASSUME NEW ids \in Seq(Ids), NEW words \in Seq(Contents), Len(words) = Len(ids)
  PROVE  LET s == VectorSegment(ids, words, words, words)
         IN  /\ s \in SegTypes /\ OwnRows(s) /\ Repaired(s)
             /\ LiveRows(s) = DOMAIN ids /\ s.ids = ids /\ s.texts = words
<1> DEFINE s == VectorSegment(ids, words, words, words)
<1>1. /\ s.ids = ids /\ s.texts = words /\ s.vectors = words /\ s.keys = words /\ s.dead = {}
      /\ s = [ids |-> ids, texts |-> words, vectors |-> words, keys |-> words, dead |-> {}]
  BY DEF VectorSegment
<1>2. words \in Seq(Contents \cup {Damaged})
  OBVIOUS
<1> HIDE DEF s
<1>3. s \in SegTypes
  BY <1>1, <1>2 DEF SegTypes
<1>4. \A i \in DOMAIN ids : words[i] \in Contents /\ words[i] # Damaged
  BY CacheAssumption
<1>5. InvalidRows(s) = {}
  BY <1>1, <1>4 DEF InvalidRows
<1>6. OwnRows(s) /\ Repaired(s) /\ LiveRows(s) = DOMAIN ids
  BY <1>1, <1>4, <1>5 DEF OwnRows, Repaired, LiveRows
<1> QED
  BY <1>1, <1>3, <1>6 DEF s

LEMMA OldSegmentIs ==
  ASSUME NEW src \in SourceTrees, NEW damaged, NEW sidecars
  PROVE  LET s == OldSegment(src, damaged, sidecars)
         IN  /\ s \in SegTypes /\ OwnRows(s)
             /\ \A i, j \in LiveRows(s) : s.ids[i] = s.ids[j] => i = j
<1> DEFINE ids     == InOrder(DOMAIN src)
           words   == [i \in DOMAIN ids |-> src[ids[i]]]
           all     == [i \in DOMAIN ids |-> IF ids[i] \in damaged THEN Damaged ELSE words[i]]
           vectors == IF "vectors" \in sidecars THEN all ELSE <<>>
           keys    == IF "keys" \in sidecars THEN words ELSE <<>>
           s       == OldSegment(src, damaged, sidecars)
<1>1. DOMAIN src \in SUBSET Ids /\ \A id \in DOMAIN src : src[id] \in Contents
  BY DEF SourceTrees
<1>2. ids \in Seq(DOMAIN src) /\ \A i, j \in DOMAIN ids : ids[i] = ids[j] => i = j
  BY <1>1, InOrderIs
<1>3. s = [ids |-> ids, texts |-> words, vectors |-> vectors, keys |-> keys, dead |-> {}]
  BY DEF OldSegment, VectorSegment
<1> HIDE DEF ids, s
<1>4. ids \in Seq(Ids)
  BY <1>1, <1>2
<1>5. words \in Seq(Contents) /\ Len(words) = Len(ids) /\ all \in Seq(Contents \cup {Damaged}) /\ Len(all) = Len(ids)
  BY <1>1, <1>2
<1>6. \A i \in DOMAIN ids : all[i] \in {words[i], Damaged}
  OBVIOUS
<1> HIDE DEF words, all
<1>7. s \in SegTypes
  BY <1>3, <1>4, <1>5 DEF SegTypes
<1>8. OwnRows(s)
  BY <1>3, <1>5, <1>6 DEF OwnRows
<1>9. LiveRows(s) = DOMAIN ids /\ s.ids = ids
  BY <1>3 DEF LiveRows
<1> QED
  BY <1>2, <1>7, <1>8, <1>9 DEF s

-----------------------------------------------------------------------------
LEMMA VectorInitHolds ==
  ASSUME VectorInit PROVE VectorInv
<1>1. source \in SourceTrees /\ vpc = "idle"
  BY DEF VectorInit, VectorsRest
<1>2. StoredInv
  BY DEF VectorInit, StoredInv
<1>3. CASE segs = <<>>
  BY <1>1, <1>2, <1>3 DEF VectorInv, VectorTypes, PlanInv, MergeInv, LiveOnce
<1>4. CASE segs # <<>>
  <2>1. PICK src \in SourceTrees, damaged \in SUBSET Ids, files \in SUBSET {"vectors", "keys"} :
          segs = <<OldSegment(src, damaged, files)>>
    BY <1>4 DEF VectorInit
  <2> DEFINE s == OldSegment(src, damaged, files)
  <2>2. s \in SegTypes /\ OwnRows(s) /\ \A i, j \in LiveRows(s) : s.ids[i] = s.ids[j] => i = j
    BY OldSegmentIs
  <2>3. segs = <<s>>
    BY <2>1
  <2> HIDE DEF s
  <2>4. VectorTypes /\ LiveOnce
    BY <1>1, <2>2, <2>3 DEF VectorTypes, LiveOnce
  <2> QED
    BY <1>1, <1>2, <2>4 DEF VectorInv, PlanInv, MergeInv
<1> QED
  BY <1>3, <1>4

(* Steps that leave the segments alone.                                    *)
LEMMA SegmentsAlone ==
  ASSUME VectorInv, UNCHANGED segs, source' \in SourceTrees, vpc' \in {"idle", "encode", "publish", "capture", "merge"}
  PROVE  VectorTypes' /\ LiveOnce' /\ ToRepair' = ToRepair /\ IdsLive' = IdsLive
BY DEF VectorInv, VectorTypes, LiveOnce, ToRepair, IdsLive

LEMMA IdleKeeps ==
  ASSUME VectorInv, EditSource \/ StopBuild \/ LoseCache
  PROVE  VectorInv'
<1>1. CASE EditSource
  <2>1. source' \in SourceTrees /\ UNCHANGED <<segs, stored, vpc, plan, keyOf>>
    BY <1>1 DEF EditSource
  <2>2. Loaded' = Loaded /\ IdsLive' = IdsLive /\ StoredInv'
    BY <2>1 DEF Loaded, IdsLive, VectorInv, StoredInv
  <2> QED
    BY <2>1, <2>2, SegmentsAlone DEF VectorInv, VectorTypes, PlanInv, MergeInv
<1>2. CASE StopBuild \/ LoseCache
  <2>1. UNCHANGED <<source, segs>> /\ vpc' = "idle" /\ stored' \in {stored, <<>>}
    BY <1>2 DEF StopBuild, LoseCache
  <2>2. StoredInv'
    BY <2>1 DEF VectorInv, StoredInv
  <2> QED
    BY <2>1, <2>2, SegmentsAlone DEF VectorInv, VectorTypes, PlanInv, MergeInv
<1> QED
  BY <1>1, <1>2

LEMMA BeginSegmentsKeeps ==
  ASSUME VectorInv, BeginSegments PROVE VectorInv'
<1> DEFINE add   == {id \in DOMAIN source : id \notin IdsLive \/ id \in ToRepair \/ TextOf(id) # source[id]}
           stale == ToRepair \cup (IdsLive \ DOMAIN source)
           words == [id \in add |-> source[id]]
<1>1. /\ plan' = [add |-> add, stale |-> stale, texts |-> words, new |-> <<>>]
      /\ vpc' \in {"encode", "publish"} /\ UNCHANGED <<source, segs, stored>>
  BY DEF BeginSegments
<1>2. DOMAIN source \subseteq Ids /\ \A id \in DOMAIN source : source[id] \in Contents
  BY DEF VectorInv, VectorTypes, SourceTrees
<1>3. add \subseteq Ids /\ words \in [add -> Contents] /\ ToRepair \subseteq stale
  BY <1>2
<1> HIDE DEF add, stale, words
<1>4. VectorTypes' /\ LiveOnce' /\ ToRepair' = ToRepair
  BY <1>1, SegmentsAlone DEF VectorInv, VectorTypes
<1>5. PlanInv'
  BY <1>1, <1>3, <1>4 DEF PlanInv
<1>6. StoredInv' /\ MergeInv'
  BY <1>1 DEF VectorInv, StoredInv, MergeInv
<1> QED
  BY <1>4, <1>5, <1>6 DEF VectorInv

LEMMA EmbedSegmentKeeps ==
  ASSUME VectorInv, EmbedSegment PROVE VectorInv'
<1> DEFINE ids   == InOrder(plan.add)
           words == [i \in DOMAIN ids |-> plan.texts[ids[i]]]
           saved == [k \in ToSet(words) \cup DOMAIN Loaded |-> IF k \in DOMAIN Loaded THEN Loaded[k] ELSE k]
           rows  == [i \in DOMAIN ids |-> saved[words[i]]]
           s     == VectorSegment(ids, words, words, words)
<1>1. /\ vpc = "encode" /\ vpc' = "publish" /\ UNCHANGED <<source, segs>> /\ stored' = saved
      /\ plan' = [plan EXCEPT !.new = <<VectorSegment(ids, words, rows, words)>>]
  BY DEF EmbedSegment
<1>2. /\ plan = [add |-> plan.add, stale |-> plan.stale, texts |-> plan.texts, new |-> plan.new]
      /\ plan.add \subseteq Ids /\ plan.texts \in [plan.add -> Contents] /\ ToRepair \subseteq plan.stale
  BY <1>1 DEF VectorInv, PlanInv
<1>3. ids \in Seq(plan.add) /\ \A i, j \in DOMAIN ids : ids[i] = ids[j] => i = j
  BY <1>2, InOrderIs
<1> HIDE DEF ids
<1>4. ids \in Seq(Ids) /\ words \in Seq(Contents) /\ Len(words) = Len(ids) /\ DOMAIN words = DOMAIN ids
  BY <1>2, <1>3
<1>5. ToSet(words) \subseteq Contents /\ \A i \in DOMAIN words : words[i] \in ToSet(words)
  BY <1>4 DEF ToSet
<1> HIDE DEF words
<1>6. \A k \in DOMAIN saved : saved[k] = k /\ k \in Contents
  BY <1>5, LoadedIs DEF VectorInv
<1>7. DOMAIN saved = ToSet(words) \cup DOMAIN Loaded
  OBVIOUS
<1> HIDE DEF saved
<1>8. rows = words
  BY <1>4, <1>5, <1>6, <1>7
<1>9. s \in SegTypes /\ OwnRows(s) /\ Repaired(s) /\ LiveRows(s) = DOMAIN ids /\ s.ids = ids
  BY <1>4, NewSegment
<1>10. plan' = [add |-> plan.add, stale |-> plan.stale, texts |-> plan.texts, new |-> <<s>>]
  BY <1>1, <1>2, <1>8
<1> HIDE DEF s
<1>11. VectorTypes' /\ LiveOnce' /\ ToRepair' = ToRepair
  BY <1>1, SegmentsAlone DEF VectorInv, VectorTypes
<1>12. PlanInv'
  <2>1. \A i \in LiveRows(s) : s.ids[i] \in plan.add
    BY <1>3, <1>9
  <2>2. \A i, j \in LiveRows(s) : s.ids[i] = s.ids[j] => i = j
    BY <1>3, <1>9
  <2>3. /\ plan'.add = plan.add /\ plan'.stale = plan.stale /\ plan'.texts = plan.texts /\ plan'.new = <<s>>
        /\ plan' = [add |-> plan'.add, stale |-> plan'.stale, texts |-> plan'.texts, new |-> plan'.new]
    BY <1>10
  <2> QED
    BY <1>1, <1>2, <1>9, <1>11, <2>1, <2>2, <2>3 DEF PlanInv, OwnRows, Repaired, LiveRows, InvalidRows
<1>13. StoredInv'
  BY <1>1, <1>6, <1>7 DEF StoredInv
<1>14. MergeInv'
  BY <1>1 DEF MergeInv
<1> QED
  BY <1>11, <1>12, <1>13, <1>14 DEF VectorInv

LEMMA PublishSegmentKeeps ==
  ASSUME VectorInv, PublishSegment PROVE VectorInv'
<1> DEFINE gone == plan.stale \cup plan.add
           Retired(s) == [s EXCEPT !.dead = @ \cup {i \in DOMAIN s.ids : s.ids[i] \in gone}]
           old == [n \in DOMAIN segs |-> Retired(segs[n])]
<1>1. /\ vpc = "publish" /\ UNCHANGED <<source, stored>> /\ segs' = old \o plan.new
      /\ vpc' \in {"capture", "idle"}
  BY DEF PublishSegment
<1>2. ToRepair \subseteq gone /\ plan.add \subseteq gone
  BY <1>1 DEF VectorInv, PlanInv
<1>3. segs \in Seq(SegTypes) /\ DOMAIN segs = 1 .. Len(segs) /\ Len(segs) \in Nat
  BY DEF VectorInv, VectorTypes
<1> HIDE DEF gone
<1>4. ASSUME NEW n \in DOMAIN segs
      PROVE  /\ old[n] \in SegTypes /\ OwnRows(old[n]) /\ Repaired(old[n]) /\ old[n].ids = segs[n].ids
             /\ LiveRows(old[n]) = {i \in LiveRows(segs[n]) : segs[n].ids[i] \notin gone}
  <2> DEFINE s == segs[n]
             dead == s.dead \cup {i \in DOMAIN s.ids : s.ids[i] \in gone}
  <2>1. s \in SegTypes /\ OwnRows(s)
    BY <1>4 DEF VectorInv, VectorTypes
  <2>2. old[n] = [ids |-> s.ids, texts |-> s.texts, vectors |-> s.vectors, keys |-> s.keys, dead |-> dead]
    <3>1. s = [ids |-> s.ids, texts |-> s.texts, vectors |-> s.vectors, keys |-> s.keys, dead |-> s.dead]
      BY <2>1, SegmentFields
    <3>2. old[n] = [s EXCEPT !.dead = dead]
      OBVIOUS
    <3> HIDE DEF s, dead, old
    <3> QED
      BY <3>1, <3>2
  <2>3. InvalidRows(s) \cap LiveRows(s) \subseteq {i \in DOMAIN s.ids : s.ids[i] \in gone}
    <3>1. s \in ToSet(segs)
      BY <1>4 DEF ToSet
    <3> QED
      BY <1>2, <2>1, <3>1, SegmentFields DEF ToRepair
  <2> HIDE DEF old
  <2>4. InvalidRows(old[n]) = InvalidRows(s)
    BY <2>2 DEF InvalidRows
  <2>5. LiveRows(old[n]) = LiveRows(s) \ {i \in DOMAIN s.ids : s.ids[i] \in gone}
    BY <2>2 DEF LiveRows
  <2>6. old[n] \in SegTypes /\ OwnRows(old[n])
    <3>1. dead \subseteq Nat
      BY <2>1, SegmentFields
    <3> HIDE DEF dead
    <3> QED
      BY <2>1, <2>2, <3>1, SegmentFields DEF SegTypes, OwnRows
  <2> QED
    BY <2>1, <2>2, <2>3, <2>4, <2>5, <2>6, SegmentFields DEF Repaired
<1>5. old \in Seq(SegTypes) /\ Len(old) = Len(segs) /\ DOMAIN old = DOMAIN segs
  <2> HIDE DEF Retired
  <2>1. \A n \in DOMAIN segs : old[n] \in SegTypes
    BY <1>4
  <2> QED
    BY <1>3, <2>1
<1> HIDE DEF old
<1>6. \A m, n \in DOMAIN segs : \A i \in LiveRows(old[m]), j \in LiveRows(old[n]) :
        old[m].ids[i] = old[n].ids[j] => m = n /\ i = j
  <2>1. \A m, n \in DOMAIN segs : \A i \in LiveRows(segs[m]), j \in LiveRows(segs[n]) :
          segs[m].ids[i] = segs[n].ids[j] => m = n /\ i = j
    BY DEF VectorInv, LiveOnce
  <2> QED
    BY <1>4, <2>1
<1>7. StoredInv'
  BY <1>1 DEF VectorInv, StoredInv
<1>8. SUFFICES VectorTypes' /\ LiveOnce' /\ \A n \in DOMAIN segs' : Repaired(segs'[n])
  BY <1>1, <1>7 DEF VectorInv, PlanInv, MergeInv, Repaired, LiveRows, InvalidRows
<1>9. CASE plan.new = <<>>
  <2>1. segs' = old
    BY <1>1, <1>5, <1>9
  <2> QED
    BY <1>1, <1>4, <1>5, <1>6, <2>1 DEF VectorInv, VectorTypes, LiveOnce, LiveRows, OwnRows
<1>10. CASE plan.new # <<>>
  <2>1. PICK s \in SegTypes :
          /\ plan.new = <<s>> /\ OwnRows(s) /\ Repaired(s)
          /\ \A i \in LiveRows(s) : s.ids[i] \in plan.add
          /\ \A i, j \in LiveRows(s) : s.ids[i] = s.ids[j] => i = j
    BY <1>1, <1>10 DEF VectorInv, PlanInv
  <2>2. /\ segs' \in Seq(SegTypes) /\ DOMAIN segs' = 1 .. Len(segs) + 1
        /\ \A n \in 1 .. Len(segs) : n \in DOMAIN segs /\ segs'[n] = old[n]
        /\ segs'[Len(segs) + 1] = s
    BY <1>1, <1>3, <1>5, <2>1
  <2>3. \A n \in DOMAIN segs' : OwnRows(segs'[n]) /\ Repaired(segs'[n])
    <3> SUFFICES ASSUME NEW n \in DOMAIN segs' PROVE OwnRows(segs'[n]) /\ Repaired(segs'[n])
      OBVIOUS
    <3>1. CASE n = Len(segs) + 1
      BY <2>1, <2>2, <3>1
    <3>2. CASE n # Len(segs) + 1
      BY <1>3, <1>4, <2>2, <3>2
    <3> QED
      BY <3>1, <3>2
  <2>4. ASSUME NEW m \in DOMAIN segs', NEW n \in DOMAIN segs', NEW i \in LiveRows(segs'[m]), NEW j \in LiveRows(segs'[n]),
               segs'[m].ids[i] = segs'[n].ids[j]
        PROVE  m = n /\ i = j
    <3>1. \A k \in DOMAIN segs : \A l \in LiveRows(old[k]) : old[k].ids[l] \notin plan.add
      BY <1>2, <1>4
    <3>2. (m \in DOMAIN segs /\ segs'[m] = old[m]) \/ (m = Len(segs) + 1 /\ segs'[m] = s)
      BY <1>3, <2>2
    <3>3. (n \in DOMAIN segs /\ segs'[n] = old[n]) \/ (n = Len(segs) + 1 /\ segs'[n] = s)
      BY <1>3, <2>2
    <3> QED
      BY <1>6, <2>1, <2>4, <3>1, <3>2, <3>3
  <2>5. VectorTypes'
    BY <1>1, <2>2, <2>3 DEF VectorInv, VectorTypes, OwnRows
  <2>6. LiveOnce'
    BY <2>4 DEF LiveOnce, LiveRows
  <2> QED
    BY <2>3, <2>5, <2>6
<1> QED
  BY <1>9, <1>10

(* While a merge is at work, the keys and the vectors of live rows are     *)
(* those of their texts, and an id is live for one text.                   *)
LEMMA RowsAtMerge ==
  ASSUME VectorInv, vpc \in {"capture", "merge"}
  PROVE  /\ \A s \in ToSet(segs) : \A i \in LiveRows(s) :
              /\ Len(s.keys) = Len(s.ids) /\ Len(s.vectors) = Len(s.ids)
              /\ s.keys[i] = s.texts[i] /\ s.vectors[i] = s.texts[i] /\ s.texts[i] \in Contents
         /\ \A s, t \in ToSet(segs) : \A i \in LiveRows(s), j \in LiveRows(t) :
              s.ids[i] = t.ids[j] => s.texts[i] = t.texts[j]
<1>1. \A n \in DOMAIN segs : segs[n] \in SegTypes /\ OwnRows(segs[n]) /\ Repaired(segs[n])
  BY DEF VectorInv, VectorTypes, MergeInv
<1>2. \A s \in ToSet(segs) : \E n \in DOMAIN segs : s = segs[n]
  BY DEF ToSet
<1>3. \A s \in ToSet(segs) : s \in SegTypes /\ OwnRows(s) /\ Repaired(s)
  BY <1>1, <1>2
<1>4. \A s, t \in ToSet(segs) : \A i \in LiveRows(s), j \in LiveRows(t) :
        s.ids[i] = t.ids[j] => s.texts[i] = t.texts[j]
  BY <1>2 DEF VectorInv, LiveOnce
<1> QED
  BY <1>3, <1>4, RepairedRow

LEMMA CaptureKeeps ==
  ASSUME VectorInv, Capture PROVE VectorInv'
<1> DEFINE Lost(k) == \E s \in ToSet(segs) : \E i \in LiveRows(s) : s.keys[i] = k
           VectorOf(k) == CHOOSE v \in Contents \cup {Damaged} :
                            \E s \in ToSet(segs) : \E i \in LiveRows(s) : s.keys[i] = k /\ s.vectors[i] = v
           KeyOf(id) == CHOOSE k \in Contents :
                          \E s \in ToSet(segs) : \E i \in LiveRows(s) : s.ids[i] = id /\ s.keys[i] = k
           lost == {k \in Contents \ DOMAIN Loaded : Lost(k)}
           back == [k \in lost \cup DOMAIN Loaded |-> IF k \in lost THEN VectorOf(k) ELSE Loaded[k]]
<1>1. /\ vpc = "capture" /\ vpc' = "merge" /\ UNCHANGED <<source, segs, plan>>
      /\ keyOf' = [id \in IdsLive |-> KeyOf(id)]
      /\ stored' = IF lost = {} THEN stored ELSE back
  BY DEF Capture
<1>2. ASSUME NEW n \in DOMAIN segs, NEW i \in LiveRows(segs[n])
      PROVE  KeyOf(segs[n].ids[i]) = segs[n].texts[i]
  <2>1. segs[n] \in ToSet(segs)
    BY DEF ToSet
  <2>2. \A k \in Contents :
          (\E s \in ToSet(segs) : \E j \in LiveRows(s) : s.ids[j] = segs[n].ids[i] /\ s.keys[j] = k)
            <=> k = segs[n].texts[i]
    BY <1>1, <1>2, <2>1, RowsAtMerge
  <2>3. segs[n].texts[i] \in Contents
    BY <1>1, <1>2, <2>1, RowsAtMerge
  <2> QED
    BY <2>2, <2>3
<1>3. ASSUME NEW k \in lost
      PROVE  VectorOf(k) = k /\ k \in Contents /\ k # Damaged
  <2>1. k \in Contents /\ k # Damaged
    BY <1>3, CacheAssumption
  <2>2. \A v : (\E s \in ToSet(segs) : \E i \in LiveRows(s) : s.keys[i] = k /\ s.vectors[i] = v) <=> v = k
    BY <1>1, <1>3, RowsAtMerge
  <2> QED
    BY <2>1, <2>2
<1>4. \A n \in DOMAIN segs : \A i \in LiveRows(segs[n]) : segs[n].texts[i] \in DOMAIN Loaded \cup lost
  <2> SUFFICES ASSUME NEW n \in DOMAIN segs, NEW i \in LiveRows(segs[n])
               PROVE  segs[n].texts[i] \in DOMAIN Loaded \cup lost
    OBVIOUS
  <2>1. segs[n] \in ToSet(segs)
    BY DEF ToSet
  <2>2. segs[n].texts[i] \in Contents /\ segs[n].keys[i] = segs[n].texts[i]
    BY <1>1, <2>1, RowsAtMerge
  <2> QED
    BY <2>1, <2>2
<1> HIDE DEF KeyOf, VectorOf, lost
<1>5. StoredInv' /\ DOMAIN Loaded \cup lost \subseteq DOMAIN Loaded'
  <2>1. CASE lost = {}
    BY <1>1, <2>1 DEF VectorInv, StoredInv, Loaded
  <2>2. CASE lost # {}
    <3>1. stored' = back
      BY <1>1, <2>2
    <3>2. \A k \in DOMAIN back : back[k] = k /\ k \in Contents /\ k # Damaged
      BY <1>3, LoadedIs, CacheAssumption DEF VectorInv
    <3>3. DOMAIN back = lost \cup DOMAIN Loaded
      OBVIOUS
    <3> HIDE DEF back
    <3>4. StoredInv'
      BY <3>1, <3>2 DEF StoredInv
    <3>5. DOMAIN Loaded' = DOMAIN back
      BY <3>1, <3>2 DEF Loaded, Restrict
    <3> QED
      BY <3>3, <3>4, <3>5
  <2> QED
    BY <2>1, <2>2
<1>6. VectorTypes' /\ LiveOnce' /\ IdsLive' = IdsLive
  BY <1>1, SegmentsAlone DEF VectorInv, VectorTypes
<1>7. MergeInv'
  <2>1. \A n \in DOMAIN segs : Repaired(segs[n])
    BY <1>1 DEF VectorInv, MergeInv
  <2>2. \A n \in DOMAIN segs : \A i \in LiveRows(segs[n]) :
          keyOf'[segs[n].ids[i]] = segs[n].texts[i] /\ segs[n].texts[i] \in DOMAIN Loaded'
    BY <1>1, <1>2, <1>4, <1>5, InIdsLive
  <2>3. DOMAIN keyOf' = IdsLive'
    BY <1>1, <1>6
  <2> QED
    BY <1>1, <2>1, <2>2, <2>3 DEF MergeInv, Repaired, LiveRows, InvalidRows
<1>8. PlanInv'
  BY <1>1 DEF PlanInv
<1> QED
  BY <1>5, <1>6, <1>7, <1>8 DEF VectorInv

(* An id is live once, so that there are finitely many live rows, and they *)
(* have an order.                                                          *)
LEMMA RowsInOrder ==
  ASSUME VectorInv
  PROVE  /\ IsFiniteSet(RowsLive)
         /\ Orders({pair \in RowsLive \X RowsLive : Earlier(pair[1], pair[2])}, RowsLive)
         /\ \A row \in RowsLive : row = <<row[1], row[2]>> /\ row[1] \in DOMAIN segs /\ row[2] \in LiveRows(segs[row[1]])
         /\ \A row, other \in RowsLive : segs[row[1]].ids[row[2]] = segs[other[1]].ids[other[2]] => row = other
<1>1. \A row \in RowsLive : /\ row = <<row[1], row[2]>> /\ row[1] \in DOMAIN segs
                            /\ row[2] \in LiveRows(segs[row[1]])
  BY DEF RowsLive
<1>2. \A row \in RowsLive : /\ row[1] \in Nat /\ row[2] \in Nat
                            /\ segs[row[1]].ids[row[2]] \in Ids
  <2>1. DOMAIN segs \subseteq Nat
    BY DEF VectorInv, VectorTypes
  <2>2. \A n \in DOMAIN segs : segs[n] \in SegTypes
    BY DEF VectorInv, VectorTypes
  <2> QED
    BY <1>1, <2>1, <2>2, SegmentFields
<1>3. \A row, other \in RowsLive : segs[row[1]].ids[row[2]] = segs[other[1]].ids[other[2]] => row = other
  BY <1>1 DEF VectorInv, LiveOnce
<1>4. IsFiniteSet(RowsLive)
  <2> DEFINE id == [row \in RowsLive |-> segs[row[1]].ids[row[2]]]
  <2>1. id \in [RowsLive -> Ids] /\ \A row, other \in RowsLive : id[row] = id[other] => row = other
    BY <1>2, <1>3
  <2> HIDE DEF id
  <2>2. id \in Injection(RowsLive, Ids)
    BY <2>1 DEF Injection, IsInjective
  <2> QED
    BY <2>2, FS_Injection, VectorAssumption
<1>5. Orders({pair \in RowsLive \X RowsLive : Earlier(pair[1], pair[2])}, RowsLive)
  <2> DEFINE before == {pair \in RowsLive \X RowsLive : Earlier(pair[1], pair[2])}
  <2>1. \A row, other \in RowsLive : <<row, other>> \in before <=> Earlier(row, other)
    OBVIOUS
  <2> HIDE DEF before
  <2>2. \A row, other \in RowsLive : row = other \/ row[1] # other[1] \/ row[2] # other[2]
    BY <1>1
  <2>3. Orders(before, RowsLive)
    BY <1>2, <2>1, <2>2 DEF Orders, Earlier
  <2> QED
    BY <2>3 DEF before
<1> QED
  BY <1>1, <1>3, <1>4, <1>5

LEMMA MergeKeeps ==
  ASSUME VectorInv, Merge PROVE VectorInv'
<1> DEFINE rows  == Arranged(RowsLive, {pair \in RowsLive \X RowsLive : Earlier(pair[1], pair[2])})
           ids   == [r \in DOMAIN rows |-> segs[rows[r][1]].ids[rows[r][2]]]
           words == [r \in DOMAIN rows |-> segs[rows[r][1]].texts[rows[r][2]]]
           keys  == [r \in DOMAIN rows |-> keyOf[ids[r]]]
           vecs  == [r \in DOMAIN rows |-> Loaded[keys[r]]]
           s     == VectorSegment(ids, words, words, words)
<1>1. /\ vpc = "merge" /\ vpc' = "idle" /\ UNCHANGED source
      /\ segs' = <<VectorSegment(ids, words, vecs, keys)>> /\ stored' = Restrict(Loaded, ToSet(keys))
      /\ ToSet(keys) \subseteq DOMAIN Loaded
  BY DEF Merge
<1>2. rows \in Seq(RowsLive) /\ \A i, j \in DOMAIN rows : rows[i] = rows[j] => i = j
  BY RowsInOrder, ArrangedIs
<1> HIDE DEF rows
<1>3. ASSUME NEW r \in DOMAIN rows
      PROVE  /\ ids[r] \in Ids /\ words[r] \in Contents
             /\ keys[r] = words[r] /\ vecs[r] = words[r]
             /\ rows[r] \in RowsLive
  <2>1. rows[r] \in RowsLive
    BY <1>2
  <2>2. rows[r][1] \in DOMAIN segs /\ rows[r][2] \in LiveRows(segs[rows[r][1]])
    BY <2>1, RowsInOrder
  <2>3. ids[r] \in Ids /\ words[r] \in Contents
    BY <2>2, RowsHold DEF VectorInv
  <2>4. keyOf[ids[r]] = words[r] /\ words[r] \in DOMAIN Loaded
    BY <1>1, <2>2 DEF VectorInv, MergeInv
  <2>5. Loaded[words[r]] = words[r]
    BY <2>4, LoadedIs DEF VectorInv
  <2> QED
    BY <2>1, <2>3, <2>4, <2>5
<1>4. \A i, j \in DOMAIN rows : ids[i] = ids[j] => i = j
  BY <1>2, <1>3, RowsInOrder
<1>5. keys = words /\ vecs = words
  BY <1>3
<1>6. ids \in Seq(Ids) /\ words \in Seq(Contents) /\ Len(words) = Len(ids) /\ DOMAIN ids = DOMAIN rows
  <2>1. DOMAIN rows = 1 .. Len(rows) /\ Len(rows) \in Nat
    BY <1>2
  <2>2. ids \in [1 .. Len(rows) -> Ids] /\ words \in [1 .. Len(rows) -> Contents]
    BY <1>3, <2>1
  <2> HIDE DEF ids, words
  <2> QED
    BY <2>1, <2>2
<1>7. segs' = <<s>> /\ stored' = Restrict(Loaded, ToSet(words)) /\ ToSet(words) \subseteq DOMAIN Loaded
  BY <1>1, <1>5
<1> HIDE DEF ids, words
<1>8. s \in SegTypes /\ OwnRows(s) /\ LiveRows(s) = DOMAIN ids /\ s.ids = ids
  BY <1>6, NewSegment
<1> HIDE DEF s
<1>9. VectorTypes'
  <2>1. segs' \in Seq(SegTypes) /\ DOMAIN segs' = {1} /\ segs'[1] = s
    BY <1>7, <1>8
  <2>2. \A n \in DOMAIN segs' : OwnRows(segs'[n])
    BY <1>8, <2>1
  <2>3. source' \in SourceTrees /\ vpc' \in {"idle", "encode", "publish", "capture", "merge"}
    BY <1>1 DEF VectorInv, VectorTypes
  <2> QED
    BY <2>1, <2>2, <2>3 DEF VectorTypes, OwnRows
<1>10. LiveOnce'
  BY <1>4, <1>6, <1>7, <1>8 DEF LiveOnce, LiveRows
<1>11. StoredInv'
  BY <1>7, LoadedIs DEF VectorInv, StoredInv, Restrict
<1> QED
  BY <1>1, <1>9, <1>10, <1>11 DEF VectorInv, PlanInv, MergeInv

-----------------------------------------------------------------------------
(* The theorems *)

(* At every step: the segments, the cache, what a build is about to        *)
(* publish and what a merge has captured agree with the texts.             *)
THEOREM VectorsInvariance == VectorSpec => []VectorInv
<1>1. VectorInit => VectorInv
  BY VectorInitHolds
<1>2. ASSUME VectorInv, [VectorNext]_vectorVars PROVE VectorInv'
  <2>1. CASE UNCHANGED vectorVars
    <3>1. UNCHANGED <<source, segs, stored, vpc, plan, keyOf>>
      BY <2>1 DEF vectorVars
    <3>2. Loaded' = Loaded /\ IdsLive' = IdsLive /\ StoredInv'
      BY <1>2, <3>1 DEF Loaded, IdsLive, VectorInv, StoredInv
    <3> QED
      BY <1>2, <3>1, <3>2, SegmentsAlone DEF VectorInv, VectorTypes, PlanInv, MergeInv
  <2> QED
    BY <1>2, <2>1, IdleKeeps, BeginSegmentsKeeps, EmbedSegmentKeeps, PublishSegmentKeeps, CaptureKeeps, MergeKeeps
    DEF VectorNext
<1> QED
  BY <1>1, <1>2, PTL DEF VectorSpec

(* Every live row of a published segment has its own key and vector, an id *)
(* is live once, and a merge that has begun finds every key and vector.    *)
THEOREM RowsStaySound == VectorSpec => []RowsAreSound
<1>1. ASSUME VectorInv PROVE RowsAreSound
  <2>1. \A s \in ToSet(segs) : \E n \in DOMAIN segs : s = segs[n]
    BY DEF ToSet
  <2>2. \A s \in ToSet(segs) : s \in SegTypes /\ OwnRows(s)
    BY <1>1, <2>1 DEF VectorInv, VectorTypes
  <2>3. VectorsAreTheirs
    BY <1>1, <2>1, <2>2, SegmentFields DEF VectorsAreTheirs, VectorInv, MergeInv, OwnRows, Repaired
  <2>4. vpc = "capture" => \A s \in ToSet(segs) : Capturable(s)
    BY <1>1, RowsAtMerge, CacheAssumption DEF Capturable
  <2>5. vpc = "merge" => \A id \in IdsLive : id \in DOMAIN keyOf /\ keyOf[id] \in DOMAIN Loaded
    BY <1>1, InIdsLive DEF VectorInv, MergeInv
  <2> QED
    BY <1>1, <2>3, <2>4, <2>5 DEF RowsAreSound, MergeNeverLacks, VectorInv
<1> QED
  BY <1>1, VectorsInvariance, PTL

-----------------------------------------------------------------------------
(* The MCP server: freshness. *)

TreeRows == UNION {RowsOf(f, Text(tree[f])) : f \in Files}

(* Every edit so far has been taken up, or had been when the call asked.   *)
Quiet == Watching /\ ~inbox /\ ~dirty
Sure  == Watching /\ (asked \/ (~inbox /\ ~dirty))

(* The index is the tree, and what builds it now will leave it so.         *)
Stands == Exact /\ (bpc # "idle" => clean)

ServerInv ==
  /\ BuildInv /\ ServerTypeOK
  /\ (Watching /\ mpc = "start") \/ mpc = "wait" => due
  /\ builder = "server" /\ Sure => clean
  /\ mpc \in {"open", "stat", "answer"} /\ Sure => Stands
  /\ Quiet /\ ~due => Stands /\ (opened => view = TreeRows)
  /\ mpc \in {"stat", "answer"} /\ Sure => view = TreeRows

LEMMA InitServer == ServerInit => ServerInv
<1> SUFFICES ASSUME ServerInit PROVE ServerInv
  OBVIOUS
<1>1. BuildInv /\ TypeOK /\ bpc = "idle"
  <2>1. BuildInv /\ bpc = "idle"
    BY InitBuild DEF ServerInit, Init
  <2> QED
    BY <2>1 DEF BuildInv
<1>2. ServerTypeOK
  <2>1. others \in 0 .. MaxOthers
    BY ServerAssumption DEF ServerInit
  <2>2. due \in BOOLEAN
    BY ServerAssumption DEF ServerInit
  <2> QED
    BY <1>1, <2>1, <2>2 DEF ServerTypeOK, ServerInit
<1> QED
  BY <1>1, <1>2 DEF ServerInv, ServerInit, Quiet

(* Steps that change neither tree, index nor builds.                       *)
LEMMA ServerFrame ==
  ASSUME ServerInv, UNCHANGED vars
  PROVE  BuildInv' /\ TypeOK' /\ Stands' = Stands /\ TreeRows' = TreeRows
<1>1. BuildInv'
  BY BuildNextKeeps DEF ServerInv
<1>2. TypeOK'
  BY <1>1 DEF BuildInv
<1>3. Exact' = Exact /\ TreeRows' = TreeRows
  BY ExactKept DEF vars, TreeRows
<1> QED
  BY <1>1, <1>2, <1>3 DEF Stands, vars

LEMMA StandingView ==
  ASSUME ServerInv, Stands
  PROVE  live = TreeRows
<1>1. TypeOK
  BY DEF ServerInv, BuildInv
<1> QED
  BY <1>1, ExactIsTheTree DEF Stands, TreeRows

LEMMA ServerEditKeeps ==
  ASSUME ServerInv, NEW f \in Files, EditTree(f)
  PROVE  ServerInv'
<1>1. BuildInv' /\ TypeOK'
  <2>1. BuildInv'
    BY EditKeeps DEF ServerInv, EditTree
  <2> QED
    BY <2>1 DEF BuildInv
<1>2. /\ inbox' = (inbox \/ (Watching /\ mpc # "start")) /\ asked' = FALSE /\ bpc' = bpc
      /\ UNCHANGED <<dirty, builder, others, mpc, due, opened, view, current>>
  BY DEF EditTree, Edit
<1>3. ServerTypeOK'
  BY <1>1, <1>2, ServerAssumption DEF ServerInv, ServerTypeOK
<1>4. Watching => mpc = "start" \/ inbox'
  BY <1>2
<1>5. mpc = "start" => builder # "server"
  BY DEF ServerInv, ServerTypeOK
<1> QED
  BY <1>1, <1>2, <1>3, <1>4, <1>5 DEF ServerInv, Quiet, Sure

LEMMA ServerDeliverKeeps ==
  ASSUME ServerInv, Deliver
  PROVE  ServerInv'
<1>1. /\ UNCHANGED vars /\ UNCHANGED <<builder, others, mpc, due, opened, view, current, asked>>
      /\ inbox' = FALSE /\ dirty' = TRUE
  BY DEF Deliver
<1>2. BuildInv' /\ TypeOK' /\ Stands' = Stands /\ TreeRows' = TreeRows /\ bpc' = bpc /\ clean' = clean
  BY <1>1, ServerFrame DEF vars
<1>3. ServerTypeOK'
  BY <1>1, <1>2 DEF ServerInv, ServerTypeOK
<1>4. Sure' => Sure
  BY <1>1 DEF Sure
<1>5. ~Quiet'
  BY <1>1 DEF Quiet
<1> QED
  BY <1>1, <1>2, <1>3, <1>4, <1>5 DEF ServerInv

(* A build begins: the tree has not changed since.                         *)
LEMMA ServerBuildBegins ==
  ASSUME ServerInv, OtherBegins \/ ServerBegins
  PROVE  ServerInv'
<1>1. /\ Begin /\ bpc = "idle" /\ bpc' = "walk" /\ clean' = TRUE /\ UNCHANGED <<tree, live>>
      /\ UNCHANGED <<inbox, dirty, due, opened, view, current, asked>>
      /\ builder = "nobody"
  BY DEF OtherBegins, ServerBegins, Begin, treeVars, indexVars
<1>2. BuildInv' /\ TypeOK'
  <2>1. BuildInv'
    BY <1>1, DecisionKeeps DEF ServerInv
  <2> QED
    BY <2>1 DEF BuildInv
<1>3. Exact' = Exact /\ TreeRows' = TreeRows
  BY <1>1, ExactKept DEF TreeRows
<1>4. Stands => Stands'
  BY <1>1, <1>3 DEF Stands
<1>5. Sure' = Sure /\ Quiet' = Quiet
  BY <1>1 DEF Sure, Quiet
<1>6. CASE OtherBegins
  <2>1. builder' = "other" /\ others' \in 0 .. MaxOthers /\ mpc' = mpc
    BY <1>6, ServerAssumption DEF OtherBegins, ServerInv, ServerTypeOK
  <2>2. ServerTypeOK'
    BY <1>1, <1>2, <2>1 DEF ServerInv, ServerTypeOK
  <2> QED
    BY <1>1, <1>2, <1>3, <1>4, <1>5, <2>1, <2>2 DEF ServerInv
<1>7. CASE ServerBegins
  <2>1. builder' = "server" /\ others' = others /\ mpc = "wait" /\ mpc' = "building"
    BY <1>7 DEF ServerBegins
  <2>2. due
    BY <2>1 DEF ServerInv
  <2>3. ServerTypeOK'
    BY <1>1, <1>2, <2>1, <2>2 DEF ServerInv, ServerTypeOK
  <2> QED
    BY <1>1, <1>2, <1>3, <1>4, <1>5, <2>1, <2>2, <2>3 DEF ServerInv
<1> QED
  BY <1>6, <1>7

LEMMA ServerBuildGoesOn ==
  ASSUME ServerInv, BuildStep
  PROVE  ServerInv'
<1>1. /\ Build /\ Released
      /\ mpc' = IF builder = "server" /\ bpc' = "idle"
                THEN IF KeepIndex \/ ClearPending THEN "open" ELSE "ready" ELSE mpc
      /\ current' = (current /\ bpc # "save")
      /\ UNCHANGED <<inbox, dirty, others, due, opened, view, asked>>
  BY DEF BuildStep
<1>2. BuildInv' /\ TypeOK' /\ UNCHANGED <<tree, clean>> /\ bpc # "idle"
  <2>1. BuildInv' /\ UNCHANGED <<tree, clean>> /\ bpc # "idle"
    BY <1>1, BuildSteps DEF ServerInv
  <2> QED
    BY <2>1 DEF BuildInv
<1>3. TreeRows' = TreeRows
  BY <1>2 DEF TreeRows
<1>4. Stands => Stands'
  BY <1>1, <1>2, BuildKeepsExact DEF ServerInv, Stands
<1>5. Sure' = Sure /\ Quiet' = Quiet
  BY <1>1 DEF Sure, Quiet
<1>6. builder # "nobody" /\ builder' = IF bpc' = "idle" THEN "nobody" ELSE builder
  BY <1>1, <1>2 DEF Released, ServerInv, ServerTypeOK
<1>7. ServerTypeOK'
  BY <1>1, <1>2, <1>6 DEF ServerInv, ServerTypeOK
<1>8. ASSUME builder = "server", bpc' = "idle", KeepIndex \/ ClearPending, Sure
      PROVE  Stands'
  BY <1>2, <1>8, CleanEnd DEF ServerInv, Stands
<1>9. builder = "server" => mpc = "building" /\ due
  BY DEF ServerInv, ServerTypeOK
<1> QED
  BY <1>1, <1>2, <1>3, <1>4, <1>5, <1>6, <1>7, <1>8, <1>9 DEF ServerInv

LEMMA ServerBuildFails ==
  ASSUME ServerInv, BuildFails
  PROVE  ServerInv'
<1>1. /\ Fail /\ Released /\ mpc' = IF builder = "server" THEN "ready" ELSE mpc
      /\ UNCHANGED <<inbox, dirty, others, due, opened, view, current, asked>>
      /\ bpc # "idle" /\ bpc' = "idle" /\ UNCHANGED <<tree, live, clean>>
  BY DEF BuildFails, Fail, Stop, treeVars, indexVars
<1>2. BuildInv' /\ TypeOK'
  <2>1. BuildInv'
    BY <1>1, BuildNextKeeps DEF ServerInv, Next
  <2> QED
    BY <2>1 DEF BuildInv
<1>3. TreeRows' = TreeRows /\ (Stands => Stands')
  BY <1>1, ExactKept DEF TreeRows, Stands
<1>4. Sure' = Sure /\ Quiet' = Quiet
  BY <1>1 DEF Sure, Quiet
<1>5. builder' = "nobody"
  BY <1>1 DEF Released
<1>6. ServerTypeOK'
  BY <1>1, <1>2, <1>5 DEF ServerInv, ServerTypeOK
<1>7. builder = "server" => due
  BY DEF ServerInv, ServerTypeOK
<1> QED
  BY <1>1, <1>2, <1>3, <1>4, <1>5, <1>6, <1>7 DEF ServerInv

LEMMA ServerKeeps ==
  ASSUME ServerInv, Server
  PROVE  ServerInv'
<1>1. UNCHANGED vars /\ UNCHANGED <<inbox, builder, others>>
  BY DEF Server, Start, FinishStart, EnsureFresh, Reindex, GiveUp, OpenIndex, ReadMtime, Answer
<1>2. /\ BuildInv' /\ TypeOK' /\ Stands' = Stands /\ TreeRows' = TreeRows
      /\ live' = live /\ bpc' = bpc /\ clean' = clean /\ pending' = pending /\ inventory' = inventory
  BY <1>1, ServerFrame DEF vars
<1>3. TypeOK /\ ServerTypeOK
  BY DEF ServerInv, BuildInv
<1>4. ServerTypeOK'
  <2>1. live \subseteq Rows
    BY <1>3 DEF TypeOK
  <2>2. CASE Start
    BY <1>1, <1>2, <1>3, <2>1, <2>2 DEF ServerTypeOK, Start
  <2>3. CASE FinishStart
    BY <1>1, <1>2, <1>3, <2>3 DEF ServerTypeOK, FinishStart
  <2>4. CASE EnsureFresh
    <3>1. mpc' \in {"wait", "answer", "open"} /\ dirty' \in BOOLEAN /\ due' \in BOOLEAN /\ asked' \in BOOLEAN
      BY <1>3, <2>4 DEF ServerTypeOK, TypeOK, EnsureFresh, Due
    <3>2. mpc = "ready" /\ UNCHANGED <<inbox, builder, others, opened, view, current>>
      BY <2>4 DEF EnsureFresh
    <3> QED
      BY <1>1, <1>2, <1>3, <3>1, <3>2 DEF ServerTypeOK
  <2>5. CASE Reindex
    BY <1>1, <1>2, <1>3, <2>5 DEF ServerTypeOK, Reindex
  <2>6. CASE GiveUp
    BY <1>1, <1>2, <1>3, <2>6 DEF ServerTypeOK, GiveUp
  <2>7. CASE OpenIndex
    BY <1>1, <1>2, <1>3, <2>1, <2>7 DEF ServerTypeOK, OpenIndex
  <2>8. CASE ReadMtime
    BY <1>1, <1>2, <1>3, <2>8 DEF ServerTypeOK, ReadMtime
  <2>9. CASE Answer
    BY <1>1, <1>2, <1>3, <2>9 DEF ServerTypeOK, Answer
  <2> QED
    BY <2>2, <2>3, <2>4, <2>5, <2>6, <2>7, <2>8, <2>9 DEF Server
<1>5. CASE Start
  <2>1. mpc = "start" /\ mpc' = "started" /\ UNCHANGED <<dirty, due, asked>>
    BY <1>5 DEF Start
  <2> QED
    BY <1>1, <1>2, <1>4, <2>1 DEF ServerInv, Quiet, Sure
<1>6. CASE FinishStart \/ GiveUp \/ Answer
  <2>1. /\ mpc' = "ready" /\ UNCHANGED <<dirty, due, opened, view, asked>>
    BY <1>6 DEF FinishStart, GiveUp, Answer
  <2> QED
    BY <1>1, <1>2, <1>4, <2>1 DEF ServerInv, Quiet, Sure
<1>7. CASE EnsureFresh
  <2>1. /\ mpc = "ready" /\ dirty' = (dirty /\ Due) /\ due' = (Due \/ dirty \/ ~opened)
        /\ mpc' = IF due' THEN "wait" ELSE IF current THEN "answer" ELSE "open"
        /\ asked' = ~inbox /\ UNCHANGED <<opened, view>>
    BY <1>7 DEF EnsureFresh
  <2>2. builder # "server"
    BY <1>3, <2>1 DEF ServerTypeOK
  <2>3. CASE due'
    BY <1>1, <1>2, <1>4, <2>1, <2>2, <2>3 DEF ServerInv
  <2>4. CASE ~due'
    <3>1. ~due /\ ~dirty /\ ~dirty' /\ opened
      BY <2>1, <2>4 DEF Due
    <3>2. Sure' => Quiet
      BY <1>1, <2>1, <3>1 DEF Sure, Quiet
    <3> QED
      BY <1>1, <1>2, <1>4, <2>1, <2>2, <2>4, <3>1, <3>2 DEF ServerInv, Quiet
  <2> QED
    BY <2>3, <2>4, <1>4 DEF ServerTypeOK
<1>8. CASE Reindex
  <2>1. mpc = "ready" /\ mpc' = "wait" /\ due'
    BY <1>8 DEF Reindex
  <2>2. builder # "server"
    BY <1>3, <2>1 DEF ServerTypeOK
  <2> QED
    BY <1>1, <1>2, <1>4, <2>1, <2>2 DEF ServerInv
<1>9. CASE OpenIndex
  <2>1. mpc = "open" /\ mpc' = "stat" /\ view' = live /\ UNCHANGED <<dirty, due, asked>>
    BY <1>9 DEF OpenIndex
  <2>2. Stands => view' = TreeRows'
    BY <1>2, <2>1, StandingView
  <2> QED
    BY <1>1, <1>2, <1>4, <2>1, <2>2 DEF ServerInv, Quiet, Sure
<1>10. CASE ReadMtime
  <2>1. mpc = "stat" /\ mpc' = "answer" /\ UNCHANGED <<dirty, view, asked>>
    BY <1>10 DEF ReadMtime
  <2>2. Quiet' => Sure
    BY <1>1, <2>1 DEF Quiet, Sure
  <2>3. builder # "server"
    BY <1>3, <2>1 DEF ServerTypeOK
  <2> QED
    BY <1>1, <1>2, <1>4, <2>1, <2>2, <2>3 DEF ServerInv, Sure
<1> QED
  BY <1>5, <1>6, <1>7, <1>8, <1>9, <1>10 DEF Server

LEMMA ServerNextKeeps == ServerInv /\ [ServerNext]_mcpVars => ServerInv'
<1> SUFFICES ASSUME ServerInv, [ServerNext]_mcpVars PROVE ServerInv'
  OBVIOUS
<1>1. CASE UNCHANGED mcpVars
  <2>1. UNCHANGED vars /\ UNCHANGED serverVars
    BY <1>1 DEF mcpVars
  <2>2. ServerTypeOK'
    BY <2>1, ServerFrame DEF ServerInv, ServerTypeOK, serverVars, vars
  <2> QED
    BY <2>1, <2>2, ServerFrame DEF ServerInv, Quiet, Sure, serverVars, vars
<1>2. ASSUME NEW f \in Files, EditTree(f)
      PROVE  ServerInv'
  BY <1>2, ServerEditKeeps
<1>3. CASE Deliver \/ OtherBegins \/ ServerBegins \/ BuildStep \/ BuildFails \/ Server
  BY <1>3, ServerDeliverKeeps, ServerBuildBegins, ServerBuildGoesOn, ServerBuildFails, ServerKeeps
<1> QED
  BY <1>1, <1>2, <1>3 DEF ServerNext

(* The invariant of the server's freshness: what its flags let it skip.    *)
THEOREM ServerInvariance == ServerSpec => []ServerInv
  BY InitServer, ServerNextKeeps, PTL DEF ServerSpec

(* The server's builds and the others' are builds of RepoBuild.            *)
THEOREM ServerRunsBuilds == ServerSpec => Spec
<1>1. ServerInit => Init
  BY DEF ServerInit
<1>2. [ServerNext]_mcpVars => [Next]_vars
  BY DEF ServerNext, mcpVars, EditTree, Deliver, OtherBegins, ServerBegins, BuildStep, BuildFails, Server,
         Start, FinishStart, EnsureFresh, Reindex, GiveUp, OpenIndex, ReadMtime, Answer, Next
<1> QED
  BY <1>1, <1>2, PTL DEF ServerSpec, Spec

(* A search of a watching server that had noticed every edit when it asked *)
(* is answered from exactly the tree.                                      *)
THEOREM ServerAnswersAreExact == ServerSpec => []AnswersAreExact
<1>1. ServerInv => AnswersAreExact
  BY DEF ServerInv, AnswersAreExact, Sure, TreeRows
<1> QED
  BY <1>1, ServerInvariance, PTL

-----------------------------------------------------------------------------
(* The protocol of the server.                                             *)

(* What is read, answered and told so far.                                 *)
IsSeq(s) == s \in Seq({s[i] : i \in DOMAIN s})

Done == Len(line.items) - Len(messages)   \* how many messages of the line are handled
ReplyTo(m, r) ==
  r.id = IdOf(m) /\ (m.method = "tools/call" /\ m.id # NoId /\ m.tool # "none" => AsAsked(m, r.out))
RepliesTo(rs, ms, n) ==
  Len(rs) = Turn(ms, n) /\ \A i \in 1 .. n : IsDue(ms[i]) => ReplyTo(ms[i], rs[Turn(ms, i)])

LineInv ==
  /\ sends \in Nat /\ IF sends = 0 THEN line = NoLine ELSE line \in Lines
  /\ IsSeq(messages) /\ IsSeq(replies) /\ IsSeq(wire)
  /\ Len(messages) <= Len(line.items)
  /\ \A i \in 1 .. Len(messages) : messages[i] = line.items[Done + i]
  /\ Unread(line) => messages = <<>>
  /\ messages # <<>> => Written("line") = {} /\ RepliesTo(replies, line.items, Done)
  /\ messages = <<>> =>
       /\ replies = <<>> /\ call = NoCall
       /\ sends > 0 =>
            LET ms == Asked(line)
            IN  IF Turn(ms, Len(ms)) = 0 THEN Written("line") = {}
                ELSE Written("line") = {Len(wire)} /\ RepliesTo(wire[Len(wire)].items, ms, Len(ms))

(* The call under way: what it is of, how far it is, and what it may count *)
(* on by then.                                                             *)
Stages == {"search_code", "index_status", "reindex", "unknown", "fresh", "building", "repair", "check", "retrieve", "report"}
CallShape == call = [stage |-> call.stage, id |-> call.id, args |-> call.args, builds |-> call.builds,
                     then |-> call.then, tool |-> call.tool]

Called ==
  /\ CallShape /\ call.stage \in Stages /\ call.builds \in Nat
  /\ messages # <<>>
  /\ LET m == Head(messages)
     IN  /\ m.method = "tools/call" /\ m.id # NoId /\ m.tool # "none" /\ m.args.verbose # "bad"
         /\ call.id = m.id /\ call.args = m.args /\ call.tool = m.tool
  /\ call.stage \in {"search_code", "index_status", "reindex", "unknown"} => call.stage = call.tool /\ call.builds = 0
  /\ call.tool = "search_code" /\ ~call.args.valid => call.stage = "search_code"
  /\ call.tool = "search_code" => found = [mode |-> call.args.mode, success |-> FALSE]
  /\ call.stage \in {"check", "retrieve"} => call.tool = "search_code"
  /\ call.stage = "building" => call.builds # 0 /\ call.then \in {"repair", "check", "report"}
  /\ call.stage = "building" /\ call.then = "check" => call.tool = "search_code"
  /\ call.stage = "retrieve" => ~(WantsVectors /\ HybridEnabled /\ invalid)
  /\ call.stage = "building" <=> phase # "none"
  /\ sink = call.args.token

CallInv ==
  /\ indexed \in {"none", "lexical", "hybrid"} /\ latest \in {"none", "lexical", "hybrid"} /\ invalid \in BOOLEAN
  /\ invalid => indexed = "hybrid"
  /\ IF call = NoCall THEN sink = NoToken /\ phase = "none" ELSE Called

(* What was told so far, and what the build under way has told.            *)
Phases == {"scanning", "chunking", "model", "encode0", "encode1", "encode2", "done"}
Begun  == Done + (IF call = NoCall THEN 0 ELSE 1)

ProgressInv ==
  /\ sent = [value |-> sent.value, phase |-> sent.phase] /\ sent.value \in Int
  /\ sent.phase \in {"none", "scanning", "chunking", "model", "encoding"}
  /\ sent.phase # "none" => sent.value <= Scale(sent.phase)[2]
  /\ phase \in Phases \cup {"none"}
  /\ \A i \in Written("progress") :
       /\ wire[i].value \in Int /\ wire[i].token # NoToken
       /\ \E j \in 1 .. Begun : line.items[j].method = "tools/call" /\ line.items[j].args.token = wire[i].token
  /\ \A i, j \in Written("progress") :
       i < j /\ wire[i].token = wire[j].token /\ wire[i].build = wire[j].build => wire[i].value < wire[j].value
  /\ sink # NoToken =>
       /\ \A i \in Written("progress") :
            wire[i].token = sink =>
              /\ wire[i].build \in 1 .. call.builds
              /\ wire[i].build = call.builds /\ phase # "none" => phase # "scanning" /\ wire[i].value <= sent.value
       /\ phase = "chunking" => sent.phase = "scanning"
       /\ phase = "model" => sent.phase = "chunking"
       /\ phase = "encode0" => sent.phase \in {"chunking", "model", "encoding"}
       /\ phase \in {"encode1", "encode2"} => sent.phase = "encoding"

ProtocolInv == LineInv /\ CallInv /\ ProgressInv
-----------------------------------------------------------------------------
(* Sequences, whatever they are of.                                        *)
LEMMA SeqOfAny ==
  ASSUME NEW S, NEW s \in Seq(S)
  PROVE  IsSeq(s)
<1> DEFINE R == {s[i] : i \in DOMAIN s}
<1>1. Len(s) \in Nat /\ DOMAIN s = 1 .. Len(s) /\ s = [i \in 1 .. Len(s) |-> s[i]]
  BY LenProperties
<1>2. s \in [1 .. Len(s) -> R]
  BY <1>1
<1> HIDE DEF R
<1>3. s \in Seq(R)
  BY <1>1, <1>2
<1> QED
  BY <1>3 DEF IsSeq, R

LEMMA SeqHas ==
  ASSUME NEW s, IsSeq(s)
  PROVE  Len(s) \in Nat /\ DOMAIN s = 1 .. Len(s) /\ (s = <<>> <=> Len(s) = 0)
<1> DEFINE R == {s[i] : i \in DOMAIN s}
<1>1. s \in Seq(R)
  BY DEF IsSeq
<1> HIDE DEF R
<1> QED
  BY <1>1, LenProperties, EmptySeq

LEMMA AppendIsSeq ==
  ASSUME NEW s, IsSeq(s), NEW e
  PROVE  /\ IsSeq(Append(s, e)) /\ Len(Append(s, e)) = Len(s) + 1
         /\ \A i \in 1 .. Len(s) : Append(s, e)[i] = s[i]
         /\ Append(s, e)[Len(s) + 1] = e
<1> DEFINE R == {s[i] : i \in DOMAIN s}
           S == R \cup {e}
<1>1. s \in Seq(R)
  BY DEF IsSeq
<1>2. R \subseteq S /\ e \in S
  OBVIOUS
<1> HIDE DEF R, S
<1>3. s \in Seq(S)
  BY <1>1, <1>2, SeqMonotonic
<1>4. /\ Append(s, e) \in Seq(S) /\ Len(Append(s, e)) = Len(s) + 1
      /\ \A i \in 1 .. Len(s) : Append(s, e)[i] = s[i]
      /\ Append(s, e)[Len(s) + 1] = e
  BY <1>2, <1>3, AppendProperties
<1> QED
  BY <1>4, SeqOfAny

LEMMA TailIsSeq ==
  ASSUME NEW s, IsSeq(s), s # <<>>
  PROVE  /\ IsSeq(Tail(s)) /\ Len(Tail(s)) = Len(s) - 1 /\ Len(s) \in Nat \ {0}
         /\ \A i \in 1 .. Len(s) - 1 : Tail(s)[i] = s[i + 1]
         /\ Head(s) = s[1]
<1> DEFINE R == {s[i] : i \in DOMAIN s}
<1>1. s \in Seq(R)
  BY DEF IsSeq
<1> HIDE DEF R
<1>2. /\ Head(s) \in R /\ Tail(s) \in Seq(R) /\ Len(Tail(s)) = Len(s) - 1
      /\ \A i \in 1 .. Len(Tail(s)) : Tail(s)[i] = s[i + 1]
  BY <1>1, HeadTailProperties
<1>3. Len(s) \in Nat \ {0}
  BY <1>1, EmptySeq, LenProperties
<1>4. Head(s) = s[1]
  BY <1>1
<1> QED
  BY <1>2, <1>3, <1>4, SeqOfAny

LEMMA PutIsSeq ==
  ASSUME NEW s, IsSeq(s), NEW e
  PROVE  s \o <<>> = s /\ s \o <<e>> = Append(s, e)
<1> DEFINE R == {s[i] : i \in DOMAIN s}
           S == R \cup {e}
<1>1. s \in Seq(R)
  BY DEF IsSeq
<1>2. R \subseteq S /\ e \in S
  OBVIOUS
<1> HIDE DEF R, S
<1>3. s \in Seq(S)
  BY <1>1, <1>2, SeqMonotonic
<1> QED
  BY <1>2, <1>3, ConcatEmptySeq, AppendIsConcat

-----------------------------------------------------------------------------
(* How many are due, one message more.                                     *)
LEMMA TurnCounts ==
  ASSUME NEW ms, NEW n \in Nat
  PROVE  /\ Turn(ms, n) \in Nat /\ Turn(ms, 0) = 0
         /\ Turn(ms, n + 1) = Turn(ms, n) + (IF IsDue(ms[n + 1]) THEN 1 ELSE 0)
         /\ \A i \in 1 .. n : Turn(ms, i) \in 0 .. Turn(ms, n) /\ (IsDue(ms[i]) => Turn(ms, i) # 0)
<1> DEFINE D(i) == {j \in 1 .. i : IsDue(ms[j])}
<1>1. \A i \in Nat : IsFiniteSet(D(i)) /\ Turn(ms, i) = Cardinality(D(i)) /\ Turn(ms, i) \in Nat
  <2> SUFFICES ASSUME NEW i \in Nat PROVE IsFiniteSet(D(i)) /\ Turn(ms, i) = Cardinality(D(i)) /\ Turn(ms, i) \in Nat
    OBVIOUS
  <2>1. IsFiniteSet(1 .. i) /\ D(i) \subseteq 1 .. i
    BY FS_Interval
  <2>2. IsFiniteSet(D(i))
    <3> HIDE DEF D
    <3> QED
      BY <2>1, FS_Subset
  <2>3. Turn(ms, i) = Cardinality(D(i))
    BY DEF Turn
  <2> QED
    BY <2>2, <2>3, FS_CardinalityType
<1>2. Turn(ms, 0) = 0
  <2>1. D(0) = {}
    OBVIOUS
  <2> QED
    BY <1>1, <2>1, FS_EmptySet
<1>3. Turn(ms, n + 1) = Turn(ms, n) + (IF IsDue(ms[n + 1]) THEN 1 ELSE 0)
  <2>1. CASE IsDue(ms[n + 1])
    <3>1. D(n + 1) = D(n) \cup {n + 1} /\ n + 1 \notin D(n)
      BY <2>1
    <3> HIDE DEF D
    <3>2. Cardinality(D(n) \cup {n + 1}) = Cardinality(D(n)) + 1
      BY <1>1, <3>1, FS_AddElement
    <3>3. n + 1 \in Nat
      OBVIOUS
    <3> QED
      BY <1>1, <2>1, <3>1, <3>2, <3>3
  <2>2. CASE ~IsDue(ms[n + 1])
    <3>1. D(n + 1) = D(n) /\ n + 1 \in Nat
      BY <2>2
    <3> HIDE DEF D
    <3> QED
      BY <1>1, <2>2, <3>1
  <2> QED
    BY <2>1, <2>2
<1>4. ASSUME NEW i \in 1 .. n
      PROVE  Turn(ms, i) \in 0 .. Turn(ms, n) /\ (IsDue(ms[i]) => Turn(ms, i) # 0)
  <2>1. D(i) \subseteq D(n) /\ i \in Nat /\ (IsDue(ms[i]) => D(i) # {})
    OBVIOUS
  <2> HIDE DEF D
  <2>2. Cardinality(D(i)) <= Cardinality(D(n))
    BY <1>1, <2>1, FS_Subset
  <2>3. D(i) # {} => Cardinality(D(i)) # 0
    BY <1>1, <2>1, FS_EmptySet
  <2> QED
    BY <1>1, <2>1, <2>2, <2>3
<1> QED
  BY <1>1, <1>2, <1>3, <1>4

(* A message more is answered, or not if it is not due.                    *)
LEMMA RepliesGrow ==
  ASSUME NEW ms, NEW n \in Nat, NEW rs, IsSeq(rs), RepliesTo(rs, ms, n)
  PROVE  /\ ~IsDue(ms[n + 1]) => RepliesTo(rs, ms, n + 1)
         /\ \A r : IsDue(ms[n + 1]) /\ ReplyTo(ms[n + 1], r) => RepliesTo(Append(rs, r), ms, n + 1)
<1>1. /\ Turn(ms, n) \in Nat /\ Turn(ms, n + 1) = Turn(ms, n) + (IF IsDue(ms[n + 1]) THEN 1 ELSE 0)
      /\ \A i \in 1 .. n : IsDue(ms[i]) => Turn(ms, i) \in 1 .. Turn(ms, n)
  BY TurnCounts
<1>2. Len(rs) = Turn(ms, n) /\ \A i \in 1 .. n : IsDue(ms[i]) => ReplyTo(ms[i], rs[Turn(ms, i)])
  BY DEF RepliesTo
<1>3. \A i \in 1 .. n + 1 : i \in 1 .. n \/ i = n + 1
  OBVIOUS
<1>4. ~IsDue(ms[n + 1]) => RepliesTo(rs, ms, n + 1)
  BY <1>1, <1>2, <1>3 DEF RepliesTo
<1>5. ASSUME NEW r, IsDue(ms[n + 1]), ReplyTo(ms[n + 1], r)
      PROVE  RepliesTo(Append(rs, r), ms, n + 1)
  <2>1. /\ Len(Append(rs, r)) = Len(rs) + 1 /\ \A i \in 1 .. Len(rs) : Append(rs, r)[i] = rs[i]
        /\ Append(rs, r)[Len(rs) + 1] = r
    BY AppendIsSeq
  <2>2. Len(Append(rs, r)) = Turn(ms, n + 1) /\ Turn(ms, n + 1) = Len(rs) + 1
    BY <1>1, <1>2, <1>5, <2>1
  <2>3. ASSUME NEW i \in 1 .. n + 1, IsDue(ms[i])
        PROVE  ReplyTo(ms[i], Append(rs, r)[Turn(ms, i)])
    <3>1. CASE i \in 1 .. n
      BY <1>1, <1>2, <2>1, <2>3, <3>1
    <3>2. CASE i = n + 1
      BY <1>5, <2>1, <2>2, <3>2
    <3> QED
      BY <1>3, <3>1, <3>2
  <2> QED
    BY <2>2, <2>3 DEF RepliesTo
<1> QED
  BY <1>4, <1>5
-----------------------------------------------------------------------------
(* What is written counts as told or as an answer, and stays as it is.     *)
LEMMA WireGrows ==
  ASSUME IsSeq(wire), NEW entry, wire' = Append(wire, entry)
  PROVE  /\ IsSeq(wire') /\ Len(wire') = Len(wire) + 1 /\ Len(wire) \in Nat
         /\ \A i \in 1 .. Len(wire) : wire'[i] = wire[i]
         /\ wire'[Len(wire) + 1] = entry
         /\ \A kind : Written(kind)' = Written(kind) \cup (IF entry.kind = kind THEN {Len(wire) + 1} ELSE {})
         /\ \A kind : Written(kind) \subseteq 1 .. Len(wire)
<1>1. /\ IsSeq(wire') /\ Len(wire') = Len(wire) + 1 /\ wire'[Len(wire) + 1] = entry
      /\ \A i \in 1 .. Len(wire) : wire'[i] = wire[i]
  BY AppendIsSeq
<1>2. Len(wire) \in Nat /\ DOMAIN wire = 1 .. Len(wire) /\ DOMAIN wire' = 1 .. Len(wire')
  BY <1>1, SeqHas
<1>3. \A i \in 1 .. Len(wire') : i \in 1 .. Len(wire) \/ i = Len(wire) + 1
  BY <1>1, <1>2
<1>4. \A i \in 1 .. Len(wire) : i \in 1 .. Len(wire')
  BY <1>1, <1>2
<1>5. Len(wire) + 1 \in 1 .. Len(wire')
  BY <1>1, <1>2
<1>6. ASSUME NEW kind
      PROVE  /\ Written(kind)' = Written(kind) \cup (IF entry.kind = kind THEN {Len(wire) + 1} ELSE {})
             /\ Written(kind) \subseteq 1 .. Len(wire)
  BY <1>1, <1>2, <1>3, <1>4, <1>5 DEF Written
<1> QED
  BY <1>1, <1>2, <1>6

LEMMA InitProtocol == ProtocolInit => ProtocolInv
<1> SUFFICES ASSUME ProtocolInit PROVE ProtocolInv
  OBVIOUS
<1>1. /\ wire = <<>> /\ messages = <<>> /\ replies = <<>> /\ line = NoLine /\ sends = 0 /\ call = NoCall
      /\ sink = NoToken /\ phase = "none" /\ latest = "none"
  BY DEF ProtocolInit, ProtocolRests
<1>2. IsSeq(<<>>) /\ Len(<<>>) = 0
  BY DEF IsSeq
<1>3. Written("line") = {} /\ Written("progress") = {}
  <2>1. DOMAIN wire = {}
    <3>1. wire = <<>>
      BY <1>1
    <3> QED
      BY <3>1
  <2> QED
    BY <2>1 DEF Written
<1>4. LineInv
  <2>1. Len(line.items) = 0 /\ Unread(line)
    BY <1>1 DEF NoLine, Unread
  <2>0. messages = <<>> /\ sends = 0
    BY <1>1
  <2>2. Len(messages) = 0 /\ Len(messages) <= Len(line.items)
        /\ \A i \in 1 .. Len(messages) : messages[i] = line.items[Done + i]
    BY <1>2, <2>0, <2>1
  <2>3. ~(sends > 0) /\ sends \in Nat
    BY <2>0
  <2> QED
    BY <1>1, <1>2, <1>3, <2>1, <2>2, <2>3 DEF LineInv
<1>5. CallInv
  BY <1>1 DEF CallInv, ProtocolInit
<1>6. ProgressInv
  <2> DEFINE low == -100
  <2>a. sent = [value |-> low, phase |-> "none"]
    BY DEF ProtocolInit, ProtocolRests
  <2>b. low \in Int
    OBVIOUS
  <2> HIDE DEF low
  <2>1. sent.value \in Int /\ sent.phase = "none" /\ sent = [value |-> sent.value, phase |-> sent.phase]
    BY <2>a, <2>b
  <2> QED
    BY <1>1, <1>3, <2>1 DEF ProgressInv
<1> QED
  BY <1>4, <1>5, <1>6 DEF ProtocolInv

(* What leaves lines and calls alone.                                      *)
LEMMA RestKeeps ==
  ASSUME ProtocolInv, UNCHANGED <<lineState, notifier, call, found>>
  PROVE  LineInv' /\ ProgressInv' /\ (CallInv' <=> (/\ indexed' \in {"none", "lexical", "hybrid"}
                                                    /\ latest' \in {"none", "lexical", "hybrid"} /\ invalid' \in BOOLEAN
                                                    /\ invalid' => indexed' = "hybrid"
                                                    /\ call # NoCall => Called'))
<1> USE DEF ProtocolInv, lineState, notifier
<1>1. LineInv'
  BY DEF LineInv, Done, Written, RepliesTo
<1>2. ProgressInv'
  BY DEF ProgressInv, Done, Begun, Written
<1>3. call = NoCall => sink = NoToken /\ phase = "none"
  BY DEF CallInv
<1> QED
  BY <1>1, <1>2, <1>3 DEF CallInv

LEMMA MishapKeeps == ProtocolInv /\ Mishap => ProtocolInv'
<1> SUFFICES ASSUME ProtocolInv, Mishap PROVE ProtocolInv'
  OBVIOUS
<1>1. UNCHANGED <<lineState, notifier, call, found>> /\ call = NoCall
  BY DEF Mishap
<1>2. /\ indexed' \in {"none", "lexical", "hybrid"} /\ latest' \in {"none", "lexical", "hybrid"} /\ invalid' \in BOOLEAN
      /\ invalid' => indexed' = "hybrid"
  <2>1. /\ indexed \in {"none", "lexical", "hybrid"} /\ latest \in {"none", "lexical", "hybrid"} /\ invalid \in BOOLEAN
        /\ invalid => indexed = "hybrid"
    BY DEF ProtocolInv, CallInv
  <2>2. indexed' = indexed
    BY DEF Mishap
  <2>3. latest' \in {"none", "lexical", "hybrid"}
    BY <2>1 DEF Mishap
  <2>4. invalid' = invalid \/ (invalid' = TRUE /\ indexed = "hybrid")
    BY DEF Mishap
  <2>5. invalid' \in BOOLEAN /\ (invalid' => indexed = "hybrid")
    <3>1. CASE invalid' = invalid
      BY <2>1, <3>1, Zenon
    <3>2. CASE invalid' = TRUE /\ indexed = "hybrid"
      BY <3>2, Zenon
    <3> QED
      BY <2>4, <3>1, <3>2
  <2> QED
    BY <2>1, <2>2, <2>3, <2>5
<1> QED
  BY <1>1, <1>2, RestKeeps DEF ProtocolInv

LEMMA ReadLineKeeps == ProtocolInv /\ ReadLine => ProtocolInv'
<1> SUFFICES ASSUME ProtocolInv, ReadLine PROVE ProtocolInv'
  OBVIOUS
<1>1. PICK l \in Lines :
        /\ line' = l /\ sends' = sends + 1
        /\ messages' = IF Unread(l) THEN <<>> ELSE l.items
        /\ wire' = IF Unread(l) THEN <<[kind |-> "line", items |-> <<Refusal(Null)>>]>> ELSE <<>>
  BY DEF ReadLine
<1>2. /\ messages = <<>> /\ call = NoCall /\ replies = <<>>
      /\ UNCHANGED <<indexState, notifier, call, found, replies>>
  BY DEF ReadLine, AtRest
<1>3. IsSeq(l.items) /\ Len(l.items) \in Nat /\ DOMAIN l.items = 1 .. Len(l.items)
  <2>1. IsSeq(l.items)
    BY LinesAssumption DEF IsSeq
  <2> QED
    BY <2>1, SeqHas
<1>4. IsSeq(<<>>) /\ Len(<<>>) = 0
  BY DEF IsSeq
<1>5. Written("progress")' = {}
  <2>1. CASE Unread(l)
    BY <1>1, <2>1 DEF Written
  <2>2. CASE ~Unread(l)
    BY <1>1, <2>2 DEF Written
  <2> QED
    BY <2>1, <2>2
<1>6. LineInv'
  <2>1. sends' \in Nat /\ sends' # 0 /\ line' \in Lines
    BY <1>1 DEF ProtocolInv, LineInv
  <2>2. CASE Unread(l)
    <3> DEFINE r == Refusal(Null)
               entry == [kind |-> "line", items |-> <<r>>]
    <3>1. messages' = <<>> /\ replies' = <<>> /\ call' = NoCall
      BY <1>1, <1>2, <2>2
    <3>2. wire' = <<entry>> /\ IsSeq(wire') /\ Len(wire') = 1 /\ Written("line")' = {1} /\ wire'[1].items = <<r>>
      <4>1. wire' = <<entry>>
        BY <1>1, <2>2
      <4>2. IsSeq(<<entry>>)
        BY <1>4, AppendIsSeq, PutIsSeq DEF IsSeq
      <4> HIDE DEF entry
      <4>3. Len(<<entry>>) = 1 /\ DOMAIN <<entry>> = {1} /\ <<entry>>[1] = entry
        OBVIOUS
      <4>4. entry.kind = "line" /\ entry.items = <<r>>
        BY DEF entry
      <4> QED
        BY <4>1, <4>2, <4>3, <4>4 DEF Written
    <3> DEFINE m == [id |-> NoId, method |-> "scalar"]
               ms == <<m>>
    <3>3. Asked(l) = ms /\ Len(ms) = 1 /\ ms[1] = m
      BY <2>2 DEF Asked
    <3>4. IsDue(m) /\ ReplyTo(m, r)
      BY DEF IsDue, ReplyTo, IdOf, r, Refusal, Reply, NoId
    <3> HIDE DEF r, m
    <3>5. Turn(ms, 0) = 0 /\ Turn(ms, 1) = 1
      <4>1. Turn(ms, 0) = 0 /\ Turn(ms, 0 + 1) = Turn(ms, 0) + (IF IsDue(ms[0 + 1]) THEN 1 ELSE 0)
        BY TurnCounts
      <4> QED
        BY <3>3, <3>4, <4>1
    <3>6. RepliesTo(<<r>>, ms, 1)
      BY <3>3, <3>4, <3>5 DEF RepliesTo
    <3>7. LET mm == Asked(line)'
          IN  IF Turn(mm, Len(mm)) = 0 THEN Written("line")' = {}
              ELSE Written("line")' = {Len(wire')} /\ RepliesTo(wire'[Len(wire')].items, mm, Len(mm))
      <4>1. Asked(line)' = ms
        BY <1>1, <3>3 DEF Asked
      <4> HIDE DEF ms
      <4>2. Turn(ms, Len(ms)) # 0 /\ RepliesTo(<<r>>, ms, Len(ms))
        BY <3>3, <3>5, <3>6
      <4>3. Len(wire') = 1 /\ wire'[Len(wire')].items = <<r>> /\ Written("line")' = {Len(wire')}
        BY <3>2
      <4> QED
        BY <4>1, <4>2, <4>3
    <3>8. Len(messages') = 0 /\ Len(messages') <= Len(line'.items)
      BY <1>1, <1>3, <3>1
    <3> HIDE DEF ms, entry
    <3> QED
      BY <1>2, <1>4, <2>1, <3>1, <3>2, <3>7, <3>8 DEF LineInv
  <2>3. CASE ~Unread(l)
    <3>1. messages' = l.items /\ wire' = <<>> /\ Written("line")' = {} /\ replies' = <<>> /\ call' = NoCall
      BY <1>1, <1>2, <2>3 DEF Written
    <3>2. Done' = 0 /\ ~Unread(line)' /\ Len(messages') = Len(line'.items)
      BY <1>1, <1>3, <2>3, <3>1 DEF Done, Unread
    <3>3. \A i \in 1 .. Len(messages') : messages'[i] = line'.items[Done' + i]
      BY <1>1, <3>1, <3>2
    <3>4. RepliesTo(<<>>, l.items, 0)
      <4>1. Turn(l.items, 0) = 0
        BY TurnCounts
      <4> QED
        BY <1>4, <4>1 DEF RepliesTo
    <3>5. messages' = <<>> => Turn(l.items, Len(l.items)) = 0
      <4>1. Turn(l.items, 0) = 0
        BY TurnCounts
      <4> QED
        BY <1>3, <3>1, <4>1, SeqHas
    <3>6. Asked(line)' = l.items
      BY <1>1, <2>3 DEF Asked, Unread
    <3> QED
      BY <1>1, <1>2, <1>3, <1>4, <2>1, <3>1, <3>2, <3>3, <3>4, <3>5, <3>6 DEF LineInv
  <2> QED
    BY <2>2, <2>3
<1>7. CallInv' /\ ProgressInv'
  BY <1>2, <1>5 DEF ProtocolInv, CallInv, ProgressInv, indexState, notifier
<1> QED
  BY <1>6, <1>7 DEF ProtocolInv
-----------------------------------------------------------------------------
(* While messages are left the line is one that was read.                  *)
LEMMA LineIsRead ==
  ASSUME LineInv, messages # <<>>
  PROVE  /\ ~Unread(line) /\ line \in Lines /\ IsSeq(line.items) /\ Len(line.items) \in Nat
         /\ DOMAIN line.items = 1 .. Len(line.items) /\ Asked(line) = line.items
         /\ IsSeq(messages) /\ Len(messages) \in Nat \ {0} /\ Head(messages) = messages[1]
         /\ Done \in Nat /\ Done + 1 \in 1 .. Len(line.items) /\ line.items[Done + 1] = Head(messages)
         /\ Done + Len(messages) = Len(line.items) /\ sends # 0
<1>1. ~Unread(line) /\ IsSeq(messages)
  BY DEF LineInv
<1>2. line \in Lines /\ sends # 0
  BY <1>1 DEF LineInv, NoLine, Unread
<1>3. IsSeq(line.items)
  BY <1>2, LinesAssumption DEF IsSeq
<1>4. Len(line.items) \in Nat /\ DOMAIN line.items = 1 .. Len(line.items)
  BY <1>3, SeqHas
<1>5. Len(messages) \in Nat \ {0} /\ Head(messages) = messages[1]
  BY <1>1, TailIsSeq
<1>6. Len(messages) <= Len(line.items) /\ \A i \in 1 .. Len(messages) : messages[i] = line.items[Done + i]
  BY DEF LineInv
<1>7. Done \in Nat /\ Done + 1 \in 1 .. Len(line.items) /\ Done + Len(messages) = Len(line.items)
  BY <1>4, <1>5, <1>6 DEF Done
<1>8. line.items[Done + 1] = Head(messages)
  BY <1>5, <1>6
<1> QED
  BY <1>1, <1>2, <1>3, <1>4, <1>5, <1>7, <1>8 DEF Asked

LEMMA ItemsAreSeq ==
  ASSUME LineInv
  PROVE  IsSeq(line.items)
<1>1. CASE line \in Lines
  BY <1>1, LinesAssumption DEF IsSeq
<1>2. CASE line = NoLine
  <2>1. line.items = <<>>
    BY <1>2 DEF NoLine
  <2> QED
    BY <2>1 DEF IsSeq
<1> QED
  BY <1>1, <1>2 DEF LineInv

LEMMA AnsweredKeeps ==
  ASSUME ProtocolInv, messages # <<>>, NEW answer, Answered(answer),
         \/ ~IsDue(Head(messages)) /\ answer = <<>>
         \/ \E r : IsDue(Head(messages)) /\ answer = <<r>> /\ ReplyTo(Head(messages), r),
         call' = NoCall, sent' = sent, sink' = NoToken, phase' = "none",
         UNCHANGED indexState
  PROVE  ProtocolInv'
<1> DEFINE items == line.items
           n == Done
           all == replies \o answer
<1>1. /\ ~Unread(line) /\ line \in Lines /\ sends # 0 /\ Len(items) \in Nat /\ Asked(line) = items
      /\ IsSeq(messages) /\ Len(messages) \in Nat \ {0}
      /\ n \in Nat /\ n + 1 \in 1 .. Len(items) /\ items[n + 1] = Head(messages)
      /\ n + Len(messages) = Len(items)
  BY LineIsRead DEF ProtocolInv
<1>2. /\ IsSeq(Tail(messages)) /\ Len(Tail(messages)) = Len(messages) - 1
      /\ \A i \in 1 .. Len(messages) - 1 : Tail(messages)[i] = messages[i + 1]
  BY <1>1, TailIsSeq
<1>3. /\ IsSeq(replies) /\ IsSeq(wire) /\ sends \in Nat
      /\ Written("line") = {} /\ RepliesTo(replies, items, n)
      /\ \A i \in 1 .. Len(messages) : messages[i] = items[n + i]
  BY DEF ProtocolInv, LineInv
<1>4. /\ messages' = Tail(messages) /\ line' = line /\ sends' = sends
      /\ replies' = IF Len(messages) = 1 THEN <<>> ELSE all
      /\ wire' = IF Len(messages) = 1 /\ all # <<>>
                 THEN Append(wire, [kind |-> "line", items |-> all]) ELSE wire
  BY DEF Answered
<1>5. IsSeq(all) /\ RepliesTo(all, items, n + 1)
  <2>1. /\ ~IsDue(items[n + 1]) => RepliesTo(replies, items, n + 1)
        /\ \A r : IsDue(items[n + 1]) /\ ReplyTo(items[n + 1], r) => RepliesTo(Append(replies, r), items, n + 1)
    <3> HIDE DEF n, items
    <3> QED
      BY <1>1, <1>3, RepliesGrow
  <2> HIDE DEF n, items
  <2>2. CASE ~IsDue(Head(messages)) /\ answer = <<>>
    <3>1. all = replies
      BY <1>3, <2>2, PutIsSeq
    <3> QED
      BY <1>1, <1>3, <2>1, <2>2, <3>1
  <2>3. CASE \E r : IsDue(Head(messages)) /\ answer = <<r>> /\ ReplyTo(Head(messages), r)
    <3>1. PICK r : IsDue(Head(messages)) /\ answer = <<r>> /\ ReplyTo(Head(messages), r)
      BY <2>3
    <3>2. all = Append(replies, r)
      BY <1>3, <3>1, PutIsSeq
    <3>3. IsSeq(Append(replies, r))
      BY <1>3, AppendIsSeq
    <3> QED
      BY <1>1, <2>1, <3>1, <3>2, <3>3
  <2> QED
    BY <2>2, <2>3
<1> HIDE DEF all
<1>6. /\ Len(messages') = Len(messages) - 1 /\ IsSeq(messages') /\ Len(messages') <= Len(line'.items)
      /\ Done' = n + 1
      /\ \A i \in 1 .. Len(messages') : messages'[i] = line'.items[Done' + i]
  <2>1. Len(messages') = Len(messages) - 1 /\ IsSeq(messages') /\ Len(messages') <= Len(line'.items)
    BY <1>1, <1>2, <1>4
  <2>2. Done' = n + 1
    BY <1>1, <1>4, <2>1 DEF Done
  <2>3. ASSUME NEW i \in 1 .. Len(messages')
        PROVE  messages'[i] = line'.items[Done' + i]
    <3>1. i \in 1 .. Len(messages) - 1 /\ i + 1 \in 1 .. Len(messages) /\ n + (i + 1) = Done' + i
      <4>1. Len(messages) \in Nat /\ n \in Nat
        BY <1>1
      <4> HIDE DEF n, items
      <4> QED
        BY <2>1, <2>2, <4>1
    <3>2. messages'[i] = messages[i + 1] /\ messages[i + 1] = items[n + (i + 1)]
      BY <1>2, <1>3, <1>4, <3>1
    <3> QED
      BY <1>4, <3>1, <3>2
  <2> QED
    BY <2>1, <2>2, <2>3
<1>7. /\ IsSeq(wire') /\ Written("progress")' = Written("progress")
      /\ \A i \in Written("progress") : wire'[i] = wire[i]
      /\ wire' = wire => Written("line")' = Written("line")
      /\ wire' # wire => Written("line")' = {Len(wire')} /\ wire'[Len(wire')].items = all
  <2>1. CASE wire' = wire
    BY <1>3, <2>1 DEF Written
  <2>2. CASE wire' = Append(wire, [kind |-> "line", items |-> all])
    <3> DEFINE entry == [kind |-> "line", items |-> all]
    <3>1. entry.kind = "line" /\ entry.items = all /\ "progress" # "line"
      OBVIOUS
    <3> HIDE DEF entry
    <3>2. wire' = Append(wire, entry)
      BY <2>2 DEF entry
    <3>3. /\ IsSeq(wire') /\ Len(wire') = Len(wire) + 1 /\ Len(wire) \in Nat
          /\ \A i \in 1 .. Len(wire) : wire'[i] = wire[i]
          /\ wire'[Len(wire) + 1] = entry
          /\ \A kind : Written(kind)' = Written(kind) \cup (IF entry.kind = kind THEN {Len(wire) + 1} ELSE {})
          /\ \A kind : Written(kind) \subseteq 1 .. Len(wire)
      BY <1>3, <3>2, WireGrows
    <3>4. Written("progress")' = Written("progress") /\ Written("line")' = {Len(wire')} /\ wire'[Len(wire')].items = all
      BY <1>3, <3>1, <3>3
    <3>5. wire' # wire
      <4>1. Len(wire') # Len(wire)
        BY <3>3
      <4> QED
        BY <4>1
    <3> QED
      BY <3>3, <3>4, <3>5
  <2> QED
    BY <1>4, <2>1, <2>2
<1>8. LineInv'
  <2>1. CASE Len(messages) = 1
    <3>1. Len(messages') = 0 /\ messages' = <<>> /\ replies' = <<>> /\ n + 1 = Len(items) /\ n + 1 \in Nat
      <4>1. Len(messages') = 0 /\ n + 1 = Len(items) /\ n + 1 \in Nat
        <5> HIDE DEF n, items
        <5> QED
          BY <1>1, <1>6, <2>1
      <4>2. messages' = <<>>
        BY <1>6, <4>1, SeqHas
      <4> QED
        BY <1>4, <2>1, <4>1, <4>2
    <3>2. wire' = wire <=> all = <<>>
      <4>1. CASE all = <<>>
        BY <1>4, <4>1
      <4>2. CASE all # <<>>
        <5>1. wire' = Append(wire, [kind |-> "line", items |-> all])
          BY <1>4, <2>1, <4>2
        <5>2. Len(wire') = Len(wire) + 1 /\ Len(wire) \in Nat
          BY <1>3, <5>1, AppendIsSeq, SeqHas
        <5>3. Len(wire') # Len(wire)
          BY <5>2
        <5> QED
          BY <4>2, <5>3
      <4> QED
        BY <4>1, <4>2
    <3>3. Len(all) = Turn(items, Len(items)) /\ (all = <<>> <=> Len(all) = 0)
      BY <1>5, <3>1, SeqHas DEF RepliesTo
    <3>4. IF Turn(items, Len(items)) = 0 THEN Written("line")' = {}
          ELSE Written("line")' = {Len(wire')} /\ RepliesTo(wire'[Len(wire')].items, items, Len(items))
      BY <1>3, <1>5, <1>7, <3>1, <3>2, <3>3
    <3>5. Asked(line)' = items /\ Unread(line)' = Unread(line)
      BY <1>1, <1>4 DEF Asked, Unread
    <3>6. IsSeq(<<>>)
      BY DEF IsSeq
    <3> HIDE DEF items, n
    <3> QED
      BY <1>1, <1>3, <1>4, <1>6, <1>7, <3>1, <3>4, <3>5, <3>6 DEF LineInv
  <2>2. CASE Len(messages) # 1
    <3>1. messages' # <<>> /\ replies' = all /\ wire' = wire
      <4>1. Len(messages') # 0
        BY <1>1, <1>6, <2>2
      <4>2. messages' # <<>>
        BY <1>6, <4>1, SeqHas
      <4> QED
        BY <1>4, <2>2, <4>2
    <3>2. Unread(line)' = Unread(line)
      BY <1>4 DEF Unread
    <3>3. RepliesTo(replies', line'.items, Done') /\ Written("line")' = {}
      BY <1>3, <1>4, <1>5, <1>6, <1>7, <3>1
    <3>4. IsSeq(replies')
      BY <1>5, <3>1
    <3> HIDE DEF items, n
    <3> QED
      BY <1>1, <1>3, <1>4, <1>6, <1>7, <3>1, <3>2, <3>3, <3>4 DEF LineInv
  <2> QED
    BY <2>1, <2>2
<1>9. CallInv'
  BY DEF ProtocolInv, CallInv, indexState
<1>10. ProgressInv'
  <2>1. Begun' = n + 1 /\ 1 .. Begun \subseteq 1 .. Begun'
    BY <1>1, <1>6 DEF Begun
  <2> HIDE DEF n, items
  <2>2. /\ \A i \in Written("progress") :
             /\ wire[i].value \in Int /\ wire[i].token # NoToken
             /\ \E j \in 1 .. Begun : line.items[j].method = "tools/call" /\ line.items[j].args.token = wire[i].token
        /\ \A i, j \in Written("progress") :
             i < j /\ wire[i].token = wire[j].token /\ wire[i].build = wire[j].build => wire[i].value < wire[j].value
    BY DEF ProtocolInv, ProgressInv
  <2>3. \A i \in Written("progress")' :
             /\ wire'[i].value \in Int /\ wire'[i].token # NoToken
             /\ \E j \in 1 .. Begun' : line'.items[j].method = "tools/call" /\ line'.items[j].args.token = wire'[i].token
    BY <1>4, <1>7, <2>1, <2>2
  <2>4. \A i, j \in Written("progress")' :
             i < j /\ wire'[i].token = wire'[j].token /\ wire'[i].build = wire'[j].build => wire'[i].value < wire'[j].value
    BY <1>7, <2>2
  <2>5. /\ sent = [value |-> sent.value, phase |-> sent.phase] /\ sent.value \in Int
        /\ sent.phase \in {"none", "scanning", "chunking", "model", "encoding"}
        /\ sent.phase # "none" => sent.value <= Scale(sent.phase)[2]
    BY DEF ProtocolInv, ProgressInv
  <2> QED
    BY <2>3, <2>4, <2>5 DEF ProgressInv
<1> QED
  BY <1>8, <1>9, <1>10 DEF ProtocolInv
-----------------------------------------------------------------------------
(* Answers to what needs no call, and those that end one.                  *)
LEMMA HandleKeeps == ProtocolInv /\ Handle => ProtocolInv'
<1> SUFFICES ASSUME ProtocolInv, Handle PROVE ProtocolInv'
  OBVIOUS
<1> DEFINE m == Head(messages)
           answer == CASE m.method = "scalar"     -> <<Refusal(Null)>>
                [] m.method # "scalar" /\ m.id = NoId -> <<>>
                [] m.method = "initialize" /\ m.id # NoId -> <<Reply(m.id, [of |-> "version", is |-> Version(m.asked)])>>
                [] m.method = "tools/list" /\ m.id # NoId -> <<Reply(m.id, [of |-> "tools", is |-> Modes])>>
                [] m.method = "ping" /\ m.id # NoId -> <<Reply(m.id, [of |-> "pong"])>>
                [] m.method = "unknown" /\ m.id # NoId -> <<Refusal(m.id)>>
<1>1. /\ messages # <<>> /\ call = NoCall /\ (m.method # "tools/call" \/ m.id = NoId) /\ Answered(answer)
      /\ UNCHANGED <<indexState, notifier, call, found>>
  BY DEF Handle
<1>2. m.method \in {"scalar", "initialize", "tools/list", "ping", "unknown", "tools/call"}
  <2>1. Done + 1 \in DOMAIN line.items /\ line.items[Done + 1] = m /\ line \in Lines
    BY <1>1, LineIsRead DEF ProtocolInv
  <2> HIDE DEF m
  <2> QED
    BY <2>1, LinesAssumption
<1> HIDE DEF m
<1>3. (~IsDue(m) /\ answer = <<>>) \/ \E r : IsDue(m) /\ answer = <<r>> /\ ReplyTo(m, r)
  <2>1. ASSUME NEW out, m.id # NoId, m.method # "scalar", m.method # "tools/call"
        PROVE  IsDue(m) /\ ReplyTo(m, Reply(m.id, out))
    BY <2>1 DEF IsDue, ReplyTo, IdOf, Reply
  <2>2. CASE m.method = "scalar"
    <3>1. answer = <<Refusal(Null)>>
      BY <2>2
    <3>2. IsDue(m) /\ ReplyTo(m, Refusal(Null))
      BY <2>2 DEF IsDue, ReplyTo, IdOf, Reply, Refusal
    <3> QED
      BY <3>1, <3>2
  <2>3. CASE m.method # "scalar" /\ m.id = NoId
    BY <2>3 DEF IsDue
  <2>4. CASE m.method = "initialize" /\ m.id # NoId
    <3>1. answer = <<Reply(m.id, [of |-> "version", is |-> Version(m.asked)])>>
      BY <2>4
    <3> HIDE DEF answer
    <3> QED
      BY <2>1, <2>4, <3>1
  <2>5. CASE m.method = "tools/list" /\ m.id # NoId
    <3>1. answer = <<Reply(m.id, [of |-> "tools", is |-> Modes])>>
      BY <2>5
    <3> HIDE DEF answer
    <3> QED
      BY <2>1, <2>5, <3>1
  <2>6. CASE m.method = "ping" /\ m.id # NoId
    <3>1. answer = <<Reply(m.id, [of |-> "pong"])>>
      BY <2>6
    <3> HIDE DEF answer
    <3> QED
      BY <2>1, <2>6, <3>1
  <2>7. CASE m.method = "unknown" /\ m.id # NoId
    <3>1. answer = <<Refusal(m.id)>>
      BY <2>7
    <3> HIDE DEF answer
    <3> QED
      BY <2>1, <2>7, <3>1 DEF Refusal
  <2> QED
    BY <1>1, <1>2, <2>2, <2>3, <2>4, <2>5, <2>6, <2>7
<1> HIDE DEF answer
<1>4. sink = NoToken /\ phase = "none"
  BY <1>1 DEF ProtocolInv, CallInv
<1>5. call' = NoCall /\ sent' = sent /\ sink' = NoToken /\ phase' = "none" /\ UNCHANGED indexState
  BY <1>1, <1>4 DEF notifier
<1> QED
  BY <1>1, <1>3, <1>5, AnsweredKeeps DEF m

LEMMA RefuseCallKeeps == ProtocolInv /\ RefuseCall => ProtocolInv'
<1> SUFFICES ASSUME ProtocolInv, RefuseCall PROVE ProtocolInv'
  OBVIOUS
<1> DEFINE m == Head(messages)
<1>1. /\ messages # <<>> /\ call = NoCall /\ m.method = "tools/call" /\ m.id # NoId
      /\ \/ m.tool = "none" /\ Answered(<<Refusal(m.id)>>)
         \/ m.tool # "none" /\ m.args.verbose = "bad" /\ Answered(<<Reply(m.id, Outcome("failure", "none", FALSE))>>)
      /\ UNCHANGED <<indexState, notifier, call, found>>
  BY DEF RefuseCall, Calls
<1> HIDE DEF m
<1>2. IsDue(m) /\ IdOf(m) = m.id
  BY <1>1 DEF IsDue, IdOf
<1>3. \E r : Answered(<<r>>) /\ ReplyTo(m, r)
  <2>1. CASE m.tool = "none" /\ Answered(<<Refusal(m.id)>>)
    <3>1. ReplyTo(m, Refusal(m.id))
      BY <1>2, <2>1 DEF ReplyTo, Refusal, Reply
    <3> QED
      BY <2>1, <3>1
  <2>2. CASE m.tool # "none" /\ m.args.verbose = "bad" /\ Answered(<<Reply(m.id, Outcome("failure", "none", FALSE))>>)
    <3> DEFINE out == Outcome("failure", "none", FALSE)
    <3>1. out.of = "failure" /\ out.builds = 0
      BY DEF Outcome
    <3> HIDE DEF out
    <3>2. AsAsked(m, out)
      BY <2>2, <3>1 DEF AsAsked
    <3>3. ReplyTo(m, Reply(m.id, out))
      BY <1>2, <3>2 DEF ReplyTo, Reply
    <3> QED
      BY <2>2, <3>3 DEF out
  <2> QED
    BY <1>1, <2>1, <2>2
<1>4. PICK r : Answered(<<r>>) /\ ReplyTo(m, r)
  BY <1>3
<1>5. sink = NoToken /\ phase = "none"
  BY <1>1 DEF ProtocolInv, CallInv
<1>6. call' = NoCall /\ sent' = sent /\ sink' = NoToken /\ phase' = "none" /\ UNCHANGED indexState
  BY <1>1, <1>5 DEF notifier
<1>7. Answered(<<r>>) /\ (\E q : IsDue(m) /\ <<r>> = <<q>> /\ ReplyTo(m, q))
  BY <1>2, <1>4
<1> QED
  BY <1>1, <1>6, <1>7, AnsweredKeeps DEF m

(* The call under way is the first message left.                           *)
LEMMA CallIs ==
  ASSUME ProtocolInv, call # NoCall
  PROVE  /\ Called /\ messages # <<>> /\ IsDue(Head(messages)) /\ IdOf(Head(messages)) = call.id
         /\ Head(messages).args = call.args /\ Head(messages).tool = call.tool
<1>1. Called
  BY DEF ProtocolInv, CallInv
<1> QED
  BY <1>1 DEF Called, IsDue, IdOf

LEMMA FinishKeeps ==
  ASSUME ProtocolInv, call # NoCall, UNCHANGED indexState, NEW of, NEW mode, NEW structured, Finish(of, mode, structured),
         AsAsked(Head(messages), Result(of, mode, structured))
  PROVE  ProtocolInv'
<1> DEFINE r == Reply(call.id, Result(of, mode, structured))
<1>1. Answered(<<r>>) /\ call' = NoCall /\ phase' = "none" /\ sink' = NoToken /\ sent' = sent
  BY DEF Finish
<1>2. messages # <<>> /\ IsDue(Head(messages)) /\ ReplyTo(Head(messages), r)
  <2>1. r.id = call.id /\ r.out = Result(of, mode, structured)
    BY DEF Reply
  <2> HIDE DEF r
  <2> QED
    BY <2>1, CallIs DEF ReplyTo
<1> HIDE DEF r
<1>3. \E q : IsDue(Head(messages)) /\ <<r>> = <<q>> /\ ReplyTo(Head(messages), q)
  BY <1>2
<1> QED
  BY <1>1, <1>2, <1>3, AnsweredKeeps
-----------------------------------------------------------------------------
(* How a call ends.                                                        *)
LEMMA ResultIs ==
  ASSUME NEW of, NEW mode, NEW structured
  PROVE  /\ Result(of, mode, structured).of = of /\ Result(of, mode, structured).mode = mode
         /\ Result(of, mode, structured).structured = structured /\ Result(of, mode, structured).builds = call.builds
         /\ Result(of, mode, structured).last = Diagnosed /\ Result(of, mode, structured).sound = ~invalid
  BY DEF Result, Outcome

LEMMA WithoutHits ==
  ASSUME ProtocolInv, call # NoCall, UNCHANGED <<indexState, found>>, NEW of, of # "hits",
         call.tool = "search_code" /\ ~call.args.valid => of = "failure", Finish(of, "none", FALSE)
  PROVE  ProtocolInv'
<1> DEFINE out == Result(of, "none", FALSE)
<1>1. out.of = of /\ out.builds = call.builds /\ out.last = Diagnosed
  BY DEF Result, Outcome
<1> HIDE DEF out
<1>2. /\ Called /\ Head(messages).args = call.args /\ Head(messages).tool = call.tool
  BY CallIs
<1>3. call.tool = "search_code" /\ ~call.args.valid => out.of = "failure" /\ out.builds = 0
  BY <1>1, <1>2 DEF Called
<1>4. call.args.verbose = "yes" /\ call.tool = "search_code" => out.last = [mode |-> call.args.mode, success |-> FALSE]
  BY <1>1, <1>2 DEF Called, Diagnosed
<1>5. (out.of = "hits") = FALSE
  BY <1>1
<1>6. AsAsked(Head(messages), out)
  BY <1>2, <1>3, <1>4, <1>5 DEF AsAsked
<1> QED
  BY <1>6, FinishKeeps DEF out

LEMMA FailureKeeps ==
  ASSUME ProtocolInv, call # NoCall, CallFails
  PROVE  ProtocolInv'
<1>1. UNCHANGED <<indexState, found>> /\ Finish("failure", "none", FALSE) /\ "failure" # "hits"
  BY DEF CallFails
<1> QED
  BY <1>1, WithoutHits

LEMMA ReportStatusKeeps == ProtocolInv /\ ReportStatus => ProtocolInv'
<1> SUFFICES ASSUME ProtocolInv, ReportStatus PROVE ProtocolInv'
  OBVIOUS
<1>1. call.stage = "report" /\ UNCHANGED <<indexState, found>> /\ Finish("status", "none", FALSE)
  BY DEF ReportStatus
<1>2. call # NoCall
  BY <1>1 DEF NoCall
<1>3. call.tool = "search_code" /\ ~call.args.valid => "status" = "failure"
  BY <1>1, <1>2, CallIs DEF Called
<1> QED
  BY <1>1, <1>2, <1>3, WithoutHits

LEMMA SuccessKeeps ==
  ASSUME ProtocolInv, call.stage = "retrieve", Unmatched \/ Lexically \/ HybridEnabled, Succeeds(EffectiveMode)
  PROVE  ProtocolInv'
<1> DEFINE out == Result("hits", EffectiveMode, call.args.structured)
<1>1. /\ found' = [mode |-> call.args.mode, success |-> TRUE] /\ UNCHANGED indexState
      /\ Finish("hits", EffectiveMode, call.args.structured)
  BY DEF Succeeds
<1>2. /\ out.of = "hits" /\ out.mode = EffectiveMode /\ out.structured = call.args.structured /\ out.builds = call.builds
      /\ out.last = Diagnosed /\ out.sound = ~invalid
  BY ResultIs
<1> HIDE DEF out
<1>3. call # NoCall
  BY DEF NoCall
<1>4. /\ Called /\ Head(messages).args = call.args /\ Head(messages).tool = call.tool
  BY <1>3, CallIs
<1>5. /\ call.tool = "search_code" /\ call.args.valid
      /\ ~(WantsVectors /\ HybridEnabled /\ invalid)
  BY <1>4 DEF Called
<1>6. call.args.mode \in {"auto", out.mode}
  BY <1>2 DEF EffectiveMode
<1>7. out.mode # "lexical" => IF Embeds THEN out.sound ELSE call.args.glob = "unmatched"
  <2> SUFFICES ASSUME out.mode # "lexical"
               PROVE  IF Embeds THEN out.sound ELSE call.args.glob = "unmatched"
    OBVIOUS
  <2>1. WantsVectors /\ ~Lexically
    BY <1>2, <1>5 DEF WantsVectors, EffectiveMode, Lexically
  <2>2. invalid \in BOOLEAN /\ (invalid => indexed = "hybrid")
    BY DEF ProtocolInv, CallInv
  <2>3. CASE Embeds
    <3>1. ~invalid
      BY <1>5, <2>1, <2>2, <2>3 DEF HybridEnabled
    <3>2. out.sound
      BY <1>2, <3>1, Zenon
    <3> QED
      BY <2>3, <3>2
  <2>4. CASE ~Embeds
    BY <2>1, <2>4 DEF HybridEnabled, Unmatched
  <2> QED
    BY <2>3, <2>4
<1>8. call.args.verbose = "yes" => out.last = [mode |-> call.args.mode, success |-> out.of = "hits"]
  <2>1. call.args.verbose = "yes" => out.last = [mode |-> call.args.mode, success |-> TRUE]
    BY <1>1, <1>2 DEF Diagnosed
  <2>2. (out.of = "hits") = TRUE
    BY <1>2
  <2> QED
    BY <2>1, <2>2
<1>9. AsAsked(Head(messages), out)
  BY <1>2, <1>4, <1>5, <1>6, <1>7, <1>8 DEF AsAsked
<1> QED
  BY <1>1, <1>3, <1>9, FinishKeeps DEF out

LEMMA RetrieveKeeps == ProtocolInv /\ Retrieve => ProtocolInv'
<1> SUFFICES ASSUME ProtocolInv, Retrieve PROVE ProtocolInv'
  OBVIOUS
<1>1. call.stage = "retrieve" /\ call # NoCall
  BY DEF Retrieve, NoCall
<1>2. CASE (Unmatched \/ Lexically \/ HybridEnabled) /\ Succeeds(EffectiveMode)
  BY <1>1, <1>2, SuccessKeeps
<1>3. CASE CallFails
  BY <1>1, <1>3, FailureKeeps
<1> QED
  BY <1>2, <1>3 DEF Retrieve
-----------------------------------------------------------------------------
(* How a call goes on: lines, answers and what was told stay as they are.  *)
LEMMA GoesOn ==
  ASSUME ProtocolInv, call # NoCall, UNCHANGED <<lineState, sink, sent>>,
         Called', indexed' \in {"none", "lexical", "hybrid"}, latest' \in {"none", "lexical", "hybrid"},
         invalid' \in BOOLEAN /\ (invalid' => indexed' = "hybrid"),
         phase' \in {phase, "none", "scanning"}, call.builds \in Nat /\ call'.builds \in Nat,
         \/ call'.builds = call.builds /\ phase' \in {phase, "none"}
         \/ call'.builds = call.builds + 1
  PROVE  ProtocolInv'
<1>1. UNCHANGED <<line, messages, replies, wire, sends>>
  BY DEF lineState
<1>2. call' # NoCall /\ messages # <<>>
  <2>1. call'.stage \in Stages
    BY DEF Called
  <2> QED
    BY <2>1, CallIs DEF Stages, NoCall
<1>3. LineInv'
  BY <1>1, <1>2 DEF ProtocolInv, LineInv, Done, Written, RepliesTo
<1>4. CallInv'
  BY <1>2 DEF CallInv
<1>5. Begun' = Begun /\ \A kind : Written(kind)' = Written(kind)
  BY <1>1, <1>2 DEF Begun, Done, Written
<1>6. /\ sent = [value |-> sent.value, phase |-> sent.phase] /\ sent.value \in Int
      /\ sent.phase \in {"none", "scanning", "chunking", "model", "encoding"}
      /\ sent.phase # "none" => sent.value <= Scale(sent.phase)[2]
      /\ phase \in Phases \cup {"none"}
      /\ \A i \in Written("progress") :
           /\ wire[i].value \in Int /\ wire[i].token # NoToken
           /\ \E j \in 1 .. Begun : line.items[j].method = "tools/call" /\ line.items[j].args.token = wire[i].token
      /\ \A i, j \in Written("progress") :
           i < j /\ wire[i].token = wire[j].token /\ wire[i].build = wire[j].build => wire[i].value < wire[j].value
  BY DEF ProtocolInv, ProgressInv
<1>7. sink # NoToken =>
       /\ \A i \in Written("progress") :
            wire[i].token = sink =>
              /\ wire[i].build \in 1 .. call.builds
              /\ wire[i].build = call.builds /\ phase # "none" => phase # "scanning" /\ wire[i].value <= sent.value
       /\ phase = "chunking" => sent.phase = "scanning"
       /\ phase = "model" => sent.phase = "chunking"
       /\ phase = "encode0" => sent.phase \in {"chunking", "model", "encoding"}
       /\ phase \in {"encode1", "encode2"} => sent.phase = "encoding"
  BY DEF ProtocolInv, ProgressInv
<1>8. phase' \in Phases \cup {"none"}
  BY <1>6 DEF Phases
<1>9. ASSUME NEW i \in Written("progress"), sink # NoToken, wire[i].token = sink
      PROVE  /\ wire[i].build \in 1 .. call'.builds
             /\ wire[i].build = call'.builds /\ phase' # "none" => phase' # "scanning" /\ wire[i].value <= sent.value
  <2>1. /\ wire[i].build \in 1 .. call.builds
        /\ wire[i].build = call.builds /\ phase # "none" => phase # "scanning" /\ wire[i].value <= sent.value
    BY <1>7, <1>9
  <2>2. CASE call'.builds = call.builds /\ phase' \in {phase, "none"}
    BY <2>1, <2>2
  <2>3. CASE call'.builds = call.builds + 1
    BY <2>1, <2>3
  <2> QED
    BY <2>2, <2>3
<1>10. ProgressInv'
  BY <1>1, <1>5, <1>6, <1>7, <1>8, <1>9 DEF ProgressInv
<1> QED
  BY <1>3, <1>4, <1>10 DEF ProtocolInv

LEMMA BeginCallKeeps == ProtocolInv /\ BeginCall => ProtocolInv'
<1> SUFFICES ASSUME ProtocolInv, BeginCall PROVE ProtocolInv'
  OBVIOUS
<1> DEFINE m == Head(messages)
<1>1. /\ messages # <<>> /\ call = NoCall /\ m.method = "tools/call" /\ m.id # NoId
      /\ m.tool # "none" /\ m.args.verbose # "bad"
      /\ call' = [stage |-> m.tool, id |-> m.id, args |-> m.args, builds |-> 0, then |-> "none", tool |-> m.tool]
      /\ found' = IF m.tool = "search_code" THEN [mode |-> m.args.mode, success |-> FALSE] ELSE found
      /\ IF m.args.token # NoToken
         THEN sink' = m.args.token /\ sent' = [value |-> -100, phase |-> "none"]
         ELSE sink' = sink /\ sent' = sent
      /\ UNCHANGED <<indexed, invalid, outdated, latest, mishaps, line, messages, replies, wire, sends, phase>>
  BY DEF BeginCall, Calls, indexState, lineState
<1>2. /\ line \in Lines /\ DOMAIN line.items = 1 .. Len(line.items) /\ Len(line.items) \in Nat
      /\ Done \in Nat /\ Done + 1 \in 1 .. Len(line.items) /\ line.items[Done + 1] = m
  BY <1>1, LineIsRead DEF ProtocolInv
<1>3. m.tool \in {"search_code", "index_status", "reindex", "unknown"}
  <2> HIDE DEF m
  <2> QED
    BY <1>1, <1>2, LinesAssumption
<1> HIDE DEF m
<1>4. sink = NoToken /\ phase = "none"
  BY <1>1 DEF ProtocolInv, CallInv
<1>5. sink' = m.args.token /\ phase' = "none"
  BY <1>1, <1>4
<1>6. call'.stage = m.tool /\ call' # NoCall /\ call'.tool = m.tool /\ call'.args = m.args /\ call'.builds = 0 /\ call'.id = m.id
  BY <1>1, <1>3 DEF NoCall
<1>7. LineInv'
  BY <1>1 DEF ProtocolInv, LineInv, Done, Written, RepliesTo
<1>8. Called'
  <2>1. CallShape'
    BY <1>1 DEF CallShape
  <2>2. Head(messages)' = m /\ messages' # <<>>
    BY <1>1 DEF m
  <2>3. found' = IF m.tool = "search_code" THEN [mode |-> m.args.mode, success |-> FALSE] ELSE found
    BY <1>1
  <2>4. m.method = "tools/call" /\ m.id # NoId /\ m.tool # "none" /\ m.args.verbose # "bad"
    BY <1>1
  <2> QED
    BY <1>3, <1>5, <1>6, <2>1, <2>2, <2>3, <2>4 DEF Called, Stages
<1>9. CallInv'
  <2>1. UNCHANGED <<indexed, latest, invalid>>
    BY <1>1
  <2> QED
    BY <1>6, <1>8, <2>1 DEF ProtocolInv, CallInv
<1>10. ProgressInv'
  <2>1. Written("progress")' = Written("progress") /\ Begun = Done /\ Begun' = Done + 1 /\ line' = line /\ wire' = wire
    <3>1. line' = line /\ wire' = wire /\ messages' = messages
      BY <1>1
    <3>2. Written("progress")' = Written("progress") /\ Done' = Done
      BY <3>1 DEF Written, Done
    <3>3. Begun = Done + 0 /\ Begun' = Done' + 1
      BY <1>1, <1>6 DEF Begun
    <3> HIDE DEF Done
    <3> QED
      BY <1>2, <3>1, <3>2, <3>3
  <2>2. /\ \A i \in Written("progress") :
             /\ wire[i].value \in Int /\ wire[i].token # NoToken
             /\ \E j \in 1 .. Begun : line.items[j].method = "tools/call" /\ line.items[j].args.token = wire[i].token
        /\ \A i, j \in Written("progress") :
             i < j /\ wire[i].token = wire[j].token /\ wire[i].build = wire[j].build => wire[i].value < wire[j].value
    BY DEF ProtocolInv, ProgressInv
  <2>3. ASSUME NEW i \in Written("progress")
        PROVE  /\ \E j \in 1 .. Done + 1 : line.items[j].method = "tools/call" /\ line.items[j].args.token = wire[i].token
               /\ wire[i].token # m.args.token
    <3>1. PICK j \in 1 .. Done : line.items[j].method = "tools/call" /\ line.items[j].args.token = wire[i].token
      BY <2>1, <2>2
    <3>2. j \in 1 .. Done + 1 /\ j \in DOMAIN line.items /\ Done + 1 \in DOMAIN line.items /\ j # Done + 1
      <4> HIDE DEF Done
      <4> QED
        BY <1>2
    <3>3. wire[i].token # NoToken
      BY <2>2
    <3>4. line.items[Done + 1].method = "tools/call" /\ line.items[Done + 1].args.token = m.args.token
      BY <1>1, <1>2
    <3> QED
      BY <1>2, <3>1, <3>2, <3>3, <3>4, LinesAssumption
  <2>4. /\ sent' = [value |-> sent'.value, phase |-> sent'.phase] /\ sent'.value \in Int
        /\ sent'.phase \in {"none", "scanning", "chunking", "model", "encoding"}
        /\ sent'.phase # "none" => sent'.value <= Scale(sent'.phase)[2]
    <3>1. /\ sent = [value |-> sent.value, phase |-> sent.phase] /\ sent.value \in Int
          /\ sent.phase \in {"none", "scanning", "chunking", "model", "encoding"}
          /\ sent.phase # "none" => sent.value <= Scale(sent.phase)[2]
      BY DEF ProtocolInv, ProgressInv
    <3> DEFINE low == -100
    <3>2. low \in Int
      OBVIOUS
    <3>3. sent' = sent \/ sent' = [value |-> low, phase |-> "none"]
      BY <1>1
    <3> HIDE DEF low
    <3> QED
      BY <3>1, <3>2, <3>3
  <2>5. ASSUME NEW i \in Written("progress")
        PROVE  wire[i].token # sink'
    BY <1>5, <2>3
  <2> QED
    BY <1>5, <2>1, <2>2, <2>3, <2>4, <2>5 DEF ProgressInv
<1> QED
  BY <1>7, <1>9, <1>10 DEF ProtocolInv
-----------------------------------------------------------------------------
(* The steps of a call.                                                    *)
LEMMA IndexOK ==
  ASSUME ProtocolInv
  PROVE  /\ indexed \in {"none", "lexical", "hybrid"} /\ latest \in {"none", "lexical", "hybrid"}
         /\ invalid \in BOOLEAN /\ (invalid => indexed = "hybrid")
  BY DEF ProtocolInv, CallInv

(* A call that goes to another stage is of what it was.                    *)
LEMMA GoesIs ==
  ASSUME Called, NEW stage, Goes(stage)
  PROVE  /\ CallShape' /\ call'.stage = stage /\ call'.id = call.id /\ call'.args = call.args
         /\ call'.builds = call.builds /\ call'.then = call.then /\ call'.tool = call.tool
  BY DEF Called, CallShape, Goes

LEMMA DispatchKeeps == ProtocolInv /\ Dispatch => ProtocolInv'
<1> SUFFICES ASSUME ProtocolInv, Dispatch PROVE ProtocolInv'
  OBVIOUS
<1>1. call # NoCall
  BY DEF Dispatch, NoCall
<1>2. Called
  BY <1>1, CallIs
<1>3. ASSUME NEW stage \in {"fresh", "report"}, call.stage \in {"search_code", "index_status"}, Goes(stage),
             call.stage = "search_code" => Accepted /\ stage = "fresh",
             UNCHANGED <<indexState, lineState, notifier, found>>
      PROVE  ProtocolInv'
  <2>1. /\ CallShape' /\ call'.stage = stage /\ call'.id = call.id /\ call'.args = call.args
        /\ call'.builds = call.builds /\ call'.then = call.then /\ call'.tool = call.tool
    BY <1>2, <1>3, GoesIs
  <2>2. UNCHANGED <<messages, found, sink, sent, phase, lineState, indexed, invalid, latest>>
    BY <1>3 DEF notifier, lineState, indexState
  <2>3. call.tool = call.stage
    BY <1>2, <1>3 DEF Called
  <2>4. Called'
    BY <1>2, <1>3, <2>1, <2>2, <2>3 DEF Called, Stages, Accepted
  <2>5. call.builds \in Nat
    BY <1>2 DEF Called
  <2> QED
    BY <1>1, <2>1, <2>2, <2>4, <2>5, IndexOK, GoesOn
<1>4. CASE /\ call.stage = "reindex"
           /\ outdated' = TRUE /\ phase' = "scanning"
           /\ call' = [call EXCEPT !.stage = "building", !.then = "report", !.builds = 1]
           /\ UNCHANGED <<indexed, invalid, latest, mishaps, lineState, sink, sent, found>>
  <2>1. /\ CallShape' /\ call'.stage = "building" /\ call'.id = call.id /\ call'.args = call.args
        /\ call'.builds = 1 /\ call'.then = "report" /\ call'.tool = call.tool
    BY <1>2, <1>4 DEF Called, CallShape
  <2>2. call.builds = 0 /\ call.tool = "reindex"
    BY <1>2, <1>4 DEF Called
  <2>3. messages' = messages
    BY <1>4 DEF lineState
  <2>4. Called'
    BY <1>2, <1>4, <2>1, <2>2, <2>3 DEF Called, Stages
  <2>5. call'.builds = call.builds + 1 /\ call.builds \in Nat /\ call'.builds \in Nat
    BY <2>1, <2>2
  <2> QED
    BY <1>1, <1>4, <2>4, <2>5, IndexOK, GoesOn
<1>5. CASE CallFails
  BY <1>1, <1>5, FailureKeeps
<1>6. CASE /\ call.stage = "search_code" /\ Accepted
           /\ Goes("fresh") /\ UNCHANGED <<indexState, lineState, notifier, found>>
  BY <1>3, <1>6
<1>7. CASE /\ call.stage = "index_status"
           /\ Goes(IF call.args.valid THEN "fresh" ELSE "report") /\ UNCHANGED <<indexState, lineState, notifier, found>>
  <2>1. PICK stage \in {"fresh", "report"} : Goes(stage)
    BY <1>7
  <2> QED
    BY <1>3, <1>7, <2>1
<1> QED
  BY <1>4, <1>5, <1>6, <1>7 DEF Dispatch

LEMMA BuildBreaksKeeps == ProtocolInv /\ BuildBreaks => ProtocolInv'
<1> SUFFICES ASSUME ProtocolInv, BuildBreaks PROVE ProtocolInv'
  OBVIOUS
<1>1. call # NoCall /\ CallFails
  BY DEF BuildBreaks, NoCall
<1> QED
  BY <1>1, FailureKeeps

LEMMA BuildEndsKeeps == ProtocolInv /\ BuildEnds => ProtocolInv'
<1> SUFFICES ASSUME ProtocolInv, BuildEnds PROVE ProtocolInv'
  OBVIOUS
<1>1. call.stage = "building" /\ call # NoCall
  BY DEF BuildEnds, NoCall
<1>2. Called
  BY <1>1, CallIs
<1>3. /\ phase' = "none" /\ Goes(call.then) /\ UNCHANGED <<lineState, sink, sent, found>>
      /\ indexed' \in {"none", "lexical", "hybrid"} /\ latest' \in {"none", "lexical", "hybrid"}
  BY DEF BuildEnds
<1>4. invalid' \in BOOLEAN /\ (invalid' => indexed' = "hybrid")
  <2>1. indexed' = (IF Embeds THEN "hybrid" ELSE "lexical") /\ invalid' \in {FALSE, Embeds} /\ Embeds \in BOOLEAN
    BY ProtocolAssumption DEF BuildEnds
  <2>2. CASE Embeds
    <3>1. indexed' = "hybrid"
      BY <2>1, <2>2
    <3>2. invalid' \in BOOLEAN
      BY <2>1, Zenon
    <3> QED
      BY <3>1, <3>2
  <2>3. CASE ~Embeds
    <3>1. Embeds = FALSE
      BY <2>1, <2>3, Zenon
    <3>2. invalid' = FALSE
      BY <2>1, <3>1, Zenon
    <3> QED
      BY <3>2, Zenon
  <2> QED
    BY <2>2, <2>3
<1>5. /\ CallShape' /\ call'.stage = call.then /\ call'.id = call.id /\ call'.args = call.args
      /\ call'.builds = call.builds /\ call'.then = call.then /\ call'.tool = call.tool
  BY <1>2, <1>3, GoesIs
<1>6. messages' = messages /\ found' = found /\ sink' = sink
  BY <1>3 DEF lineState
<1>7. call.then \in {"repair", "check", "report"} /\ (call.then = "check" => call.tool = "search_code")
      /\ ~(call.tool = "search_code" /\ ~call.args.valid) /\ call.builds \in Nat
  BY <1>1, <1>2 DEF Called
<1>8. Called'
  BY <1>2, <1>3, <1>5, <1>6, <1>7 DEF Called, Stages
<1> QED
  BY <1>1, <1>3, <1>4, <1>5, <1>7, <1>8, GoesOn

(* A build that a call begins.                                             *)
LEMMA BuildsIs ==
  ASSUME Called, NEW then \in {"repair", "check"}, Builds(then), then = "check" => call.tool = "search_code",
         call.stage \in {"fresh", "repair"}, UNCHANGED <<messages, found, sink>>
  PROVE  Called' /\ call'.builds = call.builds + 1 /\ phase' = "scanning"
<1>1. /\ CallShape' /\ call'.stage = "building" /\ call'.id = call.id /\ call'.args = call.args
      /\ call'.builds = call.builds + 1 /\ call'.then = then /\ call'.tool = call.tool /\ phase' = "scanning"
  BY DEF Called, CallShape, Builds
<1> QED
  BY <1>1 DEF Called, Stages

LEMMA FreshenKeeps == ProtocolInv /\ FreshenIndex => ProtocolInv'
<1> SUFFICES ASSUME ProtocolInv, FreshenIndex PROVE ProtocolInv'
  OBVIOUS
<1>1. call.stage = "fresh" /\ call # NoCall /\ UNCHANGED <<mishaps, lineState, sink, sent, found>>
  BY DEF FreshenIndex, NoCall
<1>2. Called
  BY <1>1, CallIs
<1>3. messages' = messages /\ found' = found /\ sink' = sink /\ call.builds \in Nat
  BY <1>1, <1>2 DEF lineState, Called
<1>4. ~(call.tool = "search_code" /\ ~call.args.valid)
  BY <1>1, <1>2 DEF Called
<1>5. CASE Builds("repair") /\ UNCHANGED <<indexed, invalid, latest>>
  <2>1. Called' /\ call'.builds = call.builds + 1 /\ phase' = "scanning"
    BY <1>1, <1>2, <1>3, <1>5, BuildsIs
  <2>2. call'.builds \in Nat
    BY <1>3, <2>1
  <2> QED
    BY <1>1, <1>3, <1>5, <2>1, <2>2, IndexOK, GoesOn
<1>6. ASSUME Goes("repair"), phase' = phase, indexed' \in {"none", "lexical", "hybrid"}, latest' \in {"none", "lexical", "hybrid"},
             invalid' \in BOOLEAN /\ (invalid' => indexed' = "hybrid")
      PROVE  ProtocolInv'
  <2>1. /\ CallShape' /\ call'.stage = "repair" /\ call'.id = call.id /\ call'.args = call.args
        /\ call'.builds = call.builds /\ call'.then = call.then /\ call'.tool = call.tool
    BY <1>2, <1>6, GoesIs
  <2>2. Called'
    BY <1>1, <1>2, <1>3, <1>4, <1>6, <2>1 DEF Called, Stages
  <2> QED
    BY <1>1, <1>3, <1>6, <2>1, <2>2, GoesOn
<1>7. CASE /\ latest # "none"
           /\ indexed' = latest /\ latest' = "none" /\ invalid' \in {FALSE, latest = "hybrid"}
           /\ Goes("repair") /\ UNCHANGED <<outdated, phase>>
  <2>1. latest \in {"none", "lexical", "hybrid"}
    BY IndexOK
  <2>2. invalid' \in BOOLEAN /\ (invalid' => indexed' = "hybrid")
    <3>1. CASE latest = "hybrid"
      <4>1. indexed' = "hybrid"
        BY <1>7, <3>1
      <4>2. invalid' \in BOOLEAN
        BY <1>7, Zenon
      <4> QED
        BY <4>1, <4>2
    <3>2. CASE latest # "hybrid"
      <4>1. (latest = "hybrid") = FALSE
        BY <3>2
      <4>2. invalid' = FALSE
        BY <1>7, <4>1, Zenon
      <4> QED
        BY <4>2, Zenon
    <3> QED
      BY <3>1, <3>2
  <2>3. indexed' \in {"none", "lexical", "hybrid"} /\ latest' \in {"none", "lexical", "hybrid"}
    BY <1>7, <2>1
  <2>4. Goes("repair") /\ phase' = phase
    BY <1>7
  <2> QED
    BY <1>6, <2>2, <2>3, <2>4
<1>8. CASE Goes("repair") /\ UNCHANGED <<indexed, invalid, outdated, latest, phase>>
  <2>1. UNCHANGED <<indexed, invalid, latest, phase>> /\ Goes("repair")
    BY <1>8
  <2> QED
    BY <1>6, <2>1, IndexOK
<1> QED
  BY <1>5, <1>7, <1>8 DEF FreshenIndex

LEMMA RepairKeeps == ProtocolInv /\ Repair => ProtocolInv'
<1> SUFFICES ASSUME ProtocolInv, Repair PROVE ProtocolInv'
  OBVIOUS
<1>1. call.stage \in {"repair", "check"} /\ call # NoCall
  BY DEF Repair, NoCall
<1>2. Called
  BY <1>1, CallIs
<1>3. call.builds \in Nat /\ ~(call.tool = "search_code" /\ ~call.args.valid)
  BY <1>1, <1>2 DEF Called
<1>4. ASSUME NEW stage \in {"retrieve", "report"}, Goes(stage), UNCHANGED <<indexState, lineState, notifier, found>>,
             stage = "retrieve" => call.tool = "search_code" /\ ~(WantsVectors /\ HybridEnabled /\ invalid)
      PROVE  ProtocolInv'
  <2>1. /\ CallShape' /\ call'.stage = stage /\ call'.id = call.id /\ call'.args = call.args
        /\ call'.builds = call.builds /\ call'.then = call.then /\ call'.tool = call.tool
    BY <1>2, <1>4, GoesIs
  <2>2. UNCHANGED <<messages, found, sink, sent, phase, lineState, indexed, invalid, latest>>
    BY <1>4 DEF notifier, lineState, indexState
  <2>3. (WantsVectors /\ HybridEnabled /\ invalid)' <=> WantsVectors /\ HybridEnabled /\ invalid
    BY <2>1, <2>2 DEF WantsVectors, HybridEnabled
  <2>4. Called'
    BY <1>1, <1>2, <1>3, <1>4, <2>1, <2>2, <2>3 DEF Called, Stages
  <2> QED
    BY <1>1, <1>3, <2>1, <2>2, <2>4, IndexOK, GoesOn
<1>5. CASE /\ call.stage = "repair" /\ WantsVectors /\ HybridEnabled /\ invalid /\ Builds("check")
           /\ UNCHANGED <<indexState, lineState, sink, sent, found>>
  <2>1. messages' = messages /\ found' = found /\ sink' = sink /\ call.tool = "search_code"
    BY <1>5 DEF lineState, WantsVectors
  <2>2. Called' /\ call'.builds = call.builds + 1 /\ phase' = "scanning"
    BY <1>2, <1>5, <2>1, BuildsIs
  <2>3. call'.builds \in Nat /\ UNCHANGED <<indexed, invalid, latest>>
    BY <1>3, <1>5, <2>2 DEF indexState
  <2> QED
    BY <1>1, <1>3, <1>5, <2>2, <2>3, IndexOK, GoesOn
<1>6. CASE /\ call.stage = "repair" /\ ~(WantsVectors /\ HybridEnabled /\ invalid)
           /\ Goes(IF call.tool = "search_code" THEN "retrieve" ELSE "report") /\ UNCHANGED phase
           /\ UNCHANGED <<indexState, lineState, sink, sent, found>>
  <2>1. UNCHANGED <<indexState, lineState, notifier, found>>
    BY <1>6 DEF notifier
  <2> QED
    BY <1>4, <1>6, <2>1
<1>7. CASE /\ call.stage = "check" /\ ~invalid
           /\ Goes("retrieve") /\ UNCHANGED <<indexState, lineState, notifier, found>>
  <2>1. call.tool = "search_code"
    BY <1>2, <1>7 DEF Called
  <2> QED
    BY <1>4, <1>7, <2>1
<1>8. CASE CallFails
  BY <1>1, <1>8, FailureKeeps
<1> QED
  BY <1>5, <1>6, <1>7, <1>8 DEF Repair
-----------------------------------------------------------------------------
(* What a build reports.                                                   *)
LEMMA MaxOfTwo ==
  ASSUME NEW a \in Int, NEW b \in Int
  PROVE  Max({a, b}) \in {a, b} /\ Max({a, b}) >= a /\ Max({a, b}) >= b
<1> DEFINE IsMax(x) == x \in {a, b} /\ \A y \in {a, b} : x >= y
<1>1. \E x : IsMax(x)
  <2>1. CASE a >= b
    <3>1. IsMax(a)
      BY <2>1
    <3> QED
      BY <3>1
  <2>2. CASE b >= a
    <3>1. IsMax(b)
      BY <2>2
    <3> QED
      BY <3>1
  <2> QED
    BY <2>1, <2>2
<1>2. Max({a, b}) = CHOOSE x : IsMax(x)
  BY DEF Max
<1> HIDE DEF IsMax
<1>3. IsMax(Max({a, b}))
  BY <1>1, <1>2
<1> QED
  BY <1>3 DEF IsMax

(* What is told is in the range of its phase, more than before unless the  *)
(* phase before was a later one.                                           *)
LEMMA ToldIs ==
  ASSUME NEW p \in {"scanning", "chunking", "model", "encoding"}, NEW done \in 0 .. 2, NEW total \in {0, 2},
         total = 0 => done = 0,
         sent.value \in Int, sent.phase \in {"none", "scanning", "chunking", "model", "encoding"},
         sent.phase # "none" => sent.value <= Scale(sent.phase)[2],
         NEW value \in Told(p, done, total)
  PROVE  /\ value \in Int /\ value <= Scale(p)[2]
         /\ sent.phase = p \/ (sent.phase # "none" /\ Scale(sent.phase)[2] <= Scale(p)[1]) => value > sent.value
<1> DEFINE lo == Scale(p)[1]
           hi == Scale(p)[2]
           own == lo + (IF total = 0 THEN 0 ELSE ((hi - lo) * done) \div total)
           top == Max({own, sent.value})
<1>1. lo \in Int /\ hi \in Int /\ lo < hi
  BY DEF Scale
<1>2. own \in Int /\ own <= hi
  <2>1. CASE p = "scanning"
    <3>1. lo = 0 /\ hi = 100
      BY <2>1 DEF Scale
    <3> HIDE DEF lo, hi
    <3> QED
      BY <3>1
  <2>2. CASE p = "chunking"
    <3>1. lo = 100 /\ hi = 400
      BY <2>2 DEF Scale
    <3> HIDE DEF lo, hi
    <3> QED
      BY <3>1
  <2>3. CASE p = "model"
    <3>1. lo = 400 /\ hi = 600
      BY <2>3 DEF Scale
    <3> HIDE DEF lo, hi
    <3> QED
      BY <3>1
  <2>4. CASE p = "encoding"
    <3>1. lo = 600 /\ hi = 9900
      BY <2>4 DEF Scale
    <3> HIDE DEF lo, hi
    <3> QED
      BY <3>1
  <2> QED
    BY <2>1, <2>2, <2>3, <2>4
<1>3. value \in IF sent.phase = p THEN (IF top > sent.value THEN {top} ELSE {})
                ELSE {IF top > sent.value THEN top ELSE Min({sent.value + 1, hi})}
  BY DEF Told
<1>4. sent.phase # "none" => Scale(sent.phase)[2] \in Int
  BY DEF Scale
<1> HIDE DEF lo, hi, own
<1>5. top \in {own, sent.value} /\ top >= own /\ top >= sent.value
  BY <1>2, MaxOfTwo
<1> HIDE DEF top
<1>6. Min({sent.value + 1, hi}) \in {sent.value + 1, hi} /\ Min({sent.value + 1, hi}) <= hi
  <2>1. sent.value + 1 \in Int
    OBVIOUS
  <2> QED
    BY <1>1, <2>1, MinOfTwo
<1>7. top > sent.value => top = own /\ top <= hi
  BY <1>2, <1>5
<1>8. value \in Int /\ value <= hi
  BY <1>1, <1>2, <1>3, <1>6, <1>7
<1>9. ASSUME sent.phase = p \/ (sent.phase # "none" /\ Scale(sent.phase)[2] <= lo)
      PROVE  value > sent.value
  <2>1. CASE sent.phase = p
    BY <1>2, <1>3, <1>5, <1>8, <2>1
  <2>2. CASE sent.phase # "none" /\ Scale(sent.phase)[2] <= lo
    <3>1. sent.value < hi
      BY <1>1, <1>4, <2>2
    <3> QED
      BY <1>1, <1>2, <1>3, <1>5, <1>6, <3>1
  <2> QED
    BY <1>9, <2>1, <2>2
<1> QED
  BY <1>8, <1>9 DEF lo, hi

LEMMA ReportIs ==
  ASSUME NEW p, NEW done, NEW total, Report(p, done, total)
  PROVE  /\ UNCHANGED <<line, messages, replies, sends, sink>>
         /\ \/ /\ sink # NoToken
               /\ \E value \in Told(p, done, total) :
                    /\ sent' = [value |-> value, phase |-> p]
                    /\ wire' = Append(wire, [kind |-> "progress", token |-> sink, value |-> value, build |-> call.builds])
            \/ wire' = wire /\ sent' = sent /\ (sink # NoToken => sent.phase = p)
<1>1. UNCHANGED <<line, messages, replies, sends, sink>>
  BY DEF Report, lineState
<1>2. CASE UNCHANGED <<lineState, sink, sent>> /\ (sink = NoToken \/ Told(p, done, total) = {} \/ sent.phase = p)
  <2>1. Told(p, done, total) = {} => sent.phase = p
    BY DEF Told
  <2> QED
    BY <1>1, <1>2, <2>1 DEF lineState
<1> QED
  BY <1>1, <1>2 DEF Report

LEMMA BuildReportsKeeps == ProtocolInv /\ BuildReports => ProtocolInv'
<1> SUFFICES ASSUME ProtocolInv, BuildReports PROVE ProtocolInv'
  OBVIOUS
<1>1. /\ call.stage = "building" /\ call # NoCall /\ phase \notin {"none", "done"} /\ phase' \in After(phase)
      /\ UNCHANGED <<indexState, call, found>>
  BY DEF BuildReports, NoCall
<1>2. Called /\ sink = call.args.token /\ call.builds \in Nat
  BY <1>1, CallIs DEF Called
<1>3. phase \in {"scanning", "chunking", "model", "encode0", "encode1", "encode2"}
  BY <1>1 DEF ProtocolInv, ProgressInv, Phases
<1>4. phase' \in Phases /\ phase' # "none" /\ phase' # "scanning"
  BY <1>1, <1>3 DEF After, Phases
<1>5. PICK p \in {"scanning", "chunking", "model", "encoding"}, done \in 0 .. 2, total \in {0, 2} :
        /\ total = 0 => done = 0
        /\ p = (IF phase \in {"encode0", "encode1", "encode2"} THEN "encoding" ELSE phase)
        /\ Report(p, done, total)
  <2>1. CASE phase \in {"scanning", "chunking", "model"}
    <3>1. Report(phase, 0, IF phase = "chunking" THEN 2 ELSE 0) /\ 0 \in 0 .. 2
      BY <2>1 DEF BuildReports
    <3> QED
      BY <2>1, <3>1
  <2>2. CASE phase \in {"encode0", "encode1", "encode2"}
    <3>1. Report("encoding", Encoded(phase), 2) /\ Encoded(phase) \in 0 .. 2
      BY <2>2 DEF BuildReports, Encoded
    <3> QED
      BY <2>2, <3>1
  <2> QED
    BY <1>3, <2>1, <2>2
<1>6. /\ UNCHANGED <<line, messages, replies, sends, sink, call>>
      /\ \/ /\ sink # NoToken
            /\ \E value \in Told(p, done, total) :
                 /\ sent' = [value |-> value, phase |-> p]
                 /\ wire' = Append(wire, [kind |-> "progress", token |-> sink, value |-> value, build |-> call.builds])
         \/ wire' = wire /\ sent' = sent /\ (sink # NoToken => sent.phase = p)
  <2>1. UNCHANGED call
    BY <1>1
  <2>2. Report(p, done, total)
    BY <1>5
  <2> QED
    BY <2>1, <2>2, ReportIs
<1>7. /\ sent = [value |-> sent.value, phase |-> sent.phase] /\ sent.value \in Int
      /\ sent.phase \in {"none", "scanning", "chunking", "model", "encoding"}
      /\ sent.phase # "none" => sent.value <= Scale(sent.phase)[2]
      /\ \A i \in Written("progress") :
           /\ wire[i].value \in Int /\ wire[i].token # NoToken
           /\ \E j \in 1 .. Begun : line.items[j].method = "tools/call" /\ line.items[j].args.token = wire[i].token
      /\ \A i, j \in Written("progress") :
           i < j /\ wire[i].token = wire[j].token /\ wire[i].build = wire[j].build => wire[i].value < wire[j].value
  BY DEF ProtocolInv, ProgressInv
<1>8. sink # NoToken =>
       /\ \A i \in Written("progress") :
            wire[i].token = sink =>
              /\ wire[i].build \in 1 .. call.builds
              /\ wire[i].build = call.builds => phase # "scanning" /\ wire[i].value <= sent.value
       /\ phase = "chunking" => sent.phase = "scanning"
       /\ phase = "model" => sent.phase = "chunking"
       /\ phase = "encode0" => sent.phase \in {"chunking", "model", "encoding"}
       /\ phase \in {"encode1", "encode2"} => sent.phase = "encoding"
  BY <1>1 DEF ProtocolInv, ProgressInv
<1>9. CallInv'
  <2>1. Called'
    <3>1. UNCHANGED <<messages, found, sink, call>> /\ (WantsVectors /\ HybridEnabled /\ invalid)' = (WantsVectors /\ HybridEnabled /\ invalid)
      BY <1>1, <1>6 DEF indexState, WantsVectors, HybridEnabled
    <3> QED
      BY <1>1, <1>2, <1>4, <3>1 DEF Called, CallShape
  <2> QED
    BY <1>1, <2>1, IndexOK DEF CallInv, indexState
(* What was told last is of this phase, for whoever listens.               *)
<1>10. sink # NoToken /\ sent'.phase = p =>
        /\ phase' = "chunking" => sent'.phase = "scanning"
        /\ phase' = "model" => sent'.phase = "chunking"
        /\ phase' = "encode0" => sent'.phase \in {"chunking", "model", "encoding"}
        /\ phase' \in {"encode1", "encode2"} => sent'.phase = "encoding"
  BY <1>1, <1>3, <1>5 DEF After
<1>11. CASE wire' = wire /\ sent' = sent /\ (sink # NoToken => sent.phase = p)
  <2>1. \A kind : Written(kind)' = Written(kind)
    BY <1>11 DEF Written
  <2>2. LineInv'
    BY <1>6, <1>11, <2>1 DEF ProtocolInv, LineInv, Done, RepliesTo
  <2>3. Begun' = Begun
    BY <1>6 DEF Begun, Done
  <2>4. ProgressInv'
    BY <1>4, <1>6, <1>7, <1>8, <1>10, <1>11, <2>1, <2>3 DEF ProgressInv
  <2> QED
    BY <1>9, <2>2, <2>4 DEF ProtocolInv
<1>12. ASSUME NEW value \in Told(p, done, total), sink # NoToken, sent' = [value |-> value, phase |-> p],
              wire' = Append(wire, [kind |-> "progress", token |-> sink, value |-> value, build |-> call.builds])
       PROVE  ProtocolInv'
  <2> DEFINE entry == [kind |-> "progress", token |-> sink, value |-> value, build |-> call.builds]
             k == Len(wire) + 1
  <2>1. entry.kind = "progress" /\ entry.token = sink /\ entry.value = value /\ entry.build = call.builds /\ "progress" # "line"
    OBVIOUS
  <2> HIDE DEF entry
  <2>2. wire' = Append(wire, entry)
    BY <1>12 DEF entry
  <2>3. IsSeq(wire)
    BY DEF ProtocolInv, LineInv
  <2>4. /\ IsSeq(wire') /\ Len(wire') = k /\ Len(wire) \in Nat /\ wire'[k] = entry
        /\ \A i \in 1 .. Len(wire) : wire'[i] = wire[i]
        /\ \A kind : Written(kind)' = Written(kind) \cup (IF entry.kind = kind THEN {k} ELSE {})
        /\ \A kind : Written(kind) \subseteq 1 .. Len(wire)
    BY <2>2, <2>3, WireGrows
  <2>5. Written("line")' = Written("line") /\ Written("progress")' = Written("progress") \cup {k}
    BY <2>1, <2>4
  <2>6. \A i \in Written("progress") : wire'[i] = wire[i] /\ i < k /\ i # k
    BY <2>4
  <2>7. messages # <<>>
    BY <1>1, CallIs
  <2>8. LineInv'
    BY <1>6, <2>4, <2>5, <2>7 DEF ProtocolInv, LineInv, Done, RepliesTo
  <2>9. value \in Int /\ value <= Scale(p)[2] /\ (phase # "scanning" => value > sent.value)
    <3>1. /\ value \in Int /\ value <= Scale(p)[2]
          /\ sent.phase = p \/ (sent.phase # "none" /\ Scale(sent.phase)[2] <= Scale(p)[1]) => value > sent.value
      BY <1>5, <1>7, <1>12, ToldIs
    <3>2. phase # "scanning" => sent.phase = p \/ (sent.phase # "none" /\ Scale(sent.phase)[2] <= Scale(p)[1])
      BY <1>3, <1>5, <1>8, <1>12 DEF Scale
    <3> QED
      BY <3>1, <3>2
  <2>10. /\ sent'.value = value /\ sent'.phase = p /\ sent' = [value |-> sent'.value, phase |-> sent'.phase]
         /\ sent'.value \in Int /\ sent'.phase \in {"none", "scanning", "chunking", "model", "encoding"}
         /\ sent'.phase # "none" => sent'.value <= Scale(sent'.phase)[2]
    BY <1>5, <1>12, <2>9
  <2>11. Begun' = Begun /\ Begun = Done + 1 /\ Begun \in 1 .. Begun
         /\ line.items[Begun].method = "tools/call" /\ line.items[Begun].args.token = sink
    <3>1. Done \in Nat /\ line.items[Done + 1] = Head(messages)
      BY <2>7, LineIsRead DEF ProtocolInv
    <3>2. Begun = Done + 1
      BY <1>1 DEF Begun
    <3>3. Begun' = Begun
      BY <1>6 DEF Begun, Done
    <3>4. Head(messages).method = "tools/call" /\ Head(messages).args.token = sink
      BY <1>2 DEF Called
    <3> HIDE DEF Done
    <3> QED
      BY <3>1, <3>2, <3>3, <3>4
  <2>12. ASSUME NEW i \in Written("progress")'
         PROVE  /\ wire'[i].value \in Int /\ wire'[i].token # NoToken
                /\ \E j \in 1 .. Begun' : line'.items[j].method = "tools/call" /\ line'.items[j].args.token = wire'[i].token
    <3>1. CASE i \in Written("progress")
      BY <1>6, <1>7, <2>6, <2>11, <3>1
    <3>2. CASE i = k
      BY <1>6, <1>12, <2>1, <2>4, <2>9, <2>11, <3>2
    <3> QED
      BY <2>5, <3>1, <3>2
  <2>13. ASSUME NEW i \in Written("progress"), wire[i].token = sink
         PROVE  /\ wire[i].build \in 1 .. call.builds
                /\ wire[i].build = call.builds => wire[i].value <= value /\ wire[i].value < value
    BY <1>7, <1>8, <1>12, <2>9, <2>13
  <2>14. ASSUME NEW i \in Written("progress")', NEW j \in Written("progress")',
                i < j, wire'[i].token = wire'[j].token, wire'[i].build = wire'[j].build
         PROVE  wire'[i].value < wire'[j].value
    <3>1. CASE i \in Written("progress") /\ j \in Written("progress")
      BY <1>7, <2>6, <2>14, <3>1
    <3>2. CASE i \in Written("progress") /\ j = k
      BY <2>1, <2>4, <2>6, <2>13, <2>14, <3>2
    <3>3. ~(i = k)
      <4>1. j \in 1 .. k
        BY <2>4, <2>5
      <4> QED
        BY <2>4, <2>14, <4>1
    <3> QED
      BY <2>5, <3>1, <3>2, <3>3
  <2>15. ASSUME NEW i \in Written("progress")', wire'[i].token = sink'
         PROVE  /\ wire'[i].build \in 1 .. call'.builds
                /\ wire'[i].build = call'.builds /\ phase' # "none" => phase' # "scanning" /\ wire'[i].value <= sent'.value
    <3>1. CASE i \in Written("progress")
      BY <1>4, <1>6, <2>6, <2>10, <2>13, <2>15, <3>1
    <3>2. CASE i = k
      <4>1. call.builds \in 1 .. call.builds
        BY <1>1, <1>2 DEF Called
      <4> QED
        BY <1>4, <1>6, <2>1, <2>4, <2>9, <2>10, <3>2, <4>1
    <3> QED
      BY <2>5, <3>1, <3>2
  <2>16. ProgressInv'
    BY <1>4, <1>6, <1>10, <1>12, <2>10, <2>12, <2>14, <2>15 DEF ProgressInv
  <2> QED
    BY <1>9, <2>8, <2>16 DEF ProtocolInv
<1> QED
  BY <1>6, <1>11, <1>12
-----------------------------------------------------------------------------
LEMMA ProtocolNextKeeps == ProtocolInv /\ [ProtocolNext]_protocolVars => ProtocolInv'
<1> SUFFICES ASSUME ProtocolInv, [ProtocolNext]_protocolVars PROVE ProtocolInv'
  OBVIOUS
<1>1. CASE UNCHANGED protocolVars
  <2>1. UNCHANGED <<lineState, notifier, call, found>> /\ UNCHANGED <<indexed, invalid, latest>>
    BY <1>1 DEF protocolVars, indexState
  <2>2. call # NoCall => Called'
    <3> SUFFICES ASSUME call # NoCall PROVE Called'
      OBVIOUS
    <3>1. Called /\ UNCHANGED <<messages, found, sink, call, phase>>
      BY <2>1, CallIs DEF lineState, notifier
    <3>2. (WantsVectors /\ HybridEnabled /\ invalid)' = (WantsVectors /\ HybridEnabled /\ invalid)
      BY <2>1, <3>1 DEF WantsVectors, HybridEnabled
    <3> QED
      BY <3>1, <3>2 DEF Called, CallShape
  <2> QED
    BY <2>1, <2>2, IndexOK, RestKeeps DEF ProtocolInv
<1>2. CASE ProtocolNext
  BY <1>2, MishapKeeps, ReadLineKeeps, HandleKeeps, RefuseCallKeeps, BeginCallKeeps, DispatchKeeps, BuildReportsKeeps,
     BuildBreaksKeeps, BuildEndsKeeps, FreshenKeeps, RepairKeeps, RetrieveKeeps, ReportStatusKeeps DEF ProtocolNext
<1> QED
  BY <1>1, <1>2

(* The invariant of the protocol: which messages of a line are handled and *)
(* how each was answered, what a call under way may count on, and what a   *)
(* build has told so far.                                                  *)
THEOREM ProtocolInvariance == ProtocolSpec => []ProtocolInv
  BY InitProtocol, ProtocolNextKeeps, PTL DEF ProtocolSpec

(* Every line is answered by its ids, no token hears anything but its own  *)
(* growing progress, and searches are answered as they asked.              *)
THEOREM ProtocolStaysSound == ProtocolSpec => []ProtocolIsSound
<1>1. ProtocolInv => ProtocolIsSound
  <2> SUFFICES ASSUME ProtocolInv PROVE ProtocolIsSound
    OBVIOUS
  <2>1. ASSUME AtRest, sends > 0
        PROVE  LET ms == Asked(line)
               IN  IF Turn(ms, Len(ms)) = 0 THEN Written("line") = {}
                   ELSE Written("line") = {Len(wire)} /\ RepliesTo(wire[Len(wire)].items, ms, Len(ms))
    BY <2>1 DEF ProtocolInv, LineInv, AtRest
  <2>2. DOMAIN Asked(line) = 1 .. Len(Asked(line)) /\ Len(Asked(line)) \in Nat
    <3>1. CASE Unread(line)
      <4>1. Asked(line) = <<[id |-> NoId, method |-> "scalar"]>>
        BY <3>1 DEF Asked
      <4> DEFINE e == [id |-> NoId, method |-> "scalar"]
      <4> HIDE DEF e
      <4>2. Len(<<e>>) = 1 /\ DOMAIN <<e>> = 1 .. 1
        OBVIOUS
      <4> QED
        BY <4>1, <4>2 DEF e
    <3>2. CASE ~Unread(line)
      <4>1. line \in Lines
        BY <3>2 DEF ProtocolInv, LineInv, NoLine, Unread
      <4>2. IsSeq(line.items)
        BY <4>1, LinesAssumption DEF IsSeq
      <4> QED
        BY <3>2, <4>2, SeqHas DEF Asked
    <3> QED
      BY <3>1, <3>2
  <2>3. AnsweredByIds
    BY <2>1, <2>2 DEF AnsweredByIds, RepliesTo, ReplyTo
  <2>4. ProgressIncreases
    <3>1. \A i \in Written("progress") : \E j \in DOMAIN line.items :
            line.items[j].method = "tools/call" /\ line.items[j].args.token = wire[i].token
      <4>1. ASSUME NEW i \in Written("progress")
            PROVE  \E j \in DOMAIN line.items : line.items[j].method = "tools/call" /\ line.items[j].args.token = wire[i].token
        <5>1. PICK j \in 1 .. Begun : line.items[j].method = "tools/call" /\ line.items[j].args.token = wire[i].token
          BY DEF ProtocolInv, ProgressInv
        <5>2. 1 .. Begun \subseteq DOMAIN line.items
          <6>1. CASE messages # <<>>
            BY <6>1, LineIsRead DEF ProtocolInv, Begun
          <6>2. CASE messages = <<>>
            <7>1. call = NoCall /\ Len(messages) = 0 /\ Begun = Len(line.items)
              <8>1. call = NoCall /\ Len(messages) = 0
                BY <6>2 DEF ProtocolInv, LineInv
              <8>2. IsSeq(line.items)
                BY ItemsAreSeq DEF ProtocolInv
              <8>3. Len(line.items) \in Nat
                BY <8>2, SeqHas
              <8> QED
                BY <8>1, <8>3 DEF Begun, Done
            <7>2. DOMAIN line.items = 1 .. Len(line.items)
              <8>1. IsSeq(line.items)
                BY ItemsAreSeq DEF ProtocolInv
              <8> QED
                BY <8>1, SeqHas
            <7> QED
              BY <7>1, <7>2
          <6> QED
            BY <6>1, <6>2
        <5> QED
          BY <5>1, <5>2
      <4> QED
        BY <4>1
    <3>2. AtRest => sink = NoToken
      BY DEF ProtocolInv, CallInv, AtRest
    <3> QED
      BY <3>1, <3>2 DEF ProtocolInv, ProgressInv, ProgressIncreases
  <2>5. SearchesAsAsked
    <3> SUFFICES ASSUME AtRest, NEW i \in DOMAIN Asked(line), Asked(line)[i].method = "tools/call",
                        Asked(line)[i].id # NoId, Asked(line)[i].tool # "none", NEW k \in Written("line")
                 PROVE  AsAsked(Asked(line)[i], wire[k].items[Turn(Asked(line), i)].out)
      BY DEF SearchesAsAsked
    <3>1. IsDue(Asked(line)[i])
      BY DEF IsDue
    <3>2. sends > 0
      <4> SUFFICES ASSUME ~(sends > 0) PROVE FALSE
        OBVIOUS
      <4>1. sends = 0 /\ line = NoLine
        BY DEF ProtocolInv, LineInv
      <4> DEFINE e == [id |-> NoId, method |-> "scalar"]
      <4>2. Asked(line) = <<e>>
        BY <4>1 DEF Asked, Unread, NoLine
      <4>3. e.method # "tools/call"
        OBVIOUS
      <4> HIDE DEF e
      <4>4. DOMAIN <<e>> = 1 .. 1 /\ <<e>>[1] = e
        OBVIOUS
      <4> QED
        BY <4>2, <4>3, <4>4
    <3>3. k = Len(wire) /\ RepliesTo(wire[Len(wire)].items, Asked(line), Len(Asked(line)))
      BY <2>1, <3>2
    <3> QED
      BY <2>2, <3>1, <3>3 DEF RepliesTo, ReplyTo
  <2> QED
    BY <2>3, <2>4, <2>5 DEF ProtocolIsSound
<1> QED
  BY <1>1, ProtocolInvariance, PTL

-----------------------------------------------------------------------------
(* The command line: which index, which ranking. *)

Names    == STRING \cup {"nowhere", ".."}
Steps    == {"none", "look", "settle", "wait", "open", "load", "answered", "refused", "failed", "unindexed", "later"}
Rankings == {"hybrid", "semantic", "rerank", "bm25"}
Asking ==
  [step : Steps, here : Places \cup {Nowhere}, given : Places \cup {Nowhere}, rooted : BOOLEAN, asked : Rankings,
   at : Seq(Names), dir : Places \cup {Nowhere}, opened : {"none", "lexical", "embedded"}, mode : Rankings,
   loaded : BOOLEAN]

CommandTypeOK ==
  /\ semantic \in BOOLEAN /\ stirs \in 0 .. MaxStirs
  /\ shelf \in [Places -> {"none", "lexical", "embedded"}]
  /\ keeper \in [Places -> {"none", "starting", "building", "idle"}]
  /\ search \in Asking /\ stood \subseteq Places /\ kept \subseteq Places
  /\ search.step = "none" => search = Unasked
  /\ search.step \notin {"none", "failed"} => search.here \in Places

(* No index that stood since the search began is further down than where   *)
(* it looks, nor any at all once it has looked everywhere.                 *)
LookedInv ==
  /\ \A d \in stood : Exists(d)
  /\ \A d \in kept : Watched(d)
  /\ search.given # Nowhere => search.dir = search.given
  /\ search.step \in {"look", "wait", "unindexed", "later"} => search.dir = Nowhere /\ search.given = Nowhere
  /\ search.step = "look" => /\ IsPrefix(search.at, search.here)
                             /\ \A d \in Enclosing(stood, search.here) : Len(d) <= Len(search.at)
  /\ search.step \in {"wait", "unindexed", "later"} => Enclosing(stood, search.here) = {}

(* A search that opens an index ranks as asked, or by words where it may.  *)
Bare == ~semantic \/ search.opened = "lexical"
RankedInv ==
  /\ search.step \in {"look", "wait", "settle", "open"} => search.mode = search.asked /\ search.loaded
  /\ search.step = "load" =>
       /\ search.loaded /\ search.opened # "none"
       /\ search.mode = IF Bare THEN "bm25" ELSE search.asked
       /\ Bare => search.asked \in {"bm25", "hybrid"}

CommandInv == CommandTypeOK /\ LookedInv /\ NonePassedOver /\ NotToldToIndex /\ RankedInv /\ RankedAsAsked

LEMMA PartOf ==
  ASSUME NEW S, NEW s \in Seq(S), NEW m \in 1 .. Len(s) + 1, NEW n \in m - 1 .. Len(s)
  PROVE  /\ SubSeq(s, m, n) \in Seq(S) /\ Len(SubSeq(s, m, n)) = n - m + 1
         /\ \A i \in 1 .. n - m + 1 : SubSeq(s, m, n)[i] = s[m + i - 1]
<1>1. Len(s) \in Nat /\ \A i \in m .. n : s[i] \in S
  BY LenProperties, ElementOfSeq
<1> QED
  BY <1>1, SubSeqProperties

LEMMA FirstOf ==
  ASSUME NEW S, NEW s \in Seq(S), NEW n \in 0 .. Len(s)
  PROVE  /\ SubSeq(s, 1, n) \in Seq(S) /\ Len(SubSeq(s, 1, n)) = n
         /\ \A i \in 1 .. n : SubSeq(s, 1, n)[i] = s[i]
<1>1. Len(s) \in Nat /\ 1 \in 1 .. Len(s) + 1 /\ n \in 1 - 1 .. Len(s) /\ n - 1 + 1 = n
  BY LenProperties
<1>2. /\ SubSeq(s, 1, n) \in Seq(S) /\ Len(SubSeq(s, 1, n)) = n - 1 + 1
      /\ \A i \in 1 .. n - 1 + 1 : SubSeq(s, 1, n)[i] = s[1 + i - 1]
  BY <1>1, PartOf
<1> QED
  BY <1>1, <1>2

(* Prefixes of one path that are as long are one.                          *)
LEMMA SamePrefix ==
  ASSUME NEW s \in Seq(Names), NEW t \in Seq(Names), NEW u \in Seq(Names),
         IsPrefix(s, u), IsPrefix(t, u), Len(s) = Len(t)
  PROVE  s = t
<1>1. s = SubSeq(s, 1, Len(s)) /\ t = SubSeq(t, 1, Len(t))
  BY SubSeqFull
<1> QED
  BY <1>1 DEF IsPrefix

LEMMA FrontPrefix ==
  ASSUME NEW s \in Seq(Names), NEW u \in Seq(Names), IsPrefix(s, u), s # <<>>
  PROVE  Front(s) \in Seq(Names) /\ Len(Front(s)) = Len(s) - 1 /\ IsPrefix(Front(s), u)
<1>1. Len(s) \in Nat \ {0} /\ Len(u) \in Nat /\ Len(s) <= Len(u)
  BY EmptySeq, LenProperties DEF IsPrefix
<1>2. \A i \in 1 .. Len(s) : s[i] = u[i]
  <2>1. s = SubSeq(u, 1, Len(s))
    BY SubSeqFull DEF IsPrefix
  <2>2. \A i \in 1 .. Len(s) : SubSeq(u, 1, Len(s))[i] = u[i]
    BY <1>1, FirstOf
  <2> QED
    BY <2>1, <2>2
<1>3. /\ Front(s) \in Seq(Names) /\ Len(Front(s)) = Len(s) - 1
      /\ \A i \in 1 .. Len(s) - 1 : Front(s)[i] = s[i]
  <2>1. Len(s) - 1 \in 0 .. Len(s)
    BY <1>1
  <2> QED
    BY <1>1, <2>1, FirstOf DEF Front
<1>4. /\ SubSeq(u, 1, Len(s) - 1) \in Seq(Names) /\ Len(SubSeq(u, 1, Len(s) - 1)) = Len(s) - 1
      /\ \A i \in 1 .. Len(s) - 1 : SubSeq(u, 1, Len(s) - 1)[i] = u[i]
  <2>1. Len(s) - 1 \in 0 .. Len(u)
    BY <1>1
  <2> QED
    BY <1>1, <2>1, FirstOf
<1>5. Front(s) = SubSeq(u, 1, Len(s) - 1)
  <2>1. \A i \in 1 .. Len(Front(s)) : Front(s)[i] = SubSeq(u, 1, Len(s) - 1)[i]
    BY <1>1, <1>2, <1>3, <1>4
  <2> QED
    BY <1>3, <1>4, <2>1, SeqEqual
<1>6. SubSeq(Front(s), 1, Len(Front(s))) = Front(s)
  BY <1>3, SubSeqFull
<1> QED
  BY <1>1, <1>3, <1>5, <1>6 DEF IsPrefix

LEMMA PlacesAreSeqs ==
  /\ Places \subseteq Seq(Names) /\ Nowhere \notin Places /\ Nowhere \in Seq(Names)
  /\ \A d \in Places : d # Nowhere /\ Len(d) \in Nat /\ IsPrefix(d, d)
<1>1. Places \subseteq Seq(Names) /\ Nowhere \notin Places
  BY PlacesAssumption, SeqMonotonic DEF Names
<1>2. Nowhere \in Seq(Names)
  BY DEF Nowhere, Names
<1> QED
  BY <1>1, <1>2, LenProperties DEF IsPrefix

LEMMA InitCommand == CommandInit => CommandInv
<1> SUFFICES ASSUME CommandInit PROVE CommandInv
  OBVIOUS
<1>1. search \in Asking /\ search = Unasked
  BY PlacesAreSeqs DEF CommandInit, Unasked, Asking, Steps, Rankings
<1>2. CommandTypeOK
  BY <1>1, PlacesAssumption DEF CommandInit, CommandTypeOK, Unasked
<1>3. LookedInv /\ NonePassedOver /\ NotToldToIndex /\ RankedInv /\ RankedAsAsked
  BY <1>1 DEF CommandInit, LookedInv, NonePassedOver, NotToldToIndex, RankedInv, RankedAsAsked, Unasked, Answers
<1> QED
  BY <1>2, <1>3 DEF CommandInv

(* What others do takes an index or a watcher away only with its mark.     *)
LEMMA OthersKeep ==
  ASSUME CommandInv, NEW d \in Places,
         SessionStart(d) \/ BuildBegins(d) \/ BuildReturns(d) \/ KeeperEnds(d) \/ IndexRepo(d) \/ Vanish(d)
  PROVE  CommandInv'
<1>1. UNCHANGED <<semantic, search>> /\ stood' \subseteq stood /\ kept' \subseteq kept
  BY DEF SessionStart, BuildBegins, BuildReturns, KeeperEnds, IndexRepo, Vanish
<1>2. CommandTypeOK
  BY DEF CommandInv
<1>3. Nearest(Enclosing(Worktrees, d)) \in Places \/ ~SessionStart(d)
  <2>1. CASE SessionStart(d)
    <3> DEFINE W == Enclosing(Worktrees, d)
    <3>1. W # {} /\ W \subseteq Places
      BY <2>1, PlacesAssumption DEF SessionStart, Enclosing
    <3>2. \A e \in W : IsPrefix(e, d) /\ Len(e) \in Nat /\ Len(e) <= Len(d) /\ Len(d) \in Nat
      BY <3>1, PlacesAreSeqs DEF Enclosing, IsPrefix
    <3> DEFINE L == {Len(e) : e \in W}
    <3>3. L \in SUBSET Int /\ L # {} /\ IsFiniteSet(L)
      <4>1. L \subseteq 0 .. Len(d)
        BY <3>2
      <4>2. IsFiniteSet(0 .. Len(d))
        BY PlacesAreSeqs, FS_Interval
      <4>3. L # {}
        BY <3>1
      <4> HIDE DEF L
      <4>4. IsFiniteSet(L)
        BY <4>1, <4>2, FS_Subset
      <4> QED
        BY <4>1, <4>3, <4>4
    <3>4. PICK m \in L : \A x \in L : x <= m
      BY <3>3, MaxOfFinite
    <3>5. \E e \in W : \A g \in W : Len(g) <= Len(e)
      BY <3>4
    <3> QED
      BY <3>1, <3>5 DEF Nearest
  <2> QED
    BY <2>1
<1>4. /\ shelf' \in [Places -> {"none", "lexical", "embedded"}]
      /\ keeper' \in [Places -> {"none", "starting", "building", "idle"}]
      /\ stirs' \in 0 .. MaxStirs
  <2>1. /\ shelf \in [Places -> {"none", "lexical", "embedded"}]
        /\ keeper \in [Places -> {"none", "starting", "building", "idle"}]
        /\ stirs \in 0 .. MaxStirs /\ MaxStirs \in Nat
    BY <1>2, PlacesAssumption DEF CommandTypeOK
  <2>2. stirs' = stirs \/ Stir
    BY DEF SessionStart, BuildBegins, BuildReturns, KeeperEnds, IndexRepo, Vanish
  <2>3. stirs' \in 0 .. MaxStirs
    BY <2>1, <2>2 DEF Stir
  <2>4. shelf' \in [Places -> {"none", "lexical", "embedded"}]
    BY <2>1 DEF SessionStart, BuildBegins, BuildReturns, KeeperEnds, IndexRepo, Vanish, Rankable
  <2>5. keeper' \in [Places -> {"none", "starting", "building", "idle"}]
    BY <1>3, <2>1 DEF SessionStart, BuildBegins, BuildReturns, KeeperEnds, IndexRepo, Vanish
  <2> QED
    BY <2>3, <2>4, <2>5
<1>5. CommandTypeOK'
  BY <1>1, <1>2, <1>4 DEF CommandTypeOK
<1>6. (\A e \in stood : Exists(e)) /\ (\A e \in kept : Watched(e))
  BY DEF CommandInv, LookedInv
<1>7. \A e \in stood' : Exists(e)'
  BY <1>1, <1>2, <1>4, <1>6 DEF CommandTypeOK, Exists, Rankable,
     SessionStart, BuildBegins, BuildReturns, KeeperEnds, IndexRepo, Vanish
<1>8. \A e \in kept' : Watched(e)'
  BY <1>1, <1>2, <1>3, <1>4, <1>6 DEF CommandTypeOK, Watched,
     SessionStart, BuildBegins, BuildReturns, KeeperEnds, IndexRepo, Vanish
<1>9. Enclosing(stood', search.here) \subseteq Enclosing(stood, search.here)
  BY <1>1 DEF Enclosing
<1>10. LookedInv'
  BY <1>1, <1>7, <1>8, <1>9 DEF CommandInv, LookedInv, Enclosing
<1>11. NonePassedOver' /\ NotToldToIndex'
  BY <1>1, <1>9 DEF CommandInv, NonePassedOver, NotToldToIndex, Answers, Enclosing
<1>12. RankedInv' /\ RankedAsAsked'
  BY <1>1 DEF CommandInv, RankedInv, RankedAsAsked, Bare
<1> QED
  BY <1>5, <1>10, <1>11, <1>12 DEF CommandInv

LEMMA AskKeeps ==
  ASSUME CommandInv, NEW here \in Places, NEW r \in Requests, Ask(here, r.given, r.rooted, r.asked)
  PROVE  CommandInv'
<1>1. /\ r.given \in Places \cup {Nowhere} /\ r.rooted \in BOOLEAN /\ r.asked \in Rankings
      /\ here \in Seq(Names) /\ here # Nowhere
  BY RequestsAssumption, PlacesAreSeqs DEF Rankings
<1>2. UNCHANGED <<semantic, shelf, keeper, stirs>> /\ CommandTypeOK
  BY DEF Ask, CommandInv
<1>3. search' = [step |-> IF r.given = Nowhere THEN "look" ELSE "settle", here |-> here, given |-> r.given,
                 rooted |-> r.rooted, asked |-> r.asked, at |-> here, dir |-> r.given, opened |-> "none",
                 mode |-> r.asked, loaded |-> TRUE]
  BY DEF Ask, Unasked
<1>4. stood' = {d \in Places : Exists(d)} /\ kept' = {d \in Places : Watched(d)}
  BY DEF Ask
<1>5. search' \in Asking
  BY <1>1, <1>3 DEF Asking, Steps, Rankings
<1>6. CommandTypeOK'
  BY <1>1, <1>2, <1>3, <1>4, <1>5 DEF CommandTypeOK
<1>7. LookedInv'
  <2>1. IsPrefix(here, here) /\ \A d \in Enclosing(stood', here) : Len(d) <= Len(here)
    BY PlacesAreSeqs DEF Enclosing, IsPrefix
  <2>2. (\A d \in stood' : Exists(d)') /\ \A d \in kept' : Watched(d)'
    BY <1>2, <1>4 DEF Exists, Watched
  <2> QED
    BY <1>3, <2>1, <2>2 DEF LookedInv
<1>8. NonePassedOver' /\ NotToldToIndex' /\ RankedInv' /\ RankedAsAsked'
  BY <1>1, <1>3 DEF NonePassedOver, Answers, NotToldToIndex, RankedInv, RankedAsAsked
<1> QED
  BY <1>6, <1>7, <1>8 DEF CommandInv

(* A record keeps the fields it is not given anew.                         *)
LEMMA LookKeeps ==
  ASSUME CommandInv, Look
  PROVE  CommandInv'
<1>1. /\ search.step = "look" /\ UNCHANGED <<semantic, shelf, keeper, stirs, stood, kept>>
      /\ CommandTypeOK /\ LookedInv /\ RankedInv
  BY DEF Look, Moves, CommandInv
<1>2. search \in Asking /\ search.here \in Places /\ search.at \in Seq(Names)
  BY <1>1 DEF CommandTypeOK, Asking
<1>3. /\ IsPrefix(search.at, search.here) /\ search.dir = Nowhere /\ search.given = Nowhere
      /\ \A d \in Enclosing(stood, search.here) : Len(d) <= Len(search.at)
      /\ \A d \in stood : Exists(d)
  BY <1>1 DEF LookedInv
<1>4. \A d \in Enclosing(stood, search.here) : /\ d \in Places /\ d \in Seq(Names) /\ Len(d) \in Nat
                                              /\ IsPrefix(d, search.here) /\ Exists(d)
  BY <1>1, <1>3, PlacesAreSeqs DEF Enclosing, CommandTypeOK
<1>5. search.here \in Seq(Names) /\ Len(search.at) \in Nat
  BY <1>2, PlacesAreSeqs, LenProperties
<1>6. \A d \in Enclosing(stood, search.here) : Len(d) = Len(search.at) => d = search.at
  BY <1>2, <1>3, <1>4, <1>5, SamePrefix
<1>7. CASE Exists(search.at)
  <2>1. search' = [search EXCEPT !.step = "settle", !.dir = search.at] /\ search.at \in Places
    BY <1>7 DEF Look, Exists
  <2>2. /\ search' \in Asking /\ search'.step = "settle" /\ search'.dir = search.at /\ search'.here = search.here
        /\ search'.given = Nowhere /\ search'.mode = search.mode /\ search'.asked = search.asked
        /\ search'.loaded = search.loaded
    BY <1>2, <1>3, <2>1 DEF Asking, Steps
  <2>3. CommandTypeOK'
    BY <1>1, <1>2, <2>2 DEF CommandTypeOK
  <2>4. LookedInv' /\ NonePassedOver'
    BY <1>1, <1>3, <2>2 DEF LookedInv, NonePassedOver, Exists, Watched
  <2>5. NotToldToIndex' /\ RankedInv' /\ RankedAsAsked'
    BY <1>1, <2>2 DEF NotToldToIndex, RankedInv, RankedAsAsked
  <2> QED
    BY <2>3, <2>4, <2>5 DEF CommandInv
<1>8. CASE ~Exists(search.at) /\ search.at = <<>>
  <2>1. search' = [search EXCEPT !.step = "wait"]
    BY <1>8 DEF Look
  <2>2. /\ search' \in Asking /\ search'.step = "wait" /\ search'.dir = Nowhere /\ search'.here = search.here
        /\ search'.given = Nowhere /\ search'.mode = search.mode /\ search'.asked = search.asked
        /\ search'.loaded = search.loaded
    BY <1>2, <1>3, <2>1 DEF Asking, Steps
  <2>3. CommandTypeOK'
    BY <1>1, <1>2, <2>2 DEF CommandTypeOK
  <2>4. Enclosing(stood, search.here) = {}
    BY <1>3, <1>4, <1>6, <1>8
  <2>5. LookedInv' /\ NonePassedOver'
    BY <1>1, <2>2, <2>4 DEF LookedInv, NonePassedOver, Answers, Exists, Watched
  <2>6. NotToldToIndex' /\ RankedInv' /\ RankedAsAsked'
    BY <1>1, <2>2 DEF NotToldToIndex, RankedInv, RankedAsAsked
  <2> QED
    BY <2>3, <2>5, <2>6 DEF CommandInv
<1>9. CASE ~Exists(search.at) /\ search.at # <<>>
  <2>1. search' = [search EXCEPT !.at = Front(search.at)]
    BY <1>9 DEF Look
  <2>2. Front(search.at) \in Seq(Names) /\ Len(Front(search.at)) = Len(search.at) - 1 /\ IsPrefix(Front(search.at), search.here)
    BY <1>2, <1>3, <1>5, <1>9, FrontPrefix
  <2>3. /\ search' \in Asking /\ search'.step = "look" /\ search'.dir = Nowhere /\ search'.here = search.here
        /\ search'.given = Nowhere /\ search'.mode = search.mode /\ search'.asked = search.asked
        /\ search'.loaded = search.loaded /\ search'.at = Front(search.at)
    BY <1>1, <1>2, <1>3, <2>1, <2>2 DEF Asking
  <2>4. CommandTypeOK'
    BY <1>1, <1>2, <2>3 DEF CommandTypeOK
  <2>5. \A d \in Enclosing(stood, search.here) : Len(d) <= Len(search.at) - 1
    BY <1>3, <1>4, <1>5, <1>6, <1>9
  <2>6. LookedInv' /\ NonePassedOver'
    BY <1>1, <2>2, <2>3, <2>5 DEF LookedInv, NonePassedOver, Answers, Exists, Watched
  <2>7. NotToldToIndex' /\ RankedInv' /\ RankedAsAsked'
    BY <1>1, <2>3 DEF NotToldToIndex, RankedInv, RankedAsAsked
  <2> QED
    BY <2>4, <2>6, <2>7 DEF CommandInv
<1> QED
  BY <1>7, <1>8, <1>9

LEMMA WaitKeeps ==
  ASSUME CommandInv, Wait
  PROVE  CommandInv'
<1>1. /\ search.step = "wait" /\ UNCHANGED <<semantic, shelf, keeper, stirs, stood, kept>>
      /\ CommandTypeOK /\ LookedInv /\ RankedInv
  BY DEF Wait, Moves, CommandInv
<1>2. /\ search \in Asking /\ search.here \in Places /\ search.dir = Nowhere /\ search.given = Nowhere
      /\ Enclosing(stood, search.here) = {} /\ \A d \in kept : Watched(d)
  BY <1>1 DEF CommandTypeOK, LookedInv
<1>3. PICK step \in {"unindexed", "settle", "later"}, dir \in {search.here, Nowhere} :
        /\ search' = [search EXCEPT !.step = step, !.dir = dir]
        /\ step = "unindexed" => ~Watched(search.here)
        /\ step # "settle" => dir = Nowhere
  <2>1. CASE ~Watched(search.here)
    BY <1>2, <2>1 DEF Wait, Asking
  <2>2. CASE Watched(search.here) /\ Exists(search.here)
    BY <1>2, <2>2 DEF Wait
  <2>3. CASE Watched(search.here) /\ ~Exists(search.here)
    BY <1>2, <2>3 DEF Wait, Asking
  <2> QED
    BY <2>1, <2>2, <2>3
<1>4. /\ search' \in Asking /\ search'.step = step /\ search'.dir = dir /\ search'.here = search.here
      /\ search'.given = Nowhere /\ search'.mode = search.mode /\ search'.asked = search.asked
      /\ search'.loaded = search.loaded
  BY <1>2, <1>3 DEF Asking, Steps
<1>5. CommandTypeOK'
  BY <1>1, <1>2, <1>4 DEF CommandTypeOK
<1>6. LookedInv' /\ NonePassedOver'
  BY <1>1, <1>2, <1>3, <1>4 DEF LookedInv, NonePassedOver, Answers, Exists, Watched
<1>7. NotToldToIndex' /\ RankedInv' /\ RankedAsAsked'
  BY <1>1, <1>2, <1>3, <1>4 DEF NotToldToIndex, RankedInv, RankedAsAsked
<1> QED
  BY <1>5, <1>6, <1>7 DEF CommandInv

(* The steps from the index on: where it is stays.                         *)
LEMMA OpeningKeeps ==
  ASSUME CommandInv, Settle \/ Open \/ LoadEncoder
  PROVE  CommandInv'
<1>1. /\ search.step \in {"settle", "open", "load"} /\ UNCHANGED <<semantic, shelf, keeper, stirs, stood, kept>>
      /\ CommandTypeOK /\ LookedInv /\ RankedInv /\ NonePassedOver
  BY DEF Settle, Open, LoadEncoder, Moves, CommandInv
<1>2. search \in Asking /\ search.here \in Places /\ shelf \in [Places -> {"none", "lexical", "embedded"}]
  BY <1>1 DEF CommandTypeOK
<1>3. /\ search' \in Asking /\ search'.step \in {"open", "load", "answered", "refused", "failed"}
      /\ search'.dir = search.dir /\ search'.here = search.here /\ search'.given = search.given
      /\ search'.asked = search.asked
  <2>1. CASE Settle
    BY <1>2, <2>1 DEF Settle, Moves, Asking, Steps
  <2>2. CASE Open
    <3>1. search.dir \in Places => shelf[search.dir] \in {"none", "lexical", "embedded"}
      BY <1>2
    <3>2. CASE ~Exists(search.dir)
      BY <1>2, <2>2, <3>2 DEF Open, Asking, Steps
    <3>3. CASE Exists(search.dir)
      <4> DEFINE kind == shelf[search.dir]
      <4>1. kind \in {"none", "lexical", "embedded"}
        BY <3>1, <3>3 DEF Exists
      <4>2. \/ search' = [search EXCEPT !.step = "refused", !.opened = kind]
            \/ search' = [search EXCEPT !.step = "load", !.opened = kind, !.mode = "bm25"]
            \/ search' = [search EXCEPT !.step = "load", !.opened = kind, !.mode = search.mode]
        BY <2>2, <3>3 DEF Open
      <4> HIDE DEF kind
      <4>3. CASE search' = [search EXCEPT !.step = "refused", !.opened = kind]
        BY <1>2, <4>1, <4>3 DEF Asking, Steps
      <4>4. CASE search' = [search EXCEPT !.step = "load", !.opened = kind, !.mode = "bm25"]
        BY <1>2, <4>1, <4>4 DEF Asking, Steps, Rankings
      <4>5. CASE search' = [search EXCEPT !.step = "load", !.opened = kind, !.mode = search.mode]
        BY <1>2, <4>1, <4>5 DEF Asking, Steps
      <4> QED
        BY <4>2, <4>3, <4>4, <4>5
    <3> QED
      BY <3>2, <3>3
  <2>3. CASE LoadEncoder
    <3>1. CASE search' = [search EXCEPT !.step = "answered"]
      BY <1>2, <3>1 DEF Asking, Steps
    <3>2. CASE search' = [search EXCEPT !.step = "answered", !.mode = "bm25", !.loaded = FALSE]
      BY <1>2, <3>2 DEF Asking, Steps, Rankings
    <3>3. CASE search' = [search EXCEPT !.step = "refused", !.loaded = FALSE]
      BY <1>2, <3>3 DEF Asking, Steps
    <3> QED
      BY <2>3, <3>1, <3>2, <3>3 DEF LoadEncoder
  <2> QED
    BY <1>1, <2>1, <2>2, <2>3 DEF CommandInv
<1>4. CommandTypeOK'
  BY <1>1, <1>2, <1>3 DEF CommandTypeOK
<1>5. LookedInv' /\ NonePassedOver' /\ NotToldToIndex'
  BY <1>1, <1>3 DEF LookedInv, NonePassedOver, NotToldToIndex, Answers, Exists, Watched
<1>6. CASE Settle
  <2>1. search' = [search EXCEPT !.step = "open"] /\ search.step = "settle"
    BY <1>6 DEF Settle, Moves
  <2>2. search'.step = "open" /\ search'.mode = search.mode /\ search'.loaded = search.loaded
    BY <1>2, <2>1 DEF Asking
  <2>3. RankedInv' /\ RankedAsAsked'
    BY <1>1, <1>3, <2>1, <2>2 DEF RankedInv, RankedAsAsked
  <2> QED
    BY <1>4, <1>5, <2>3 DEF CommandInv
<1>7. CASE Open
  <2> DEFINE bare == ~semantic \/ shelf[search.dir] = "lexical"
  <2>1. search.step = "open" /\ search.mode = search.asked /\ search.loaded = TRUE /\ search.asked \in Rankings
    BY <1>1, <1>2, <1>7 DEF Open, Moves, RankedInv, Asking
  <2>2. search' = IF ~Exists(search.dir) THEN [search EXCEPT !.step = "failed"]
                  ELSE IF search.asked # "bm25" /\ bare /\ search.asked # "hybrid"
                       THEN [search EXCEPT !.step = "refused", !.opened = shelf[search.dir]]
                  ELSE [search EXCEPT !.step = "load", !.opened = shelf[search.dir],
                                      !.mode = IF bare THEN "bm25" ELSE search.mode]
    BY <1>7 DEF Open
  <2>3. CASE ~Exists(search.dir)
    <3>1. search'.step = "failed"
      BY <1>2, <2>2, <2>3 DEF Asking
    <3>2. RankedInv' /\ RankedAsAsked'
      BY <3>1 DEF RankedInv, RankedAsAsked
    <3> QED
      BY <1>4, <1>5, <3>2 DEF CommandInv
  <2>4. CASE Exists(search.dir) /\ search.asked # "bm25" /\ bare /\ search.asked # "hybrid"
    <3>1. search'.step = "refused" /\ search'.asked \in {"semantic", "rerank"}
      BY <1>2, <1>3, <2>1, <2>2, <2>4 DEF Asking, Rankings
    <3>2. RankedInv' /\ RankedAsAsked'
      BY <3>1 DEF RankedInv, RankedAsAsked
    <3> QED
      BY <1>4, <1>5, <3>2 DEF CommandInv
  <2>5. CASE Exists(search.dir) /\ (search.asked \in {"bm25", "hybrid"} \/ ~bare)
    <3>1. /\ search'.step = "load" /\ search'.opened = shelf[search.dir] /\ search'.loaded
          /\ search'.mode = IF bare THEN "bm25" ELSE search.asked
      BY <1>2, <2>1, <2>2, <2>5 DEF Asking
    <3>2. Bare' = bare /\ shelf[search.dir] # "none"
      BY <1>1, <2>5, <3>1 DEF Bare, Exists
    <3>3. RankedInv' /\ RankedAsAsked'
      BY <1>3, <2>5, <3>1, <3>2 DEF RankedInv, RankedAsAsked
    <3> QED
      BY <1>4, <1>5, <3>3 DEF CommandInv
  <2> QED
    BY <2>1, <2>3, <2>4, <2>5 DEF Rankings
<1>8. CASE LoadEncoder
  <2>1. /\ search.step = "load" /\ search.loaded /\ search.opened \in {"lexical", "embedded"}
        /\ search.mode = IF Bare THEN "bm25" ELSE search.asked
        /\ Bare => search.asked \in {"bm25", "hybrid"}
        /\ search.asked \in Rankings
    BY <1>1, <1>2, <1>8 DEF LoadEncoder, Moves, RankedInv, Asking
  <2>2. search'.opened = search.opened /\ Bare' = Bare
    BY <1>1, <1>2, <1>8 DEF LoadEncoder, Bare, Asking
  <2>3. CASE search' = [search EXCEPT !.step = "answered"]
    <3>1. search'.step = "answered" /\ search'.mode = search.mode /\ search'.loaded
      BY <1>2, <2>1, <2>3 DEF Asking
    <3>2. RankedInv' /\ RankedAsAsked'
      BY <1>1, <1>3, <2>1, <2>2, <3>1 DEF RankedInv, RankedAsAsked, Bare
    <3> QED
      BY <1>4, <1>5, <3>2 DEF CommandInv
  <2>4. CASE /\ search.mode # "bm25" /\ search.asked = "hybrid"
             /\ search' = [search EXCEPT !.step = "answered", !.mode = "bm25", !.loaded = FALSE]
    <3>1. search'.step = "answered" /\ search'.mode = "bm25" /\ search'.loaded = FALSE
      BY <1>2, <2>4 DEF Asking
    <3>2. RankedInv' /\ RankedAsAsked'
      BY <1>3, <2>4, <3>1 DEF RankedInv, RankedAsAsked
    <3> QED
      BY <1>4, <1>5, <3>2 DEF CommandInv
  <2>5. CASE /\ search.mode # "bm25" /\ search.asked # "hybrid"
             /\ search' = [search EXCEPT !.step = "refused", !.loaded = FALSE]
    <3>1. search'.step = "refused" /\ search.asked \in {"semantic", "rerank"}
      BY <1>2, <2>1, <2>5 DEF Asking, Rankings
    <3>2. RankedInv' /\ RankedAsAsked'
      BY <1>3, <3>1 DEF RankedInv, RankedAsAsked
    <3> QED
      BY <1>4, <1>5, <3>2 DEF CommandInv
  <2> QED
    BY <1>8, <2>3, <2>4, <2>5 DEF LoadEncoder
<1> QED
  BY <1>6, <1>7, <1>8

LEMMA CommandNextKeeps == CommandInv /\ [CommandNext]_commandVars => CommandInv'
<1> SUFFICES ASSUME CommandInv, [CommandNext]_commandVars PROVE CommandInv'
  OBVIOUS
<1>1. CASE UNCHANGED commandVars
  BY <1>1 DEF commandVars, CommandInv, CommandTypeOK, LookedInv, Exists, Watched, NonePassedOver, Answers,
              NotToldToIndex, RankedInv, RankedAsAsked, Bare
<1>2. ASSUME NEW d \in Places,
             SessionStart(d) \/ BuildBegins(d) \/ BuildReturns(d) \/ KeeperEnds(d) \/ IndexRepo(d) \/ Vanish(d)
      PROVE  CommandInv'
  BY <1>2, OthersKeep
<1>3. ASSUME NEW here \in Places, NEW r \in Requests, Ask(here, r.given, r.rooted, r.asked)
      PROVE  CommandInv'
  BY <1>3, AskKeeps
<1> QED
  BY <1>1, <1>2, <1>3, LookKeeps, WaitKeeps, OpeningKeeps DEF CommandNext

-----------------------------------------------------------------------------
(* Locations. *)

LEMMA SharedIs ==
  ASSUME NEW s \in Seq(Names), NEW t \in Seq(Names)
  PROVE  /\ Shared(s, t) \in Nat /\ Shared(s, t) <= Len(s) /\ Shared(s, t) <= Len(t)
         /\ \A i \in 1 .. Shared(s, t) : s[i] = t[i]
<1> DEFINE L == {Len(s), Len(t)}
           X == {n \in 0 .. Min(L) : SubSeq(s, 1, n) = SubSeq(t, 1, n)}
<1>1. Len(s) \in Nat /\ Len(t) \in Nat
  BY LenProperties
<1>2. Min(L) \in Nat /\ Min(L) <= Len(s) /\ Min(L) <= Len(t)
  <2>1. L \in SUBSET Int /\ L # {}
    BY <1>1
  <2>2. IsFiniteSet(L)
    <3>1. IsFiniteSet({Len(s)} \cup {Len(t)})
      BY FS_Singleton, FS_Union
    <3>2. L = {Len(s)} \cup {Len(t)}
      OBVIOUS
    <3> QED
      BY <3>1, <3>2
  <2>3. Min(L) \in L /\ \A x \in L : Min(L) <= x
    BY <2>1, <2>2, MinOfFinite
  <2> QED
    BY <1>1, <2>3
<1>3. X \in SUBSET Int /\ IsFiniteSet(X) /\ X # {}
  <2>1. SubSeq(s, 1, 0) = SubSeq(t, 1, 0)
    BY SubSeqEmpty
  <2>2. 0 \in X
    BY <1>2, <2>1
  <2>3. IsFiniteSet(0 .. Min(L))
    BY <1>2, FS_Interval
  <2>4. X \subseteq 0 .. Min(L) /\ X \in SUBSET Int
    BY <1>2
  <2> HIDE DEF X
  <2> QED
    BY <2>2, <2>3, <2>4, FS_Subset
<1>4. Shared(s, t) = Max(X)
  BY DEF Shared
<1>5. Max(X) \in X
  <2> HIDE DEF X
  <2> QED
    BY <1>3, MaxOfFinite
<1>6. PICK n \in 0 .. Min(L) : n = Shared(s, t) /\ SubSeq(s, 1, n) = SubSeq(t, 1, n)
  BY <1>4, <1>5
<1>7. n \in 0 .. Len(s) /\ n \in 0 .. Len(t)
  BY <1>1, <1>2
<1>8. \A i \in 1 .. n : SubSeq(s, 1, n)[i] = s[i] /\ SubSeq(t, 1, n)[i] = t[i]
  BY <1>7, FirstOf
<1> QED
  BY <1>1, <1>6, <1>7, <1>8

(* Where a path leads is known by every step on the way.                   *)
LEMMA PointsAlong ==
  ASSUME NEW here, NEW path, Len(path) \in Nat, NEW g,
         \A n \in 0 .. Len(path) : g[n] = IF n = 0 THEN here ELSE IF path[n] = ".." THEN Front(g[n - 1])
                                                                 ELSE Append(g[n - 1], path[n])
  PROVE  PointsTo(here, path) = g[Len(path)]
<1> DEFINE Along(f) == [n \in 0 .. Len(path) |-> IF n = 0 THEN here ELSE IF path[n] = ".." THEN Front(f[n - 1])
                                                                     ELSE Append(f[n - 1], path[n])]
           h == CHOOSE f : f = Along(f)
<1>1. PointsTo(here, path) = h[Len(path)]
  BY DEF PointsTo
<1>2. h = Along(h)
  <2>1. \E f : f = Along(f)
    <3> DEFINE e == [n \in 0 .. Len(path) |-> g[n]]
    <3>1. \A n \in 0 .. Len(path) : e[n] = g[n] /\ (n # 0 => n - 1 \in 0 .. Len(path) /\ e[n - 1] = g[n - 1])
      OBVIOUS
    <3>2. \A n \in 0 .. Len(path) : g[n] = IF n = 0 THEN here ELSE IF path[n] = ".." THEN Front(e[n - 1])
                                                                ELSE Append(e[n - 1], path[n])
      <4> HIDE DEF e
      <4> QED
        BY <3>1
    <3>3. e = Along(e)
      BY <3>2
    <3> QED
      BY <3>3
  <2> HIDE DEF Along
  <2> QED
    BY <2>1
<1>3. \A n \in 0 .. Len(path) : h[n] = g[n]
  <2> DEFINE Bad == {n \in 0 .. Len(path) : h[n] # g[n]}
  <2> SUFFICES ASSUME Bad # {} PROVE FALSE
    OBVIOUS
  <2>1. Bad \in SUBSET Int /\ IsFiniteSet(Bad)
    <3>1. IsFiniteSet(0 .. Len(path)) /\ Bad \subseteq 0 .. Len(path) /\ Bad \in SUBSET Int
      BY FS_Interval
    <3> HIDE DEF Bad
    <3> QED
      BY <3>1, FS_Subset
  <2>2. PICK n \in Bad : \A m \in Bad : n <= m
    <3> HIDE DEF Bad
    <3> QED
      BY <2>1, MinOfFinite
  <2> HIDE DEF h
  <2>3. n \in 0 .. Len(path) /\ h[n] # g[n] /\ (n # 0 => n - 1 \in 0 .. Len(path) /\ h[n - 1] = g[n - 1])
    BY <2>2
  <2>4. h[n] = IF n = 0 THEN here ELSE IF path[n] = ".." THEN Front(h[n - 1]) ELSE Append(h[n - 1], path[n])
    BY <1>2, <2>3
  <2>5. g[n] = IF n = 0 THEN here ELSE IF path[n] = ".." THEN Front(g[n - 1]) ELSE Append(g[n - 1], path[n])
    BY <2>3
  <2> QED
    BY <2>3, <2>4, <2>5
<1> QED
  BY <1>1, <1>3

(* What follows a sequence when another is put after it.                   *)
LEMMA Joined ==
  ASSUME NEW S, NEW s \in Seq(S), NEW t \in Seq(S), NEW a \in Nat, NEW b \in Nat, Len(s) = a, Len(t) = b
  PROVE  /\ s \o t \in Seq(S) /\ Len(s \o t) = a + b
         /\ \A i \in 1 .. a + b : (s \o t)[i] = IF i <= a THEN s[i] ELSE t[i - a]
<1>1. /\ s \o t \in Seq(S) /\ Len(s \o t) = Len(s) + Len(t)
      /\ \A i \in 1 .. Len(s) + Len(t) : (s \o t)[i] = IF i <= Len(s) THEN s[i] ELSE t[i - Len(s)]
  BY ConcatProperties
<1> QED
  BY <1>1

(* From below a directory the relative form of a path in it leads to it:   *)
(* first up to what the two share, then down.                              *)
LEMMA RelativeLeads ==
  ASSUME NEW here \in Seq(Names), NEW dir \in Seq(Names), NEW path \in Seq(Names), IsPrefix(dir, here),
         \A i \in DOMAIN path : path[i] # ".."
  PROVE  PointsTo(here, RelativeTo(SubSeq(here, Len(dir) + 1, Len(here)), path)) = dir \o path
<1> DEFINE from == SubSeq(here, Len(dir) + 1, Len(here))
           n == Shared(from, path)
           k == Len(from) - n
           up == [i \in 1 .. k |-> ".."]
           down == SubSeq(path, n + 1, Len(path))
           rel == RelativeTo(from, path)
<1>1. /\ Len(here) \in Nat /\ Len(dir) \in Nat /\ Len(path) \in Nat /\ Len(dir) <= Len(here)
      /\ DOMAIN path = 1 .. Len(path)
  BY LenProperties DEF IsPrefix
<1>2. /\ from \in Seq(Names) /\ Len(from) = Len(here) - Len(dir)
      /\ \A i \in 1 .. Len(from) : from[i] = here[Len(dir) + i]
  <2>1. Len(dir) + 1 \in 1 .. Len(here) + 1 /\ Len(here) \in (Len(dir) + 1) - 1 .. Len(here)
    BY <1>1
  <2>2. /\ from \in Seq(Names) /\ Len(from) = Len(here) - (Len(dir) + 1) + 1
        /\ \A i \in 1 .. Len(here) - (Len(dir) + 1) + 1 : from[i] = here[Len(dir) + 1 + i - 1]
    BY <2>1, PartOf
  <2> HIDE DEF from
  <2> QED
    BY <1>1, <2>2
<1>3. \A i \in 1 .. Len(dir) : dir[i] = here[i]
  <2>1. dir = SubSeq(here, 1, Len(dir)) /\ Len(dir) \in 0 .. Len(here)
    BY <1>1, SubSeqFull DEF IsPrefix
  <2> QED
    BY <2>1, FirstOf
<1>4. rel = up \o down
  BY DEF RelativeTo
<1> HIDE DEF from, rel
<1>5. n \in Nat /\ n <= Len(from) /\ n <= Len(path) /\ \A i \in 1 .. n : from[i] = path[i]
  BY <1>2, SharedIs
<1> HIDE DEF n
<1>6. k \in Nat /\ Len(here) - k = Len(dir) + n
  BY <1>1, <1>2, <1>5
<1> HIDE DEF k
<1>7. /\ up \in Seq(Names) /\ Len(up) = k /\ \A i \in 1 .. k : up[i] = ".."
  <2>1. up \in [1 .. k -> Names]
    BY DEF Names
  <2> QED
    BY <1>6, <2>1
<1>8. /\ down \in Seq(Names) /\ Len(down) = Len(path) - n
      /\ \A i \in 1 .. Len(path) - n : down[i] = path[n + i]
  <2>1. n + 1 \in 1 .. Len(path) + 1 /\ Len(path) \in (n + 1) - 1 .. Len(path)
    BY <1>1, <1>5
  <2>2. /\ down \in Seq(Names) /\ Len(down) = Len(path) - (n + 1) + 1
        /\ \A i \in 1 .. Len(path) - (n + 1) + 1 : down[i] = path[n + 1 + i - 1]
    BY <2>1, PartOf
  <2> HIDE DEF down
  <2> QED
    BY <1>1, <1>5, <2>2
<1> HIDE DEF up, down
<1>9. /\ Len(rel) = k + (Len(path) - n) /\ Len(rel) \in Nat
      /\ \A i \in 1 .. Len(rel) : rel[i] = IF i <= k THEN ".." ELSE path[n + i - k]
  <2> DEFINE b == Len(path) - n
  <2>0. b \in Nat
    BY <1>1, <1>5
  <2>a. Len(down) = b
    BY <1>8
  <2>1. Len(rel) = k + (Len(path) - n) /\ \A i \in 1 .. k + (Len(path) - n) : rel[i] = IF i <= k THEN up[i] ELSE down[i - k]
    <3> HIDE DEF b
    <3>1. Len(up \o down) = k + b /\ \A i \in 1 .. k + b : (up \o down)[i] = IF i <= k THEN up[i] ELSE down[i - k]
      <4>1. up \in Seq(Names) /\ down \in Seq(Names)
        BY <1>7, <1>8
      <4>2. Len(up) = k /\ k \in Nat
        BY <1>6, <1>7
      <4>3. /\ up \o down \in Seq(Names) /\ Len(up \o down) = Len(up) + Len(down)
            /\ \A i \in 1 .. Len(up) + Len(down) : (up \o down)[i] = IF i <= Len(up) THEN up[i] ELSE down[i - Len(up)]
        BY <4>1, ConcatProperties
      <4> QED
        BY <2>a, <4>2, <4>3
    <3> QED
      BY <1>4, <3>1 DEF b
  <2>2. \A i \in 1 .. k + (Len(path) - n) : rel[i] = IF i <= k THEN up[i] ELSE down[i - k]
    BY <2>1
  <2>3. ASSUME NEW i \in 1 .. k + (Len(path) - n)
        PROVE  rel[i] = IF i <= k THEN ".." ELSE path[n + i - k]
    <3>1. CASE i <= k
      BY <1>6, <1>7, <2>2, <3>1
    <3>2. CASE i > k
      <4>1. i - k \in 1 .. Len(path) - n /\ n + (i - k) = n + i - k
        BY <1>1, <1>5, <1>6, <3>2
      <4> QED
        BY <1>8, <2>2, <3>2, <4>1, <1>6
    <3> QED
      BY <1>6, <3>1, <3>2
  <2> QED
    BY <1>1, <1>5, <1>6, <2>1, <2>3
(* Where the relative path is after m names.                               *)
<1> DEFINE A == SubSeq(here, 1, Len(here) - k)
           B(q) == SubSeq(path, n + 1, q)
           At(m) == IF m <= k THEN SubSeq(here, 1, Len(here) - m) ELSE A \o B(n + m - k)
           g == [m \in 0 .. Len(rel) |-> At(m)]
<1>10. A \in Seq(Names) /\ Len(A) = Len(dir) + n /\ \A i \in 1 .. Len(A) : A[i] = here[i]
  <2>1. Len(here) - k \in 0 .. Len(here)
    BY <1>1, <1>5, <1>6
  <2> QED
    BY <1>6, <2>1, FirstOf
<1>11. ASSUME NEW q \in n .. Len(path)
       PROVE  /\ B(q) \in Seq(Names) /\ Len(B(q)) = q - n /\ \A i \in 1 .. q - n : B(q)[i] = path[n + i]
              /\ A \o B(q) \in Seq(Names) /\ Len(A \o B(q)) = Len(dir) + q
              /\ \A i \in 1 .. Len(dir) + q : (A \o B(q))[i] = IF i <= Len(dir) + n THEN A[i] ELSE B(q)[i - (Len(dir) + n)]
  <2>1. n + 1 \in 1 .. Len(path) + 1 /\ q \in (n + 1) - 1 .. Len(path)
    BY <1>1, <1>5
  <2>2. /\ B(q) \in Seq(Names) /\ Len(B(q)) = q - (n + 1) + 1
        /\ \A i \in 1 .. q - (n + 1) + 1 : B(q)[i] = path[n + 1 + i - 1]
    BY <2>1, PartOf
  <2> HIDE DEF A, B
  <2>3. /\ B(q) \in Seq(Names) /\ Len(B(q)) = q - n /\ \A i \in 1 .. q - n : B(q)[i] = path[n + i]
    BY <1>1, <1>5, <2>2
  <2> DEFINE la == Len(dir) + n
             lb == q - n
  <2>4. la \in Nat /\ lb \in Nat /\ la + lb = Len(dir) + q
    BY <1>1, <1>5
  <2>5. Len(A) = la /\ Len(B(q)) = lb
    BY <1>10, <2>3
  <2>6. /\ A \o B(q) \in Seq(Names) /\ Len(A \o B(q)) = la + lb
        /\ \A i \in 1 .. la + lb : (A \o B(q))[i] = IF i <= la THEN A[i] ELSE B(q)[i - la]
    <3>1. A \in Seq(Names) /\ B(q) \in Seq(Names)
      BY <1>10, <2>3
    <3> DEFINE part == B(q)
    <3>2. part \in Seq(Names) /\ Len(part) = lb
      BY <2>5, <3>1
    <3> HIDE DEF la, lb, part
    <3>3. /\ A \o part \in Seq(Names) /\ Len(A \o part) = la + lb
          /\ \A i \in 1 .. la + lb : (A \o part)[i] = IF i <= la THEN A[i] ELSE part[i - la]
      <4>1. la \in Nat /\ lb \in Nat
        BY <2>4
      <4>2. Len(A) = la
        BY <2>5
      <4> QED
        <5>1. /\ A \o part \in Seq(Names) /\ Len(A \o part) = Len(A) + Len(part)
              /\ \A i \in 1 .. Len(A) + Len(part) : (A \o part)[i] = IF i <= Len(A) THEN A[i] ELSE part[i - Len(A)]
          BY <3>1, <3>2, ConcatProperties
        <5> QED
          BY <3>2, <4>2, <5>1
    <3> QED
      BY <3>3 DEF part
  <2>7. /\ Len(A \o B(q)) = Len(dir) + q
        /\ \A i \in 1 .. Len(dir) + q : (A \o B(q))[i] = IF i <= la THEN A[i] ELSE B(q)[i - la]
    <3> HIDE DEF la, lb
    <3> QED
      BY <2>4, <2>6
  <2> QED
    BY <2>3, <2>6, <2>7
<1>12. ASSUME NEW m \in k .. Len(rel)
       PROVE  At(m) = A \o B(n + m - k)
  <2>1. CASE m > k
    <3>1. ~(m <= k)
      BY <1>6, <2>1
    <3> HIDE DEF A, B
    <3> QED
      BY <3>1
  <2>2. CASE m = k
    <3>1. B(n) = <<>>
      BY <1>5, SubSeqEmpty
    <3>2. n + m - k = n /\ m <= k
      BY <1>5, <1>6, <2>2
    <3>3. At(m) = A
      BY <2>2, <3>2
    <3>4. A \o <<>> = A
      BY <1>10, ConcatEmptySeq
    <3>5. B(n + m - k) = <<>>
      <4> HIDE DEF B
      <4> QED
        BY <3>1, <3>2
    <3> HIDE DEF A, B, At
    <3> QED
      BY <3>3, <3>4, <3>5
  <2>3. m > k \/ m = k
    BY <1>6, <1>9
  <2> HIDE DEF A, B, At
  <2> QED
    BY <2>1, <2>2, <2>3
<1>13. ASSUME NEW m \in 0 .. Len(rel)
       PROVE  At(m) = IF m = 0 THEN here ELSE IF rel[m] = ".." THEN Front(At(m - 1)) ELSE Append(At(m - 1), rel[m])
  <2>1. CASE m = 0
    BY <1>1, <1>6, <2>1, SubSeqFull
  <2>2. CASE m \in 1 .. k
    <3>1. rel[m] = ".."
      BY <1>6, <1>9, <2>2
    <3> DEFINE r == SubSeq(here, 1, Len(here) - (m - 1))
    <3>2. At(m - 1) = r /\ At(m) = SubSeq(here, 1, Len(here) - m)
      BY <1>6, <2>2
    <3>3. Len(here) - (m - 1) \in 0 .. Len(here) /\ Len(here) - m \in 0 .. Len(here)
      BY <1>1, <1>5, <1>6, <2>2
    <3>4. /\ r \in Seq(Names) /\ Len(r) = Len(here) - (m - 1)
          /\ \A i \in 1 .. Len(here) - (m - 1) : r[i] = here[i]
      BY <3>3, FirstOf
    <3>5. /\ At(m) \in Seq(Names) /\ Len(At(m)) = Len(here) - m
          /\ \A i \in 1 .. Len(here) - m : At(m)[i] = here[i]
      BY <3>2, <3>3, FirstOf
    <3> HIDE DEF r, At
    <3>6. Len(r) - 1 = Len(here) - m /\ Len(r) - 1 \in 0 .. Len(r)
      BY <1>1, <1>6, <2>2, <3>3, <3>4
    <3>7. /\ Front(r) \in Seq(Names) /\ Len(Front(r)) = Len(here) - m
          /\ \A i \in 1 .. Len(here) - m : Front(r)[i] = r[i]
      BY <3>4, <3>6, FirstOf DEF Front
    <3>8. \A i \in 1 .. Len(here) - m : Front(r)[i] = At(m)[i]
      <4>1. ASSUME NEW i \in 1 .. Len(here) - m
            PROVE  Front(r)[i] = At(m)[i]
        <5>1. i \in 1 .. Len(here) - (m - 1)
          BY <1>1, <1>6, <2>2
        <5>2. Front(r)[i] = r[i] /\ At(m)[i] = here[i]
          BY <3>5, <3>7
        <5> QED
          BY <3>4, <5>1, <5>2
      <4> QED
        BY <4>1
    <3>9. Front(r) = At(m)
      BY <3>5, <3>7, <3>8, SeqEqual
    <3> QED
      BY <2>2, <3>1, <3>2, <3>9
  <2>3. CASE m \in k + 1 .. Len(rel)
    <3> DEFINE q == n + m - k
    <3>1. q \in n + 1 .. Len(path) /\ q - 1 \in n .. Len(path) /\ q \in n .. Len(path) /\ q \in DOMAIN path
      BY <1>1, <1>5, <1>6, <1>9, <2>3
    <3>2. rel[m] = path[q] /\ path[q] # ".." /\ m # 0
      BY <1>6, <1>9, <2>3, <3>1
    <3>3. At(m) = A \o B(q) /\ At(m - 1) = A \o B(q - 1)
      <4>1. m \in k .. Len(rel) /\ m - 1 \in k .. Len(rel) /\ n + (m - 1) - k = q - 1
        BY <1>5, <1>6, <1>9, <2>3
      <4> HIDE DEF At
      <4>2. At(m) = A \o B(n + m - k) /\ At(m - 1) = A \o B(n + (m - 1) - k)
        BY <1>12, <4>1
      <4> QED
        BY <4>1, <4>2
    <3> HIDE DEF q, At, A, B
    <3>4. path[q] \in Names
      BY <3>1, <1>1, ElementOfSeq
    <3> DEFINE s == A \o B(q)
               t == A \o B(q - 1)
    <3>5. /\ s \in Seq(Names) /\ Len(s) = Len(dir) + q
          /\ \A i \in 1 .. Len(dir) + q : s[i] = IF i <= Len(dir) + n THEN A[i] ELSE B(q)[i - (Len(dir) + n)]
          /\ \A i \in 1 .. q - n : B(q)[i] = path[n + i]
      BY <1>11, <3>1
    <3>6. /\ t \in Seq(Names) /\ Len(t) = Len(dir) + (q - 1)
          /\ \A i \in 1 .. Len(dir) + (q - 1) : t[i] = IF i <= Len(dir) + n THEN A[i] ELSE B(q - 1)[i - (Len(dir) + n)]
          /\ \A i \in 1 .. (q - 1) - n : B(q - 1)[i] = path[n + i]
      BY <1>11, <3>1
    <3> HIDE DEF s, t
    <3>7. /\ Append(t, path[q]) \in Seq(Names) /\ Len(Append(t, path[q])) = Len(t) + 1
          /\ \A i \in 1 .. Len(t) : Append(t, path[q])[i] = t[i]
          /\ Append(t, path[q])[Len(t) + 1] = path[q]
      BY <3>4, <3>6, AppendProperties
    <3> DEFINE l == Len(dir)
    <3>8. l \in Nat /\ n \in Nat /\ q \in Nat /\ n < q /\ Len(s) = l + q /\ Len(t) = l + (q - 1)
      BY <1>1, <1>5, <3>1, <3>5, <3>6
    <3>9. ASSUME NEW i \in 1 .. Len(s)
          PROVE  s[i] = Append(t, path[q])[i]
      <4> DEFINE j == i - (l + n)
      <4> HIDE DEF l
      <4>1. i \in Nat /\ i >= 1 /\ i <= l + q
        BY <3>8
      <4>2. s[i] = IF i <= l + n THEN A[i] ELSE B(q)[j]
        BY <3>5, <3>8, <4>1 DEF l
      <4>3. CASE i = l + q
        <5>1. j = q - n /\ ~(i <= l + n) /\ i = Len(t) + 1 /\ n + j = q /\ q - n \in 1 .. q - n
          BY <3>8, <4>3
        <5> HIDE DEF j
        <5>2. B(q)[j] = path[n + j]
          BY <3>5, <5>1
        <5> QED
          BY <3>7, <4>2, <5>1, <5>2
      <4>4. CASE i <= l + n
        <5>1. i \in 1 .. Len(t) /\ i \in 1 .. l + (q - 1)
          BY <3>8, <4>1, <4>4
        <5>2. t[i] = A[i]
          BY <3>6, <4>4, <5>1 DEF l
        <5> QED
          BY <3>7, <4>2, <4>4, <5>1, <5>2
      <4>5. CASE i > l + n /\ i < l + q
        <5>1. ~(i <= l + n) /\ i \in 1 .. Len(t) /\ i \in 1 .. l + (q - 1)
          BY <3>8, <4>1, <4>5
        <5>2. j \in 1 .. (q - 1) - n /\ j \in 1 .. q - n
          BY <3>8, <4>1, <4>5
        <5>3. t[i] = B(q - 1)[j]
          BY <3>6, <5>1 DEF l
        <5> HIDE DEF j
        <5>4. B(q)[j] = path[n + j] /\ B(q - 1)[j] = path[n + j]
          BY <3>5, <3>6, <5>2
        <5> QED
          BY <3>7, <4>2, <5>1, <5>3, <5>4
      <4>6. i = l + q \/ i <= l + n \/ (i > l + n /\ i < l + q)
        <5> HIDE DEF j
        <5> QED
          BY <3>8, <4>1
      <4> QED
        BY <4>3, <4>4, <4>5, <4>6
    <3>10. s = Append(t, path[q])
      <4> HIDE DEF l
      <4>1. Len(s) = Len(t) + 1
        BY <3>8
      <4> QED
        BY <3>5, <3>7, <3>9, <4>1, SeqEqual
    <3> QED
      BY <3>2, <3>3, <3>10 DEF s, t
  <2> QED
    BY <1>6, <1>9, <2>1, <2>2, <2>3
<1>14. PointsTo(here, rel) = g[Len(rel)]
  <2> HIDE DEF At
  <2>1. \A m \in 0 .. Len(rel) : g[m] = At(m)
    OBVIOUS
  <2>2. \A m \in 0 .. Len(rel) : m # 0 => m - 1 \in 0 .. Len(rel)
    BY <1>9
  <2> HIDE DEF g
  <2>3. \A m \in 0 .. Len(rel) : g[m] = IF m = 0 THEN here ELSE IF rel[m] = ".." THEN Front(g[m - 1])
                                                              ELSE Append(g[m - 1], rel[m])
    BY <1>13, <2>1, <2>2
  <2>4. Len(rel) \in Nat
    BY <1>9
  <2> QED
    BY <2>3, <2>4, PointsAlong
<1>15. g[Len(rel)] = A \o B(Len(path))
  <2>1. Len(rel) \in k .. Len(rel) /\ n + Len(rel) - k = Len(path) /\ Len(rel) \in 0 .. Len(rel)
    BY <1>1, <1>5, <1>6, <1>9
  <2>2. At(Len(rel)) = A \o B(n + Len(rel) - k)
    BY <1>12, <2>1
  <2> HIDE DEF At
  <2> QED
    BY <2>1, <2>2
<1> HIDE DEF A, B, g
<1>16. A \o B(Len(path)) = dir \o path
  <2> DEFINE s == A \o B(Len(path))
  <2>1. Len(path) \in n .. Len(path)
    BY <1>1, <1>5
  <2>2. /\ s \in Seq(Names) /\ Len(s) = Len(dir) + Len(path)
        /\ \A i \in 1 .. Len(dir) + Len(path) :
             s[i] = IF i <= Len(dir) + n THEN A[i] ELSE B(Len(path))[i - (Len(dir) + n)]
        /\ \A i \in 1 .. Len(path) - n : B(Len(path))[i] = path[n + i]
    BY <1>11, <2>1
  <2> HIDE DEF s
  <2>3. /\ dir \o path \in Seq(Names) /\ Len(dir \o path) = Len(dir) + Len(path)
        /\ \A i \in 1 .. Len(dir) + Len(path) : (dir \o path)[i] = IF i <= Len(dir) THEN dir[i] ELSE path[i - Len(dir)]
    BY ConcatProperties
  <2>4. ASSUME NEW i \in 1 .. Len(s)
        PROVE  s[i] = (dir \o path)[i]
    <3>1. CASE i <= Len(dir)
      BY <1>1, <1>3, <1>5, <1>10, <2>2, <2>3, <3>1
    <3>2. CASE ~(i <= Len(dir)) /\ i <= Len(dir) + n
      <4>1. i - Len(dir) \in 1 .. n /\ i - Len(dir) \in 1 .. Len(from) /\ Len(dir) + (i - Len(dir)) = i
        BY <1>1, <1>2, <1>5, <1>10, <2>2, <3>2
      <4>2. from[i - Len(dir)] = here[i] /\ from[i - Len(dir)] = path[i - Len(dir)]
        BY <1>2, <1>5, <4>1
      <4>3. i \in 1 .. Len(A) /\ i \in 1 .. Len(dir) + Len(path) /\ ~(i <= Len(dir)) /\ i <= Len(dir) + n
        BY <1>1, <1>5, <1>10, <2>2, <3>2
      <4>4. s[i] = A[i] /\ (dir \o path)[i] = path[i - Len(dir)]
        BY <2>2, <2>3, <4>3
      <4>5. A[i] = here[i]
        BY <1>10, <4>3
      <4> QED
        BY <4>2, <4>4, <4>5
    <3>3. CASE ~(i <= Len(dir) + n)
      <4>1. i - (Len(dir) + n) \in 1 .. Len(path) - n /\ n + (i - (Len(dir) + n)) = i - Len(dir) /\ ~(i <= Len(dir))
        BY <1>1, <1>5, <1>10, <2>2, <3>3
      <4> QED
        BY <2>2, <2>3, <3>3, <4>1
    <3> QED
      BY <3>1, <3>2, <3>3
  <2>5. s = dir \o path
    BY <2>2, <2>3, <2>4, SeqEqual
  <2> QED
    BY <2>5 DEF s
<1> QED
  BY <1>14, <1>15, <1>16 DEF rel, from

LEMMA LocationsLead == CommandTypeOK => LocationsOpen
<1> SUFFICES ASSUME CommandTypeOK, search.step = "answered", search.rooted, IsPrefix(search.dir, search.here),
                    NEW path \in FilePaths
             PROVE  PointsTo(search.here, Shown(path)) = search.dir \o path
  BY DEF LocationsOpen
<1>1. search.here \in Seq(Names) /\ search.dir \in Seq(Names)
  BY PlacesAreSeqs DEF CommandTypeOK, Asking
<1>2. path \in Seq(Names) /\ \A i \in DOMAIN path : path[i] # ".."
  BY PlacesAssumption, SeqMonotonic DEF Names
<1> QED
  BY <1>1, <1>2, RelativeLeads DEF Shown

(* The invariant of a search from the command line: where it still looks,  *)
(* and what it ranks by, while indexes and watchers come and go.           *)
THEOREM CommandInvariance == CommandSpec => []CommandInv
  BY InitCommand, CommandNextKeeps, PTL DEF CommandSpec

(* It answers from the nearest index that stood all the while, ranks as    *)
(* asked or says so, and its locations open from where it was asked.       *)
THEOREM CommandStaysSound == CommandSpec => []CommandIsSound
<1>1. CommandInv => CommandIsSound
  BY LocationsLead DEF CommandInv, CommandIsSound
<1> QED
  BY <1>1, CommandInvariance, PTL

-----------------------------------------------------------------------------
(* Whoever searches is answered as promised.                               *)
THEOREM CallersAreAnswered == CallersSpec => []CallsAreAnswered
<1>1. AnswersAreExact /\ ProtocolIsSound /\ CommandIsSound => CallsAreAnswered
  BY DEF CallsAreAnswered
<1> QED
  BY <1>1, ServerAnswersAreExact, ProtocolStaysSound, CommandStaysSound, PTL DEF CallersSpec
===============================================================================
