----------------------------- MODULE SingleLayout -----------------------------
(***************************************************************************)
(* An index in one directory, src/codeindex.rs: built anew beside the old  *)
(* one and swapped in by two renames, with vectors from the content cache  *)
(* of src/embcache.rs and a quantizer that is kept from build to build; or *)
(* migrated, file by file, to segments in the live directory.              *)
(*                                                                         *)
(* A directory is a function from the files it has to what is in them.  A  *)
(* document is its text, and what the encoder makes of a text is that      *)
(* text.  A quantizer is known by the vectors it was trained on.           *)
(***************************************************************************)
EXTENDS EmbedCache

CONSTANTS Clusters,        \* default_num_clusters
          MaxStops,        \* bound: crashes and failed renames
          MaxChanges       \* bound: changes of the source tree

ASSUME LayoutAssumption ==
  /\ \A n \in DOMAIN Clusters : Clusters[n] \in 1 .. n
  /\ MaxStops \in Nat /\ MaxChanges \in Nat

VARIABLES
  corpus,     \* the documents of the source tree, in order
  index, staging, retired,   \* <dir>, <dir>.building, <dir>.old
  pc,       \* what the build does next
  docs,     \* the documents it read
  cache,    \* its EmbedCache
  fresh,    \* is the quantizer to be trained?
  changes,
  crashes, stops,   \* crashes; crashes and failed renames
  had       \* history: an index has been there

layoutVars == <<corpus, index, staging, retired, pc, docs, cache, fresh, changes, crashes, stops, had>>
counters   == <<changes, crashes, stops, had>>

-----------------------------------------------------------------------------
(* A directory that is not there has no files, and one that is there has   *)
(* some, but for staging before its first is written.                      *)
NoDir == [file \in {} |-> {}]
Has(dir, file) == file \in DOMAIN dir
WithFile(dir, file, content) == [f \in DOMAIN dir \cup {file} |-> IF f = file THEN content ELSE dir[f]]
CacheOf(dir) == IF Has(dir, "embcache") THEN Loadable(dir["embcache"]) ELSE NoCache

IsSegmented(dir) == Has(dir, "manifest")
Vectors(c, texts) == [i \in DOMAIN texts |-> c.entries[texts[i]].vector]

(* A directory built by an older runtime, which let damaged vectors pass.  *)
OldIndex(texts, bad) ==
  LET vector == [i \in DOMAIN texts |-> IF texts[i] \in bad THEN Damaged ELSE texts[i]]
      code   == [i \in DOMAIN texts |-> CodeOf(vector, vector[i])]
      entry(t) == LET i == SelectInSeq(texts, LAMBDA u : u = t) IN [vector |-> vector[i], code |-> code[i]]
  IN  [lexical |-> texts, vectors |-> vector, quantizer |-> vector, codes |-> code,
       embcache |-> [quantizer |-> vector, entries |-> [t \in ToSet(texts) |-> entry(t)]], repo |-> texts]

Trees == BoundedSeq(Contents, 2) \ {<<>>}

(* No build has begun. *)
LayoutRests ==
  /\ staging = NoDir /\ retired = NoDir
  /\ pc = "idle" /\ docs = <<>> /\ cache = NoCache /\ fresh = FALSE
  /\ changes = 0 /\ crashes = 0 /\ stops = 0
  /\ had = (index # NoDir)

LayoutInit ==
  /\ corpus \in Trees
  /\ index \in {NoDir} \cup {OldIndex(t, bad) : t \in Trees, bad \in SUBSET Contents}
  /\ LayoutRests

Change ==
  /\ changes < MaxChanges
  /\ corpus' \in Trees \ {corpus}
  /\ changes' = changes + 1
  /\ UNCHANGED <<index, staging, retired, pc, docs, cache, fresh, crashes, stops, had>>

-----------------------------------------------------------------------------
(* build_with, single layout *)

RepairIndex == Has(index, "repo") /\ Has(index, "vectors") /\ Contains(index["vectors"], Damaged)

(* A build that ends leaves nothing in memory.                             *)
Idle == pc' = "idle" /\ docs' = <<>> /\ cache' = NoCache /\ fresh' = FALSE

(* The walk, and the end if nothing changed.  staging is made anew.        *)
BeginBuild(retrain) ==
  /\ pc = "idle" /\ ~IsSegmented(index)
  /\ IF ~retrain /\ ~RepairIndex /\ Has(index, "repo") /\ index["repo"] = corpus
     THEN UNCHANGED <<staging, pc, docs, fresh>>
     ELSE /\ docs' = corpus /\ fresh' = (retrain \/ RepairIndex)
          /\ staging' = NoDir
          /\ pc' = "lexical"
  /\ UNCHANGED <<corpus, index, retired, cache, counters>>

SaveLexical ==
  /\ pc = "lexical"
  /\ staging' = WithFile(staging, "lexical", docs)
  /\ pc' = "vectors"
  /\ UNCHANGED <<corpus, index, retired, docs, cache, fresh, counters>>

(* encode_cached: the cache of the installed index, what it misses encoded *)
(* once per text.                                                          *)
SaveVectors ==
  /\ pc = "vectors"
  /\ cache' = Insert(CacheOf(index), Misses(CacheOf(index), docs))
  /\ staging' = WithFile(staging, "vectors", Vectors(cache', docs))
  /\ pc' = "quantize"
  /\ UNCHANGED <<corpus, index, retired, docs, fresh, counters>>

(* reusable_quantizer: kept until the number of clusters is off by two.    *)
Reusable ==
  /\ ~fresh /\ Has(index, "quantizer")
  /\ LET k     == Clusters[Len(index["quantizer"])]
         ideal == Clusters[Len(docs)]
     IN  k <= Len(docs) /\ ideal <= 2 * k /\ k <= 2 * ideal

(* quantize_incrementally: only what has no code under this quantizer.     *)
Requantize ==
  /\ pc = "quantize" /\ Reusable
  /\ LET q == index["quantizer"]
         c == SetQuantizer(cache, q)
         codeOf == [t \in ToSet(docs) |->
                      IF c.entries[t].code # NoCode THEN c.entries[t].code ELSE CodeOf(q, c.entries[t].vector)]
     IN  /\ cache' = SetCodes(c, codeOf)
         /\ staging' = WithFile(WithFile(staging, "quantizer", q), "codes", [i \in DOMAIN docs |-> codeOf[docs[i]]])
  /\ pc' = "cache"
  /\ UNCHANGED <<corpus, index, retired, docs, fresh, counters>>

(* train_quantizer: over the vectors just written.                         *)
Train ==
  /\ pc = "quantize" /\ ~Reusable
  /\ LET q == staging["vectors"]
     IN  /\ staging' = WithFile(WithFile(staging, "quantizer", q), "codes", [i \in DOMAIN q |-> CodeOf(q, q[i])])
         /\ cache' = SetCodes(SetQuantizer(cache, q), [t \in ToSet(docs) |-> CodeOf(q, t)])
  /\ pc' = "cache"
  /\ UNCHANGED <<corpus, index, retired, docs, fresh, counters>>

SaveCache ==
  /\ pc = "cache"
  /\ staging' = WithFile(staging, "embcache", RetainKeys(cache, ToSet(docs)))
  /\ pc' = "repo"
  /\ UNCHANGED <<corpus, index, retired, docs, cache, fresh, counters>>

SaveRepo ==
  /\ pc = "repo"
  /\ staging' = WithFile(staging, "repo", docs)
  /\ pc' = "drop"
  /\ UNCHANGED <<corpus, index, retired, docs, cache, fresh, counters>>

(* install *)
DropRetired ==
  /\ pc = "drop"
  /\ retired' = NoDir
  /\ pc' = IF index = NoDir THEN "place" ELSE "retire"
  /\ UNCHANGED <<corpus, index, staging, docs, cache, fresh, counters>>

Retire ==
  /\ pc = "retire"
  /\ retired' = index /\ index' = NoDir
  /\ pc' = "place"
  /\ UNCHANGED <<corpus, staging, docs, cache, fresh, counters>>

Place ==
  /\ pc = "place"
  /\ index' = staging /\ staging' = NoDir
  /\ pc' = "done" /\ had' = TRUE
  /\ UNCHANGED <<corpus, retired, docs, cache, fresh, changes, crashes, stops>>

FinishInstall ==
  /\ pc = "done"
  /\ retired' = NoDir /\ Idle
  /\ UNCHANGED <<corpus, index, staging, counters>>

Fails == stops < MaxStops /\ stops' = stops + 1

(* Mutation of PlaceFails: the old index stays aside.                      *)
PlaceFailsOnly ==
  /\ pc = "place" /\ Fails /\ Idle
  /\ UNCHANGED <<corpus, index, retired, staging, changes, crashes, had>>

(* The second rename fails: the old index is put back.                     *)
PlaceFails ==
  /\ pc = "place" /\ Fails /\ Idle
  /\ index' = retired /\ retired' = NoDir
  /\ UNCHANGED <<corpus, staging, changes, crashes, had>>

(* The process dies, or the build returns an error before install.         *)
Crash ==
  /\ pc # "idle" /\ Fails /\ Idle
  /\ crashes' = crashes + 1
  /\ UNCHANGED <<corpus, index, staging, retired, changes, had>>

-----------------------------------------------------------------------------
(* migrate_to_segments: all is prepared in a temporary directory; then it  *)
(* is moved into the live one, the manifest of the segments last.          *)

SingleFiles == {"lexical", "vectors", "quantizer", "codes"}
Without(dir, files) == Restrict(dir, DOMAIN dir \ files)

BeginMigration ==
  /\ pc = "idle" /\ Has(index, "lexical") /\ ~IsSegmented(index)
  /\ docs' = corpus
  /\ LET c == Insert(CacheOf(index), Misses(CacheOf(index), corpus))
     IN  staging' = [segment |-> [docs |-> corpus, vectors |-> Vectors(c, corpus)], embcache |-> c,
                     manifest |-> {"segment"}]
  /\ pc' = "m_pending"
  /\ UNCHANGED <<corpus, index, retired, cache, fresh, counters>>

Mark ==
  /\ pc = "m_pending"
  /\ index' = WithFile(index, "pending", {})
  /\ pc' = "segment"
  /\ UNCHANGED <<corpus, staging, retired, docs, cache, fresh, counters>>

NextMove(file) == CASE file = "segment" -> "embcache" [] file = "embcache" -> "manifest" [] OTHER -> "m_repo"

Move ==
  /\ pc \in {"segment", "embcache", "manifest"}
  /\ index' = WithFile(index, pc, staging[pc])
  /\ staging' = Without(staging, {pc})
  /\ pc' = NextMove(pc)
  /\ UNCHANGED <<corpus, retired, docs, cache, fresh, counters>>

MigrateRepo ==
  /\ pc = "m_repo"
  /\ index' = WithFile(index, "repo", docs)
  /\ pc' = "m_clean"
  /\ UNCHANGED <<corpus, staging, retired, docs, cache, fresh, counters>>

CleanUp ==
  /\ pc = "m_clean"
  /\ \/ \E file \in SingleFiles : Has(index, file) /\ index' = Without(index, {file}) /\ UNCHANGED <<pc, docs, cache, fresh>>
     \/ SingleFiles \cap DOMAIN index = {} /\ index' = Without(index, {"pending"}) /\ Idle
  /\ UNCHANGED <<corpus, staging, retired, counters>>

LayoutNext ==
  \/ Change \/ \E retrain \in BOOLEAN : BeginBuild(retrain)
  \/ SaveLexical \/ SaveVectors \/ Requantize \/ Train \/ SaveCache \/ SaveRepo
  \/ DropRetired \/ Retire \/ Place \/ FinishInstall \/ PlaceFails \/ Crash
  \/ BeginMigration \/ Mark \/ Move \/ MigrateRepo \/ CleanUp

LayoutSpec == LayoutInit /\ [][LayoutNext]_layoutVars

-----------------------------------------------------------------------------
(* Properties *)

(* Vectors are those of the documents in their order, or damaged ones of   *)
(* an older runtime.                                                       *)
OfTexts(vectors, texts) ==
  Len(vectors) = Len(texts) /\ \A i \in DOMAIN texts : vectors[i] \in {texts[i], Damaged}

Whole(dir) ==
  IF IsSegmented(dir)
  THEN /\ \A s \in dir["manifest"] : Has(dir, s) /\ OfTexts(dir[s].vectors, dir[s].docs)
       /\ Has(dir, "repo")
  ELSE /\ \A file \in SingleFiles \cup {"embcache", "repo"} : Has(dir, file)
       /\ OfTexts(dir["vectors"], dir["lexical"])
       /\ dir["codes"] = [i \in DOMAIN dir["lexical"] |-> CodeOf(dir["quantizer"], dir["vectors"][i])]

(* Whatever a build or a migration stopped in, the directory opens as a    *)
(* complete index of the layout its files say, its vectors those of its    *)
(* documents, its codes those of its own quantizer; and the cache in it    *)
(* has no code of another quantizer.  "Until that rename, the original     *)
(* single layout is intact."                                               *)
OpensWhole ==
  index # NoDir =>
    /\ Whole(index)
    /\ Has(index, "embcache") =>
         \A e \in Range(index["embcache"].entries) : e.code \in {NoCode, CodeOf(index["embcache"].quantizer, e.vector)}

(* A build leaves no damaged vector behind, whatever the cache held.       *)
BuiltIsSound == pc = "done" => index["vectors"] = index["lexical"] /\ index["lexical"] = docs

(* Installed or migrated, an index is whole and its build sound.           *)
IndexIsWhole == OpensWhole /\ BuiltIsSound

(* "Put the old index back rather than leaving nothing behind": without a  *)
(* crash the directory is away for the second rename only; and one crash,  *)
(* or one failed rename, never leaves less than a complete index in one of *)
(* the three places.                                                       *)
NeverLost ==
  had => /\ crashes = 0 /\ pc # "place" => index # NoDir
         /\ stops <= 1 => \E dir \in {index, retired, staging} : dir # NoDir /\ Whole(dir)
===============================================================================
