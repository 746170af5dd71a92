---------------------------- MODULE SegmentVectors ----------------------------
(***************************************************************************)
(* Vectors beside segments, src/codeindex.rs: build_segmented encodes the  *)
(* documents of a new segment from the content cache and repairs rows of   *)
(* older runtimes; merge_segments gives the merged segment its vectors out *)
(* of that cache, by the keys kept with every segment.                     *)
(*                                                                         *)
(* A document is an id and a text, alone in its file; what the encoder     *)
(* makes of a text is that text, and so is its key.  SegmentStore models   *)
(* how segments are published.                                             *)
(***************************************************************************)
EXTENDS EmbedCache

CONSTANTS Ids,
          MaxSegments,      \* MAX_SEGMENTS
          MaxSourceEdits, MaxHalts   \* bounds: edits; crashes and encoder failures

ASSUME VectorAssumption ==
  /\ Ids \subseteq Nat /\ IsFiniteSet(Ids)
  /\ MaxSegments \in Nat \ {0} /\ MaxSourceEdits \in Nat /\ MaxHalts \in Nat

VARIABLES
  source,    \* the source tree: id -> text
  segs,      \* the published segments
  stored,    \* embcache.bin: key -> vector
  vpc,       \* what the build does next
  plan,      \* what it is about to publish
  keyOf,     \* the keys by id, captured for a merge
  sourceEdits, halts

vectorVars == <<source, segs, stored, vpc, plan, keyOf, sourceEdits, halts>>

-----------------------------------------------------------------------------
(* A segment: its documents, in order, and its sidecars.  A sidecar that is *)
(* not there has no rows.                                                  *)
VectorSegment(ids, texts, vectors, keys) ==
  [ids |-> ids, texts |-> texts, vectors |-> vectors, keys |-> keys, dead |-> {}]

LiveRows(s) == DOMAIN s.ids \ s.dead

(* The elements of S, one before another as the pairs of before say.       *)
Arranged(S, before) ==
  CHOOSE seq \in [1 .. Cardinality(S) -> S] : \A i, j \in DOMAIN seq : i < j => <<seq[i], seq[j]>> \in before

InOrder(S) == Arranged(S, {pair \in S \X S : pair[1] < pair[2]})
SourceTrees == UNION {[S -> Contents] : S \in SUBSET Ids}

(* Loading drops vectors that are damaged.                                 *)
Loaded == Restrict(stored, {k \in DOMAIN stored : stored[k] # Damaged})

IdsLive == UNION {{s.ids[i] : i \in LiveRows(s)} : s \in ToSet(segs)}
TextOf(id) == CHOOSE t \in Contents : \E s \in ToSet(segs) : \E i \in LiveRows(s) : s.ids[i] = id /\ s.texts[i] = t

(* invalid_embedding_ids: rows whose keys or vectors are not as many as    *)
(* the documents, and rows with a damaged vector.                          *)
InvalidRows(s) ==
  IF Len(s.keys) # Len(s.ids) \/ Len(s.vectors) # Len(s.ids) THEN DOMAIN s.ids
  ELSE {i \in DOMAIN s.ids : s.vectors[i] = Damaged}
ToRepair == UNION {{s.ids[i] : i \in InvalidRows(s) \cap LiveRows(s)} : s \in ToSet(segs)}

(* A segment of an older runtime: vectors damaged, or encoding stopped     *)
(* before a sidecar.                                                       *)
OldSegment(src, damaged, sidecars) ==
  LET ids   == InOrder(DOMAIN src)
      texts == [i \in DOMAIN ids |-> src[ids[i]]]
  IN  VectorSegment(ids, texts,
              IF "vectors" \in sidecars THEN [i \in DOMAIN ids |-> IF ids[i] \in damaged THEN Damaged ELSE texts[i]] ELSE <<>>,
              IF "keys" \in sidecars THEN texts ELSE <<>>)

(* No build has begun. *)
VectorsRest == vpc = "idle" /\ plan = <<>> /\ keyOf = <<>> /\ sourceEdits = 0 /\ halts = 0

VectorInit ==
  /\ source \in SourceTrees
  /\ segs \in {<<>>} \cup {<<OldSegment(src, damaged, files)>> :
                             src \in SourceTrees, damaged \in SUBSET Ids, files \in SUBSET {"vectors", "keys"}}
  /\ stored \in UNION {[keys -> {Damaged}] \cup {[k \in keys |-> k]} : keys \in SUBSET Contents}
  /\ VectorsRest

EditSource ==
  /\ sourceEdits < MaxSourceEdits
  /\ sourceEdits' = sourceEdits + 1
  /\ source' \in {src \in SourceTrees \ {source} : Cardinality({id \in Ids :
                    (id \in DOMAIN source) # (id \in DOMAIN src) \/ (id \in DOMAIN source /\ source[id] # src[id])}) = 1}
  /\ UNCHANGED <<segs, stored, vpc, plan, keyOf, halts>>

-----------------------------------------------------------------------------
(* build_segmented *)

(* What is in the tree and not yet, or not soundly, in the index, and what *)
(* is in the index and not in the tree.                                    *)
BeginSegments ==
  LET add   == {id \in DOMAIN source : id \notin IdsLive \/ id \in ToRepair \/ TextOf(id) # source[id]}
      stale == ToRepair \cup (IdsLive \ DOMAIN source)
  IN  /\ vpc = "idle"
      /\ add # {} \/ stale # {} \/ Len(segs) > MaxSegments
      /\ plan' = [add |-> add, stale |-> stale, texts |-> [id \in add |-> source[id]], new |-> <<>>]
      /\ vpc' = IF add = {} THEN "publish" ELSE "encode"
      /\ UNCHANGED <<source, segs, stored, keyOf, sourceEdits, halts>>

(* embed_segment: only what the cache misses is encoded, once per text;    *)
(* the cache is saved, not pruned.                                         *)
EmbedSegment ==
  LET ids   == InOrder(plan.add)
      texts == [i \in DOMAIN ids |-> plan.texts[ids[i]]]
      cache == [k \in ToSet(texts) \cup DOMAIN Loaded |-> IF k \in DOMAIN Loaded THEN Loaded[k] ELSE k]
  IN  /\ vpc = "encode"
      /\ plan' = [plan EXCEPT !.new = <<VectorSegment(ids, texts, [i \in DOMAIN ids |-> cache[texts[i]]], texts)>>]
      /\ stored' = cache
      /\ vpc' = "publish"
      /\ UNCHANGED <<source, segs, keyOf, sourceEdits, halts>>

PublishSegment ==
  LET gone == plan.stale \cup plan.add
      Retired(s) == [s EXCEPT !.dead = @ \cup {i \in DOMAIN s.ids : s.ids[i] \in gone}]
  IN  /\ vpc = "publish"
      /\ segs' = [n \in DOMAIN segs |-> Retired(segs[n])] \o plan.new
      /\ vpc' = IF Len(segs') > MaxSegments THEN "capture" ELSE "idle"
      /\ plan' = <<>>
      /\ UNCHANGED <<source, stored, keyOf, sourceEdits, halts>>

-----------------------------------------------------------------------------
(* merge_segments *)

Capturable(s) ==
  LET missed == {i \in LiveRows(s) : s.keys[i] \notin DOMAIN Loaded}
  IN  LiveRows(s) # {} =>
        /\ Len(s.keys) = Len(s.ids)
        /\ missed # {} => Len(s.vectors) = Len(s.ids) /\ \A i \in LiveRows(s) : s.vectors[i] # Damaged

(* Mutation of Capture: vectors the cache has lost are not put back.       *)
CaptureKeys ==
  /\ vpc = "capture" /\ \A s \in ToSet(segs) : Capturable(s)
  /\ keyOf' = [id \in IdsLive |-> CHOOSE k \in Contents :
                 \E s \in ToSet(segs) : \E i \in LiveRows(s) : s.ids[i] = id /\ s.keys[i] = k]
  /\ stored' = Loaded
  /\ vpc' = "merge"
  /\ UNCHANGED <<source, segs, plan, sourceEdits, halts>>

(* The keys of the live rows; and vectors the cache has lost are put back, *)
(* out of their segments.                                                  *)
Capture ==
  LET Lost(k) == \E s \in ToSet(segs) : \E i \in LiveRows(s) : s.keys[i] = k
      VectorOf(k) == CHOOSE v \in Contents \cup {Damaged} :
                       \E s \in ToSet(segs) : \E i \in LiveRows(s) : s.keys[i] = k /\ s.vectors[i] = v
      lost == {k \in Contents \ DOMAIN Loaded : Lost(k)}
  IN  /\ vpc = "capture" /\ \A s \in ToSet(segs) : Capturable(s)
      /\ keyOf' = [id \in IdsLive |-> CHOOSE k \in Contents :
                     \E s \in ToSet(segs) : \E i \in LiveRows(s) : s.ids[i] = id /\ s.keys[i] = k]
      /\ stored' = IF lost = {} THEN stored
                   ELSE [k \in lost \cup DOMAIN Loaded |-> IF k \in lost THEN VectorOf(k) ELSE Loaded[k]]
      /\ vpc' = "merge"
      /\ UNCHANGED <<source, segs, plan, sourceEdits, halts>>

(* Live rows, by <<segment, row>>, are numbered anew; the cache is pruned  *)
(* to their keys.                                                          *)
RowsLive == UNION {{<<n, i>> : i \in LiveRows(segs[n])} : n \in DOMAIN segs}
Earlier(a, b) == a[1] < b[1] \/ (a[1] = b[1] /\ a[2] < b[2])

Merge ==
  LET rows  == Arranged(RowsLive, {pair \in RowsLive \X RowsLive : Earlier(pair[1], pair[2])})
      ids   == [r \in DOMAIN rows |-> segs[rows[r][1]].ids[rows[r][2]]]
      texts == [r \in DOMAIN rows |-> segs[rows[r][1]].texts[rows[r][2]]]
      keys  == [r \in DOMAIN rows |-> keyOf[ids[r]]]
  IN  /\ vpc = "merge" /\ ToSet(keys) \subseteq DOMAIN Loaded
      /\ segs' = <<VectorSegment(ids, texts, [r \in DOMAIN rows |-> Loaded[keys[r]]], keys)>>
      /\ stored' = Restrict(Loaded, ToSet(keys))
      /\ vpc' = "idle" /\ keyOf' = <<>>
      /\ UNCHANGED <<source, plan, sourceEdits, halts>>

(* A crash, or an error of the encoder.  build.pending stays, so that the  *)
(* next build does not take the tree for unchanged.                        *)
StopBuild ==
  /\ vpc # "idle" /\ halts < MaxHalts
  /\ halts' = halts + 1
  /\ vpc' = "idle" /\ plan' = <<>> /\ keyOf' = <<>>
  /\ UNCHANGED <<source, segs, stored, sourceEdits>>

(* The cache file is lost, or not readable any more.                       *)
LoseCache ==
  /\ vpc = "idle" /\ halts < MaxHalts
  /\ halts' = halts + 1
  /\ stored' = <<>>
  /\ UNCHANGED <<source, segs, vpc, plan, keyOf, sourceEdits>>

VectorNext ==
  \/ EditSource \/ BeginSegments \/ EmbedSegment \/ PublishSegment \/ Capture \/ Merge
  \/ StopBuild \/ LoseCache

VectorSpec == VectorInit /\ [][VectorNext]_vectorVars

-----------------------------------------------------------------------------
(* Properties *)

(* Every live row with sidecars has the key and the vector of its own      *)
(* text, or a damaged vector of an older runtime, which is there only      *)
(* until the next build has published: however documents were moved,       *)
(* repaired, merged and their vectors cached meanwhile.                    *)
VectorsAreTheirs ==
  \A s \in ToSet(segs) : \A i \in LiveRows(s) :
    /\ s.keys # <<>> => s.keys[i] = s.texts[i]
    /\ s.vectors # <<>> => s.vectors[i] \in {s.texts[i], Damaged}
    /\ vpc \in {"capture", "merge"} => i \notin InvalidRows(s)

(* "Cache eviction must not fail *after* merge has replaced the source     *)
(* segments": a merge that has begun finds every key and every vector.     *)
MergeNeverLacks ==
  /\ vpc = "capture" => \A s \in ToSet(segs) : Capturable(s)
  /\ vpc = "merge" => \A id \in IdsLive : id \in DOMAIN keyOf /\ keyOf[id] \in DOMAIN Loaded

(* An id is live once.                                                     *)
LiveOnce ==
  \A m, n \in DOMAIN segs : \A i \in LiveRows(segs[m]), j \in LiveRows(segs[n]) :
    segs[m].ids[i] = segs[n].ids[j] => m = n /\ i = j

(* Live rows have their own vectors, an id has one live row, and a merge   *)
(* finds all it needs.                                                     *)
RowsAreSound == VectorsAreTheirs /\ LiveOnce /\ MergeNeverLacks
===============================================================================
