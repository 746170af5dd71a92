----------------------------- MODULE SingleSearch -----------------------------
(***************************************************************************)
(* Ranking by words and by meaning in an index of a single layout, the     *)
(* other half of src/query.rs and src/hybrid.rs: the pool comes from the   *)
(* clusters probed or from all vectors, closeness from the vectors or, if  *)
(* forced, from codes; the lists are fused by document.  An index is a     *)
(* record x: words[d] (0: not on the list) and near[d], the scores of d;   *)
(* codes[d], what its code says instead; probed, the documents of the      *)
(* probed clusters; scope; and how the query is ranked.  Documents are     *)
(* numbered from 0, like those of segment 1.                               *)
(***************************************************************************)
EXTENDS HybridSearch

OneSegment(near) == INSTANCE HybridSearch WITH vectors <- <<near>>

WordHits(x, n) == TopOf({<<1, d, x.words[d + 1]>> : d \in {e \in x.scope : x.words[e + 1] > 0}}, n)
PoolOf(x)      == Max({x.pool, x.k})

(* choose_pq: codes only if forced, and never for an exact query.          *)
ByCodes(x)  == x.forced /\ ~x.exact
Meaning(x, d) == IF ByCodes(x) THEN x.codes[d + 1] ELSE x.near[d + 1]

(* semantic_pool_filtered: the lists of the clusters, or every vector.     *)
Scanned(x)      == IF x.exact THEN x.scope ELSE x.scope \cap x.probed
EncoderPool(x, n) == TopOf({<<1, d, Meaning(x, d)>> : d \in Scanned(x)}, n)

-----------------------------------------------------------------------------
(* A row: a document, its scores, its ranks on the lists (0: not there).   *)

Row(d, words, near, wordRank, nearRank) ==
  [doc |-> d, words |-> words, near |-> near, wordRank |-> wordRank, nearRank |-> nearRank]

(* fuse_union.  Scores are scaled by the span of the words' scores.        *)
FuseUnion(rows, fusion, n) ==
  LET said == {r.words : r \in {s \in rows : s.words > 0}}
      span == IF said = {} THEN 1 ELSE Max({Max(said) - Min(said), 1})
      Norm(r) == IF r.words = 0 THEN 0 ELSE IF Cardinality(said) = 1 THEN span ELSE r.words - Min(said)
      Share(rank) == IF rank = 0 THEN 0 ELSE RankShare[rank]
      Score(r) == IF fusion = "weighted" THEN WordShare * Norm(r) + (100 - WordShare) * r.near * span
                  ELSE Share(r.wordRank) + Share(r.nearRank)
  IN  TopOf({<<1, r.doc, Score(r)>> : r \in rows}, n)

(* merge_retrieve: what the encoder found and what the words found, by     *)
(* document; what only the words found is close as its vector says.        *)
MergeRetrieve(x) ==
  LET near  == EncoderPool(x, PoolOf(x))
      words == WordHits(x, PoolOf(x))
      Both(key) == Row(key[2], WordsOf(words, key),
                       IF RankIn(near, key) # 0 THEN WordsOf(near, key) ELSE x.near[key[2] + 1],
                       RankIn(words, key), RankIn(near, key))
  IN  FuseUnion({Both(key) : key \in KeysOf(words) \cup KeysOf(near)}, x.fusion, x.k)

(* rerank, fuse_and_truncate: those the words found, ranked once more.     *)
Rerank(x) ==
  LET words == WordHits(x, PoolOf(x))
      near  == TopOf({<<1, h[2], x.near[h[2] + 1]>> : h \in ToSet(words)}, Len(words))
  IN  FuseUnion({Row(h[2], h[3], x.near[h[2] + 1], RankIn(words, <<1, h[2]>>), RankIn(near, <<1, h[2]>>)) : h \in ToSet(words)},
                x.fusion, x.k)

SingleRanked(x) ==
  CASE x.rank = "semantic" -> EncoderPool(x, x.k)
    [] x.rank = "rerank"   -> Rerank(x)
    [] OTHER               -> MergeRetrieve(x)

-----------------------------------------------------------------------------
(* Properties *)

(* "Fused like the single-index path": with all its vectors scanned, a     *)
(* single index answers as one segment with them would; a rerank as the    *)
(* segment whose nearest are those the words found.                        *)
AnswersAsSegment(x) ==
  LET m == [rank |-> x.rank, fusion |-> x.fusion]
      words == WordHits(x, PoolOf(x))
      near(ds, n) == TopOf({<<1, d, x.near[d + 1]>> : d \in ds}, n)
      Fusion(list) == SubSeq(OneSegment(x.near)!FusedTop(m, words, list), 1,
                             Min({x.k, Len(OneSegment(x.near)!FusedTop(m, words, list))}))
  IN  ~ByCodes(x) /\ Scanned(x) = x.scope /\ x.k <= AskedFor =>
        SingleRanked(x) = CASE x.rank = "semantic" -> near(x.scope, x.k)
                            [] x.rank = "rerank"   -> Fusion(near({h[2] : h \in ToSet(words)}, PoolOf(x)))
                            [] OTHER               -> Fusion(near(x.scope, PoolOf(x)))

(* What is less close than another document in scope, and has less of the  *)
(* words too, is below it in whatever mode, as long as the pool was taken  *)
(* from all vectors; by weights it need not even have less of the words.   *)
(* A rerank returns what the words found.                                  *)
BeatenIsBelow(x) ==
  LET hits == SingleRanked(x)
      Beats(d, e) == /\ x.near[d + 1] > x.near[e + 1]
                     /\ IF x.fusion = "weighted" THEN x.words[d + 1] >= x.words[e + 1] ELSE x.words[d + 1] > x.words[e + 1]
      Place(d) == SelectInSeq(hits, LAMBDA h : h[2] = d)
  IN  /\ \A i \in DOMAIN hits : hits[i][2] \in x.scope /\ (x.rank = "rerank" => x.words[hits[i][2] + 1] > 0)
      /\ x.rank # "semantic" /\ (x.rank = "rerank" \/ (~ByCodes(x) /\ Scanned(x) = x.scope)) =>
           \A j \in DOMAIN hits, d \in x.scope : Beats(d, hits[j][2]) => Place(d) \in 1 .. j - 1
===============================================================================
