----------------------------- MODULE HybridSearch -----------------------------
(***************************************************************************)
(* Ranking by words and by meaning: run_ranked_scoped of src/query.rs with *)
(* the pools and the fusion of src/hybrid.rs, over the lexical search of   *)
(* SegmentedSearch.  The lexical search runs on a helper thread while the  *)
(* query is encoded.  A single index is one segment; its cluster file and  *)
(* forced product quantization are left out, and its rerank ranks the      *)
(* candidates as RerankByMeaning says.                                     *)
(*                                                                         *)
(* Closeness of a document's vector to the query's is a natural; a graph   *)
(* returns any live documents, as many as there are up to the pool (which  *)
(* VectorIndex shows).  Fused scores are fractions over one denominator.   *)
(***************************************************************************)
EXTENDS SegmentedSearch

CONSTANTS Modes,       \* RankMode and Fusion, as records
          WordShare,   \* alpha, in hundredths
          RankShare    \* RankShare[r]: 1 / (rrf_k + r), scaled

ASSUME FusionAssumption ==
  /\ Modes \subseteq [rank : {"hybrid", "rerank", "semantic"}, fusion : {"weighted", "rrf"},
                      exact : BOOLEAN]
  /\ WordShare \in 0 .. 100 /\ \A r \in 1 .. Max({AskedFor, PoolSize}) : RankShare[r] \in Nat

VARIABLES
  vectors,   \* vectors[s]: per document its closeness or Invalid; NoStore
  graphs,    \* the segments that have a routing graph
  mode,      \* how the query is ranked; Lexical when by words alone
  encoded,   \* has the query's vector come?
  pools,     \* pools[s]: what the vectors of s contribute, once there
  fused      \* the result

fusionVars == <<vectors, graphs, mode, encoded, pools, fused>>
hybridVars == <<handleVars, fusionVars>>

Invalid == -1
NoStore == <<>>
Lexical == [rank |-> "lexical", fusion |-> "weighted", exact |-> TRUE]
NotYet  == [state |-> "open"]
Failed  == [state |-> "failed"]
Result(hits) == [state |-> "done", hits |-> hits]

(* A segment has a closeness of every document or of none.                 *)
VectorsOK ==
  /\ vectors \in Seq(Seq(Nat \cup {Invalid})) /\ Len(vectors) = Len(files) /\ graphs \subseteq Segs
  /\ \A s \in Segs : vectors[s] # NoStore => Len(vectors[s]) = Len(files[s])

FusionInit == mode = Lexical /\ encoded = FALSE /\ pools = Nobody /\ fused = NotYet

Has(s)     == vectors[s] # NoStore
Close(key) == IF Has(key[1]) THEN vectors[key[1]][key[2] + 1] ELSE 0

(* validate_live: a damaged vector of a live document, in scope or not.    *)
Damaged == \E key \in LiveKeys : Has(key[1]) /\ Close(key) = Invalid

-----------------------------------------------------------------------------
(* Begin: an ordinary query, or one that also needs vectors.  Damage shows *)
(* before anything runs.                                                   *)

AskLexical ==
  /\ Ask(AskedFor, TRUE, TRUE)
  /\ mode' = Lexical /\ fused' = NotYet
  /\ UNCHANGED <<vectors, graphs, encoded, pools>>

AskHybrid ==
  /\ mode' \in Modes
  /\ Ask(IF mode'.rank = "semantic" THEN AskedFor ELSE Max({AskedFor, PoolSize}),
         mode'.rank # "semantic", FALSE)
  /\ encoded' = FALSE
  /\ pools' = Nobody
  /\ ~Damaged /\ (\E s \in Segs : Has(s)) /\ fused' = NotYet
  /\ UNCHANGED <<vectors, graphs>>

(* Without vectors, or with damaged ones, nothing runs.                    *)
Refuse ==
  /\ mode' \in Modes
  /\ Ask(0, FALSE, FALSE)
  /\ Damaged \/ \A s \in Segs : ~Has(s)
  /\ fused' = Failed
  /\ UNCHANGED <<vectors, graphs, encoded, pools>>

Ranking == mode # Lexical /\ fused = NotYet

Encode ==
  /\ Ranking /\ ~encoded
  /\ encoded' = TRUE
  /\ UNCHANGED <<handleVars, vectors, graphs, mode, pools, fused>>

(* An error of the encoder is the query's, once the helper has ended.      *)
EncodeFails ==
  /\ Ranking /\ ~encoded /\ query = NoQuery
  /\ fused' = Failed
  /\ UNCHANGED <<handleVars, vectors, graphs, mode, encoded, pools>>

-----------------------------------------------------------------------------
(* The pools.  Both threads have ended before they are begun.              *)

Joined == Ranking /\ encoded /\ ranking.done

(* Mutation of Eligible: the graph and the scan look at tombstones only.   *)
EligibleLive(s) == {d \in Local(s) : ~IsDead(<<s, d>>)}

Eligible(s) == Visible(s)

NearHits(s, ds) == {<<s, d, Close(<<s, d>>)>> : d \in ds}

(* An exact scan in ranges, of each the best, of these the best.           *)
ScanRanges(s) ==
  LET InRange(i) == {d \in Eligible(s) : d \div RangeSize = i}
  IN  TopOf(UNION {ToSet(TopOf(NearHits(s, InRange(i)), depth)) :
                   i \in 0 .. Len(files[s]) \div RangeSize}, depth)

Routed(s) == {ds \in SUBSET Eligible(s) : Cardinality(ds) = Min({depth, Cardinality(Eligible(s))})}

Pool(s) ==
  /\ Joined /\ mode.rank # "rerank" /\ s \notin DOMAIN pools
  /\ \/ /\ ~Has(s)
        /\ pools' = Contributed(pools, s, <<>>)
     \/ /\ Has(s) /\ (mode.exact \/ s \notin graphs)
        /\ pools' = Contributed(pools, s, ScanRanges(s))
     \/ /\ Has(s) /\ ~mode.exact /\ s \in graphs
        /\ \E ds \in Routed(s) : pools' = Contributed(pools, s, TopOf(NearHits(s, ds), depth))
  /\ UNCHANGED <<handleVars, vectors, graphs, mode, encoded, fused>>

-----------------------------------------------------------------------------
(* The fusion of a lexical list and a list by meaning.                     *)

RankIn(list, key) == SelectInSeq(list, LAMBDA h : <<h[1], h[2]>> = key)   \* 0: not in it
KeysOf(list)      == {<<h[1], h[2]>> : h \in ToSet(list)}
WordsOf(list, key) == IF RankIn(list, key) = 0 THEN 0 ELSE list[RankIn(list, key)][3]

(* The word score between the lowest and the highest on the list, over     *)
(* their span; one when all are equal.                                     *)
Normal(list, key) ==
  LET scores == {h[3] : h \in ToSet(list)}
      span   == Max(scores) - Min(scores)
  IN  IF RankIn(list, key) = 0 THEN [n |-> 0, over |-> 1]
      ELSE IF span = 0 THEN [n |-> 1, over |-> 1]
      ELSE [n |-> WordsOf(list, key) - Min(scores), over |-> span]

Span(list) == LET scores == {h[3] : h \in ToSet(list)}
              IN  IF list = <<>> \/ Max(scores) = Min(scores) THEN 1 ELSE Max(scores) - Min(scores)

Fused(m, words, near, key) ==
  IF m.fusion = "weighted"
  THEN WordShare * Normal(words, key).n * (Span(words) \div Normal(words, key).over)
       + (100 - WordShare) * Close(key) * Span(words)
  ELSE LET Share(r) == IF r = 0 THEN 0 ELSE RankShare[r]
       IN  Share(RankIn(words, key)) + Share(RankIn(near, key))

FusedTop(m, words, near) ==
  TopOf({<<key[1], key[2], Fused(m, words, near, key)>> : key \in KeysOf(words) \cup KeysOf(near)},
        AskedFor)

NearList == TopOf(UNION {ToSet(pools[s]) : s \in Segs}, depth)

(* A rerank scores the lexical hits alone, a semantic query none of them.  *)
Fuse ==
  /\ Joined /\ (mode.rank = "rerank" \/ DOMAIN pools = Segs)
  /\ fused' = Result(
       CASE mode.rank = "semantic" -> SubSeq(NearList, 1, Min({Len(NearList), AskedFor}))
         [] mode.rank = "rerank"   -> FusedTop(mode, ranking.hits, <<>>)
         [] OTHER                  -> FusedTop(mode, ranking.hits, NearList))
  /\ UNCHANGED <<handleVars, vectors, graphs, mode, encoded, pools>>

(* The next query comes when this one has its result.                      *)
Idle == query = NoQuery /\ (mode = Lexical \/ fused # NotYet)

HybridNext ==
  \/ Idle /\ (AskLexical \/ AskHybrid \/ Refuse)
  \/ Lexically /\ UNCHANGED fusionVars
  \/ Encode \/ EncodeFails
  \/ \E s \in Segs : Pool(s)
  \/ Fuse

HybridInit == IndexOK /\ VectorsOK /\ left \in Nat /\ HandleInit /\ FusionInit
HybridSpec == HybridInit /\ [][HybridNext]_hybridVars

-----------------------------------------------------------------------------
(* Properties *)

(* "the fused top-k is exact within the scope and score normalization sees *)
(* in-scope candidates only": a result ranks live documents in scope       *)
(* alone, and without graphs it is what fusing two lists made from nothing *)
(* but the scope's documents gives, as if the index held no others.  A     *)
(* document is withheld rather than ranked by a damaged vector.            *)
FusionIsExact ==
  mode # Lexical /\ fused.state = "done" =>
    LET in   == {key \in LiveKeys : glob # NoGlob => FileOf(key) \in Accepts[glob]}
        said == {key \in in : \E t \in ranking.terms : TextOf(key)[t] > 0}
        words == TopOf({<<key[1], key[2], Weight(ranking.terms, key)>> : key \in said}, depth)
        near  == TopOf({<<key[1], key[2], Close(key)>> : key \in {i \in in : Has(i[1])}}, depth)
    IN  /\ KeysOf(fused.hits) \subseteq in
        /\ \A key \in KeysOf(fused.hits) : Close(key) # Invalid
        /\ mode.exact \/ graphs = {} =>
             fused.hits = CASE mode.rank = "semantic" -> SubSeq(near, 1, Min({Len(near), AskedFor}))
                            [] mode.rank = "rerank"   -> FusedTop(mode, words, <<>>)
                            [] OTHER                  -> FusedTop(mode, words, near)

(* "BM25-then-cosine": a rerank of documents that differ in closeness is   *)
(* in the order that fusing the list by words with the same documents by   *)
(* meaning gives, as in a single index.                                    *)
RerankByMeaning ==
  mode.rank = "rerank" /\ fused.state = "done" =>
    LET keys == KeysOf(ranking.hits)
        near == TopOf({<<key[1], key[2], Close(key)>> : key \in keys}, depth)
        Order(hits) == [i \in DOMAIN hits |-> <<hits[i][1], hits[i][2]>>]
    IN  Cardinality({Close(key) : key \in keys}) = Cardinality(keys) =>
          Order(fused.hits) = Order(FusedTop(mode, ranking.hits, near))
===============================================================================
