---------------------------- MODULE MCSearchHandle ----------------------------
(* Two segments of three and two documents, two files, words and scan      *)
(* ranges of two.                                                          *)
EXTENDS HybridSearch, TLC

CONSTANTS a, b, p, q

MCAccepts == "p" :> {p} @@ "all" :> {p, q}
MCRarity  == [n \in 0 .. 5 |-> [f \in 0 .. 5 |-> n - f + 1]]
MCGain    == [f \in 1 .. 2 |-> [long \in BOOLEAN |-> IF long THEN f ELSE 2 * f]]
MCRankShare == [r \in 1 .. 5 |-> 60 \div r]
Weighted(r, e) == [rank |-> r, fusion |-> "weighted", exact |-> e]
Rrf(r, e)      == [rank |-> r, fusion |-> "rrf", exact |-> e]
MCModes == {Weighted("hybrid", TRUE), Rrf("hybrid", FALSE), Weighted("rerank", TRUE), Weighted("semantic", FALSE)}
MCRerankModes == {Weighted("rerank", TRUE), Rrf("rerank", TRUE)}

Text(i, j) == a :> i @@ b :> j
Sizes == <<3, 2>>
Tombs(ds) == [s \in 1 .. 2 |-> BitmapOf({d[2] : d \in {e \in ds : e[1] = s}}, Sizes[s])]
AllKeys == {<<1, 0>>, <<1, 1>>, <<1, 2>>, <<2, 0>>, <<2, 1>>}

(* Any tombstones, over texts that differ; a file that goes on in the next *)
(* segment, or fills it.                                                   *)
ScopeFamily ==
  /\ files \in {<<<<e, f, p>>, <<p, q>>>> : e, f \in {p, q}} \cup {<<<<p, q, q>>, <<q, q>>>>}
  /\ \E dead \in SUBSET (AllKeys \ {<<1, 1>>, <<2, 1>>}) : deleted = Tombs(dead)
  /\ texts = <<<<Text(1, 0), Text(0, 1), Text(1, 1)>>, <<Text(1, 0), Text(2, 1)>>>>
  /\ vectors = <<NoStore, NoStore>> /\ graphs = {} /\ left = 2

(* Any texts, with one tombstone at most.                                  *)
TextFamily ==
  /\ files = <<<<p, p, q>>, <<q, p>>>>
  /\ deleted \in {Tombs({}), Tombs({<<1, 0>>}), Tombs({<<1, 0>>, <<1, 1>>, <<1, 2>>, <<2, 0>>})}
  /\ texts \in {<<f, g>> : f \in [1 .. 3 -> {Text(1, 0), Text(0, 1), Text(1, 1)}],
                           g \in [1 .. 2 -> {Text(1, 0), Text(2, 1)}]}
  /\ vectors = <<NoStore, NoStore>> /\ graphs = {} /\ left = 1

(* Any vectors. *)
VectorFamily ==
  /\ files = <<<<p, p, q>>, <<q, p>>>>
  /\ deleted \in {Tombs({}), Tombs({<<1, 1>>})}
  /\ texts = <<<<Text(1, 0), Text(0, 1), Text(1, 1)>>, <<Text(1, 0), Text(2, 1)>>>>
  /\ vectors \in {<<f, g>> : f \in [1 .. 3 -> 0 .. 1] \cup {<<1, Invalid, 2>>},
                             g \in {NoStore, <<1, 0>>, <<0, 2>>}}
  /\ graphs \in {{}, {1}} /\ (graphs # {} => deleted # Tombs({})) /\ left = 1

MCInit ==
  /\ ScopeFamily \/ TextFamily \/ VectorFamily
  /\ HybridInit

MCSpec == MCInit /\ [][HybridNext]_hybridVars
===============================================================================
