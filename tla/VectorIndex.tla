----------------------------- MODULE VectorIndex ------------------------------
(***************************************************************************)
(* What is built over the vectors of an index: the routing graph, the      *)
(* clusters and codes they are quantized to, and half floats.              *)
(***************************************************************************)
EXTENDS Integers, Sequences, SequencesExt, FiniteSets, FiniteSetsExt, Functions

(***************************************************************************)
(* The routing graph over the vectors of a segment, src/hnsw.rs: built one *)
(* document at a time, then searched.  Vectors are points on a line; how   *)
(* close two are stands for their cosine.  Documents are numbered from 1,  *)
(* layers too: layer 1 is the code's layer 0, which holds them all.        *)
(***************************************************************************)

CONSTANTS Degree,     \* M: edges of a node on the upper layers
          Breadth,    \* EF_BUILD
          MaxLayer    \* MAX_LEVEL + 1

ASSUME GraphAssumption == Degree \in Nat \ {0} /\ Breadth \in Nat \ {0} /\ MaxLayer \in Nat \ {0}

VARIABLES
  points,   \* points[d]: the vector of document d
  links,    \* links[d][l]: the edges of d on layer l, of those built so far
  entry,    \* the node every walk begins at
  found     \* the answer to the last search

graphVars == <<points, links, entry, found>>

NoAnswer == [state |-> "none"]

GraphInit == links = <<>> /\ entry = 1 /\ found = NoAnswer

-----------------------------------------------------------------------------
(* Neighbor: the closer first, then the lower number.                      *)

Apart(x, y)     == IF x > y THEN x - y ELSE y - x
Nearer(x, d, e) == \/ Apart(x, points[d]) < Apart(x, points[e])
                   \/ Apart(x, points[d]) = Apart(x, points[e]) /\ d < e
Sorted(x, ds)   == SetToSortSeq(ds, LAMBDA d, e : Nearer(x, d, e))
Nearest(x, ds)  == CHOOSE d \in ds : \A e \in ds \ {d} : Nearer(x, d, e)
Farthest(x, ds) == CHOOSE d \in ds : \A e \in ds \ {d} : Nearer(x, e, d)
FirstOf(seq, n) == SubSeq(seq, 1, Min({Len(seq), n}))

(* A candidate closer to one already chosen than to the center waits, and  *)
(* fills what room is left.                                                *)
SelectNeighbors(x, candidates, cap) ==
  LET Pick(st, d) ==
        IF Len(st.chosen) = cap THEN st
        ELSE IF \E c \in ToSet(st.chosen) : Apart(points[c], points[d]) < Apart(x, points[d])
        THEN [st EXCEPT !.rejected = Append(@, d)]
        ELSE [st EXCEPT !.chosen = Append(@, d)]
      end == FoldLeft(Pick, [chosen |-> <<>>, rejected |-> <<>>], candidates)
  IN  FirstOf(end.chosen \o end.rejected, cap)

(* To the nearest neighbor for as long as that is nearer.                  *)
Greedy(ls, x, from, layer) ==
  FoldLeft(LAMBDA best, d : Nearest(x, {best} \cup ToSet(ls[best][layer])), from, ls)

(* Best-first search of one layer, keeping the ef best of those accepted;  *)
(* the others may still be walked through.                                 *)
WalkLayer(ls, x, entries, ef, layer, live) ==
  LET Keep(best, d) ==
        IF d \notin live THEN best
        ELSE LET more == best \cup {d}
             IN  IF Cardinality(more) > ef THEN more \ {Farthest(x, more)} ELSE more
      Visit(st, d) ==
        IF d \in st.seen THEN st
        ELSE IF Cardinality(st.best) < ef \/ Nearer(x, d, Farthest(x, st.best))
        THEN [seen |-> st.seen \cup {d}, frontier |-> st.frontier \cup {d}, best |-> Keep(st.best, d)]
        ELSE [st EXCEPT !.seen = @ \cup {d}]
      Expand(st, i) ==
        IF st.frontier = {} THEN st
        ELSE LET c == Nearest(x, st.frontier)
             IN  IF Cardinality(st.best) >= ef /\ Nearer(x, Farthest(x, st.best), c)
                 THEN [st EXCEPT !.frontier = {}]
                 ELSE FoldLeft(Visit, [st EXCEPT !.frontier = @ \ {c}], ls[c][layer])
      start == [seen |-> entries, frontier |-> entries, best |-> entries \cap live]
  IN  Sorted(x, FoldLeft(Expand, start, ls).best)

-----------------------------------------------------------------------------
(* Build *)

CapOf(layer) == IF layer = 1 THEN 2 * Degree ELSE Degree

(* The edge back, and pruning when there is no more room for it.           *)
LinkBack(ls, d, n, layer) ==
  LET more == Append(ls[n][layer], d)
      kept == IF Len(more) > CapOf(layer)
              THEN SelectNeighbors(points[n], Sorted(points[n], ToSet(more)), CapOf(layer))
              ELSE more
  IN  [ls EXCEPT ![n][layer] = kept]

(* One layer of document d: its edges, and the entries for the next.       *)
JoinLayer(st, d, layer) ==
  LET x      == points[d]
      near   == WalkLayer(st.links, x, st.entries, Breadth, layer, DOMAIN points)
      chosen == SelectNeighbors(x, near, Degree)
      linked == [st.links EXCEPT ![d][layer] = chosen]
  IN  [links |-> FoldLeft(LAMBDA ls, n : LinkBack(ls, d, n, layer), linked, chosen),
       entries |-> ToSet(near)]

Downwards(from, to) == IF from < to THEN <<>> ELSE [i \in 1 .. from - to + 1 |-> from - i + 1]

(* The next document, on a number of layers that its random number gives.  *)
AddNode(height) ==
  LET d    == Len(links) + 1
      ls   == Append(links, [l \in 1 .. height |-> <<>>])
      top  == Len(links[entry])
      ep   == FoldLeft(LAMBDA best, l : Greedy(ls, points[d], best, l), entry, Downwards(top, height + 1))
  IN  /\ d \in DOMAIN points
      /\ IF d = 1 THEN links' = ls /\ entry' = entry
         ELSE /\ links' = FoldLeft(LAMBDA st, l : JoinLayer(st, d, l), [links |-> ls, entries |-> {ep}],
                                   Downwards(Min({height, top}), 1)).links
              /\ entry' = IF height > top THEN d ELSE entry
      /\ UNCHANGED <<points, found>>

-----------------------------------------------------------------------------
(* Search, once the graph is whole.                                        *)

Built == links # <<>> /\ Len(links) = Len(points)

(* Mutation of Underfilled: only an empty answer counts as too short.      *)
UnderfilledIfEmpty(hits, k) == hits = <<>>

Underfilled(hits, k) == Len(hits) < Min({k, Len(points)})

Routing(x) == FoldLeft(LAMBDA best, l : Greedy(links, x, best, l), entry, Downwards(Len(links[entry]), 2))

SearchGraph(x, k, ef, live) ==
  LET width == Min({Max({ef, k}), Len(points)})
      hits  == FirstOf(WalkLayer(links, x, {Routing(x)}, width, 1, live), k)
  IN  /\ Built /\ found = NoAnswer /\ k > 0
      /\ found' = [state |-> "found", x |-> x, k |-> k, width |-> width, live |-> live,
                   hits |-> IF Underfilled(hits, k) THEN FirstOf(Sorted(x, live), k) ELSE hits]
      /\ UNCHANGED <<points, links, entry>>

-----------------------------------------------------------------------------
(* What open insists on: no more edges than the layer allows, none to the  *)
(* node itself, twice, or to a node that is not on that layer, and no node *)
(* higher than the entry.                                                  *)
Opens ==
  /\ entry \in DOMAIN links
  /\ \A d \in DOMAIN links :
       /\ Len(links[d]) <= Min({Len(links[entry]), MaxLayer})
       /\ \A l \in DOMAIN links[d] :
            LET edges == links[d][l]
            IN  /\ Len(edges) <= (IF l = 1 THEN 2 * Degree ELSE Degree)
                /\ IsInjective(edges)
                /\ \A e \in ToSet(edges) : e \in DOMAIN links \ {d} /\ l \in DOMAIN links[e]

-----------------------------------------------------------------------------
(* Properties *)

(* What build makes, open accepts, and so a large segment is not searched  *)
(* without its graph: edges are added from both ends and pruned at one,    *)
(* while the layers are still being joined.                                *)
GraphReopens == links # <<>> => Opens

(* The nodes a walk of the lowest layer can come to.                       *)
Reachable(from) ==
  FoldLeft(LAMBDA ds, d : ds \cup UNION {ToSet(links[e][1]) : e \in ds}, {from}, links)

(* A search answers in full: as many live documents as there are, up to k, *)
(* each once and the closest first, however few nodes are accepted and     *)
(* whatever pruning cut off; and with a width of all nodes none within     *)
(* reach is closer than what it returns.                                   *)
AnswersInFull ==
  found # NoAnswer =>
    LET hits == ToSet(found.hits)
    IN  /\ Len(found.hits) = Min({found.k, Cardinality(found.live)})
        /\ hits \subseteq found.live
        /\ found.hits = Sorted(found.x, hits)
        /\ found.width = Len(points) =>
             \A d \in (Reachable(Routing(found.x)) \cap found.live) \ hits :
               \A h \in hits : Nearer(found.x, h, d)

-------------------------------------------------------------------------------
(***************************************************************************)
(* How vectors are grouped: k-means and the files it ends in, the cluster  *)
(* lists of src/ivf.rs and the codes of src/pq.rs, one subspace of them.   *)
(* A trained quantizer is read back and used for later documents.          *)
(*                                                                         *)
(* A vector is a point on a line; how near two are, by cosine or by        *)
(* distance, is how far apart they lie, and the middle of a group is its   *)
(* mean.  Places are multiples of Fine, so that means are exact; the file  *)
(* keeps a centroid in half precision, as the nearest multiple of Coarse.  *)
(***************************************************************************)

CONSTANTS Places,       \* what vectors there are
          MaxPlaces,    \* bound: documents
          Turns,        \* turns of the training
          Slots,        \* KS: centroids a codebook has room for
          BlockDocs,    \* documents of a block of a list
          Coarse

ASSUME QuantizerAssumption ==
  /\ Places \subseteq Int /\ MaxPlaces \in Nat /\ Turns \in Nat /\ BlockDocs \in Nat \ {0}
  /\ Slots \in Nat \ {0} /\ Coarse \in Nat \ {0}

VARIABLES
  places,      \* the vectors of the documents
  centroids,
  assigned,    \* assigned[i]: the centroid of document i
  turn,
  training     \* what the training does next

quantizerVars == <<places, centroids, assigned, turn, training>>

-----------------------------------------------------------------------------
Abs(n) == IF n < 0 THEN -n ELSE n

(* The first of the nearest among the first k.                             *)
NearestOf(cs, k, p) ==
  CHOOSE c \in 1 .. k :
    /\ \A d \in 1 .. k : Abs(p - cs[c]) <= Abs(p - cs[d])
    /\ \A d \in 1 .. c - 1 : Abs(p - cs[d]) > Abs(p - cs[c])

Sum(ns) == FoldLeft(LAMBDA m, n : m + n, 0, ns)

(* Training begins at any documents: the generator's choice, and in a      *)
(* codebook the same may be chosen twice.  As many centroids as slots, or  *)
(* as documents if those are fewer.                                        *)
QuantizerInit ==
  /\ places \in BoundedSeq(Places, MaxPlaces) \ {<<>>}
  /\ \E start \in [1 .. Min({Slots, Len(places)}) -> DOMAIN places] :
       centroids = [c \in DOMAIN start |-> places[start[c]]]
  /\ assigned = <<>> /\ turn = 0 /\ training = "assign"

Assign ==
  /\ training = "assign"
  /\ assigned' = [i \in DOMAIN places |-> NearestOf(centroids, Len(centroids), places[i])]
  /\ training' = IF turn < Turns THEN "move" ELSE "trained"
  /\ UNCHANGED <<places, centroids, turn>>

Members(c) == {i \in DOMAIN places : assigned[i] = c}

(* Mutation of AfterMove: the last assignment is that of before the move.  *)
AfterMoveEnd == IF turn + 1 < Turns THEN "assign" ELSE "trained"
AfterMove == "assign"

(* A centroid without documents goes to any of them.                       *)
Move ==
  LET Mean(S) == Sum([n \in 1 .. Cardinality(S) |-> places[SetToSortSeq(S, <)[n]]]) \div Cardinality(S)
      empty == {c \in DOMAIN centroids : Members(c) = {}}
  IN  /\ training = "move"
      /\ \E to \in [empty -> DOMAIN places] :
           centroids' = [c \in DOMAIN centroids |-> IF c \in empty THEN places[to[c]] ELSE Mean(Members(c))]
      /\ turn' = turn + 1
      /\ training' = AfterMove
      /\ UNCHANGED <<places, assigned>>

QuantizerNext == Assign \/ Move
QuantizerSpec == QuantizerInit /\ [][QuantizerNext]_quantizerVars

-----------------------------------------------------------------------------
(* The files *)

Rounded(n) == LET up == n + Coarse \div 2 IN up - (up % Coarse)

(* Slots that training did not reach hold zero.                            *)
Codebook == [c \in 1 .. Slots |-> IF c \in DOMAIN centroids THEN Rounded(centroids[c]) ELSE 0]

Reach == Len(centroids)   \* ks_used

(* encode_one, assign_one: a document put to a quantizer read back.        *)
EncodeOne(p) == NearestOf(Codebook, Reach, p)

(* A list of documents, cut into blocks that say their own length.         *)
ListOf(c)   == SetToSortSeq(Members(c), <)
Blocks(ds)  == [b \in 1 .. (Len(ds) + BlockDocs - 1) \div BlockDocs |->
                  LET block == SubSeq(ds, (b - 1) * BlockDocs + 1, Min({b * BlockDocs, Len(ds)}))
                  IN  <<Len(block)>> \o block]
Lists       == [c \in DOMAIN centroids |-> Blocks(ListOf(c))]

(* write_with_centroids: for all lists one table of rows, one of regions,  *)
(* one of the offsets of blocks in their region, and the blocks.           *)
ClusterFile ==
  LET Before(c, size(_)) == Sum([d \in 1 .. c - 1 |-> size(d)])
      RowsOf(c)  == Len(Lists[c])
      BytesOf(c) == Len(FlattenSeq(Lists[c]))
      Offsets(c) == [b \in DOMAIN Lists[c] |-> Sum([e \in 1 .. b - 1 |-> Len(Lists[c][e])])]
      ends       == 1 .. Len(centroids) + 1
  IN  [rows    |-> [c \in ends |-> Before(c, RowsOf)],
       regions |-> [c \in ends |-> Before(c, BytesOf)],
       offsets |-> FlattenSeq([c \in DOMAIN centroids |-> Offsets(c)]),
       bytes   |-> FlattenSeq([c \in DOMAIN centroids |-> FlattenSeq(Lists[c])])]

(* docs_in_clusters: what the tables say lies in the regions.              *)
DocsInClusters(file, cs) ==
  LET Block(region, offset) == SubSeq(file.bytes, region + offset + 2, region + offset + 1 + file.bytes[region + offset + 1])
      DocsIn(c) == FlattenSeq([b \in 1 .. file.rows[c + 1] - file.rows[c] |->
                     Block(file.regions[c], file.offsets[file.rows[c] + b])])
  IN  FlattenSeq([n \in DOMAIN cs |-> DocsIn(cs[n])])

(* nearest_clusters, probe: 0 asks for half of them.                       *)
Probe(query, asked) ==
  LET k      == Len(centroids)
      probes == Min({k, Max({1, IF asked = 0 THEN k \div 2 ELSE asked})})
      Closer(c, d) == LET near(e) == Abs(query - Codebook[e]) IN near(c) < near(d) \/ (near(c) = near(d) /\ c < d)
  IN  DocsInClusters(ClusterFile, SubSeq(SetToSortSeq(1 .. k, Closer), 1, probes))

(* default_num_clusters: about 2 * sqrt(n), at most half of n.             *)
DefaultClusters(n) ==
  LET root == Max({r \in 0 .. n : (2 * r - 1) * (2 * r - 1) <= 16 * n})
  IN  IF n <= 4 THEN Max({n, 1}) ELSE Min({Max({2, root}), Max({2, n \div 2}), 256})

-----------------------------------------------------------------------------
(* Properties *)

(* "Encoding against stored codebooks must match what training produced,   *)
(* or an incremental rebuild would change every document's score": no      *)
(* trained centroid is nearer to a document than the one it has, but for   *)
(* what two roundings make.                                                *)
ReusedAsTrained ==
  training = "trained" =>
    \A i \in DOMAIN places :
      /\ EncodeOne(places[i]) \in DOMAIN centroids
      /\ Abs(places[i] - Codebook[assigned[i]]) <= Abs(places[i] - Codebook[EncodeOne(places[i])]) + Coarse

(* "Clusters partition doc_ids": a probe returns the documents of the      *)
(* clusters nearest to the query, each once; and of all clusters, all.     *)
ProbesAreExact ==
  training = "trained" =>
    \A query \in Places, asked \in 0 .. Slots :
      LET listed == Probe(query, asked)
          probed == {assigned[i] : i \in ToSet(listed)}
          Distance(c) == Abs(query - Codebook[c])
      IN  /\ IsInjective(listed)
          /\ \A i \in DOMAIN places \ ToSet(listed), c \in probed : Distance(assigned[i]) >= Distance(c)
          /\ \A i \in DOMAIN places : assigned[i] \in probed => i \in ToSet(listed)
          /\ asked >= Len(centroids) => ToSet(listed) = DOMAIN places

-----------------------------------------------------------------------------
(* Half precision, in which vectors and centroids are kept: the            *)
(* conversions of src/embeddings.rs, on their fields.  A single is         *)
(* [sign, exp, frac] with 8 bits of exponent and 23 of fraction, a half    *)
(* the same with 5 and 10.                                                 *)

LOCAL Pow(n) == 2 ^ n

Half(sign, bits)        == [sign |-> sign, exp |-> bits \div 1024, frac |-> bits % 1024]
Single(sign, exp, frac) == [sign |-> sign, exp |-> exp, frac |-> frac]

(* f32_to_f16.  A carry goes on into the exponent.                         *)
ToHalf(v) ==
  LET e == v.exp - 127 + 15
  IN  IF v.exp = 255 THEN Half(v.sign, 31 * 1024 + (IF v.frac # 0 THEN 512 ELSE 0))
      ELSE IF e >= 31 THEN Half(v.sign, 31 * 1024)
      ELSE IF e < -10 THEN Half(v.sign, 0)
      ELSE IF e <= 0 THEN Half(v.sign, (((Pow(23) + v.frac) \div Pow(1 - e)) + 4096) \div 8192)
      ELSE Half(v.sign, e * 1024 + (v.frac + 4096) \div 8192)

(* f16_to_f32.  A subnormal half is shifted until its first bit is the     *)
(* hidden one.                                                             *)
ToSingle(h) ==
  IF h.exp = 0 /\ h.frac = 0 THEN Single(h.sign, 0, 0)
  ELSE IF h.exp = 0
  THEN LET shift == CHOOSE s \in 1 .. 10 : h.frac * Pow(s) \in 1024 .. 2047
       IN  Single(h.sign, 127 - 15 + 1 - shift, ((h.frac * Pow(shift)) % 1024) * 8192)
  ELSE IF h.exp = 31 THEN Single(h.sign, 255, h.frac * 8192)
  ELSE Single(h.sign, h.exp + 127 - 15, h.frac * 8192)

(* f16_to_f32_fast: the fields where a single has them, times 2^112.  The  *)
(* product is a single's own: normal again when the fields were subnormal. *)
ToSingleFast(h) ==
  IF h.exp > 0 THEN Single(h.sign, h.exp + 112, h.frac * 8192)
  ELSE IF h.frac = 0 THEN Single(h.sign, 0, 0)
  ELSE LET top == CHOOSE s \in 0 .. 9 : h.frac \in Pow(s) .. Pow(s + 1) - 1
       IN  Single(h.sign, 112 + top - 9, (h.frac - Pow(top)) * Pow(23 - top))

-----------------------------------------------------------------------------
(* A single in units of 2^(scale - 150), where scale is near its exponent. *)
Scaled(v, scale) ==
  LET m == Pow(23) + v.frac
  IN  IF v.exp = 0 THEN 0
      ELSE IF v.exp >= scale THEN m * Pow(v.exp - scale) ELSE m \div Pow(scale - v.exp)

Magnitude(h) == h.exp * 1024 + h.frac
Finite(h)    == h.exp < 31

(* A half comes back from a single as it was, by either way; and a single  *)
(* becomes the nearest half, the carry into the next exponent included, or *)
(* infinity when it is above all of them.                                  *)
HalvesComeBack(h) ==
  /\ ToHalf(ToSingle(h)) = h \/ (h.exp = 31 /\ h.frac # 0 /\ ToHalf(ToSingle(h)).frac # 0)
  /\ Finite(h) => ToSingleFast(h) = ToSingle(h)

NearestHalf(v) ==
  LET h == ToHalf(v)
      Off(bits) == LET s == Scaled(ToSingle(Half(v.sign, bits)), v.exp) - Scaled(v, v.exp)
                   IN  IF s < 0 THEN -s ELSE s
      near == {b \in {Magnitude(h) - 1, Magnitude(h), Magnitude(h) + 1} : b \in 0 .. 31 * 1024 - 1}
  IN  /\ h.sign = v.sign
      /\ IF v.exp < 101 THEN Magnitude(h) = 0
         ELSE Finite(h) => \A b \in near : Off(Magnitude(h)) <= Off(b)
===============================================================================
