-------------------------- MODULE ExactSearchProofs --------------------------
(***************************************************************************)
(* Both evaluators return exactly the top k, for any terms, documents,     *)
(* blocks, scope and k: the invariant of each, why every branch of its     *)
(* loop keeps it, and what it says when the loop ends.                     *)
(***************************************************************************)
EXTENDS ExactSearch, FiniteLemmas

-----------------------------------------------------------------------------
(* Posting lists. *)

LEMMA DocsFinite ==
  /\ NumDocs \in Nat /\ End \in Nat /\ Docs \subseteq Nat
  /\ End \notin Docs /\ (\A d \in Docs : d < End)
  /\ \A ds \in SUBSET Docs : IsFiniteSet(ds)
<1>1. NumDocs \in Nat
  BY QueryAssumption
<1>2. IsFiniteSet(Docs)
  BY <1>1, FS_Interval DEF Docs
<1>3. \A ds \in SUBSET Docs : IsFiniteSet(ds)
  BY <1>2, FS_Subset
<1> QED
  BY <1>1, <1>3 DEF Docs, End

LEMMA ListType ==
  ASSUME CorpusTypeOK, NEW t \in Terms
  PROVE  /\ List(t) \subseteq Docs /\ IsFiniteSet(List(t))
         /\ \A d \in Docs : d \in List(t) <=> tf[t][d] > 0
         /\ \A d \in Docs : tf[t][d] \in Nat /\ (d \notin List(t) => tf[t][d] = 0)
<1>1. \A d \in Docs : tf[t][d] \in Nat
  BY QueryAssumption DEF CorpusTypeOK, Tfs
<1>2. List(t) \subseteq Docs /\ \A d \in Docs : d \in List(t) <=> tf[t][d] > 0
  BY DEF List
<1>3. IsFiniteSet(List(t))
  BY <1>2, DocsFinite
<1> QED
  BY <1>1, <1>2, <1>3

(* Nothing in a set of postings adds more than their bound.                *)
LEMMA BoundHolds ==
  ASSUME CorpusTypeOK, NEW t \in Terms, NEW ds \in SUBSET List(t), ds # {}
  PROVE  /\ Bound(t, ds) \in Nat
         /\ \A d \in ds : Contribution(t, d) <= Bound(t, ds)
         /\ \A d \in ds : Contribution(t, d) \in Nat \ {0}
<1> DEFINE fs == {tf[t][d] : d \in ds}
           ls == {len[d] : d \in ds}
<1>1. ds \subseteq Docs /\ IsFiniteSet(ds)
  BY ListType, FS_Subset
<1>2. \A d \in ds : tf[t][d] \in 1 .. MaxTf /\ len[d] \in 1 .. MaxLen
  <2>1. tf[t] \in [Docs -> 0 .. MaxTf] /\ len \in [Docs -> 1 .. MaxLen]
    BY DEF CorpusTypeOK, Tfs, Lens
  <2>2. \A d \in ds : tf[t][d] \in 0 .. MaxTf /\ tf[t][d] > 0 /\ len[d] \in 1 .. MaxLen
    BY <1>1, <2>1, ListType
  <2> QED
    BY <2>2, QueryAssumption
<1>3. fs \in SUBSET Int /\ IsFiniteSet(fs) /\ fs # {}
  BY <1>1, <1>2, ImageFinite
<1>4. ls \in SUBSET Int /\ IsFiniteSet(ls) /\ ls # {}
  BY <1>1, <1>2, ImageFinite
<1>5. Max(fs) \in fs /\ \A x \in fs : x <= Max(fs)
  BY <1>3, MaxOfFinite
<1>6. Min(ls) \in ls /\ \A x \in ls : Min(ls) <= x
  BY <1>4, MinOfFinite
<1>7. PICK F \in 1 .. MaxTf : F = Max(fs) /\ \A d \in ds : tf[t][d] <= F
  BY <1>2, <1>5
<1>8. PICK L \in 1 .. MaxLen : L = Min(ls) /\ \A d \in ds : L <= len[d]
  BY <1>2, <1>6
<1>9. Bound(t, ds) = Idf[t] * Gain[<<F, L>>]
  BY <1>7, <1>8 DEF Bound
<1>10. Idf[t] \in Nat \ {0} /\ Gain[<<F, L>>] \in Nat \ {0}
  BY GainAssumption, QueryAssumption DEF Lens
<1>11. ASSUME NEW d \in ds
       PROVE  Contribution(t, d) <= Bound(t, ds) /\ Contribution(t, d) \in Nat \ {0}
  <2>1. PICK x \in 1 .. MaxTf, y \in 1 .. MaxLen : x = tf[t][d] /\ y = len[d] /\ x <= F /\ L <= y
    BY <1>2, <1>7, <1>8
  <2>2. Gain[<<x, y>>] <= Gain[<<F, L>>] /\ Gain[<<x, y>>] \in Nat \ {0}
    BY <2>1, GainAssumption DEF Lens
  <2>3. Contribution(t, d) = Idf[t] * Gain[<<x, y>>]
    BY <2>1 DEF Contribution
  <2>4. \A a, b, c \in Nat : a <= b => c * a <= c * b
    OBVIOUS
  <2>5. \A a, b \in Nat \ {0} : a * b \in Nat \ {0}
    OBVIOUS
  <2> QED
    BY <1>9, <1>10, <2>2, <2>3, <2>4, <2>5
<1>12. Bound(t, ds) \in Nat
  BY <1>9, <1>10
<1> QED
  BY <1>11, <1>12

LEMMA ListBoundHolds ==
  ASSUME CorpusTypeOK, NEW t \in Terms
  PROVE  /\ ListBound(t) \in Nat
         /\ \A d \in Docs : Contribution(t, d) \in Nat /\ Contribution(t, d) <= ListBound(t)
         /\ \A d \in Docs : Contribution(t, d) # 0 <=> d \in List(t)
<1>1. ASSUME NEW d \in Docs, d \notin List(t)
      PROVE  Contribution(t, d) = 0
  BY <1>1, ListType DEF Contribution
<1>2. CASE List(t) = {}
  BY <1>1, <1>2 DEF ListBound
<1>3. CASE List(t) # {}
  <2>1. ListBound(t) = Bound(t, List(t))
    BY <1>3 DEF ListBound
  <2>2. /\ Bound(t, List(t)) \in Nat
        /\ \A d \in List(t) : Contribution(t, d) <= Bound(t, List(t)) /\ Contribution(t, d) \in Nat \ {0}
    BY <1>3, BoundHolds
  <2>3. ASSUME NEW d \in Docs
        PROVE  /\ Contribution(t, d) \in Nat /\ Contribution(t, d) <= ListBound(t)
               /\ Contribution(t, d) # 0 <=> d \in List(t)
    BY <1>1, <2>1, <2>2
  <2> QED
    BY <2>1, <2>2, <2>3
<1> QED
  BY <1>2, <1>3

LEMMA PartialScore ==
  ASSUME CorpusTypeOK, NEW d \in Docs, NEW A \in SUBSET Terms
  PROVE  /\ SumFunctionOnSet(Contributions(d), A) \in Nat
         /\ SumFunctionOnSet(Contributions(d), A) <= Score(d)
         /\ (\A t \in Terms : d \in List(t) => t \in A) => SumFunctionOnSet(Contributions(d), A) = Score(d)
<1> DEFINE f == Contributions(d)
<1>1. IsFiniteSet(Terms) /\ IsFiniteSet(A)
  BY QueryAssumption, FS_Subset
<1>2. \A t \in Terms : f[t] \in Nat /\ (f[t] # 0 <=> d \in List(t))
  BY ListBoundHolds DEF Contributions
<1> HIDE DEF f
<1>3. SumFunctionOnSet(f, A) \in Nat
  BY <1>1, <1>2, SumRemove
<1>4. SumFunctionOnSet(f, A) <= SumFunctionOnSet(f, Terms)
  BY <1>1, <1>2, SumDominated
<1>5. ASSUME \A t \in Terms : d \in List(t) => t \in A
      PROVE  SumFunctionOnSet(f, A) = SumFunctionOnSet(f, Terms)
  BY <1>1, <1>2, <1>5, SumEqual
<1> QED
  BY <1>3, <1>4, <1>5 DEF f, Score

LEMMA ScoreType ==
  ASSUME CorpusTypeOK, NEW d \in Docs
  PROVE  Score(d) \in Nat /\ (Score(d) > 0 <=> \E t \in Terms : d \in List(t))
<1>1. Score(d) \in Nat
  BY PartialScore DEF Score
<1>2. ASSUME NEW t \in Terms, d \in List(t)
      PROVE  Score(d) > 0
  <2> DEFINE f == Contributions(d)
  <2>1. f[t] \in Nat \ {0} /\ \A u \in Terms : f[u] \in Nat
    BY <1>2, ListBoundHolds DEF Contributions
  <2>2. IsFiniteSet(Terms) /\ IsFiniteSet(Terms \ {t})
    BY QueryAssumption, FS_RemoveElement
  <2> HIDE DEF f
  <2>3. SumFunctionOnSet(f, Terms) = f[t] + SumFunctionOnSet(f, Terms \ {t})
    BY <2>1, <2>2, SumRemove
  <2>4. SumFunctionOnSet(f, Terms \ {t}) \in Nat
    BY <2>1, <2>2, SumRemove
  <2> QED
    BY <2>1, <2>3, <2>4 DEF Score, f
<1>3. ASSUME \A t \in Terms : d \notin List(t)
      PROVE  Score(d) = 0
  <2>1. SumFunctionOnSet(Contributions(d), {}) = Score(d)
    BY <1>3, PartialScore
  <2>2. SumFunctionOnSet(Contributions(d), {}) = 0
    BY FS_EmptySet, SumRemove
  <2> QED
    BY <2>1, <2>2
<1> QED
  BY <1>1, <1>2, <1>3

(* A score is at most the sum of any bounds of its terms.                  *)
LEMMA ScoreWithin ==
  ASSUME CorpusTypeOK, NEW d \in Docs,
         NEW B, IsFiniteSet(B), NEW h, \A t \in B : h[t] \in Nat,
         \A t \in Terms : d \in List(t) => t \in B /\ Contribution(t, d) <= h[t]
  PROVE  Score(d) <= SumFunctionOnSet(h, B)
<1> DEFINE f == Contributions(d)
<1>1. IsFiniteSet(Terms) /\ \A t \in Terms : f[t] \in Nat /\ f[t] = Contribution(t, d) /\ (f[t] # 0 <=> d \in List(t))
  BY QueryAssumption, ListBoundHolds DEF Contributions
<1> HIDE DEF f
<1>2. SumFunctionOnSet(f, Terms) <= SumFunctionOnSet(h, B)
  BY <1>1, SumDominated
<1> QED
  BY <1>2 DEF Score, f

-----------------------------------------------------------------------------
(* Cursors and blocks. *)

LEMMA FirstIs ==
  ASSUME NEW ds \in SUBSET Docs
  PROVE  /\ FirstIn(ds) \in ds \cup {End}
         /\ (FirstIn(ds) = End) <=> (ds = {})
         /\ \A d \in ds : FirstIn(ds) <= d
<1>1. ds \in SUBSET Int /\ IsFiniteSet(ds) /\ End \notin ds
  BY DocsFinite
<1>2. CASE ds = {}
  BY <1>2 DEF FirstIn
<1>3. CASE ds # {}
  BY <1>1, <1>3, MinOfFinite DEF FirstIn
<1> QED
  BY <1>2, <1>3

(* The first posting from x on: none is passed by.                         *)
LEMMA PostingFromIs ==
  ASSUME CorpusTypeOK, NEW t \in Terms, NEW x \in 0 .. End
  PROVE  /\ PostingFrom(t, x) \in Docs \cup {End}
         /\ PostingFrom(t, x) >= x
         /\ PostingFrom(t, x) # End => PostingFrom(t, x) \in List(t)
         /\ \A d \in List(t) : d >= x => PostingFrom(t, x) <= d
<1> DEFINE ds == {d \in List(t) : d >= x}
<1>1. ds \in SUBSET Docs
  BY ListType
<1>2. PostingFrom(t, x) = FirstIn(ds)
  BY DEF PostingFrom
<1>3. FirstIn(ds) \in ds \cup {End} /\ \A d \in ds : FirstIn(ds) <= d
  BY <1>1, FirstIs
<1>4. \A d \in ds : d \in Docs /\ d \in List(t) /\ d >= x
  BY <1>1
<1>5. \A d \in List(t) : d >= x => d \in ds
  OBVIOUS
<1> HIDE DEF ds
<1>6. End >= x
  BY DocsFinite
<1> QED
  BY <1>2, <1>3, <1>4, <1>5, <1>6

CursorsOK ==
  /\ cur \in [Terms -> Docs \cup {End}]
  /\ \A t \in Terms : cur[t] # End => tf[t][cur[t]] > 0

LEMMA SeekIs ==
  ASSUME CorpusTypeOK, CursorsOK, NEW t \in Terms, NEW x \in 0 .. End
  PROVE  /\ Seek(t, x) \in Docs \cup {End}
         /\ Seek(t, x) >= x /\ Seek(t, x) >= cur[t]
         /\ Seek(t, x) # End => Seek(t, x) \in List(t)
         /\ \A d \in List(t) : d >= x /\ d >= cur[t] => Seek(t, x) <= d
<1>1. cur[t] \in Docs \cup {End} /\ (cur[t] # End => cur[t] \in List(t))
  BY ListType DEF CursorsOK
<1>2. cur[t] \in Nat /\ x \in Nat
  <2>1. Docs \cup {End} \subseteq Nat /\ 0 .. End \subseteq Nat
    BY DocsFinite
  <2> QED
    BY <1>1, <2>1
<1>3. CASE cur[t] >= x
  <2>1. Seek(t, x) = cur[t]
    BY <1>3 DEF Seek
  <2> QED
    BY <1>1, <1>2, <1>3, <2>1
<1>4. CASE ~(cur[t] >= x)
  <2>1. Seek(t, x) = PostingFrom(t, x)
    BY <1>4 DEF Seek
  <2>2. PostingFrom(t, x) \in Nat
    BY DocsFinite, PostingFromIs
  <2> QED
    BY <1>2, <1>4, <2>1, <2>2, PostingFromIs
<1> QED
  BY <1>3, <1>4

LEMMA NextLiveIs ==
  ASSUME CorpusTypeOK, NEW d \in Docs
  PROVE  /\ NextLive(d) \in Docs \cup {End} /\ NextLive(d) >= d
         /\ \A e \in Docs : d <= e /\ e < NextLive(d) => e \in hidden
         /\ NextLive(d) = d => d \notin hidden
<1> DEFINE ds == {e \in Docs \ hidden : e >= d}
<1>1. ds \in SUBSET Docs /\ NextLive(d) = FirstIn(ds)
  BY DEF NextLive
<1>2. FirstIn(ds) \in ds \cup {End} /\ \A e \in ds : FirstIn(ds) <= e
  BY <1>1, FirstIs
<1>3. \A e \in ds : e \in Docs /\ e \notin hidden /\ e >= d
  OBVIOUS
<1>4. \A e \in Docs : e >= d /\ e \notin hidden => e \in ds
  OBVIOUS
<1> HIDE DEF ds
<1>5. NextLive(d) \in Docs \cup {End} /\ NextLive(d) >= d
  <2>1. End >= d
    BY DocsFinite
  <2> QED
    BY <1>1, <1>2, <1>3, <2>1
<1>6. ASSUME NEW e \in Docs, d <= e, e < NextLive(d)
      PROVE  e \in hidden
  <2>1. e \in Nat /\ d \in Nat /\ NextLive(d) \in Nat
    BY <1>5, DocsFinite
  <2>2. e \notin ds
    BY <1>1, <1>2, <1>6, <2>1
  <2> QED
    BY <1>4, <1>6, <2>1, <2>2
<1>7. ASSUME NextLive(d) = d
      PROVE  d \notin hidden
  BY <1>1, <1>2, <1>3, <1>7, DocsFinite
<1> QED
  BY <1>5, <1>6, <1>7

LEMMA DivMonotone ==
  ASSUME NEW x \in Nat, NEW y \in Nat, x <= y, NEW b \in Nat \ {0}
  PROVE  x \div b \in Nat /\ x \div b <= y \div b
<1>1. \A z \in Nat : z \div b \in Nat /\ b * (z \div b) <= z /\ z < b * (z \div b) + b
  OBVIOUS
<1> DEFINE p == x \div b
           q == y \div b
<1>2. p \in Nat /\ q \in Nat /\ b * p <= x /\ y < b * q + b
  BY <1>1
<1> HIDE DEF p, q
<1>3. \A m, n \in Nat : m >= n + 1 => b * m >= b * n + b
  OBVIOUS
<1>4. p <= q
  <2> SUFFICES ASSUME p >= q + 1 PROVE FALSE
    BY <1>2
  <2>1. b * p >= b * q + b
    BY <1>2, <1>3
  <2>2. b * p \in Nat /\ b * q \in Nat
    BY <1>2
  <2> QED
    BY <1>2, <2>1, <2>2
<1> QED
  BY <1>2, <1>4 DEF p, q

(* A block is a stretch of its list: it holds every posting from one of    *)
(* its own up to its last.                                                 *)
LEMMA BlocksAreStretches ==
  ASSUME CorpusTypeOK, NEW t \in Terms, NEW q \in List(t)
  PROVE  /\ q \in BlockOf(t, q) /\ BlockOf(t, q) \subseteq List(t)
         /\ Max(BlockOf(t, q)) \in List(t) /\ q <= Max(BlockOf(t, q))
         /\ \A d \in List(t) : q <= d /\ d <= Max(BlockOf(t, q)) => d \in BlockOf(t, q)
<1> DEFINE Below(e) == {c \in List(t) : c < e}
           Block(e) == Cardinality(Below(e)) \div BlockSize
<1>1. BlockOf(t, q) = {e \in List(t) : Block(e) = Block(q)}
  BY DEF BlockOf
<1>2. List(t) \subseteq Docs /\ List(t) \in SUBSET Int /\ IsFiniteSet(List(t))
  <2>1. List(t) \subseteq Docs /\ IsFiniteSet(List(t))
    BY ListType
  <2>2. Docs \subseteq Int
    BY DocsFinite
  <2> QED
    BY <2>1, <2>2
<1>3. ASSUME NEW d \in List(t), NEW e \in List(t), d <= e
      PROVE  Block(d) \in Nat /\ Block(d) <= Block(e)
  <2>1. Below(d) \subseteq Below(e) /\ Below(e) \subseteq List(t)
    BY <1>2, <1>3
  <2>2. /\ IsFiniteSet(Below(e)) /\ IsFiniteSet(Below(d))
        /\ Cardinality(Below(d)) \in Nat /\ Cardinality(Below(e)) \in Nat
        /\ Cardinality(Below(d)) <= Cardinality(Below(e))
    <3> HIDE DEF Below
    <3>1. IsFiniteSet(Below(e)) /\ IsFiniteSet(Below(d))
      BY <1>2, <2>1, FS_Subset
    <3> QED
      BY <2>1, <3>1, FS_Subset, FS_CardinalityType
  <2> HIDE DEF Below
  <2>3. BlockSize \in Nat \ {0}
    BY QueryAssumption
  <2> QED
    BY <2>2, <2>3, DivMonotone
<1> HIDE DEF Block
<1>4. q \in BlockOf(t, q) /\ BlockOf(t, q) \subseteq List(t)
  BY <1>1
<1>5. BlockOf(t, q) \in SUBSET Int /\ IsFiniteSet(BlockOf(t, q)) /\ BlockOf(t, q) # {}
  BY <1>2, <1>4, FS_Subset
<1>6. Max(BlockOf(t, q)) \in BlockOf(t, q) /\ \A x \in BlockOf(t, q) : x <= Max(BlockOf(t, q))
  BY <1>5, MaxOfFinite
<1>7. ASSUME NEW d \in List(t), q <= d, d <= Max(BlockOf(t, q))
      PROVE  d \in BlockOf(t, q)
  <2>1. PICK m \in List(t) : m = Max(BlockOf(t, q)) /\ Block(m) = Block(q)
    BY <1>1, <1>6
  <2>2. Block(q) \in Nat /\ Block(d) \in Nat /\ Block(q) <= Block(d) /\ Block(d) <= Block(m)
    BY <1>3, <1>7, <2>1
  <2>3. Block(d) = Block(q)
    BY <2>1, <2>2
  <2> QED
    BY <1>1, <2>3
<1> QED
  BY <1>4, <1>6, <1>7

-----------------------------------------------------------------------------
(* The heap. *)

(* A full heap keeps h out: each of its hits comes before.                 *)
Beaten(h) == Cardinality(heap) = k /\ \A g \in heap : Outranks(g, h)

HeapOK == heap \subseteq Eligible /\ Cardinality(heap) <= k

LEMMA EligibleType ==
  ASSUME CorpusTypeOK
  PROVE  /\ IsFiniteSet(Eligible) /\ k \in Nat \ {0}
         /\ \A h \in Eligible : h = Hit(h.doc) /\ h.doc \in Docs \ (dead \cup hidden) /\ h.score \in Nat \ {0}
         /\ \A d \in Docs \ (dead \cup hidden) : Score(d) > 0 => Hit(d) \in Eligible
         /\ \A g, h \in Eligible : g = h <=> g.doc = h.doc
<1> DEFINE ds == {e \in Docs \ (dead \cup hidden) : Score(e) > 0}
           f == [d \in Docs |-> Hit(d)]
<1>1. Eligible = {f[d] : d \in ds} /\ IsFiniteSet(ds)
  BY DocsFinite DEF Eligible
<1>2. IsFiniteSet(Eligible)
  <2> HIDE DEF f, ds
  <2> QED
    BY <1>1, ImageFinite
<1>3. k \in Nat \ {0}
  BY QueryAssumption DEF CorpusTypeOK
<1>4. \A d \in Docs : Hit(d).doc = d /\ Hit(d).score = Score(d) /\ Score(d) \in Nat
  BY ScoreType DEF Hit
<1>5. \A h \in Eligible : h = Hit(h.doc) /\ h.doc \in Docs \ (dead \cup hidden) /\ h.score \in Nat \ {0}
  BY <1>4 DEF Eligible
<1>6. \A d \in Docs \ (dead \cup hidden) : Score(d) > 0 => Hit(d) \in Eligible
  BY DEF Eligible
<1> QED
  BY <1>2, <1>3, <1>5, <1>6

LEMMA OutranksOrders ==
  ASSUME CorpusTypeOK
  PROVE  /\ \A f, g, h \in Eligible : Outranks(f, g) /\ Outranks(g, h) => Outranks(f, h)
         /\ \A g, h \in Eligible : ~(Outranks(g, h) /\ Outranks(h, g))
         /\ \A g, h \in Eligible : g = h \/ Outranks(g, h) \/ Outranks(h, g)
<1>1. \A h \in Eligible : h.doc \in Nat /\ h.score \in Nat
  BY EligibleType, DocsFinite
<1>2. ASSUME NEW g \in Eligible, NEW h \in Eligible, g # h
      PROVE  Outranks(g, h) \/ Outranks(h, g)
  <2>1. g.doc # h.doc
    BY <1>2, EligibleType
  <2> QED
    BY <1>1, <2>1 DEF Outranks
<1> QED
  BY <1>1, <1>2 DEF Outranks

(* Of any hits the lowest is there, and all others outrank it.             *)
LEMMA LowestIs ==
  ASSUME CorpusTypeOK, NEW H \in SUBSET Eligible, H # {}
  PROVE  Lowest(H) \in H /\ \A g \in H : g = Lowest(H) \/ Outranks(g, Lowest(H))
<1> DEFINE G == {T \in SUBSET H : T # {} => \E h \in T : \A g \in T : g = h \/ Outranks(g, h)}
<1>1. {} \in G
  OBVIOUS
<1>2. ASSUME NEW T \in SUBSET H, NEW x \in H, T \in G, x \notin T
      PROVE  T \cup {x} \in G
  <2>1. CASE T = {}
    BY <2>1
  <2>2. CASE T # {}
    <3>1. PICK h \in T : \A g \in T : g = h \/ Outranks(g, h)
      BY <1>2, <2>2
    <3>2. x \in Eligible /\ h \in Eligible /\ T \subseteq Eligible
      OBVIOUS
    <3>3. CASE Outranks(x, h)
      BY <3>1, <3>3
    <3>4. CASE Outranks(h, x)
      <4>1. \A g \in T \cup {x} : g = x \/ Outranks(g, x)
        BY <3>1, <3>2, <3>4, OutranksOrders
      <4> QED
        BY <4>1
    <3>5. CASE x = h
      BY <1>2, <3>5
    <3> QED
      BY <3>2, <3>3, <3>4, <3>5, OutranksOrders
  <2> QED
    BY <2>1, <2>2
<1>3. IsFiniteSet(H)
  BY EligibleType, FS_Subset
<1>4. H \in G
  <2> HIDE DEF G
  <2> QED
    BY <1>1, <1>2, <1>3, FiniteInduction
<1>5. \E h \in H : \A g \in H : g = h \/ Outranks(g, h)
  BY <1>4
<1> QED
  BY <1>5, Zenon DEF Lowest

LEMMA ThresholdIs ==
  ASSUME CorpusTypeOK, HeapOK
  PROVE  /\ Cardinality(heap) \in Nat /\ IsFiniteSet(heap)
         /\ Threshold \in Int
         /\ Cardinality(heap) # k => Threshold = -1
         /\ Cardinality(heap) = k => \E g \in heap : g.score = Threshold
         /\ Cardinality(heap) = k => \A g \in heap : g.score >= Threshold
<1> DEFINE scores == {h.score : h \in heap}
           f == [h \in heap |-> h.score]
<1>1. IsFiniteSet(heap) /\ Cardinality(heap) \in Nat
  BY EligibleType, FS_Subset, FS_CardinalityType DEF HeapOK
<1>2. \A h \in heap : h.score \in Int
  BY EligibleType DEF HeapOK
<1>3. scores = {f[h] : h \in heap}
  OBVIOUS
<1>4. IsFiniteSet(scores)
  <2> HIDE DEF f, scores
  <2> QED
    BY <1>1, <1>3, ImageFinite
<1>5. CASE Cardinality(heap) = k
  <2>1. heap # {}
    BY <1>5, FS_EmptySet, EligibleType
  <2>2. scores \in SUBSET Int /\ scores # {}
    BY <1>2, <2>1
  <2>3. Min(scores) \in scores /\ \A x \in scores : Min(scores) <= x
    BY <1>4, <2>2, MinOfFinite
  <2>4. Threshold = Min(scores)
    BY <1>5 DEF Threshold
  <2>5. PICK g \in heap : g.score = Threshold
    BY <2>3, <2>4
  <2>6. \A h \in heap : Threshold <= h.score
    BY <2>3, <2>4
  <2> HIDE DEF scores
  <2> QED
    BY <1>1, <1>2, <1>5, <2>5, <2>6
<1>6. CASE Cardinality(heap) # k
  BY <1>1, <1>6 DEF Threshold, Infinite
<1> QED
  BY <1>5, <1>6

(* Documents are met in ascending order: one that does not exceed the      *)
(* threshold, and comes after all in the heap, is beaten.                  *)
LEMMA BelowThresholdIsBeaten ==
  ASSUME CorpusTypeOK, HeapOK, NEW h \in Eligible, h.score <= Threshold, \A g \in heap : g.doc < h.doc
  PROVE  Beaten(h)
<1>1. h.score \in Nat \ {0} /\ \A g \in heap : g.score \in Nat
  BY EligibleType DEF HeapOK
<1>2. Cardinality(heap) = k
  BY <1>1, ThresholdIs
<1>3. \A g \in heap : g.score >= Threshold
  BY <1>2, ThresholdIs
<1> QED
  BY <1>1, <1>2, <1>3, ThresholdIs DEF Beaten, Outranks

LEMMA BeatenIsBelowThreshold ==
  ASSUME CorpusTypeOK, HeapOK, NEW h \in Eligible, Beaten(h)
  PROVE  h.score <= Threshold
<1>1. h.score \in Nat /\ \A g \in heap : g.score \in Nat
  BY EligibleType DEF HeapOK
<1>2. PICK g \in heap : g.score = Threshold
  BY ThresholdIs DEF Beaten
<1> QED
  BY <1>1, <1>2 DEF Beaten, Outranks

(* What becomes of the heap when a document is offered with its score: it  *)
(* stays within bounds, what was beaten stays so, and so is whatever of    *)
(* the old heap and the document does not make it into the new one.        *)
BeatenBy(H, h) == Cardinality(H) = k /\ \A g \in H : Outranks(g, h)

KeepsBest(H, d) ==
  /\ H \subseteq Eligible /\ Cardinality(H) <= k
  /\ H \subseteq heap \cup {Hit(d)}
  /\ \A h \in Eligible : Beaten(h) => BeatenBy(H, h)
  /\ \A h \in heap \cup {Hit(d)} : h \notin H => BeatenBy(H, h)
  /\ \A x \in Nat : x <= Threshold => Cardinality(H) = k /\ \A g \in H : g.score >= x

LEMMA InsertDeclines ==
  ASSUME NEW d, NEW s, d \in dead \cup hidden \/ s <= Threshold
  PROVE  Inserted(d, s) = heap
BY DEF Inserted

LEMMA InsertAccepts ==
  ASSUME CorpusTypeOK, HeapOK, NEW d, Hit(d) \in Eligible, Score(d) > Threshold,
         \A g \in heap : g.doc < d
  PROVE  KeepsBest(Inserted(d, Score(d)), d)
<1> DEFINE more == heap \cup {Hit(d)}
           low  == Lowest(more)
           H    == Inserted(d, Score(d))
<1>1. Hit(d) = [doc |-> d, score |-> Score(d)] /\ Hit(d).doc = d /\ Hit(d).score = Score(d)
  BY DEF Hit
<1>2. d \in Docs \ (dead \cup hidden) /\ Score(d) \in Nat /\ d \in Nat
  BY <1>1, EligibleType, DocsFinite
<1>3. Threshold \in Int /\ Cardinality(heap) \in Nat /\ IsFiniteSet(heap) /\ k \in Nat \ {0}
  BY ThresholdIs, EligibleType
<1>4. H = IF Cardinality(more) > k THEN more \ {low} ELSE more
  BY <1>1, <1>2, <1>3 DEF Inserted
<1>5. Hit(d) \notin heap
  BY <1>1, <1>2
<1>6. more \subseteq Eligible /\ more # {} /\ IsFiniteSet(more) /\ Cardinality(more) = Cardinality(heap) + 1
  BY <1>3, <1>5, FS_AddElement DEF HeapOK
<1> HIDE DEF H
<1>7. CASE Cardinality(heap) < k
  <2>1. H = more
    BY <1>3, <1>4, <1>6, <1>7
  <2>2. Threshold = -1
    BY <1>3, <1>7, ThresholdIs
  <2>3. \A h \in Eligible : ~Beaten(h)
    BY <1>3, <1>7 DEF Beaten
  <2>4. Cardinality(H) <= k
    BY <1>3, <1>6, <1>7, <2>1
  <2>5. \A x \in Nat : ~(x <= Threshold)
    BY <2>2
  <2> QED
    BY <1>6, <2>1, <2>3, <2>4, <2>5 DEF KeepsBest, H
<1>8. CASE Cardinality(heap) = k
  <2>1. H = more \ {low} /\ low \in more /\ \A g \in more : g = low \/ Outranks(g, low)
    <3>1. Cardinality(more) > k
      BY <1>3, <1>6, <1>8
    <3> HIDE DEF low
    <3>2. H = more \ {low}
      BY <1>4, <3>1
    <3> QED
      BY <1>6, <3>2, LowestIs DEF low
  <2> HIDE DEF low
  <2>2. Cardinality(H) = k
    <3> HIDE DEF more
    <3>1. Cardinality(more \ {low}) = Cardinality(more) - 1
      BY <1>6, <2>1, FS_RemoveElement
    <3> QED
      BY <1>3, <1>6, <1>8, <2>1, <3>1
  <2>3. BeatenBy(H, low)
    BY <2>1, <2>2 DEF BeatenBy
  <2>4. \A h \in more : h \notin H => h = low
    BY <2>1
  <2>5. \A g \in heap : g.score >= Threshold
    BY <1>8, ThresholdIs
  <2>6. ASSUME NEW h \in Eligible, Beaten(h)
        PROVE  BeatenBy(H, h)
    <3>1. \A g \in heap : Outranks(g, h)
      BY <2>6 DEF Beaten
    <3>2. ASSUME Hit(d) \in H
          PROVE  Outranks(Hit(d), h)
      <4>1. low \in heap /\ Outranks(Hit(d), low)
        BY <2>1, <3>2
      <4>2. low \in Eligible
        BY <4>1 DEF HeapOK
      <4> QED
        BY <3>1, <4>1, <4>2, OutranksOrders
    <3> QED
      BY <2>1, <2>2, <3>1, <3>2 DEF BeatenBy
  <2>7. ASSUME NEW x \in Nat, x <= Threshold, NEW g \in H
        PROVE  g.score >= x
    <3>1. g \in Eligible /\ g.score \in Nat
      BY <1>6, <2>1, EligibleType
    <3>2. CASE g \in heap
      BY <1>3, <2>5, <2>7, <3>1, <3>2
    <3>3. CASE g = Hit(d)
      BY <1>1, <1>2, <1>3, <2>7, <3>3
    <3> QED
      BY <2>1, <3>2, <3>3
  <2>8. H \subseteq Eligible /\ H \subseteq heap \cup {Hit(d)} /\ Cardinality(H) <= k
    BY <1>3, <1>6, <2>1, <2>2
  <2> QED
    BY <2>2, <2>3, <2>4, <2>6, <2>7, <2>8 DEF KeepsBest, H
<1> QED
  BY <1>3, <1>7, <1>8 DEF HeapOK

LEMMA InsertKeepsBest ==
  ASSUME CorpusTypeOK, HeapOK, NEW d, Hit(d) \in Eligible, \A g \in heap : g.doc < d
  PROVE  KeepsBest(Inserted(d, Score(d)), d)
<1>1. Hit(d).doc = d /\ Hit(d).score = Score(d) /\ Score(d) \in Nat /\ Threshold \in Int
  BY EligibleType, ThresholdIs DEF Hit
<1>2. CASE Score(d) <= Threshold
  <2>1. Inserted(d, Score(d)) = heap
    BY <1>2, InsertDeclines
  <2>2. Beaten(Hit(d))
    BY <1>1, <1>2, BelowThresholdIsBeaten
  <2>3. \A h : Beaten(h) => BeatenBy(heap, h)
    BY DEF Beaten, BeatenBy
  <2>4. ASSUME NEW x \in Nat, x <= Threshold
        PROVE  Cardinality(heap) = k /\ \A g \in heap : g.score >= x
    <3>1. Cardinality(heap) = k
      BY <1>1, <2>4, ThresholdIs
    <3>2. \A g \in heap : g.score >= Threshold /\ g.score \in Nat
      BY <3>1, ThresholdIs, EligibleType DEF HeapOK
    <3> QED
      BY <1>1, <2>4, <3>1, <3>2
  <2>5. BeatenBy(heap, Hit(d)) /\ heap \subseteq heap \cup {Hit(d)}
    BY <2>2, <2>3
  <2>6. KeepsBest(heap, d)
    BY <2>3, <2>4, <2>5 DEF KeepsBest, HeapOK
  <2> QED
    BY <2>1, <2>6
<1>3. CASE ~(Score(d) <= Threshold)
  BY <1>1, <1>3, InsertAccepts
<1> QED
  BY <1>2, <1>3

(* If all that is not in the heap is beaten by it, it is the top k.        *)
LEMMA TopIfOthersBeaten ==
  ASSUME CorpusTypeOK, HeapOK, \A h \in Eligible \ heap : Beaten(h)
  PROVE  heap = TopHits
<1> DEFINE Over(h) == {g \in Eligible : Outranks(g, h)}
<1>1. IsFiniteSet(heap) /\ Cardinality(heap) \in Nat /\ IsFiniteSet(Eligible) /\ k \in Nat \ {0}
  BY ThresholdIs, EligibleType
<1>2. ASSUME NEW h \in heap
      PROVE  h \in TopHits
  <2>1. h \in Eligible
    BY DEF HeapOK
  <2>2. Over(h) \subseteq heap \ {h}
    <3> SUFFICES ASSUME NEW g \in Eligible, Outranks(g, h)
                 PROVE  g \in heap \ {h}
      OBVIOUS
    <3>1. g # h
      BY <2>1, OutranksOrders
    <3>2. CASE g \notin heap
      <4>1. Outranks(h, g)
        BY <3>2 DEF Beaten
      <4> QED
        BY <2>1, <4>1, OutranksOrders
    <3> QED
      BY <3>1, <3>2
  <2>3. IsFiniteSet(heap \ {h}) /\ Cardinality(heap \ {h}) = Cardinality(heap) - 1
    BY <1>1, FS_RemoveElement
  <2> HIDE DEF Over
  <2>4. Cardinality(Over(h)) <= Cardinality(heap) - 1 /\ Cardinality(Over(h)) \in Nat
    BY <2>2, <2>3, FS_Subset, FS_CardinalityType
  <2>5. Cardinality(Over(h)) < k
    BY <1>1, <2>4 DEF HeapOK
  <2> QED
    BY <2>1, <2>5 DEF TopHits, Over
<1>3. ASSUME NEW h \in Eligible \ heap
      PROVE  h \notin TopHits
  <2>1. Cardinality(heap) = k /\ heap \subseteq Over(h) /\ Over(h) \subseteq Eligible
    BY <1>3 DEF Beaten, HeapOK
  <2> HIDE DEF Over
  <2>2. IsFiniteSet(Over(h)) /\ Cardinality(Over(h)) \in Nat
    BY <1>1, <2>1, FS_Subset, FS_CardinalityType
  <2>3. k <= Cardinality(Over(h))
    BY <2>1, <2>2, FS_Subset
  <2>4. ~(Cardinality(Over(h)) < k)
    BY <1>1, <2>2, <2>3
  <2> QED
    BY <2>4 DEF TopHits, Over
<1>4. TopHits \subseteq Eligible
  BY DEF TopHits
<1> QED
  BY <1>2, <1>3, <1>4

-----------------------------------------------------------------------------
(* The evaluators. *)

(* Some cursor of the terms of a document has left it behind.              *)
Overtaken(d) == \E t \in Terms : d \in List(t) /\ cur[t] > d

(* Documents get into the heap in ascending order; what a cursor has left  *)
(* behind is in the heap or beaten by it.                                  *)
WandInv ==
  /\ CorpusTypeOK /\ CursorsOK /\ HeapOK
  /\ done \in BOOLEAN
  /\ \A g \in heap, t \in Terms : g.doc < cur[t]
  /\ \A h \in Eligible \ heap : Overtaken(h.doc) => Beaten(h)
  /\ done => Clear = {}

-----------------------------------------------------------------------------
(* The places of the essential lists.                                      *)
Essentials == {i \in Lists : i >= essential}

(* An essential list still has the document before it.                     *)
Pending(d) == \E i \in Essentials : d \in List(order[i]) /\ cur[order[i]] <= d

OrderOK == order \in [Lists -> Terms] /\ Terms = {order[i] : i \in Lists}

OrderInv ==
  /\ OrderOK
  /\ essential \in 1 .. Cardinality(Terms) + 1
  /\ essential = 1 \/ Cum(essential - 1) <= Threshold

(* No list runs ahead of the essential ones, not even one of those.        *)
InStep ==
  \A i \in Essentials, t \in Terms : \A d \in List(t) : cur[order[i]] <= d => cur[t] <= d

(* Between turns, all that is not in the heap is beaten or ahead.          *)
BetweenTurns ==
  /\ \A g \in heap, i \in Essentials : g.doc < cur[order[i]]
  /\ \A h \in Eligible \ heap : Beaten(h) \/ Pending(h.doc)

(* While a candidate is scored: its score so far is that of the lists that *)
(* have passed it, which are all but those yet to be probed.               *)
Probing ==
  /\ candidate \in Docs
  /\ \E t \in Terms : candidate \in List(t)
  /\ \A i \in Lists : i > probe => cur[order[i]] > candidate
  /\ score = SumFunctionOnSet(Contributions(candidate), {t \in Terms : cur[t] > candidate})
  /\ \A g \in heap : g.doc < candidate
  /\ \A h \in Eligible \ heap : h.doc # candidate => Beaten(h) \/ Pending(h.doc)

MaxInv ==
  /\ CorpusTypeOK /\ CursorsOK /\ HeapOK /\ OrderInv /\ InStep
  /\ step \in {"loop", "probe", "done"}
  /\ candidate \in 0 .. End /\ score \in Nat /\ probe \in 0 .. essential - 1
  /\ step # "probe" => BetweenTurns
  /\ step = "probe" => Probing
  /\ step = "done" => \A i \in Essentials : cur[order[i]] = End

SearchInv ==
  /\ evaluator \in {"wand", "maxscore"}
  /\ evaluator = "wand" => WandInv
  /\ evaluator = "maxscore" => MaxInv

-----------------------------------------------------------------------------
(* Neither evaluator touches the index or the query.                       *)

LEMMA CorpusStays ==
  ASSUME CorpusTypeOK, UNCHANGED corpus
  PROVE  /\ CorpusTypeOK' /\ k' = k
         /\ \A t \in Terms : List(t)' = List(t) /\ ListBound(t)' = ListBound(t)
         /\ \A d \in Docs : Contributions(d)' = Contributions(d) /\ Hit(d)' = Hit(d)
         /\ Eligible' = Eligible
<1>1. tf' = tf /\ len' = len /\ dead' = dead /\ hidden' = hidden /\ k' = k
  BY DEF corpus
<1>2. CorpusTypeOK'
  BY <1>1 DEF CorpusTypeOK
<1>3. \A t \in Terms : List(t)' = List(t)
  BY <1>1 DEF List
<1>4. \A t : \A ds : Bound(t, ds)' = Bound(t, ds)
  BY <1>1 DEF Bound
<1>5. \A t \in Terms : ListBound(t)' = ListBound(t)
  BY <1>3, <1>4 DEF ListBound
<1>6. \A t \in Terms : \A d \in Docs : Contribution(t, d)' = Contribution(t, d)
  BY <1>1 DEF Contribution
<1>7. \A d \in Docs : Contributions(d)' = Contributions(d)
  BY <1>6 DEF Contributions
<1>8. \A d \in Docs : Hit(d)' = Hit(d) /\ Score(d)' = Score(d)
  BY <1>7 DEF Hit, Score
<1>9. Eligible' = Eligible
  BY <1>1, <1>8 DEF Eligible
<1> QED
  BY <1>1, <1>2, <1>3, <1>5, <1>7, <1>8, <1>9

(* With another heap, what is beaten is beaten by that one.                *)
LEMMA HeapGrows ==
  ASSUME CorpusTypeOK, UNCHANGED corpus, NEW d \in Docs, KeepsBest(heap', d)
  PROVE  /\ HeapOK' /\ heap' \subseteq heap \cup {Hit(d)}
         /\ \A h \in Eligible : Beaten(h) => Beaten(h)'
         /\ \A h \in heap \cup {Hit(d)} : h \notin heap' => Beaten(h)'
<1>1. k' = k /\ Eligible' = Eligible
  BY CorpusStays
<1>2. \A h : BeatenBy(heap', h) => Beaten(h)'
  BY <1>1 DEF BeatenBy, Beaten, Outranks
<1> QED
  BY <1>1, <1>2 DEF KeepsBest, HeapOK

-----------------------------------------------------------------------------
(* Block-Max WAND. *)

LEMMA CursorsType ==
  ASSUME CorpusTypeOK, CursorsOK, NEW t \in Terms
  PROVE  /\ cur[t] \in 0 .. End /\ cur[t] \in Nat
         /\ cur[t] # End => cur[t] \in List(t) /\ cur[t] \in Docs
<1>1. cur[t] \in Docs \cup {End}
  BY DEF CursorsOK
<1>2. cur[t] \in 0 .. End
  BY <1>1, DocsFinite DEF Docs, End
<1>3. cur[t] # End => cur[t] \in List(t) /\ cur[t] \in Docs
  BY <1>1 DEF CursorsOK, List
<1> QED
  BY <1>2, <1>3, DocsFinite

(* The bounds of the lists that have not passed a document.                *)
LEMMA NotOvertakenIsBounded ==
  ASSUME CorpusTypeOK, CursorsOK, NEW d \in Docs, ~Overtaken(d)
  PROVE  Score(d) <= ListBounds(UpTo(d)) /\ ListBounds(UpTo(d)) \in Nat
<1> DEFINE f == [t \in Terms |-> ListBound(t)]
<1>1. IsFiniteSet(UpTo(d)) /\ UpTo(d) \subseteq Terms
  BY QueryAssumption, FS_Subset DEF UpTo
<1>2. \A t \in UpTo(d) : f[t] \in Nat
  BY <1>1, ListBoundHolds
<1>3. \A t \in Terms : d \in List(t) => t \in UpTo(d) /\ Contribution(t, d) <= f[t]
  <2> SUFFICES ASSUME NEW t \in Terms, d \in List(t)
               PROVE  t \in UpTo(d) /\ Contribution(t, d) <= f[t]
    OBVIOUS
  <2>1. cur[t] \in Nat /\ d \in Nat /\ ~(cur[t] > d)
    BY CursorsType, DocsFinite DEF Overtaken
  <2>2. t \in UpTo(d)
    BY <2>1 DEF UpTo
  <2> QED
    BY <2>2, ListBoundHolds
<1> HIDE DEF f
<1>4. Score(d) <= SumFunctionOnSet(f, UpTo(d))
  BY <1>1, <1>2, <1>3, ScoreWithin
<1>5. SumFunctionOnSet(f, UpTo(d)) \in Nat
  BY <1>1, <1>2, SumRemove
<1> QED
  BY <1>4, <1>5 DEF ListBounds, f

(* As far as no place of a cursor clears the threshold, no document does.  *)
LEMMA UnclearIsBelow ==
  ASSUME CorpusTypeOK, CursorsOK, HeapOK, NEW d \in Docs, ~Overtaken(d),
         NEW t \in Terms, cur[t] <= d,
         \A e \in Clear : e > d
  PROVE  Score(d) <= Threshold
<1> DEFINE places == {cur[u] : u \in UpTo(d)}
<1>1. \A u \in Terms : cur[u] \in Nat /\ (cur[u] <= d => cur[u] # End)
  BY CursorsType, DocsFinite
<1>2. IsFiniteSet(UpTo(d)) /\ t \in UpTo(d) /\ UpTo(d) \subseteq Terms
  BY QueryAssumption, FS_Subset DEF UpTo
<1>3. places \in SUBSET Int /\ IsFiniteSet(places) /\ places # {}
  BY <1>1, <1>2, ImageFinite
<1>4. Max(places) \in places /\ \A x \in places : x <= Max(places)
  BY <1>3, MaxOfFinite
<1>5. PICK u \in UpTo(d) : cur[u] = Max(places)
  BY <1>4
<1>6. \A v \in Terms : cur[v] <= d => cur[v] <= cur[u]
  BY <1>4, <1>5 DEF UpTo
<1>7. u \in Terms /\ cur[u] <= d /\ cur[u] \in Nat /\ d \in Nat /\ cur[u] # End
  BY <1>1, <1>2, <1>5, DocsFinite DEF UpTo
<1>8. UpTo(cur[u]) = UpTo(d)
  BY <1>1, <1>6, <1>7 DEF UpTo
<1>9. cur[u] \notin Clear
  BY <1>7
<1>10. ~(ListBounds(UpTo(d)) > Threshold)
  BY <1>7, <1>8, <1>9 DEF Clear
<1> QED
  BY <1>10, NotOvertakenIsBounded, ScoreType, ThresholdIs

(* A turn that only moves some cursors on is sound if it passes by no      *)
(* document that might still count.                                        *)
LEMMA WandMoves ==
  ASSUME WandInv, ~done, UNCHANGED <<corpus, heap, done>>,
         NEW M \in SUBSET Terms, NEW n \in 0 .. End, MoveTo(M, n),
         \A t \in M : \A d \in List(t) :
           Hit(d) \in Eligible /\ cur[t] <= d /\ d < n /\ ~Overtaken(d) => Score(d) <= Threshold
  PROVE  WandInv'
<1>1. CorpusTypeOK /\ CursorsOK /\ HeapOK /\ UNCHANGED corpus /\ heap' = heap /\ ~done'
  BY DEF WandInv
<1>2. CorpusTypeOK' /\ k' = k /\ Eligible' = Eligible /\ \A t \in Terms : List(t)' = List(t)
  BY <1>1, CorpusStays
<1>3. \A t \in Terms : cur'[t] = IF t \in M THEN Seek(t, n) ELSE cur[t]
  BY DEF MoveTo
<1>4. \A t \in Terms : cur[t] \in Docs \cup {End} /\ (cur[t] # End => cur[t] \in List(t))
  BY <1>1, CursorsType DEF CursorsOK
<1>5. \A t \in Terms : cur'[t] \in Docs \cup {End} /\ (cur'[t] # End => cur'[t] \in List(t))
  BY <1>1, <1>3, <1>4, SeekIs
<1>6. \A t \in Terms : cur[t] \in Nat /\ cur'[t] \in Nat /\ cur'[t] >= cur[t]
  <2>1. Docs \cup {End} \subseteq Nat
    BY DocsFinite
  <2>2. \A t \in Terms : cur[t] \in Nat /\ cur'[t] \in Nat
    BY <1>4, <1>5, <2>1
  <2>3. \A t \in Terms : cur'[t] >= cur[t]
    BY <1>1, <1>3, <2>2, SeekIs
  <2> QED
    BY <2>2, <2>3
<1>7. CursorsOK'
  <2>1. tf' = tf
    BY <1>1 DEF corpus
  <2>2. cur' \in [Terms -> Docs \cup {End}]
    <3>1. cur' = [t \in Terms |-> cur'[t]]
      BY DEF MoveTo
    <3> QED
      BY <1>5, <3>1
  <2>3. \A t \in Terms : cur'[t] # End => tf[t][cur'[t]] > 0
    BY <1>5 DEF List
  <2> QED
    BY <2>1, <2>2, <2>3 DEF CursorsOK
<1>8. HeapOK'
  BY <1>1, <1>2 DEF HeapOK
<1>9. \A g \in heap, t \in Terms : g.doc < cur'[t]
  <2> SUFFICES ASSUME NEW g \in heap, NEW t \in Terms PROVE g.doc < cur'[t]
    OBVIOUS
  <2>1. g.doc < cur[t] /\ g.doc \in Nat
    BY <1>1, EligibleType, DocsFinite DEF WandInv, HeapOK
  <2> QED
    BY <1>6, <2>1
<1>10. ASSUME NEW h \in Eligible \ heap, NEW t \in Terms, h.doc \in List(t), cur'[t] > h.doc
       PROVE  Beaten(h)
  <2>1. h.doc \in Docs /\ h.doc \in Nat /\ h = Hit(h.doc) /\ h.score = Score(h.doc)
    BY <1>1, EligibleType, DocsFinite DEF Hit
  <2>2. CASE Overtaken(h.doc)
    BY <2>2 DEF WandInv
  <2>3. CASE ~Overtaken(h.doc)
    <3>1. cur[t] <= h.doc /\ t \in M
      BY <1>3, <1>6, <1>10, <2>1, <2>3 DEF Overtaken
    <3>2. h.doc < n
      BY <1>1, <1>3, <1>6, <1>10, <2>1, <3>1, SeekIs
    <3>3. Score(h.doc) <= Threshold
      BY <1>10, <2>1, <2>3, <3>1, <3>2
    <3>4. \A g \in heap : g.doc < h.doc
      <4> SUFFICES ASSUME NEW g \in heap PROVE g.doc < h.doc
        OBVIOUS
      <4>1. g.doc < cur[t] /\ g.doc \in Nat
        BY <1>1, EligibleType, DocsFinite DEF WandInv, HeapOK
      <4> QED
        BY <1>6, <2>1, <3>1, <4>1
    <3> QED
      BY <1>1, <2>1, <3>3, <3>4, BelowThresholdIsBeaten
  <2> QED
    BY <2>2, <2>3
<1>11. ASSUME NEW h \in Eligible \ heap, Overtaken(h.doc)'
       PROVE  Beaten(h)'
  <2>1. \E t \in Terms : h.doc \in List(t) /\ cur'[t] > h.doc
    BY <1>2, <1>11 DEF Overtaken
  <2>2. Beaten(h)
    BY <1>10, <2>1
  <2> QED
    BY <1>1, <1>2, <2>2 DEF Beaten, Outranks
<1> QED
  BY <1>1, <1>2, <1>7, <1>8, <1>9, <1>11 DEF WandInv

LEMMA PivotIs ==
  ASSUME CorpusTypeOK, CursorsOK
  PROVE  /\ \A p \in Pivot : /\ p \in Docs /\ p \in Nat /\ p + 1 \in 0 .. End
                             /\ \E t \in Terms : cur[t] = p /\ p \in List(t)
                             /\ \A e \in Clear : e \in Nat /\ p <= e
         /\ Pivot = {} => Clear = {}
<1>1. \A e \in Clear : \E t \in Terms : cur[t] = e /\ e # End
  BY DEF Clear
<1>2. \A e \in Clear : e \in Docs /\ e \in Nat /\ \E t \in Terms : cur[t] = e /\ e \in List(t)
  BY <1>1, CursorsType
<1>3. \A p \in Docs : p + 1 \in 0 .. End
  BY DocsFinite DEF Docs, End
<1>4. Clear \subseteq Docs
  BY <1>2
<1>5. Clear # {} => Pivot # {}
  <2>1. IsFiniteSet(Clear)
    BY <1>4, DocsFinite
  <2>2. Clear \in SUBSET Int
    BY <1>2
  <2>3. Clear # {} => Min(Clear) \in Clear /\ \A e \in Clear : Min(Clear) <= e
    BY <2>1, <2>2, MinOfFinite
  <2> QED
    BY <2>3 DEF Pivot
<1>6. \A p \in Pivot : p \in Clear /\ \A e \in Clear : p <= e
  BY DEF Pivot
<1> QED
  BY <1>2, <1>3, <1>5, <1>6

(* Before the pivot nothing is left that might count.                      *)
LEMMA BeforePivot ==
  ASSUME CorpusTypeOK, CursorsOK, HeapOK, NEW p \in Pivot,
         NEW d \in Docs, d < p, ~Overtaken(d), NEW t \in Terms, cur[t] <= d
  PROVE  Score(d) <= Threshold
<1>1. \A e \in Clear : e > d
  <2>1. p \in Nat /\ d \in Nat /\ \A e \in Clear : e \in Nat /\ p <= e
    BY PivotIs, DocsFinite
  <2> QED
    BY <2>1
<1> QED
  BY <1>1, UnclearIsBelow

LEMMA LeapKeeps ==
  ASSUME WandInv, ~done, NEW p \in Pivot, WandLeap(p)
  PROVE  WandInv'
<1>1. CorpusTypeOK /\ CursorsOK /\ HeapOK
  BY DEF WandInv
<1>2. p \in Docs /\ p \in Nat
  BY <1>1, PivotIs
<1>3. PICK last \in At(p), some \in SUBSET At(p) : MoveTo((Behind(p) \cup some) \cup {last}, NextLive(p))
  BY DEF WandLeap
<1> DEFINE M == (Behind(p) \cup some) \cup {last}
           n == NextLive(p)
<1>4. M \in SUBSET Terms /\ MoveTo(M, n) /\ UNCHANGED <<corpus, heap, done>>
  BY <1>3 DEF WandLeap, At, Behind
<1>5. /\ n \in 0 .. End
      /\ \A e \in Docs : p <= e /\ e < n => e \in hidden
  <2>1. n \in Docs \cup {End}
    BY <1>1, <1>2, NextLiveIs
  <2>2. n \in 0 .. End
    BY <2>1, DocsFinite DEF Docs, End
  <2> QED
    BY <1>1, <1>2, <2>2, NextLiveIs
<1> HIDE DEF M, n
<1>6. ASSUME NEW t \in M, NEW d \in List(t),
             Hit(d) \in Eligible, cur[t] <= d, d < n, ~Overtaken(d)
      PROVE  Score(d) <= Threshold
  <2>1. t \in Terms /\ d \in Docs /\ d \in Nat
    BY <1>1, <1>4, ListType, DocsFinite
  <2>2. CASE d < p
    BY <1>1, <1>6, <2>1, <2>2, BeforePivot
  <2>3. CASE p <= d
    <3>1. d \in hidden
      BY <1>5, <1>6, <2>1, <2>3
    <3>2. Hit(d).doc = d
      BY DEF Hit
    <3> QED
      BY <1>1, <1>6, <3>1, <3>2, EligibleType
  <2> QED
    BY <1>2, <2>1, <2>2, <2>3
<1> QED
  BY <1>4, <1>5, <1>6, WandMoves

LEMMA CatchUpKeeps ==
  ASSUME WandInv, ~done, NEW p \in Pivot, CatchUp(p)
  PROVE  WandInv'
<1>1. CorpusTypeOK /\ CursorsOK /\ HeapOK
  BY DEF WandInv
<1>2. PICK s \in Behind(p) : MoveTo({s}, p)
  BY DEF CatchUp, Strongest
<1>3. {s} \in SUBSET Terms /\ UNCHANGED <<corpus, heap, done>> /\ p \in 0 .. End
  <2>1. p \in 0 .. End
    BY <1>1, PivotIs, DocsFinite DEF Docs, End
  <2> QED
    BY <1>2, <2>1 DEF CatchUp, Behind
<1>4. ASSUME NEW t \in {s}, NEW d \in List(t),
             Hit(d) \in Eligible, cur[t] <= d, d < p, ~Overtaken(d)
      PROVE  Score(d) <= Threshold
  <2>1. t \in Terms /\ d \in Docs
    BY <1>1, <1>3, ListType
  <2> QED
    BY <1>1, <1>4, <2>1, BeforePivot
<1> QED
  BY <1>2, <1>3, <1>4, WandMoves

(* The blocks that reach the pivot bound every document up to the nearest  *)
(* of their ends, as long as no other list comes in.                       *)
LEMMA BlocksBound ==
  ASSUME CorpusTypeOK, CursorsOK, NEW p \in Docs, NEW u \in At(p)
  PROVE  /\ BlocksEnd(p) \in Docs /\ p <= BlocksEnd(p)
         /\ BlockBounds(p) \in Nat
         /\ \A d \in Docs :
              p <= d /\ d <= BlocksEnd(p) /\ (\A t \in Terms : d \in List(t) => t \in UpTo(p))
                => Score(d) <= BlockBounds(p)
<1> DEFINE ends == {Max(BlockAt(t, p)) : t \in Reaching(p)}
           f == [t \in Reaching(p) |-> Bound(t, BlockAt(t, p))]
           g == [t \in Reaching(p) |-> Max(BlockAt(t, p))]
<1>1. p \in Nat /\ p \in 0 .. End
  BY DocsFinite DEF Docs, End
<1>2. \A t \in Terms : /\ PostingFrom(t, p) \in Docs \cup {End} /\ PostingFrom(t, p) >= p
                       /\ PostingFrom(t, p) # End => PostingFrom(t, p) \in List(t)
                       /\ \A d \in List(t) : d >= p => PostingFrom(t, p) <= d
  BY <1>1, PostingFromIs
<1>3. Reaching(p) \subseteq Terms /\ IsFiniteSet(Reaching(p))
  BY QueryAssumption, FS_Subset DEF Reaching, UpTo
<1>4. ASSUME NEW t \in Reaching(p)
      PROVE  /\ BlockAt(t, p) \subseteq List(t) /\ BlockAt(t, p) # {}
             /\ Max(BlockAt(t, p)) \in Docs /\ p <= Max(BlockAt(t, p))
             /\ \A d \in List(t) : p <= d /\ d <= Max(BlockAt(t, p)) => d \in BlockAt(t, p)
  <2>1. t \in Terms /\ PostingFrom(t, p) \in List(t)
    BY <1>2, <1>3 DEF Reaching
  <2>2. PICK q \in List(t) : q = PostingFrom(t, p) /\ q >= p /\ \A d \in List(t) : d >= p => q <= d
    BY <1>2, <2>1
  <2>3. BlockAt(t, p) = BlockOf(t, q)
    BY <2>2 DEF BlockAt
  <2>4. /\ q \in BlockOf(t, q) /\ BlockOf(t, q) \subseteq List(t)
        /\ Max(BlockOf(t, q)) \in List(t) /\ q <= Max(BlockOf(t, q))
        /\ \A d \in List(t) : q <= d /\ d <= Max(BlockOf(t, q)) => d \in BlockOf(t, q)
    BY <2>1, BlocksAreStretches
  <2>5. List(t) \subseteq Docs /\ Docs \subseteq Nat
    BY <2>1, ListType, DocsFinite
  <2>6. p <= Max(BlockOf(t, q))
    <3>1. q \in Nat /\ Max(BlockOf(t, q)) \in Nat /\ q <= Max(BlockOf(t, q)) /\ q >= p
      BY <2>2, <2>4, <2>5
    <3> QED
      BY <1>1, <3>1
  <2> QED
    BY <2>2, <2>3, <2>4, <2>5, <2>6
<1>5. u \in Reaching(p)
  <2>1. u \in Terms /\ cur[u] = p /\ p # End
    BY DocsFinite DEF At
  <2>2. p \in List(u)
    BY <2>1, CursorsType
  <2>3. PostingFrom(u, p) <= p
    BY <1>1, <1>2, <2>1, <2>2
  <2>4. PostingFrom(u, p) # End
    BY <1>1, <2>3, DocsFinite
  <2> QED
    BY <1>1, <2>1, <2>4 DEF Reaching, UpTo
<1>6. ends = {g[t] : t \in Reaching(p)}
  OBVIOUS
<1>7. ends \subseteq Docs /\ ends # {} /\ \A x \in ends : p <= x
  BY <1>4, <1>5
<1>8. ends \in SUBSET Int /\ IsFiniteSet(ends)
  <2> HIDE DEF ends, g
  <2>1. ends \in SUBSET Int
    BY <1>7, DocsFinite
  <2> QED
    BY <1>3, <1>6, <2>1, ImageFinite
<1>9. Min(ends) \in ends /\ \A x \in ends : Min(ends) <= x
  BY <1>7, <1>8, MinOfFinite
<1>10. BlocksEnd(p) = Min(ends)
  BY DEF BlocksEnd
<1>11. \A t \in Reaching(p) : BlocksEnd(p) <= Max(BlockAt(t, p))
  BY <1>9, <1>10
<1>12. BlocksEnd(p) \in Docs /\ p <= BlocksEnd(p)
  BY <1>7, <1>9, <1>10
<1>13. \A t \in Reaching(p) : f[t] \in Nat /\ f[t] = Bound(t, BlockAt(t, p))
  BY <1>3, <1>4, BoundHolds
<1>14. BlockBounds(p) = SumFunctionOnSet(f, Reaching(p))
  BY DEF BlockBounds
<1> HIDE DEF ends, f, g
<1>15. BlockBounds(p) \in Nat
  BY <1>3, <1>13, <1>14, SumRemove
<1>16. ASSUME NEW d \in Docs, p <= d, d <= BlocksEnd(p),
              \A t \in Terms : d \in List(t) => t \in UpTo(p)
       PROVE  Score(d) <= BlockBounds(p)
  <2>1. ASSUME NEW t \in Terms, d \in List(t)
        PROVE  t \in Reaching(p) /\ Contribution(t, d) <= f[t]
    <3>1. d \in Nat /\ d < End
      BY DocsFinite
    <3>2. PostingFrom(t, p) <= d
      BY <1>1, <1>2, <1>16, <2>1, <3>1
    <3>3. t \in Reaching(p)
      <4>1. PostingFrom(t, p) # End
        BY <3>1, <3>2, DocsFinite
      <4> QED
        BY <1>16, <2>1, <4>1 DEF Reaching
    <3>4. d <= Max(BlockAt(t, p))
      <4>1. Max(BlockAt(t, p)) \in Nat /\ BlocksEnd(p) \in Nat
        BY <1>4, <1>12, <3>3, DocsFinite
      <4> QED
        BY <1>11, <1>16, <3>1, <3>3, <4>1
    <3>5. d \in BlockAt(t, p) /\ BlockAt(t, p) \subseteq List(t)
      BY <1>4, <1>16, <2>1, <3>3, <3>4
    <3>6. Contribution(t, d) <= Bound(t, BlockAt(t, p))
      BY <3>5, BoundHolds
    <3> QED
      BY <1>13, <3>3, <3>6
  <2> QED
    BY <1>3, <1>13, <1>14, <2>1, ScoreWithin
<1> QED
  BY <1>12, <1>15, <1>16

LEMMA SkipBlockKeeps ==
  ASSUME WandInv, ~done, NEW p \in Pivot, SkipBlock(p)
  PROVE  WandInv'
<1> DEFINE after == {cur[t] : t \in Terms \ UpTo(p)} \cup {End}
           next  == Min(after)
           stop  == Min({BlocksEnd(p) + 1, next})
<1>1. CorpusTypeOK /\ CursorsOK /\ HeapOK
  BY DEF WandInv
<1>2. p \in Docs /\ p \in Nat /\ p + 1 \in 0 .. End /\ (\E t \in Terms : cur[t] = p)
  BY <1>1, PivotIs
<1>3. PICK u \in At(p) : TRUE
  BY <1>2 DEF At
<1>4. /\ BlocksEnd(p) \in Docs /\ p <= BlocksEnd(p)
      /\ BlockBounds(p) \in Nat
      /\ \A d \in Docs :
           p <= d /\ d <= BlocksEnd(p) /\ (\A t \in Terms : d \in List(t) => t \in UpTo(p))
             => Score(d) <= BlockBounds(p)
  BY <1>1, <1>2, BlocksBound
<1>5. PICK s \in UpTo(p) : MoveTo({s}, Beyond(p))
  BY DEF SkipBlock, Strongest
<1>6. BlockBounds(p) <= Threshold /\ UNCHANGED <<corpus, heap, done>>
  BY DEF SkipBlock
<1>7. after \in SUBSET Int /\ IsFiniteSet(after) /\ after # {} /\ \A x \in after : x > p /\ x <= End
  <2>1. \A t \in Terms : cur[t] \in Nat /\ cur[t] <= End
    BY <1>1, CursorsType, DocsFinite
  <2>2. End \in Nat /\ End > p
    BY <1>2, DocsFinite
  <2>3. \A t \in Terms \ UpTo(p) : cur[t] > p
    BY <1>2, <2>1 DEF UpTo
  <2>4. IsFiniteSet(Terms \ UpTo(p))
    BY QueryAssumption, FS_Difference
  <2>5. IsFiniteSet({cur[t] : t \in Terms \ UpTo(p)})
    BY <2>4, ImageFinite
  <2>6. IsFiniteSet(after)
    BY <2>5, FS_AddElement
  <2> QED
    BY <2>1, <2>2, <2>3, <2>6
<1>8. next \in after /\ \A x \in after : next <= x
  <2> HIDE DEF after
  <2> QED
    BY <1>7, MinOfFinite
<1>9. next \in Int /\ next > p /\ next <= End /\ \A t \in Terms \ UpTo(p) : next <= cur[t]
  BY <1>7, <1>8
<1> HIDE DEF after, next
<1>10. stop \in {BlocksEnd(p) + 1, next} /\ stop <= BlocksEnd(p) + 1 /\ stop <= next
  <2>1. {BlocksEnd(p) + 1, next} \in SUBSET Int
    <3>1. BlocksEnd(p) \in Nat
      BY <1>4, DocsFinite
    <3> QED
      BY <1>9, <3>1
  <2>2. IsFiniteSet({BlocksEnd(p) + 1, next})
    <3>1. IsFiniteSet({next}) /\ {BlocksEnd(p) + 1, next} = {next} \cup {BlocksEnd(p) + 1}
      BY FS_Singleton
    <3> QED
      BY <3>1, FS_AddElement
  <2> QED
    BY <2>1, <2>2, MinOfFinite
<1>11. BlocksEnd(p) \in Nat /\ BlocksEnd(p) + 1 <= End
  BY <1>4 , DocsFinite DEF Docs, End
<1>12. stop \in Int /\ stop >= p + 1 /\ stop <= End
  BY <1>2, <1>4, <1>9, <1>10, <1>11
<1>13. Beyond(p) = Max({stop, p + 1})
  BY DEF Beyond, next, after
<1> HIDE DEF stop
<1>14. Beyond(p) = stop
  <2>1. {stop, p + 1} \in SUBSET Int /\ IsFiniteSet({stop, p + 1})
    <3>1. IsFiniteSet({stop}) /\ {stop, p + 1} = {stop} \cup {p + 1}
      BY FS_Singleton
    <3> QED
      BY <1>2, <1>12, <3>1, FS_AddElement
  <2>2. Max({stop, p + 1}) \in {stop, p + 1} /\ stop <= Max({stop, p + 1})
    BY <2>1, MaxOfFinite
  <2> QED
    BY <1>2, <1>12, <1>13, <2>2
<1>15. stop \in 0 .. End /\ {s} \in SUBSET Terms
  BY <1>2, <1>5, <1>12, DocsFinite DEF UpTo
<1>16. ASSUME NEW t \in {s}, NEW d \in List(t),
              Hit(d) \in Eligible, cur[t] <= d, d < stop, ~Overtaken(d)
       PROVE  Score(d) <= Threshold
  <2>1. t \in Terms /\ d \in Docs /\ d \in Nat
    BY <1>1, <1>15, ListType, DocsFinite
  <2>2. CASE d < p
    BY <1>1, <1>16, <2>1, <2>2, BeforePivot
  <2>3. CASE p <= d
    <3>1. d <= BlocksEnd(p) /\ d < next
      BY <1>9, <1>10, <1>11, <1>12, <1>16, <2>1
    <3>2. \A v \in Terms : d \in List(v) => v \in UpTo(p)
      <4> SUFFICES ASSUME NEW v \in Terms, d \in List(v), v \notin UpTo(p) PROVE FALSE
        OBVIOUS
      <4>1. next <= cur[v] /\ cur[v] \in Nat
        BY <1>1, <1>9, CursorsType
      <4>2. cur[v] > d
        BY <1>9, <2>1, <3>1, <4>1
      <4> QED
        BY <1>16, <4>2 DEF Overtaken
    <3>3. Score(d) <= BlockBounds(p)
      BY <1>4, <2>1, <2>3, <3>1, <3>2
    <3> QED
      BY <1>1, <1>4, <1>6, <2>1, <3>3, ScoreType, ThresholdIs
  <2> QED
    BY <1>2, <2>1, <2>2, <2>3
<1> QED
  BY <1>5, <1>6, <1>14, <1>15, <1>16, WandMoves

LEMMA ScorePivotKeeps ==
  ASSUME WandInv, ~done, NEW p \in Pivot, ScorePivot(p)
  PROVE  WandInv'
<1> DEFINE s == SumFunctionOnSet(Contributions(p), At(p))
<1>1. CorpusTypeOK /\ CursorsOK /\ HeapOK /\ UNCHANGED corpus /\ done' = done /\ ~done'
  BY DEF WandInv, ScorePivot
<1>2. p \in Docs /\ p \in Nat /\ p + 1 \in 0 .. End /\ \E t \in Terms : cur[t] = p /\ p \in List(t)
  BY <1>1, PivotIs
<1>3. CorpusTypeOK' /\ k' = k /\ Eligible' = Eligible /\ \A t \in Terms : List(t)' = List(t)
  BY <1>1, CorpusStays
<1>4. heap' = Inserted(p, s) /\ \A t \in Terms : cur'[t] = IF cur[t] = p THEN PostingFrom(t, p + 1) ELSE cur[t]
  BY DEF ScorePivot, At, Next1
<1>5. \A t \in Terms : cur[t] \in Nat /\ cur[t] >= p /\ cur[t] \in Docs \cup {End} /\ (cur[t] # End => cur[t] \in List(t))
  BY <1>1, <1>2, CursorsType DEF ScorePivot, Behind, CursorsOK
<1>6. \A t \in Terms : /\ cur'[t] \in Docs \cup {End} /\ cur'[t] \in Nat /\ cur'[t] > p
                       /\ cur'[t] # End => cur'[t] \in List(t)
                       /\ \A d \in List(t) : d > p /\ d >= cur[t] => cur'[t] <= d
  <2> TAKE t \in Terms
  <2>1. CASE cur[t] = p
    <3>1. cur'[t] = PostingFrom(t, p + 1)
      BY <1>4, <2>1
    <3>2. /\ PostingFrom(t, p + 1) \in Docs \cup {End} /\ PostingFrom(t, p + 1) >= p + 1
          /\ PostingFrom(t, p + 1) # End => PostingFrom(t, p + 1) \in List(t)
          /\ \A d \in List(t) : d >= p + 1 => PostingFrom(t, p + 1) <= d
      BY <1>1, <1>2, PostingFromIs
    <3>3. PostingFrom(t, p + 1) \in Nat /\ List(t) \subseteq Nat
      BY <1>1, <3>2, ListType, DocsFinite
    <3> QED
      BY <1>2, <3>1, <3>2, <3>3
  <2>2. CASE cur[t] # p
    BY <1>2, <1>4, <1>5, <2>2
  <2> QED
    BY <2>1, <2>2
<1>7. CursorsOK'
  <2>1. tf' = tf
    BY <1>1 DEF corpus
  <2>2. cur' \in [Terms -> Docs \cup {End}]
    <3>1. cur' = [t \in Terms |-> cur'[t]]
      BY DEF ScorePivot
    <3> QED
      BY <1>6, <3>1
  <2>3. \A t \in Terms : cur'[t] # End => tf[t][cur'[t]] > 0
    BY <1>6 DEF List
  <2> QED
    BY <2>1, <2>2, <2>3 DEF CursorsOK
<1>8. \A g \in heap : g.doc < p /\ g.doc \in Nat
  <2>1. PICK t \in Terms : cur[t] = p
    BY <1>2
  <2>2. \A g \in heap : g.doc < cur[t] /\ g.doc \in Nat
    BY <1>1, EligibleType, DocsFinite DEF WandInv, HeapOK
  <2> QED
    BY <2>1, <2>2
<1>9. At(p) \in SUBSET Terms /\ s \in Nat /\ s <= Score(p) /\ Score(p) \in Nat /\ Score(p) > 0
  <2>1. At(p) \in SUBSET Terms
    BY DEF At
  <2> QED
    BY <1>1, <1>2, <2>1, PartialScore, ScoreType
<1>10. Hit(p).doc = p /\ Hit(p).score = Score(p)
  BY DEF Hit
<1> HIDE DEF s
<1>11. /\ HeapOK' /\ heap' \subseteq heap \cup {Hit(p)}
       /\ \A h \in Eligible : Beaten(h) => Beaten(h)'
       /\ \A h \in heap \cup {Hit(p)} : h \in Eligible /\ h \notin heap' => Beaten(h)'
  <2>1. CASE p \in dead \cup hidden
    <3>1. heap' = heap
      BY <1>4, <2>1, InsertDeclines
    <3>2. Hit(p) \notin Eligible
      BY <1>1, <1>10, <2>1, EligibleType
    <3> QED
      BY <1>1, <1>3, <3>1, <3>2 DEF HeapOK, Beaten, Outranks
  <2>2. CASE p \notin dead \cup hidden
    <3>1. Hit(p) \in Eligible /\ Hit(p) \notin heap
      BY <1>1, <1>2, <1>8, <1>9, <1>10, <2>2, EligibleType
    <3>2. CASE Overtaken(p)
      <4>1. Beaten(Hit(p))
        BY <1>10, <3>1, <3>2 DEF WandInv
      <4>2. Score(p) <= Threshold /\ Threshold \in Int
        BY <1>1, <1>10, <3>1, <4>1, BeatenIsBelowThreshold, ThresholdIs
      <4>3. heap' = heap
        BY <1>4, <1>9, <4>2, InsertDeclines
      <4> QED
        BY <1>1, <1>3, <4>1, <4>3 DEF HeapOK, Beaten, Outranks
    <3>3. CASE ~Overtaken(p)
      <4>1. \A t \in Terms : p \in List(t) => t \in At(p)
        BY <1>2, <1>5, <3>3 DEF Overtaken, At
      <4>2. s = Score(p)
        BY <1>1, <1>2, <1>9, <4>1, PartialScore DEF s
      <4>3. KeepsBest(heap', p)
        BY <1>1, <1>4, <1>8, <3>1, <4>2, InsertKeepsBest
      <4> QED
        BY <1>1, <1>2, <4>3, HeapGrows
    <3> QED
      BY <3>2, <3>3
  <2> QED
    BY <2>1, <2>2
<1>12. \A g \in heap', t \in Terms : g.doc < cur'[t]
  BY <1>2, <1>6, <1>8, <1>10, <1>11
<1>13. ASSUME NEW h \in Eligible \ heap', Overtaken(h.doc)'
       PROVE  Beaten(h)'
  <2>1. h.doc \in Docs /\ h.doc \in Nat /\ h = Hit(h.doc)
    BY <1>1, EligibleType, DocsFinite
  <2>2. CASE h \in heap \cup {Hit(p)}
    BY <1>11, <1>13, <2>2
  <2>3. CASE h \notin heap \cup {Hit(p)}
    <3>1. h.doc # p
      BY <2>1, <2>3
    <3>2. PICK t \in Terms : h.doc \in List(t) /\ cur'[t] > h.doc
      BY <1>3, <1>13 DEF Overtaken
    <3>3. cur[t] > h.doc
      BY <1>2, <1>4, <1>5, <1>6, <2>1, <3>1, <3>2
    <3>4. Beaten(h)
      BY <2>3, <3>2, <3>3 DEF WandInv, Overtaken
    <3> QED
      BY <1>11, <3>4
  <2> QED
    BY <2>2, <2>3
<1> QED
  BY <1>1, <1>3, <1>7, <1>11, <1>12, <1>13 DEF WandInv

LEMMA WandInitially ==
  ASSUME WandInit
  PROVE  WandInv
<1>1. CorpusTypeOK
  BY DEF WandInit, CorpusInit, CorpusTypeOK
<1>2. \A t \in Terms : /\ cur[t] \in Docs \cup {End} /\ (cur[t] # End => cur[t] \in List(t))
                       /\ \A d \in List(t) : cur[t] <= d
  <2> TAKE t \in Terms
  <2>1. cur[t] = PostingFrom(t, 0)
    BY DEF WandInit, CursorsInit
  <2>2. 0 \in 0 .. End /\ List(t) \subseteq Nat
    <3>1. List(t) \subseteq Docs
      BY <1>1, ListType
    <3>2. 0 \in 0 .. End
      <4>1. End \in Nat
        BY DocsFinite
      <4> QED
        BY <4>1
    <3>3. Docs \subseteq Nat
      BY DocsFinite
    <3> QED
      BY <3>1, <3>2, <3>3
  <2> QED
    BY <1>1, <2>1, <2>2, PostingFromIs
<1>3. CursorsOK
  <2>1. cur \in [Terms -> Docs \cup {End}]
    <3>1. cur = [t \in Terms |-> cur[t]]
      BY DEF WandInit, CursorsInit
    <3> QED
      BY <1>2, <3>1
  <2> QED
    BY <1>2, <2>1 DEF CursorsOK, List
<1>4. heap = {} /\ done = FALSE
  BY DEF WandInit
<1>5. HeapOK
  <2>1. Cardinality({}) = 0 /\ k \in Nat
    BY <1>1, FS_EmptySet, EligibleType
  <2> QED
    BY <1>4, <2>1 DEF HeapOK
<1>6. \A d \in Docs : ~Overtaken(d)
  <2> SUFFICES ASSUME NEW d \in Docs, NEW t \in Terms, d \in List(t), cur[t] > d PROVE FALSE
    BY DEF Overtaken
  <2>1. cur[t] \in Nat /\ d \in Nat /\ cur[t] <= d
    BY <1>1, <1>2, <1>3, CursorsType, DocsFinite
  <2> QED
    BY <2>1
<1>7. \A h \in Eligible : ~Overtaken(h.doc)
  BY <1>1, <1>6, EligibleType
<1> QED
  BY <1>1, <1>3, <1>4, <1>5, <1>7 DEF WandInv

LEMMA WandKeeps ==
  ASSUME WandInv, WandNext
  PROVE  WandInv'
<1>1. CorpusTypeOK /\ CursorsOK /\ ~done
  BY DEF WandInv, WandNext
<1>2. CASE WandFinish
  <2>1. Clear = {}
    BY <1>1, <1>2, PivotIs DEF WandFinish
  <2>2. UNCHANGED <<corpus, cur, heap>> /\ done' = TRUE
    BY <1>2 DEF WandFinish
  <2>3. CorpusTypeOK' /\ k' = k /\ Eligible' = Eligible /\ \A t \in Terms : List(t)' = List(t) /\ ListBound(t)' = ListBound(t)
    BY <1>1, <2>2, CorpusStays
  <2>4. Clear' = Clear
    BY <2>2, <2>3 DEF Clear, ListBounds, UpTo, Threshold
  <2>5. CursorsOK'
    BY <1>1, <2>2 DEF CursorsOK, corpus
  <2>6. \A d : Overtaken(d)' <=> Overtaken(d)
    BY <2>2, <2>3 DEF Overtaken
  <2>7. \A h : Beaten(h)' <=> Beaten(h)
    BY <2>2, <2>3 DEF Beaten, Outranks
  <2> QED
    BY <2>1, <2>2, <2>3, <2>4, <2>5, <2>6, <2>7 DEF WandInv, HeapOK
<1>3. CASE \E p \in Pivot : WandLeap(p) \/ ScorePivot(p) \/ CatchUp(p) \/ SkipBlock(p)
  BY <1>1, <1>3, LeapKeeps, ScorePivotKeeps, CatchUpKeeps, SkipBlockKeeps
<1> QED
  BY <1>2, <1>3 DEF WandNext

LEMMA WandIsExact ==
  ASSUME WandInv, done
  PROVE  heap = TopHits
<1>1. CorpusTypeOK /\ CursorsOK /\ HeapOK /\ Clear = {}
  BY DEF WandInv
<1>2. ASSUME NEW h \in Eligible \ heap
      PROVE  Beaten(h)
  <2>1. h.doc \in Docs /\ h.doc \in Nat /\ h.score = Score(h.doc) /\ h.score \in Nat \ {0}
    BY <1>1, EligibleType, DocsFinite DEF Hit
  <2>2. CASE Overtaken(h.doc)
    BY <2>2 DEF WandInv
  <2>3. CASE ~Overtaken(h.doc)
    <3>1. PICK t \in Terms : h.doc \in List(t)
      BY <1>1, <2>1, ScoreType
    <3>2. cur[t] \in Nat /\ cur[t] <= h.doc
      BY <1>1, <2>1, <2>3, <3>1, CursorsType DEF Overtaken
    <3>3. Score(h.doc) <= Threshold
      BY <1>1, <2>1, <2>3, <3>2, UnclearIsBelow
    <3>4. \A g \in heap : g.doc < h.doc
      <4> SUFFICES ASSUME NEW g \in heap PROVE g.doc < h.doc
        OBVIOUS
      <4>1. g.doc < cur[t] /\ g.doc \in Nat
        BY <1>1, EligibleType, DocsFinite DEF WandInv, HeapOK
      <4> QED
        BY <2>1, <3>2, <4>1
    <3> QED
      BY <1>1, <2>1, <3>3, <3>4, BelowThresholdIsBeaten
  <2> QED
    BY <2>2, <2>3
<1> QED
  BY <1>1, <1>2, TopIfOthersBeaten

-----------------------------------------------------------------------------
(* MaxScore. *)

LEMMA ListsType ==
  /\ Cardinality(Terms) \in Nat
  /\ \A i \in Lists : i \in Nat /\ i >= 1 /\ i <= Cardinality(Terms)
  /\ \A i \in Nat : i >= 1 /\ i <= Cardinality(Terms) => i \in Lists
<1>1. Cardinality(Terms) \in Nat
  BY QueryAssumption, FS_CardinalityType
<1> QED
  BY <1>1 DEF Lists

(* What some lists add is at most the bound of those up to any that comes  *)
(* after all of them.                                                      *)
LEMMA CumBounds ==
  ASSUME CorpusTypeOK, OrderOK, NEW i \in 0 .. Cardinality(Terms)
  PROVE  /\ Cum(i) \in Nat
         /\ \A d \in Docs : \A A \in SUBSET Terms :
              (\A t \in A : d \in List(t) => \E j \in 1 .. i : t = order[j])
                => SumFunctionOnSet(Contributions(d), A) <= Cum(i)
<1> DEFINE h == [j \in Lists |-> ListBound(order[j])]
           f == [t \in Terms |-> ListBound(t)]
           B == {order[j] : j \in 1 .. i}
<1>1. 1 .. i \subseteq Lists /\ IsFiniteSet(1 .. i)
  BY ListsType, FS_Interval DEF Lists
<1>2. \A j \in 1 .. i : order[j] \in Terms /\ h[j] = ListBound(order[j]) /\ f[order[j]] = ListBound(order[j])
  BY <1>1 DEF OrderOK
<1>3. \A t \in Terms : f[t] = ListBound(t) /\ ListBound(t) \in Nat
  BY ListBoundHolds
<1>4. Cum(i) = SumFunctionOnSet(h, 1 .. i)
  BY DEF Cum
<1>5. IsFiniteSet(B) /\ B \subseteq Terms
  <2>1. IsFiniteSet(B)
    BY <1>1, ImageFinite
  <2> QED
    BY <1>2, <2>1
<1> HIDE DEF h, f
<1>6. \A j \in 1 .. i : f[order[j]] \in Nat /\ h[j] = f[order[j]] /\ h[j] \in Nat
  BY <1>2, <1>3
<1>7. Cum(i) \in Nat
  BY <1>1, <1>4, <1>6, SumRemove
<1>8. SumFunctionOnSet(f, B) <= Cum(i) /\ SumFunctionOnSet(f, B) \in Nat
  <2>1. SumFunctionOnSet(f, B) <= SumFunctionOnSet(h, 1 .. i)
    BY <1>1, <1>6, SumReindexed
  <2>2. \A t \in B : f[t] \in Nat
    BY <1>3, <1>5
  <2> HIDE DEF B
  <2>3. SumFunctionOnSet(f, B) \in Nat
    BY <1>5, <2>2, SumRemove
  <2> QED
    BY <1>4, <2>1, <2>3
<1>9. ASSUME NEW d \in Docs, NEW A \in SUBSET Terms,
             \A t \in A : d \in List(t) => \E j \in 1 .. i : t = order[j]
      PROVE  SumFunctionOnSet(Contributions(d), A) <= Cum(i)
  <2> DEFINE c == Contributions(d)
  <2>1. \A t \in Terms : c[t] = Contribution(t, d)
    BY DEF Contributions
  <2>2. \A t \in Terms : c[t] \in Nat /\ c[t] <= f[t] /\ (c[t] # 0 => d \in List(t))
    BY <1>3, <2>1, ListBoundHolds
  <2>3. \A t \in A : d \in List(t) => t \in B
    BY <1>9
  <2>4. IsFiniteSet(A)
    BY QueryAssumption, FS_Subset
  <2> HIDE DEF c, B
  <2>5. SumFunctionOnSet(c, A) <= SumFunctionOnSet(f, B)
    <3>1. \A t \in A : c[t] \in Nat /\ (c[t] # 0 => t \in B /\ c[t] <= f[t])
      BY <2>2, <2>3
    <3>2. \A t \in B : f[t] \in Nat
      BY <1>3, <1>5
    <3> QED
      BY <1>5, <2>4, <3>1, <3>2, SumDominated
  <2>6. SumFunctionOnSet(c, A) \in Nat
    BY <2>2, <2>4, SumRemove
  <2> QED
    BY <1>7, <1>8, <2>5, <2>6 DEF c
<1> QED
  BY <1>7, <1>9

(* Lists stop being essential as the threshold rises; what only they still *)
(* have ahead is beaten by then.                                           *)
LEMMA EssentialRises ==
  ASSUME MaxInv, step # "probe", NEW e, e = Essential
  PROVE  /\ e \in 1 .. Cardinality(Terms) + 1 /\ e >= essential
         /\ e = 1 \/ Cum(e - 1) <= Threshold
         /\ \A h \in Eligible \ heap :
              Beaten(h) \/ \E i \in Lists : i >= e /\ h.doc \in List(order[i]) /\ cur[order[i]] <= h.doc
<1> DEFINE n == Cardinality(Terms)
           S == {i \in essential .. n : Cum(i) > Threshold} \cup {n + 1}
<1>1. CorpusTypeOK /\ CursorsOK /\ HeapOK /\ OrderOK /\ essential \in 1 .. n + 1 /\ n \in Nat
  BY ListsType DEF MaxInv, OrderInv
<1>2. S \in SUBSET Int /\ IsFiniteSet(S) /\ S # {}
  <2>1. IsFiniteSet(essential .. n)
    BY <1>1, FS_Interval
  <2>2. IsFiniteSet({i \in essential .. n : Cum(i) > Threshold})
    BY <2>1, FS_Subset
  <2>3. IsFiniteSet(S)
    BY <2>2, FS_AddElement
  <2> QED
    BY <1>1, <2>3
<1>3. e = Min(S)
  BY DEF Essential
<1>4. e \in S /\ \A x \in S : e <= x
  <2> HIDE DEF S
  <2> QED
    BY <1>2, <1>3, MinOfFinite
<1>5. e \in 1 .. n + 1 /\ e >= essential
  BY <1>1, <1>4
<1>6. e = 1 \/ Cum(e - 1) <= Threshold
  <2>1. CASE e = essential
    BY <2>1 DEF MaxInv, OrderInv
  <2>2. CASE e # essential
    <3>1. e - 1 \in essential .. n /\ e - 1 \in 0 .. n
      BY <1>1, <1>5, <2>2
    <3>2. ~(e <= e - 1)
      BY <1>5
    <3>3. e - 1 \notin S
      BY <1>4, <3>2
    <3>4. ~(Cum(e - 1) > Threshold)
      BY <3>1, <3>3
    <3>5. Cum(e - 1) \in Nat /\ Threshold \in Int
      BY <1>1, <3>1, CumBounds, ThresholdIs
    <3> QED
      BY <3>4, <3>5
  <2> QED
    BY <2>1, <2>2
<1> HIDE DEF S
<1>7. ASSUME NEW h \in Eligible \ heap, ~Beaten(h)
      PROVE  \E i \in Lists : i >= e /\ h.doc \in List(order[i]) /\ cur[order[i]] <= h.doc
  <2> SUFFICES ASSUME \A i \in Lists : ~(i >= e /\ h.doc \in List(order[i]) /\ cur[order[i]] <= h.doc)
               PROVE  FALSE
    OBVIOUS
  <2>1. h.doc \in Docs /\ h.doc \in Nat /\ h.score = Score(h.doc) /\ h.score \in Nat
    BY <1>1, EligibleType, DocsFinite DEF Hit
  <2>2. PICK i \in Lists : i >= essential /\ h.doc \in List(order[i]) /\ cur[order[i]] <= h.doc
    <3>1. Pending(h.doc)
      BY <1>7 DEF MaxInv, BetweenTurns
    <3> QED
      BY <3>1 DEF Pending, Essentials
  <2>3. order[i] \in Terms /\ cur[order[i]] \in Nat /\ i \in Nat /\ i < e /\ i >= 1
    <3>1. order[i] \in Terms
      BY <1>1, <2>2 DEF OrderOK
    <3>2. cur[order[i]] \in Nat
      BY <1>1, <3>1, CursorsType
    <3>3. i \in Nat /\ i >= 1 /\ ~(i >= e)
      BY <2>2, ListsType
    <3> QED
      BY <1>5, <3>1, <3>2, <3>3
  <2>4. \A t \in Terms : h.doc \in List(t) => cur[t] <= h.doc
    BY <2>2 DEF MaxInv, InStep, Essentials
  <2>5. ASSUME NEW t \in Terms, h.doc \in List(t)
        PROVE  \E j \in 1 .. e - 1 : t = order[j]
    <3>1. PICK j \in Lists : t = order[j]
      BY <1>1 DEF OrderOK
    <3>2. j \in Nat /\ j >= 1 /\ ~(j >= e)
      BY <2>4, <2>5, <3>1, ListsType
    <3> QED
      BY <1>5, <3>1, <3>2
  <2>6. e - 1 \in 0 .. n /\ Cum(e - 1) <= Threshold
    BY <1>1, <1>5, <1>6, <2>3
  <2>7. Cum(e - 1) \in Nat /\ Score(h.doc) <= Cum(e - 1)
    BY <1>1, <2>1, <2>5, <2>6, CumBounds DEF Score
  <2>8. Score(h.doc) <= Threshold
    BY <1>1, <2>1, <2>6, <2>7, ThresholdIs
  <2>9. \A g \in heap : g.doc < h.doc
    <3> SUFFICES ASSUME NEW g \in heap PROVE g.doc < h.doc
      OBVIOUS
    <3>1. g.doc \in Nat
      BY <1>1, EligibleType, DocsFinite DEF HeapOK
    <3>2. g.doc < cur[order[i]]
      BY <2>2 DEF MaxInv, BetweenTurns, Essentials
    <3> QED
      BY <2>1, <2>2, <2>3, <3>1, <3>2
  <2> QED
    BY <1>1, <1>7, <2>1, <2>8, <2>9, BelowThresholdIsBeaten
<1> QED
  BY <1>5, <1>6, <1>7

(* The least document that the essential lists have ahead.                 *)
LEMMA CandidateIs ==
  ASSUME CorpusTypeOK, CursorsOK, OrderOK, NEW e \in 1 .. Cardinality(Terms) + 1
  PROVE  /\ \A c \in Candidate(e) :
              /\ c \in Docs /\ c \in Nat
              /\ \E i \in Lists : i >= e /\ cur[order[i]] = c /\ c \in List(order[i])
              /\ \A i \in Lists : i >= e => c <= cur[order[i]]
         /\ Candidate(e) = {} => \A i \in Lists : i >= e => cur[order[i]] = End
<1> DEFINE n == Cardinality(Terms)
<1>1. \A i \in e .. n : i \in Lists /\ i >= e
  BY ListsType DEF Lists
<1>2. \A i \in Lists : i >= e => i \in e .. n
  BY ListsType
<1>3. \A i \in Lists : /\ cur[order[i]] \in Nat /\ cur[order[i]] <= End
                       /\ cur[order[i]] # End => cur[order[i]] \in List(order[i]) /\ cur[order[i]] \in Docs
  <2> TAKE i \in Lists
  <2>1. order[i] \in Terms
    BY DEF OrderOK
  <2>2. cur[order[i]] \in 0 .. End /\ cur[order[i]] \in Nat
    BY <2>1, CursorsType
  <2>3. cur[order[i]] # End => cur[order[i]] \in List(order[i]) /\ cur[order[i]] \in Docs
    BY <2>1, CursorsType
  <2> QED
    BY <2>2, <2>3, DocsFinite
<1>4. Ahead(e) \subseteq Docs
  BY <1>1, <1>3 DEF Ahead
<1>5. \A d \in Ahead(e) : \E i \in Lists : i >= e /\ cur[order[i]] = d /\ d \in List(order[i])
  BY <1>1, <1>3 DEF Ahead
<1>6. \A i \in Lists : i >= e /\ cur[order[i]] # End => cur[order[i]] \in Ahead(e)
  BY <1>2 DEF Ahead
<1>7. Ahead(e) # {} => Candidate(e) # {}
  <2>1. IsFiniteSet(Ahead(e))
    BY <1>4, DocsFinite
  <2>2. Ahead(e) \in SUBSET Int
    <3>1. \A d \in Docs : d \in Int
      <4>1. Docs \subseteq Nat
        BY DocsFinite
      <4> QED
        BY <4>1
    <3> QED
      BY <1>4, <3>1
  <2>3. Ahead(e) # {} => Min(Ahead(e)) \in Ahead(e) /\ \A o \in Ahead(e) : Min(Ahead(e)) <= o
    BY <2>1, <2>2, MinOfFinite
  <2> QED
    BY <2>3 DEF Candidate
<1>8. ASSUME NEW c \in Candidate(e)
      PROVE  /\ c \in Docs /\ c \in Nat
             /\ \E i \in Lists : i >= e /\ cur[order[i]] = c /\ c \in List(order[i])
             /\ \A i \in Lists : i >= e => c <= cur[order[i]]
  <2>1. c \in Ahead(e) /\ \A o \in Ahead(e) : c <= o
    BY <1>8 DEF Candidate
  <2>2. c \in Docs /\ c \in Nat /\ c <= End
    <3>1. c \in Docs
      BY <1>4, <2>1
    <3>2. c < End /\ c \in Nat /\ End \in Nat
      BY <3>1, DocsFinite
    <3> QED
      BY <3>1, <3>2
  <2>3. \A i \in Lists : i >= e => c <= cur[order[i]]
    BY <1>6, <2>1, <2>2
  <2> QED
    BY <1>5, <2>1, <2>2, <2>3
<1>9. Candidate(e) = {} => \A i \in Lists : i >= e => cur[order[i]] = End
  BY <1>6, <1>7
<1> QED
  BY <1>8, <1>9

LEMMA CumStays ==
  ASSUME CorpusTypeOK, OrderOK, UNCHANGED <<corpus, order>>
  PROVE  OrderOK' /\ \A i : Cum(i)' = Cum(i)
<1>1. order' = order /\ \A t \in Terms : ListBound(t)' = ListBound(t)
  BY CorpusStays
<1>2. \A j \in Lists : ListBound(order[j])' = ListBound(order[j])
  BY <1>1 DEF OrderOK
<1>3. [j \in Lists |-> ListBound(order[j])]' = [j \in Lists |-> ListBound(order[j])]
  BY <1>2
<1>4. \A i : Cum(i)' = Cum(i)
  BY <1>3 DEF Cum
<1> QED
  BY <1>1, <1>4 DEF OrderOK

(* A turn moves the cursors as far as some document, the essential ones at *)
(* least that far, and none past a posting from there on.                  *)
LEMMA TurnMoves ==
  ASSUME MaxInv, step = "loop", UNCHANGED <<corpus, heap, order>>,
         NEW e, e = Essential, essential' = e,
         NEW m \in Nat,
         cur' = [t \in Terms |-> cur'[t]],
         \A t \in Terms : /\ cur'[t] \in Docs \cup {End} /\ (cur'[t] # End => cur'[t] \in List(t))
                          /\ cur'[t] >= cur[t]
                          /\ \A d \in List(t) : d >= m /\ d >= cur[t] => cur'[t] <= d,
         \A i \in Lists : i >= e => cur'[order[i]] >= m
  PROVE  /\ CorpusTypeOK' /\ CursorsOK' /\ HeapOK' /\ OrderInv' /\ InStep'
         /\ Eligible' = Eligible
         /\ \A g \in heap, i \in Lists : i >= e => g.doc < cur'[order[i]]
         /\ \A h \in Eligible \ heap : Beaten(h)' \/ Pending(h.doc)' \/ h.doc < m
<1> DEFINE n == Cardinality(Terms)
<1>1. CorpusTypeOK /\ CursorsOK /\ HeapOK /\ OrderOK /\ InStep /\ BetweenTurns /\ UNCHANGED corpus /\ heap' = heap /\ order' = order
  BY DEF MaxInv, OrderInv
<1>2. CorpusTypeOK' /\ k' = k /\ Eligible' = Eligible /\ \A t \in Terms : List(t)' = List(t)
  BY <1>1, CorpusStays
<1>3. /\ e \in 1 .. n + 1 /\ e >= essential
      /\ e = 1 \/ Cum(e - 1) <= Threshold
      /\ \A h \in Eligible \ heap :
           Beaten(h) \/ \E i \in Lists : i >= e /\ h.doc \in List(order[i]) /\ cur[order[i]] <= h.doc
  BY EssentialRises
<1>4. \A i \in Lists : i \in Nat /\ order[i] \in Terms
  BY <1>1, ListsType DEF OrderOK
<1>5. \A i \in Lists : i >= e => i \in Essentials
  <2>1. essential \in Nat
    BY ListsType DEF MaxInv, OrderInv
  <2> QED
    BY <1>3, <1>4, <2>1, ListsType DEF Essentials
<1>6. \A t \in Terms : cur[t] \in Nat /\ cur'[t] \in Nat
  <2>1. \A t \in Terms : cur[t] \in Nat
    BY <1>1, CursorsType
  <2>2. Docs \cup {End} \subseteq Nat
    BY DocsFinite
  <2> QED
    BY <2>1, <2>2
<1>7. CursorsOK'
  <2>1. tf' = tf
    BY <1>1 DEF corpus
  <2>2. cur' \in [Terms -> Docs \cup {End}]
    OBVIOUS
  <2>3. \A t \in Terms : cur'[t] # End => tf[t][cur'[t]] > 0
    BY DEF List
  <2> QED
    BY <2>1, <2>2, <2>3 DEF CursorsOK
<1>8. HeapOK' /\ (\A h : Beaten(h)' <=> Beaten(h)) /\ Threshold' = Threshold
  BY <1>1, <1>2 DEF HeapOK, Beaten, Outranks, Threshold
<1>9. OrderInv'
  <2>1. OrderOK' /\ \A i : Cum(i)' = Cum(i)
    BY <1>1, CumStays
  <2> QED
    BY <1>3, <1>8, <2>1 DEF OrderInv
<1>10. \A t \in Terms : \A d \in List(t) : d \in Nat
  <2>1. \A t \in Terms : List(t) \subseteq Docs
    BY <1>1, ListType
  <2> QED
    BY <2>1, DocsFinite
<1>11. \A i \in Lists, t \in Terms : \A d \in List(t) : i >= e /\ cur'[order[i]] <= d => cur'[t] <= d
  <2> SUFFICES ASSUME NEW i \in Lists, NEW t \in Terms, NEW d \in List(t), i >= e, cur'[order[i]] <= d
               PROVE  cur'[t] <= d
    OBVIOUS
  <2>1. order[i] \in Terms /\ d \in Nat
    BY <1>4, <1>10
  <2>2. d >= m /\ cur[order[i]] <= d
    BY <1>6, <2>1
  <2>3. cur[t] <= d
    BY <1>1, <1>5, <2>2 DEF InStep
  <2> QED
    BY <1>6, <2>1, <2>2, <2>3
<1>12. \A i : i \in Essentials' <=> i \in Lists /\ i >= e
  BY DEF Essentials
<1>13. InStep'
  BY <1>1, <1>2, <1>11, <1>12 DEF InStep
<1>14. ASSUME NEW g \in heap, NEW i \in Lists, i >= e
       PROVE  g.doc < cur'[order[i]]
  <2>1. g.doc < cur[order[i]]
    BY <1>1, <1>5, <1>14 DEF BetweenTurns
  <2>2. g.doc \in Nat
    BY <1>1, EligibleType, DocsFinite DEF HeapOK
  <2> QED
    BY <1>4, <1>6, <2>1, <2>2
<1>15. ASSUME NEW h \in Eligible \ heap
       PROVE  Beaten(h)' \/ Pending(h.doc)' \/ h.doc < m
  <2>1. CASE Beaten(h)
    BY <1>8, <2>1
  <2>2. CASE ~Beaten(h)
    <3>1. PICK i \in Lists : i >= e /\ h.doc \in List(order[i]) /\ cur[order[i]] <= h.doc
      BY <1>3, <2>2
    <3>2. order[i] \in Terms /\ h.doc \in Nat
      BY <1>4, <1>10, <3>1
    <3>3. h.doc >= m => cur'[order[i]] <= h.doc
      BY <1>6, <3>1, <3>2
    <3>4. h.doc >= m => Pending(h.doc)'
      BY <1>1, <1>2, <1>12, <3>1, <3>2, <3>3 DEF Pending
    <3> QED
      BY <3>2, <3>4
  <2> QED
    BY <2>1, <2>2
<1> QED
  BY <1>2, <1>7, <1>8, <1>9, <1>13, <1>14, <1>15

(* The cursors on a document step past it.                                 *)
LEMMA PastIs ==
  ASSUME CorpusTypeOK, CursorsOK, NEW c \in Docs, NEW t \in Terms, NEW x,
         x = IF cur[t] = c THEN PostingFrom(t, c + 1) ELSE cur[t]
  PROVE  /\ x \in Docs \cup {End} /\ x \in Nat /\ (x # End => x \in List(t))
         /\ x >= cur[t] /\ x # c
         /\ cur[t] >= c => x > c
         /\ \A d \in List(t) : d > c /\ d >= cur[t] => x <= d
<1>1. c \in Nat /\ c + 1 \in 0 .. End
  <2>1. c \in Nat /\ c < End /\ End \in Nat
    BY DocsFinite
  <2> QED
    BY <2>1
<1>2. cur[t] \in Nat /\ cur[t] \in Docs \cup {End} /\ (cur[t] # End => cur[t] \in List(t))
  BY CursorsType DEF CursorsOK
<1>3. \A d \in List(t) : d \in Nat
  <2>1. List(t) \subseteq Docs
    BY ListType
  <2>2. Docs \subseteq Nat
    BY DocsFinite
  <2> QED
    BY <2>1, <2>2
<1>4. CASE cur[t] = c
  <2>1. x = PostingFrom(t, c + 1)
    BY <1>4
  <2>2. /\ x \in Docs \cup {End} /\ x >= c + 1
        /\ x # End => x \in List(t)
        /\ \A d \in List(t) : d >= c + 1 => x <= d
    BY <1>1, <2>1, PostingFromIs
  <2>3. x \in Nat
    <3>1. Docs \cup {End} \subseteq Nat
      BY DocsFinite
    <3> QED
      BY <2>2, <3>1
  <2> QED
    BY <1>1, <1>3, <1>4, <2>2, <2>3
<1>5. CASE cur[t] # c
  BY <1>1, <1>2, <1>5
<1> QED
  BY <1>4, <1>5

LEMMA MaxFinishKeeps ==
  ASSUME MaxInv, step = "loop", essential' = Essential, MaxFinish
  PROVE  MaxInv'
<1>1. PICK e : e = Essential /\ essential' = e
  OBVIOUS
<1>2. UNCHANGED <<corpus, cur, heap, order, candidate, score, probe>> /\ step' = "done" /\ Candidate(e) = {}
  BY <1>1 DEF MaxFinish
<1>3. CorpusTypeOK /\ CursorsOK /\ OrderOK
  BY DEF MaxInv, OrderInv
<1>4. e \in 1 .. Cardinality(Terms) + 1 /\ e >= essential
  BY <1>1, EssentialRises
<1>5. \A i \in Lists : i >= e => cur[order[i]] = End
  BY <1>2, <1>3, <1>4, CandidateIs
<1>6. cur' = [t \in Terms |-> cur'[t]]
  BY <1>2, <1>3 DEF CursorsOK
<1>7. \A t \in Terms : /\ cur'[t] \in Docs \cup {End} /\ (cur'[t] # End => cur'[t] \in List(t))
                       /\ cur'[t] >= cur[t]
                       /\ \A d \in List(t) : d >= 0 /\ d >= cur[t] => cur'[t] <= d
  <2> TAKE t \in Terms
  <2>1. cur'[t] = cur[t]
    BY <1>2
  <2>2. cur[t] \in Nat /\ cur[t] \in Docs \cup {End} /\ (cur[t] # End => cur[t] \in List(t))
    BY <1>3, CursorsType DEF CursorsOK
  <2>3. \A d \in List(t) : d \in Nat
    <3>1. List(t) \subseteq Docs
      BY <1>3, ListType
    <3>2. Docs \subseteq Nat
      BY DocsFinite
    <3> QED
      BY <3>1, <3>2
  <2> QED
    BY <2>1, <2>2, <2>3
<1>8. \A i \in Lists : cur'[order[i]] >= 0
  <2> TAKE i \in Lists
  <2>1. order[i] \in Terms
    BY <1>3 DEF OrderOK
  <2> QED
    BY <1>2, <1>3, <2>1, CursorsType
<1>9. /\ CorpusTypeOK' /\ CursorsOK' /\ HeapOK' /\ OrderInv' /\ InStep'
      /\ Eligible' = Eligible
      /\ \A g \in heap, i \in Lists : i >= e => g.doc < cur'[order[i]]
      /\ \A h \in Eligible \ heap : Beaten(h)' \/ Pending(h.doc)' \/ h.doc < 0
  BY <1>1, <1>2, <1>6, <1>7, <1>8, TurnMoves
<1>10. \A h \in Eligible \ heap : ~(h.doc < 0)
  <2> TAKE h \in Eligible \ heap
  <2>1. h.doc \in Nat
    BY <1>3, EligibleType, DocsFinite
  <2> QED
    BY <2>1
<1>11. \A i \in Essentials' : i \in Lists /\ i >= e
  BY <1>1 DEF Essentials
<1>12. BetweenTurns'
  BY <1>2, <1>9, <1>10, <1>11 DEF BetweenTurns
<1>13. probe' \in 0 .. essential' - 1
  <2>1. probe \in 0 .. essential - 1 /\ essential \in Nat
    BY ListsType DEF MaxInv, OrderInv
  <2> QED
    BY <1>1, <1>2, <1>4, <2>1, ListsType
<1>14. candidate' \in 0 .. End /\ score' \in Nat
  BY <1>2 DEF MaxInv
<1>15. \A i \in Essentials' : cur'[order'[i]] = End
  BY <1>2, <1>5, <1>11
<1> QED
  BY <1>2, <1>9, <1>12, <1>13, <1>14, <1>15 DEF MaxInv

LEMMA MaxLeapKeeps ==
  ASSUME MaxInv, step = "loop", essential' = Essential,
         NEW c \in Candidate(essential'), MaxLeap(c)
  PROVE  MaxInv'
<1> DEFINE n == NextLive(c)
<1>1. PICK e : e = Essential /\ essential' = e
  OBVIOUS
<1>2. UNCHANGED <<corpus, heap, order, step, candidate, score, probe>> /\ cur' = [t \in Terms |-> Seek(t, n)]
  BY DEF MaxLeap
<1>3. CorpusTypeOK /\ CursorsOK /\ OrderOK
  BY DEF MaxInv, OrderInv
<1>4. /\ e \in 1 .. Cardinality(Terms) + 1 /\ e >= essential
      /\ \A h \in Eligible \ heap :
           Beaten(h) \/ \E i \in Lists : i >= e /\ h.doc \in List(order[i]) /\ cur[order[i]] <= h.doc
  BY <1>1, EssentialRises
<1>5. /\ c \in Docs /\ c \in Nat
      /\ \A i \in Lists : i >= e => c <= cur[order[i]]
  BY <1>1, <1>3, <1>4, CandidateIs
<1>6. n \in 0 .. End /\ n \in Nat /\ \A d \in Docs : c <= d /\ d < n => d \in hidden
  <2>1. n \in Docs \cup {End} /\ \A d \in Docs : c <= d /\ d < n => d \in hidden
    BY <1>3, <1>5, NextLiveIs
  <2>2. n \in 0 .. End
    BY <2>1, DocsFinite DEF Docs, End
  <2> QED
    BY <2>1, <2>2
<1> HIDE DEF n
<1>7. cur' = [t \in Terms |-> cur'[t]] /\ \A t \in Terms : cur'[t] = Seek(t, n)
  BY <1>2
<1>8. \A t \in Terms : /\ cur'[t] \in Docs \cup {End} /\ (cur'[t] # End => cur'[t] \in List(t))
                       /\ cur'[t] >= cur[t] /\ cur'[t] >= n
                       /\ \A d \in List(t) : d >= n /\ d >= cur[t] => cur'[t] <= d
  BY <1>3, <1>6, <1>7, SeekIs
<1>9. \A i \in Lists : cur'[order[i]] >= n
  <2>1. \A i \in Lists : order[i] \in Terms
    BY <1>3 DEF OrderOK
  <2> QED
    BY <1>8, <2>1
<1>10. /\ CorpusTypeOK' /\ CursorsOK' /\ HeapOK' /\ OrderInv' /\ InStep'
       /\ Eligible' = Eligible
       /\ \A g \in heap, i \in Lists : i >= e => g.doc < cur'[order[i]]
       /\ \A h \in Eligible \ heap : Beaten(h)' \/ Pending(h.doc)' \/ h.doc < n
  BY <1>1, <1>2, <1>6, <1>7, <1>8, <1>9, TurnMoves
<1>11. ASSUME NEW h \in Eligible \ heap
       PROVE  Beaten(h)' \/ Pending(h.doc)'
  <2>1. h.doc \in Docs /\ h.doc \notin hidden /\ h.doc \in Nat
    BY <1>3, EligibleType, DocsFinite
  <2>2. CASE Beaten(h)
    <3>1. k' = k /\ heap' = heap
      BY <1>2, <1>3, CorpusStays
    <3> QED
      BY <2>2, <3>1 DEF Beaten, Outranks
  <2>3. CASE ~Beaten(h)
    <3>1. PICK i \in Lists : i >= e /\ h.doc \in List(order[i]) /\ cur[order[i]] <= h.doc
      BY <1>4, <2>3
    <3>2. cur[order[i]] \in Nat /\ c <= cur[order[i]]
      BY <1>3, <1>5, <3>1, CursorsType DEF OrderOK
    <3>3. c <= h.doc
      BY <1>5, <2>1, <3>1, <3>2
    <3>4. ~(h.doc < n)
      BY <1>6, <2>1, <3>3
    <3> QED
      BY <1>10, <3>4
  <2> QED
    BY <2>2, <2>3
<1>12. \A i \in Essentials' : i \in Lists /\ i >= e
  BY <1>1 DEF Essentials
<1>13. BetweenTurns'
  BY <1>2, <1>10, <1>11, <1>12 DEF BetweenTurns
<1>14. probe' \in 0 .. essential' - 1
  <2>1. probe \in 0 .. essential - 1 /\ essential \in Nat
    BY ListsType DEF MaxInv, OrderInv
  <2> QED
    BY <1>1, <1>2, <1>4, <2>1, ListsType
<1>15. candidate' \in 0 .. End /\ score' \in Nat
  BY <1>2 DEF MaxInv
<1> QED
  BY <1>2, <1>10, <1>13, <1>14, <1>15 DEF MaxInv

LEMMA GatherKeeps ==
  ASSUME MaxInv, step = "loop", essential' = Essential,
         NEW c \in Candidate(essential'), Gather(c)
  PROVE  MaxInv'
<1> DEFINE on == {t \in Terms : cur[t] = c}
           W  == {t \in Terms : cur'[t] > c}
           f  == Contributions(c)
<1>1. PICK e : e = Essential /\ essential' = e
  OBVIOUS
<1>2. /\ UNCHANGED <<corpus, heap, order>> /\ cur' = Advanced(on)
      /\ score' = SumFunctionOnSet(f, on)
      /\ candidate' = c /\ probe' = e - 1 /\ step' = "probe"
  BY <1>1 DEF Gather
<1>3. CorpusTypeOK /\ CursorsOK /\ OrderOK
  BY DEF MaxInv, OrderInv
<1>4. e \in 1 .. Cardinality(Terms) + 1 /\ e >= essential /\ e \in Nat
  <2>1. e \in 1 .. Cardinality(Terms) + 1 /\ e >= essential
    BY <1>1, EssentialRises
  <2> QED
    BY <2>1, ListsType
<1>5. /\ c \in Docs /\ c \in Nat
      /\ \E i \in Lists : i >= e /\ cur[order[i]] = c /\ c \in List(order[i])
      /\ \A i \in Lists : i >= e => c <= cur[order[i]]
  BY <1>1, <1>3, <1>4, CandidateIs
<1>6. PICK i0 \in Lists : i0 >= e /\ cur[order[i0]] = c /\ c \in List(order[i0])
  BY <1>5
<1>7. /\ cur' = [t \in Terms |-> cur'[t]]
      /\ \A t \in Terms : cur'[t] = IF cur[t] = c THEN PostingFrom(t, c + 1) ELSE cur[t]
  BY <1>2 DEF Advanced, Next1
<1>8. \A t \in Terms : /\ cur'[t] \in Docs \cup {End} /\ cur'[t] \in Nat /\ (cur'[t] # End => cur'[t] \in List(t))
                       /\ cur'[t] >= cur[t] /\ cur'[t] # c
                       /\ cur[t] >= c => cur'[t] > c
                       /\ \A d \in List(t) : d > c /\ d >= cur[t] => cur'[t] <= d
  <2> TAKE t \in Terms
  <2>1. PICK x : x = cur'[t]
    OBVIOUS
  <2>2. x = IF cur[t] = c THEN PostingFrom(t, c + 1) ELSE cur[t]
    BY <1>7, <2>1
  <2> QED
    BY <1>3, <1>5, <2>1, <2>2, PastIs
<1>9. \A t \in Terms : cur[t] \in Nat /\ \A d \in List(t) : d \in Nat
  <2> TAKE t \in Terms
  <2>1. List(t) \subseteq Docs
    BY <1>3, ListType
  <2>2. Docs \subseteq Nat
    BY DocsFinite
  <2> QED
    BY <1>3, <2>1, <2>2, CursorsType
<1>10. \A i \in Lists : order[i] \in Terms /\ i \in Nat
  BY <1>3, ListsType DEF OrderOK
<1>11. \A i \in Lists : i >= e => cur'[order[i]] > c
  BY <1>5, <1>8, <1>9, <1>10
<1>12. /\ CorpusTypeOK' /\ CursorsOK' /\ HeapOK' /\ OrderInv' /\ InStep'
       /\ Eligible' = Eligible
       /\ \A g \in heap, i \in Lists : i >= e => g.doc < cur'[order[i]]
       /\ \A h \in Eligible \ heap : Beaten(h)' \/ Pending(h.doc)' \/ h.doc < c + 1
  <2>1. c + 1 \in Nat
    BY <1>5
  <2>2. \A t \in Terms : /\ cur'[t] \in Docs \cup {End} /\ (cur'[t] # End => cur'[t] \in List(t))
                         /\ cur'[t] >= cur[t]
                         /\ \A d \in List(t) : d >= c + 1 /\ d >= cur[t] => cur'[t] <= d
    <3> TAKE t \in Terms
    <3>1. \A d \in List(t) : d >= c + 1 => d > c
      BY <1>5, <1>9
    <3> QED
      BY <1>8, <3>1
  <2>3. \A i \in Lists : i >= e => cur'[order[i]] >= c + 1
    BY <1>5, <1>8, <1>10, <1>11
  <2> QED
    BY <1>1, <1>2, <1>7, <2>1, <2>2, <2>3, TurnMoves
<1>13. i0 \in Essentials
  <2>1. essential \in Nat
    BY ListsType DEF MaxInv, OrderInv
  <2> QED
    BY <1>4, <1>6, <1>10, <2>1 DEF Essentials
<1>14. \A g \in heap : g.doc < c
  BY <1>6, <1>13 DEF MaxInv, BetweenTurns
<1>15. \A t \in Terms : c \in List(t) => cur[t] <= c
  <2>1. cur[order[i0]] <= c
    BY <1>5, <1>6
  <2> QED
    BY <1>13, <2>1 DEF MaxInv, InStep
<1>16. \A t \in Terms : f[t] \in Nat /\ (f[t] # 0 => c \in List(t))
  BY <1>3, <1>5, ListBoundHolds DEF Contributions
<1>17. on \in SUBSET Terms /\ W \in SUBSET Terms /\ IsFiniteSet(on) /\ IsFiniteSet(W)
  <2>1. on \in SUBSET Terms /\ W \in SUBSET Terms
    OBVIOUS
  <2> HIDE DEF on, W
  <2> QED
    BY <2>1, QueryAssumption, FS_Subset
<1>18. \A t \in (on \ W) \cup (W \ on) : f[t] = 0
  <2>1. \A t \in on : t \in W
    BY <1>5, <1>8
  <2>2. \A t \in W \ on : t \in Terms /\ cur'[t] = cur[t] /\ cur[t] > c
    BY <1>7
  <2>3. \A t \in W \ on : ~(cur[t] <= c)
    BY <1>5, <1>9, <2>2
  <2> HIDE DEF f, on, W
  <2> QED
    BY <1>15, <1>16, <2>1, <2>2, <2>3
<1>19. SumFunctionOnSet(f, on) = SumFunctionOnSet(f, W) /\ SumFunctionOnSet(f, on) \in Nat
  <2> HIDE DEF f, on, W
  <2>1. \A t \in on \cup W : f[t] \in Nat
    BY <1>16, <1>17
  <2>2. SumFunctionOnSet(f, on) = SumFunctionOnSet(f, W)
    BY <1>17, <1>18, <2>1, SumEqual
  <2>3. \A t \in on : f[t] \in Nat
    BY <2>1
  <2>4. SumFunctionOnSet(f, on) \in Nat
    BY <1>17, <2>3, SumRemove
  <2> QED
    BY <2>2, <2>4
<1>20. f' = f /\ \A t \in Terms : List(t)' = List(t)
  <2>1. Contributions(c)' = Contributions(c) /\ \A t \in Terms : List(t)' = List(t)
    BY <1>2, <1>3, <1>5, CorpusStays
  <2> QED
    BY <2>1
<1>21. Probing'
  <2>1. candidate' \in Docs /\ \E t \in Terms : candidate' \in List(t)'
    BY <1>2, <1>5, <1>6, <1>10, <1>20
  <2>2. \A i \in Lists : i > probe' => cur'[order'[i]] > candidate'
    <3>1. \A i \in Lists : i > probe' => i >= e
      BY <1>2, <1>4, <1>10
    <3> QED
      BY <1>2, <1>11, <3>1
  <2>3. score' = SumFunctionOnSet(Contributions(candidate)', {t \in Terms : cur'[t] > candidate'})
    <3>1. Contributions(candidate)' = Contributions(c)'
      BY <1>2 DEF Contributions, Contribution
    <3> QED
      BY <1>2, <1>19, <1>20, <3>1
  <2>4. \A g \in heap' : g.doc < candidate'
    BY <1>2, <1>14
  <2>5. ASSUME NEW h \in Eligible' \ heap', h.doc # candidate'
        PROVE  Beaten(h)' \/ Pending(h.doc)'
    <3>1. h \in Eligible \ heap /\ h.doc # c
      BY <1>2, <1>12, <2>5
    <3>2. h.doc \in Nat
      BY <1>3, <3>1, EligibleType, DocsFinite
    <3>3. CASE h.doc < c + 1
      <4>1. h.doc < c
        BY <1>5, <3>1, <3>2, <3>3
      <4>2. Beaten(h) \/ \E i \in Lists : i >= e /\ h.doc \in List(order[i]) /\ cur[order[i]] <= h.doc
        BY <1>1, <3>1, EssentialRises
      <4>3. \A i \in Lists : i >= e => ~(cur[order[i]] <= h.doc)
        BY <1>5, <1>9, <1>10, <3>2, <4>1
      <4>4. Beaten(h)
        BY <4>2, <4>3
      <4>5. k' = k /\ heap' = heap
        BY <1>2, <1>3, CorpusStays
      <4> QED
        BY <4>4, <4>5 DEF Beaten, Outranks
    <3>4. CASE ~(h.doc < c + 1)
      BY <1>12, <3>1, <3>4
    <3> QED
      BY <3>3, <3>4
  <2> QED
    BY <2>1, <2>2, <2>3, <2>4, <2>5 DEF Probing
<1>22. candidate' \in 0 .. End /\ score' \in Nat /\ probe' \in 0 .. essential' - 1
  <2>1. c \in 0 .. End
    BY <1>5, DocsFinite DEF Docs, End
  <2>2. e - 1 \in 0 .. e - 1
    BY <1>4
  <2> QED
    BY <1>1, <1>2, <1>19, <2>1, <2>2
<1> QED
  BY <1>2, <1>12, <1>21, <1>22 DEF MaxInv

LEMMA ProbeListKeeps ==
  ASSUME MaxInv, ProbeList
  PROVE  MaxInv'
<1> DEFINE t0 == order[probe]
           at == Seek(t0, candidate)
           f  == Contributions(candidate)
           W  == {t \in Terms : cur[t] > candidate}
           W1 == {t \in Terms : cur'[t] > candidate}
<1>1. /\ UNCHANGED <<corpus, heap, order, essential, step, candidate>>
      /\ step = "probe" /\ probe > 0 /\ probe' = probe - 1
      /\ score' = score + IF at = candidate THEN Contribution(t0, candidate) ELSE 0
      /\ cur' = [cur EXCEPT ![t0] = IF at = candidate THEN PostingFrom(t0, candidate + 1) ELSE at]
  BY DEF ProbeList
<1>2. CorpusTypeOK /\ CursorsOK /\ HeapOK /\ OrderOK /\ InStep /\ Probing
  BY <1>1 DEF MaxInv, OrderInv
<1>3. /\ probe \in Nat /\ probe < essential /\ essential \in Nat /\ probe \in Lists /\ probe - 1 \in 0 .. essential - 1
      /\ essential <= Cardinality(Terms) + 1
  <2>1. probe \in 0 .. essential - 1 /\ essential \in 1 .. Cardinality(Terms) + 1 /\ Cardinality(Terms) \in Nat
    BY ListsType DEF MaxInv, OrderInv
  <2>2. probe \in Nat /\ probe < essential /\ essential \in Nat /\ probe >= 1 /\ probe <= Cardinality(Terms)
    BY <1>1, <2>1
  <2> QED
    BY <2>1, <2>2, ListsType
<1>4. candidate \in Docs /\ candidate \in Nat /\ candidate \in 0 .. End
  <2>1. candidate \in Docs
    BY <1>2 DEF Probing
  <2> QED
    BY <2>1, DocsFinite DEF MaxInv
<1>5. \A i \in Lists : i \in Nat /\ order[i] \in Terms
  BY <1>2, ListsType DEF OrderOK
<1>6. t0 \in Terms
  BY <1>3, <1>5
<1>7. \A t \in Terms : cur[t] \in Nat /\ cur[t] \in Docs \cup {End} /\ (cur[t] # End => cur[t] \in List(t))
  BY <1>2, CursorsType DEF CursorsOK
<1>8. \A t \in Terms : List(t) \subseteq Docs /\ \A d \in List(t) : d \in Nat
  <2> TAKE t \in Terms
  <2>1. List(t) \subseteq Docs
    BY <1>2, ListType
  <2>2. Docs \subseteq Nat
    BY DocsFinite
  <2> QED
    BY <2>1, <2>2
<1>9. /\ at \in Docs \cup {End} /\ at >= candidate /\ at >= cur[t0] /\ at \in Nat
      /\ at # End => at \in List(t0)
      /\ \A d \in List(t0) : d >= candidate /\ d >= cur[t0] => at <= d
      /\ cur[t0] >= candidate => at = cur[t0]
  <2>1. /\ at \in Docs \cup {End} /\ at >= candidate /\ at >= cur[t0]
        /\ at # End => at \in List(t0)
        /\ \A d \in List(t0) : d >= candidate /\ d >= cur[t0] => at <= d
    BY <1>2, <1>4, <1>6, SeekIs
  <2>2. Docs \cup {End} \subseteq Nat
    BY DocsFinite
  <2>3. cur[t0] >= candidate => at = cur[t0]
    BY DEF Seek
  <2> QED
    BY <2>1, <2>2, <2>3
<1>10. /\ cur' = [t \in Terms |-> cur'[t]]
       /\ \A t \in Terms : t # t0 => cur'[t] = cur[t]
       /\ cur'[t0] = IF at = candidate THEN PostingFrom(t0, candidate + 1) ELSE at
  <2>1. DOMAIN cur = Terms
    BY <1>2 DEF CursorsOK
  <2> QED
    BY <1>1, <1>6, <2>1
<1> HIDE DEF t0, at, f
<1>11. candidate + 1 \in 0 .. End
  BY <1>4, DocsFinite DEF Docs, End
<1>12. /\ PostingFrom(t0, candidate + 1) \in Docs \cup {End} /\ PostingFrom(t0, candidate + 1) >= candidate + 1
       /\ PostingFrom(t0, candidate + 1) # End => PostingFrom(t0, candidate + 1) \in List(t0)
       /\ \A d \in List(t0) : d >= candidate + 1 => PostingFrom(t0, candidate + 1) <= d
       /\ PostingFrom(t0, candidate + 1) \in Nat
  <2>1. Docs \cup {End} \subseteq Nat
    BY DocsFinite
  <2> QED
    BY <1>2, <1>6, <1>11, <2>1, PostingFromIs
<1>13. /\ cur'[t0] \in Docs \cup {End} /\ cur'[t0] \in Nat /\ (cur'[t0] # End => cur'[t0] \in List(t0))
       /\ cur'[t0] > candidate /\ cur'[t0] >= cur[t0]
       /\ cur[t0] > candidate => cur'[t0] = cur[t0]
       /\ \A d \in List(t0) : d > candidate /\ d >= cur[t0] => cur'[t0] <= d
  <2>1. CASE at = candidate
    BY <1>4, <1>6, <1>7, <1>8, <1>9, <1>10, <1>12, <2>1
  <2>2. CASE at # candidate
    BY <1>4, <1>6, <1>7, <1>8, <1>9, <1>10, <2>2
  <2> QED
    BY <2>1, <2>2
<1>14. \A t \in Terms : /\ cur'[t] \in Docs \cup {End} /\ cur'[t] \in Nat /\ (cur'[t] # End => cur'[t] \in List(t))
                        /\ cur'[t] >= cur[t]
                        /\ cur[t] > candidate => cur'[t] = cur[t]
                        /\ \A d \in List(t) : d > candidate /\ d >= cur[t] => cur'[t] <= d
  <2> TAKE t \in Terms
  <2>1. CASE t = t0
    BY <1>13, <2>1
  <2>2. CASE t # t0
    BY <1>7, <1>8, <1>10, <2>2
  <2> QED
    BY <2>1, <2>2
<1>15. CorpusTypeOK' /\ k' = k /\ Eligible' = Eligible /\ \A t \in Terms : List(t)' = List(t)
  BY <1>1, <1>2, CorpusStays
<1>16. CursorsOK'
  <2>1. tf' = tf
    BY <1>1 DEF corpus
  <2>2. cur' \in [Terms -> Docs \cup {End}]
    BY <1>10, <1>14
  <2>3. \A t \in Terms : cur'[t] # End => tf[t][cur'[t]] > 0
    BY <1>14 DEF List
  <2> QED
    BY <2>1, <2>2, <2>3 DEF CursorsOK
<1>17. HeapOK' /\ (\A h : Beaten(h)' <=> Beaten(h)) /\ Threshold' = Threshold
  BY <1>1, <1>2, <1>15 DEF HeapOK, Beaten, Outranks, Threshold
<1>18. OrderInv' /\ Essentials' = Essentials
  <2>1. OrderOK' /\ (\A i : Cum(i)' = Cum(i)) /\ essential' = essential
    BY <1>1, <1>2, CumStays
  <2> QED
    BY <1>17, <2>1 DEF MaxInv, OrderInv, Essentials
<1>19. \A i \in Essentials : i \in Lists /\ i > probe /\ order[i] \in Terms /\ cur[order[i]] > candidate
  <2> TAKE i \in Essentials
  <2>1. i \in Lists /\ i \in Nat /\ i >= essential
    BY ListsType DEF Essentials
  <2>2. i > probe
    BY <1>3, <2>1
  <2> QED
    BY <1>2, <1>5, <2>1, <2>2 DEF Probing
<1>20. InStep'
  <2>1. ASSUME NEW i \in Essentials, NEW t \in Terms, NEW d \in List(t), cur'[order[i]] <= d
        PROVE  cur'[t] <= d
    <3>1. cur'[order[i]] = cur[order[i]] /\ cur[order[i]] > candidate /\ cur[order[i]] \in Nat
      BY <1>7, <1>14, <1>19
    <3>2. cur[t] <= d /\ d \in Nat
      BY <1>2, <1>8, <2>1, <3>1 DEF InStep
    <3>3. d > candidate /\ d >= cur[t]
      BY <1>4, <1>7, <2>1, <3>1, <3>2
    <3> QED
      BY <1>14, <3>3
  <2> QED
    BY <1>1, <1>15, <1>18, <2>1 DEF InStep
<1>21. \A t \in Terms : f[t] \in Nat /\ f[t] = Contribution(t, candidate) /\ (f[t] # 0 <=> candidate \in List(t))
  BY <1>2, <1>4, ListBoundHolds DEF f, Contributions
<1>22. W \in SUBSET Terms /\ IsFiniteSet(W) /\ score = SumFunctionOnSet(f, W)
  <2>1. W \in SUBSET Terms
    OBVIOUS
  <2>2. score = SumFunctionOnSet(f, W)
    BY <1>2 DEF Probing, f
  <2> HIDE DEF W
  <2> QED
    BY <2>1, <2>2, QueryAssumption, FS_Subset
<1>23. W1 = W \cup {t0}
  <2>1. \A t \in Terms : t # t0 => (cur'[t] > candidate <=> cur[t] > candidate)
    BY <1>10
  <2> QED
    BY <1>6, <1>13, <2>1
<1>24. score' = SumFunctionOnSet(f, W1) /\ score' \in Nat
  <2>1. score \in Nat
    BY DEF MaxInv
  <2>2. CASE cur[t0] > candidate
    <3>1. at # candidate
      BY <1>4, <1>6, <1>7, <1>9, <2>2
    <3>2. t0 \in W
      BY <1>6, <2>2
    <3>3. W1 = W
      BY <1>23, <3>2
    <3>4. score' = score + 0
      BY <1>1, <3>1 DEF at, t0
    <3> HIDE DEF W, W1
    <3> QED
      BY <1>22, <2>1, <3>3, <3>4
  <2>3. CASE ~(cur[t0] > candidate)
    <3>1. t0 \notin W
      BY <2>3
    <3>2. at # candidate => candidate \notin List(t0)
      BY <1>4, <1>6, <1>7, <1>9, <2>3
    <3>3. score' = score + f[t0]
      <4>1. CASE at = candidate
        BY <1>1, <1>6, <1>21, <4>1 DEF at, t0
      <4>2. CASE at # candidate
        <5>1. f[t0] = 0
          BY <1>6, <1>21, <3>2, <4>2
        <5> QED
          BY <1>1, <4>2, <5>1 DEF at, t0
      <4> QED
        BY <4>1, <4>2
    <3> HIDE DEF W, W1
    <3>4. \A t \in W \cup {t0} : f[t] \in Nat
      BY <1>6, <1>21, <1>22
    <3>5. SumFunctionOnSet(f, W \cup {t0}) = f[t0] + SumFunctionOnSet(f, W)
      BY <1>22, <3>1, <3>4, SumAdd
    <3>6. f[t0] \in Nat
      BY <3>4
    <3> QED
      BY <1>22, <1>23, <2>1, <3>3, <3>5, <3>6
  <2> QED
    BY <2>2, <2>3
<1>25. Contributions(candidate)' = f
  <2>1. Contributions(candidate)' = Contributions(candidate)
    BY <1>1 DEF Contributions, Contribution, corpus
  <2> QED
    BY <2>1 DEF f
<1>26. Probing'
  <2>1. candidate' \in Docs /\ \E t \in Terms : candidate' \in List(t)'
    BY <1>1, <1>2, <1>15 DEF Probing
  <2>2. ASSUME NEW i \in Lists, i > probe'
        PROVE  cur'[order'[i]] > candidate'
    <3>1. CASE i = probe
      BY <1>1, <1>13, <3>1 DEF t0
    <3>2. CASE i # probe
      <4>1. i > probe
        BY <1>1, <1>3, <1>5, <2>2, <3>2
      <4>2. cur[order[i]] > candidate
        BY <1>2, <4>1 DEF Probing
      <4> QED
        BY <1>1, <1>5, <1>14, <4>2
    <3> QED
      BY <3>1, <3>2
  <2>3. score' = SumFunctionOnSet(Contributions(candidate)', {t \in Terms : cur'[t] > candidate'})
    BY <1>1, <1>24, <1>25
  <2>4. \A g \in heap' : g.doc < candidate'
    BY <1>1, <1>2 DEF Probing
  <2>5. ASSUME NEW h \in Eligible' \ heap', h.doc # candidate'
        PROVE  Beaten(h)' \/ Pending(h.doc)'
    <3>1. Beaten(h) \/ Pending(h.doc)
      BY <1>1, <1>2, <1>15, <2>5 DEF Probing
    <3>2. CASE Beaten(h)
      BY <1>17, <3>2
    <3>3. CASE Pending(h.doc)
      <4>1. PICK i \in Essentials : h.doc \in List(order[i]) /\ cur[order[i]] <= h.doc
        BY <3>3 DEF Pending
      <4>2. cur'[order[i]] = cur[order[i]]
        BY <1>14, <1>19
      <4> QED
        BY <1>1, <1>15, <1>18, <1>19, <4>1, <4>2 DEF Pending
    <3> QED
      BY <3>1, <3>2, <3>3
  <2> QED
    BY <2>1, <2>2, <2>3, <2>4, <2>5 DEF Probing
<1>27. candidate' \in 0 .. End /\ probe' \in 0 .. essential' - 1 /\ step' = "probe"
  BY <1>1, <1>3, <1>4
<1> QED
  BY <1>15, <1>16, <1>17, <1>18, <1>20, <1>24, <1>26, <1>27 DEF MaxInv

(* A score given up on is out of the heap's reach, and one that is not is  *)
(* the document's whole score.                                             *)
LEMMA WholeOrHopeless ==
  ASSUME MaxInv, step = "probe", probe = 0 \/ Hopeless
  PROVE  \/ score = Score(candidate)
         \/ Score(candidate) <= Threshold /\ score <= Threshold
<1> DEFINE f == Contributions(candidate)
           W == {t \in Terms : cur[t] > candidate}
           R == Terms \ W
<1>1. CorpusTypeOK /\ OrderOK /\ HeapOK /\ Probing /\ candidate \in Docs
  BY DEF MaxInv, OrderInv, Probing
<1>2. \A t \in Terms : f[t] \in Nat
  BY <1>1, ListBoundHolds DEF Contributions
<1>3. score = SumFunctionOnSet(f, W) /\ score \in Nat
  BY <1>1 DEF Probing, MaxInv
<1>4. probe \in 0 .. Cardinality(Terms) /\ probe \in Nat
  <2>1. probe \in 0 .. essential - 1 /\ essential \in 1 .. Cardinality(Terms) + 1
    BY DEF MaxInv, OrderInv
  <2> QED
    BY <2>1, ListsType
<1>5. ASSUME NEW t \in R
      PROVE  \E j \in 1 .. probe : t = order[j]
  <2>1. PICK j \in Lists : t = order[j]
    BY <1>1 DEF OrderOK
  <2>2. ~(j > probe)
    BY <1>1, <2>1 DEF Probing
  <2>3. j \in 1 .. probe
    BY <1>4, <2>2, ListsType
  <2> QED
    BY <2>1, <2>3
<1>6. R \in SUBSET Terms /\ W \in SUBSET Terms
  OBVIOUS
<1>7. Score(candidate) = score + SumFunctionOnSet(f, R)
  <2>1. Score(candidate) = SumFunctionOnSet(f, Terms)
    BY DEF Score
  <2> HIDE DEF f, W
  <2>2. SumFunctionOnSet(f, Terms) = SumFunctionOnSet(f, W) + SumFunctionOnSet(f, Terms \ W)
    BY <1>2, <1>6, QueryAssumption, SumSplit
  <2> QED
    BY <1>3, <2>1, <2>2
<1>8. Cum(probe) \in Nat /\ SumFunctionOnSet(f, R) <= Cum(probe)
  <2>1. \A t \in R : candidate \in List(t) => \E j \in 1 .. probe : t = order[j]
    BY <1>5
  <2> HIDE DEF R
  <2> QED
    BY <1>1, <1>4, <1>6, <2>1, CumBounds
<1>9. SumFunctionOnSet(f, R) \in Nat
  <2> HIDE DEF R
  <2> QED
    BY <1>1, <1>6, PartialScore
<1>10. CASE probe = 0
  <2>1. R = {}
    BY <1>5, <1>10
  <2>2. SumFunctionOnSet(f, {}) = 0
    <3> HIDE DEF f
    <3> QED
      BY <1>2, QueryAssumption, SumRemove
  <2> HIDE DEF R, f
  <2> QED
    BY <1>3, <1>7, <2>1, <2>2
<1>11. CASE Hopeless
  <2>1. score + Cum(probe) <= Threshold /\ Threshold \in Int
    BY <1>1, <1>11, ThresholdIs DEF Hopeless
  <2> HIDE DEF R, f
  <2> QED
    BY <1>3, <1>7, <1>8, <1>9, <2>1
<1> QED
  BY <1>10, <1>11

LEMMA OfferKeeps ==
  ASSUME MaxInv, Offer
  PROVE  MaxInv'
<1> DEFINE c == candidate
<1>1. /\ UNCHANGED <<corpus, cur, order, essential, candidate, score, probe>>
      /\ step = "probe" /\ step' = "loop" /\ (probe = 0 \/ Hopeless)
      /\ heap' = Inserted(c, score)
  BY DEF Offer
<1>2. CorpusTypeOK /\ CursorsOK /\ HeapOK /\ OrderInv /\ OrderOK /\ InStep /\ Probing
  BY <1>1 DEF MaxInv, OrderInv
<1>3. c \in Docs /\ c \in Nat /\ (\E t \in Terms : c \in List(t)) /\ \A g \in heap : g.doc < c
  <2>1. c \in Docs
    BY <1>2 DEF Probing
  <2> QED
    BY <1>2, <2>1, DocsFinite DEF Probing
<1>4. CorpusTypeOK' /\ k' = k /\ Eligible' = Eligible /\ \A t \in Terms : List(t)' = List(t)
  BY <1>1, <1>2, CorpusStays
<1>5. CursorsOK' /\ InStep' /\ Essentials' = Essentials /\ \A d : Pending(d)' <=> Pending(d)
  <2>1. Essentials' = Essentials /\ \A i \in Essentials : order[i] \in Terms
    BY <1>1, <1>2 DEF Essentials, OrderOK
  <2>2. CursorsOK'
    BY <1>1, <1>2 DEF CursorsOK, corpus
  <2>3. InStep'
    BY <1>1, <1>2, <1>4, <2>1 DEF InStep
  <2>4. ASSUME NEW d
        PROVE  Pending(d)' <=> Pending(d)
    BY <1>1, <1>4, <2>1 DEF Pending
  <2> QED
    BY <2>1, <2>2, <2>3, <2>4
<1>6. Hit(c).doc = c /\ Hit(c).score = Score(c) /\ Score(c) \in Nat /\ Score(c) > 0
  <2>1. Score(c) \in Nat /\ Score(c) > 0
    BY <1>2, <1>3, ScoreType
  <2> QED
    BY <2>1 DEF Hit
<1> HIDE DEF c
<1>7. /\ HeapOK' /\ heap' \subseteq heap \cup {Hit(c)}
      /\ \A h \in Eligible : Beaten(h) => Beaten(h)'
      /\ \A h \in heap \cup {Hit(c)} : h \in Eligible /\ h \notin heap' => Beaten(h)'
      /\ heap' = heap \/ KeepsBest(heap', c)
  <2>1. ASSUME heap' = heap
        PROVE  HeapOK' /\ \A h : Beaten(h)' <=> Beaten(h)
    BY <1>2, <1>4, <2>1 DEF HeapOK, Beaten, Outranks
  <2>2. CASE c \in dead \cup hidden
    <3>1. heap' = heap
      BY <1>1, <2>2, InsertDeclines
    <3>2. Hit(c) \notin Eligible
      BY <1>2, <1>6, <2>2, EligibleType
    <3> QED
      BY <2>1, <3>1, <3>2
  <2>3. CASE c \notin dead \cup hidden
    <3>1. Hit(c) \in Eligible
      BY <1>2, <1>3, <1>6, <2>3, EligibleType
    <3>2. CASE score = Score(c)
      <4>1. KeepsBest(heap', c)
        BY <1>1, <1>2, <1>3, <3>1, <3>2, InsertKeepsBest
      <4> QED
        BY <1>1, <1>2, <1>3, <4>1, HeapGrows
    <3>3. CASE Score(c) <= Threshold /\ score <= Threshold
      <4>1. heap' = heap
        BY <1>1, <3>3, InsertDeclines
      <4>2. Beaten(Hit(c))
        BY <1>2, <1>3, <1>6, <3>1, <3>3, BelowThresholdIsBeaten
      <4> QED
        BY <2>1, <4>1, <4>2
    <3> QED
      BY <1>1, <3>2, <3>3, WholeOrHopeless DEF c
  <2> QED
    BY <2>2, <2>3
<1>8. \A x \in Nat : x <= Threshold => x <= Threshold'
  <2>1. CASE heap' = heap
    BY <1>4, <2>1 DEF Threshold
  <2>2. CASE KeepsBest(heap', c)
    <3> SUFFICES ASSUME NEW x \in Nat, x <= Threshold PROVE x <= Threshold'
      OBVIOUS
    <3>1. Cardinality(heap') = k /\ \A g \in heap' : g.score >= x
      BY <2>2 DEF KeepsBest
    <3> DEFINE S == {h.score : h \in heap'}
    <3>2. IsFiniteSet(heap') /\ heap' # {}
      <4>1. IsFiniteSet(heap)
        BY <1>2, ThresholdIs
      <4>2. IsFiniteSet(heap \cup {Hit(c)})
        BY <4>1, FS_AddElement
      <4>3. IsFiniteSet(heap')
        BY <1>7, <4>2, FS_Subset
      <4>4. Cardinality({}) = 0 /\ k > 0
        BY <1>2, FS_EmptySet, EligibleType
      <4> QED
        BY <3>1, <4>3, <4>4
    <3>3. IsFiniteSet(S)
      <4> DEFINE f == [h \in heap' |-> h.score]
      <4>1. S = {f[h] : h \in heap'}
        OBVIOUS
      <4> HIDE DEF f, S
      <4> QED
        BY <3>2, <4>1, ImageFinite
    <3>4. S \in SUBSET Int /\ S # {}
      <4>1. \A h \in heap' : h.score \in Int
        BY <1>2, <2>2, EligibleType DEF KeepsBest
      <4> QED
        BY <3>2, <4>1
    <3>5. Min(S) \in S
      <4> HIDE DEF S
      <4> QED
        BY <3>3, <3>4, MinOfFinite
    <3>6. Threshold' = Min(S)
      BY <1>4, <3>1 DEF Threshold
    <3> QED
      BY <3>1, <3>5, <3>6
  <2> QED
    BY <1>7, <2>1, <2>2
<1>9. OrderInv'
  <2>1. OrderOK' /\ \A i : Cum(i)' = Cum(i)
    BY <1>1, <1>2, CumStays
  <2>2. PICK e : e = essential /\ essential' = e
    BY <1>1
  <2>3. e = 1 \/ Cum(e - 1)' <= Threshold'
    <3>1. CASE e = 1
      BY <3>1
    <3>2. CASE e # 1
      <4>1. e - 1 \in 0 .. Cardinality(Terms)
        BY <1>2, <2>2, <3>2, ListsType DEF OrderInv
      <4>2. Cum(e - 1) \in Nat /\ Cum(e - 1) <= Threshold
        BY <1>2, <2>2, <3>2, <4>1, CumBounds DEF OrderInv
      <4>3. Cum(e - 1) <= Threshold'
        BY <1>8, <4>2
      <4> QED
        BY <2>1, <4>3
    <3> QED
      BY <3>1, <3>2
  <2> QED
    BY <1>1, <1>2, <2>1, <2>2, <2>3 DEF OrderInv
<1>10. ASSUME NEW g \in heap', NEW i \in Essentials
       PROVE  g.doc < cur[order[i]]
  <2>1. i \in Lists /\ i \in Nat /\ i >= essential
    BY ListsType DEF Essentials
  <2>2. probe \in 0 .. essential - 1 /\ essential \in Nat
    BY <1>2, ListsType DEF MaxInv, OrderInv
  <2>3. cur[order[i]] > c
    BY <1>2, <2>1, <2>2 DEF Probing, c
  <2>4. cur[order[i]] \in Nat
    BY <1>2, <2>1, CursorsType DEF OrderOK
  <2>5. g.doc <= c /\ g.doc \in Nat
    <3>1. CASE g \in heap
      <4>1. g.doc \in Nat
        BY <1>2, <3>1, EligibleType, DocsFinite DEF HeapOK
      <4> QED
        BY <1>3, <3>1, <4>1
    <3>2. CASE g = Hit(c)
      BY <1>3, <1>6, <3>2
    <3> QED
      BY <1>7, <3>1, <3>2
  <2> QED
    BY <1>3, <2>3, <2>4, <2>5
<1>11. ASSUME NEW h \in Eligible \ heap'
       PROVE  Beaten(h)' \/ Pending(h.doc)'
  <2>1. CASE h \in heap \cup {Hit(c)}
    BY <1>7, <1>11, <2>1
  <2>2. CASE h \notin heap \cup {Hit(c)}
    <3>1. h.doc # c
      BY <1>2, <1>11, <2>2, EligibleType
    <3>2. Beaten(h) \/ Pending(h.doc)
      BY <1>2, <1>11, <2>2, <3>1 DEF Probing, c
    <3> QED
      BY <1>5, <1>7, <1>11, <3>2
  <2> QED
    BY <2>1, <2>2
<1>12. BetweenTurns'
  BY <1>1, <1>4, <1>5, <1>10, <1>11 DEF BetweenTurns
<1> QED
  BY <1>1, <1>4, <1>5, <1>7, <1>9, <1>12 DEF MaxInv

LEMMA MaxInitially ==
  ASSUME MaxInit
  PROVE  MaxInv
<1>1. CorpusTypeOK
  BY DEF MaxInit, CorpusInit, CorpusTypeOK
<1>2. \A t \in Terms : /\ cur[t] \in Docs \cup {End} /\ (cur[t] # End => cur[t] \in List(t))
                       /\ \A d \in List(t) : cur[t] <= d
  <2> TAKE t \in Terms
  <2>1. cur[t] = PostingFrom(t, 0)
    BY DEF MaxInit, CursorsInit
  <2>2. 0 \in 0 .. End
    <3>1. End \in Nat
      BY DocsFinite
    <3> QED
      BY <3>1
  <2>3. \A d \in List(t) : d >= 0
    <3>1. List(t) \subseteq Docs
      BY <1>1, ListType
    <3>2. Docs \subseteq Nat
      BY DocsFinite
    <3>3. \A d \in List(t) : d \in Nat
      BY <3>1, <3>2
    <3> QED
      BY <3>3
  <2> QED
    BY <1>1, <2>1, <2>2, <2>3, PostingFromIs
<1>3. CursorsOK
  <2>1. cur \in [Terms -> Docs \cup {End}]
    <3>1. cur = [t \in Terms |-> cur[t]]
      BY DEF MaxInit, CursorsInit
    <3> QED
      BY <1>2, <3>1
  <2> QED
    BY <1>2, <2>1 DEF CursorsOK, List
<1>4. heap = {} /\ essential = 1 /\ step = "loop" /\ candidate = 0 /\ score = 0 /\ probe = 0
  BY DEF MaxInit
<1>5. HeapOK
  <2>1. Cardinality({}) = 0 /\ k \in Nat
    BY <1>1, FS_EmptySet, EligibleType
  <2> QED
    BY <1>4, <2>1 DEF HeapOK
<1>6. OrderInv
  <2>1. OrderOK
    BY DEF MaxInit, Sorted, OrderOK
  <2>2. 1 \in 1 .. Cardinality(Terms) + 1
    BY ListsType
  <2> QED
    BY <1>4, <2>1, <2>2 DEF OrderInv
<1>7. \A i \in Lists : order[i] \in Terms /\ i \in Essentials
  BY <1>4, <1>6, ListsType DEF OrderInv, OrderOK, Essentials
<1>8. InStep
  BY <1>2 DEF InStep
<1>9. \A h \in Eligible : Pending(h.doc)
  <2> TAKE h \in Eligible
  <2>1. h.doc \in Docs /\ h.score = Score(h.doc) /\ h.score \in Nat \ {0}
    BY <1>1, EligibleType DEF Hit
  <2>2. PICK t \in Terms : h.doc \in List(t)
    BY <1>1, <2>1, ScoreType
  <2>3. PICK i \in Lists : t = order[i]
    BY <1>6 DEF OrderInv, OrderOK
  <2> QED
    BY <1>2, <1>7, <2>2, <2>3 DEF Pending
<1>10. BetweenTurns
  BY <1>4, <1>9 DEF BetweenTurns
<1>11. candidate \in 0 .. End /\ score \in Nat /\ probe \in 0 .. essential - 1
  <2>1. End \in Nat
    BY DocsFinite
  <2> QED
    BY <1>4, <2>1
<1> QED
  BY <1>1, <1>3, <1>4, <1>5, <1>6, <1>8, <1>10, <1>11 DEF MaxInv

LEMMA MaxKeeps ==
  ASSUME MaxInv, MaxNext
  PROVE  MaxInv'
<1>1. CASE Turn
  <2>1. step = "loop" /\ essential' = Essential
    BY <1>1 DEF Turn
  <2>2. CASE MaxFinish
    BY <2>1, <2>2, MaxFinishKeeps
  <2>3. CASE \E c \in Candidate(essential') : MaxLeap(c) \/ Gather(c)
    BY <2>1, <2>3, MaxLeapKeeps, GatherKeeps
  <2> QED
    BY <1>1, <2>2, <2>3 DEF Turn
<1>2. CASE ProbeList
  BY <1>2, ProbeListKeeps
<1>3. CASE Offer
  BY <1>3, OfferKeeps
<1> QED
  BY <1>1, <1>2, <1>3 DEF MaxNext

LEMMA MaxIsExact ==
  ASSUME MaxInv, step = "done"
  PROVE  heap = TopHits
<1>1. CorpusTypeOK /\ HeapOK /\ BetweenTurns /\ \A i \in Essentials : cur[order[i]] = End
  BY DEF MaxInv
<1>2. ASSUME NEW h \in Eligible \ heap
      PROVE  Beaten(h)
  <2>1. h.doc \in Nat /\ h.doc < End /\ End \in Nat
    BY <1>1, EligibleType, DocsFinite
  <2>2. ~Pending(h.doc)
    BY <1>1, <2>1 DEF Pending
  <2> QED
    BY <1>1, <2>2 DEF BetweenTurns
<1> QED
  BY <1>1, <1>2, TopIfOthersBeaten

-----------------------------------------------------------------------------
(* The theorems. *)

(* Whichever evaluator runs, its invariant holds: what is in the heap is   *)
(* scored in full, and what is not is beaten by it or still ahead of the   *)
(* cursors that can bring it up.                                           *)
THEOREM SearchInvariance == Spec => []SearchInv
<1>1. Init => SearchInv
  BY WandInitially, MaxInitially DEF Init, SearchInv
<1>2. SearchInv /\ [Next]_vars => SearchInv'
  <2> SUFFICES ASSUME SearchInv, [Next]_vars PROVE SearchInv'
    OBVIOUS
  <2>1. CASE WandTurn
    <3>1. WandInv' /\ evaluator' = "wand"
      BY <2>1, WandKeeps DEF WandTurn, SearchInv
    <3> QED
      BY <3>1 DEF SearchInv
  <2>2. CASE MaxTurn
    <3>1. MaxInv' /\ evaluator' = "maxscore"
      BY <2>2, MaxKeeps DEF MaxTurn, SearchInv
    <3> QED
      BY <3>1 DEF SearchInv
  <2>3. CASE UNCHANGED vars
    <3>1. UNCHANGED <<corpus, cur, heap, evaluator, done, order, essential, step, candidate, score, probe>>
      BY <2>3 DEF vars, maxVars
    <3>2. tf' = tf /\ len' = len /\ dead' = dead /\ hidden' = hidden /\ k' = k
      BY <3>1 DEF corpus
    <3>3. WandInv => WandInv'
      <4> SUFFICES ASSUME WandInv PROVE WandInv'
        OBVIOUS
      <4>1. CorpusTypeOK
        BY DEF WandInv
      <4>2. CorpusTypeOK' /\ Eligible' = Eligible /\ \A t \in Terms : List(t)' = List(t) /\ ListBound(t)' = ListBound(t)
        BY <3>1, <4>1, CorpusStays
      <4>3. CursorsOK' /\ HeapOK' /\ Threshold' = Threshold
        BY <3>1, <3>2, <4>2 DEF WandInv, CursorsOK, HeapOK, Threshold
      <4>4. (\A h : Beaten(h)' <=> Beaten(h)) /\ (\A d : Overtaken(d)' <=> Overtaken(d))
        BY <3>1, <3>2, <4>2 DEF Beaten, Outranks, Overtaken
      <4>5. Clear' = Clear
        BY <3>1, <4>2, <4>3 DEF Clear, ListBounds, UpTo
      <4> QED
        BY <3>1, <4>2, <4>3, <4>4, <4>5 DEF WandInv
    <3>4. MaxInv => MaxInv'
      <4> SUFFICES ASSUME MaxInv PROVE MaxInv'
        OBVIOUS
      <4>1. CorpusTypeOK /\ OrderOK
        BY DEF MaxInv, OrderInv
      <4>2. CorpusTypeOK' /\ Eligible' = Eligible /\ (\A t \in Terms : List(t)' = List(t)) /\ OrderOK' /\ \A i : Cum(i)' = Cum(i)
        BY <3>1, <4>1, CorpusStays, CumStays
      <4>3. CursorsOK' /\ HeapOK' /\ Threshold' = Threshold /\ Essentials' = Essentials
        BY <3>1, <3>2, <4>2 DEF MaxInv, CursorsOK, HeapOK, Threshold, Essentials
      <4>4. \A h : (Beaten(h)' <=> Beaten(h)) /\ \A d : Pending(d)' <=> Pending(d)
        BY <3>1, <3>2, <4>1, <4>2, <4>3 DEF Beaten, Outranks, Pending, OrderOK, Essentials
      <4>5. OrderInv' /\ InStep' /\ (BetweenTurns => BetweenTurns')
        BY <3>1, <4>2, <4>3, <4>4 DEF MaxInv, OrderInv, InStep, BetweenTurns
      <4>6. Contributions(candidate)' = Contributions(candidate)
        BY <3>1, <3>2 DEF Contributions, Contribution
      <4>7. Probing => Probing'
        BY <3>1, <4>2, <4>4, <4>6 DEF Probing
      <4> QED
        BY <3>1, <4>2, <4>3, <4>5, <4>7 DEF MaxInv
    <3> QED
      BY <3>1, <3>3, <3>4 DEF SearchInv
  <2> QED
    BY <2>1, <2>2, <2>3 DEF Next
<1> QED
  BY <1>1, <1>2, PTL DEF Spec

(* The searchers promise a provably exact top k with no approximate mode:  *)
(* when either loop ends, its heap is what scoring every document gives.   *)
THEOREM SearchIsExact == Spec => []ResultIsTop
<1>1. SearchInv => ResultIsTop
  BY WandIsExact, MaxIsExact DEF SearchInv, ResultIsTop, Ended
<1> QED
  BY <1>1, SearchInvariance, PTL

(* On the way, Block-Max WAND overtakes no document that could still get   *)
(* into the heap, and no score that is in it is a part of one.             *)
THEOREM TurnsStaySound == Spec => []TurnsAreSound
<1>1. ASSUME CorpusTypeOK, HeapOK
      PROVE  ScoredExactly
  BY <1>1, EligibleType DEF HeapOK, ScoredExactly, Hit
<1>2. ASSUME WandInv
      PROVE  NoneOvertaken
  <2>1. CorpusTypeOK
    BY <1>2 DEF WandInv
  <2>2. ASSUME NEW h \in Eligible \ heap, NEW t \in Terms, tf[t][h.doc] > 0, cur[t] > h.doc
        PROVE  Beaten(h)
    <3>1. h.doc \in List(t)
      BY <2>1, <2>2, EligibleType DEF List
    <3> QED
      BY <1>2, <2>2, <3>1 DEF WandInv, Overtaken
  <2> QED
    BY <2>2 DEF NoneOvertaken, Beaten
<1>3. SearchInv => TurnsAreSound
  BY <1>1, <1>2 DEF SearchInv, TurnsAreSound, WandInv, MaxInv
<1> QED
  BY <1>3, SearchInvariance, PTL

(* The heap never holds more than k hits, nor a document twice, nor one    *)
(* that is deleted or out of scope; every cursor rests on a posting of its *)
(* list or past the last.                                                  *)
THEOREM SearchTypeCorrect == Spec => []TypeOK
<1>1. ASSUME CorpusTypeOK, CursorsOK, HeapOK
      PROVE  SearchTypeOK
  <2> DEFINE ds == {h.doc : h \in heap}
             f  == [h \in heap |-> h.doc]
  <2>1. \A h \in heap : h.doc \in Docs \ (dead \cup hidden) /\ h.score \in Nat
    BY <1>1, EligibleType DEF HeapOK
  <2>2. \A g, h \in heap : g.doc = h.doc => g = h
    BY <1>1, EligibleType DEF HeapOK
  <2>3. f \in Bijection(heap, ds)
    BY <2>2 DEF Bijection, Injection, Surjection, IsInjective
  <2>4. IsFiniteSet(heap)
    BY <1>1, ThresholdIs
  <2>5. Cardinality(ds) = Cardinality(heap)
    <3> HIDE DEF ds, f
    <3>1. ExistsBijection(heap, ds)
      BY <2>3 DEF ExistsBijection
    <3> QED
      BY <2>4, <3>1, FS_Bijection
  <2> QED
    BY <1>1, <2>1, <2>5 DEF SearchTypeOK, CursorsOK, HeapOK
<1>2. WandInv => WandTypeOK
  BY <1>1 DEF WandInv, WandTypeOK
<1>3. MaxInv => MaxTypeOK
  BY <1>1 DEF MaxInv, OrderInv, OrderOK, MaxTypeOK
<1>4. SearchInv => TypeOK
  BY <1>2, <1>3 DEF SearchInv, TypeOK
<1> QED
  BY <1>4, SearchInvariance, PTL
===============================================================================
