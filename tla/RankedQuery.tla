----------------------------- MODULE RankedQuery -----------------------------
(***************************************************************************)
(* What the two evaluators of ranked queries share: the posting lists of   *)
(* the query's terms with their block metadata (src/postings.rs), the      *)
(* cursors and the bounded heap of src/block_max_wand.rs, and the hidden   *)
(* documents of src/scope.rs and src/segments.rs.                          *)
(*                                                                         *)
(* A BM25 contribution grows with the term frequency and falls with the    *)
(* document's length; Gain is any such table of naturals.  Sums are exact  *)
(* here, while the code adds f32 values in whatever order cursors come.    *)
(***************************************************************************)
EXTENDS Integers, FiniteSets, FiniteSetsExt, Functions

CONSTANTS Terms,      \* the query's terms
          Idf,        \* Idf[t]: the weight of term t
          NumDocs,
          MaxTf, MaxLen,
          Gain,       \* Gain[<<f, l>>]: for frequency f in a document of length l
          BlockSize,  \* postings per block
          MaxK        \* bound: the k asked for

Docs == 0 .. NumDocs - 1
End  == NumDocs       \* stands for u32::MAX, where exhausted cursors rest
Tfs  == 0 .. MaxTf
Lens == 1 .. MaxLen

ASSUME GainAssumption ==
  /\ \A f \in 1 .. MaxTf, l \in Lens : Gain[<<f, l>>] \in Nat \ {0}
  /\ \A f, g \in 1 .. MaxTf, l, m \in Lens :
       f <= g /\ m <= l => Gain[<<f, l>>] <= Gain[<<g, m>>]
ASSUME QueryAssumption ==
  /\ IsFiniteSet(Terms) /\ Idf \in [Terms -> Nat \ {0}]
  /\ {NumDocs, MaxTf, MaxLen, MaxK} \subseteq Nat /\ BlockSize \in Nat \ {0}

VARIABLES
  tf,      \* tf[t][d]: how often t occurs in d; its postings are the d with > 0
  len,     \* len[d]
  dead,    \* the tombstoned documents
  hidden,  \* the documents outside the query's scope, {} if it has none
  k,       \* how many hits were asked for
  cur,     \* cur[t]: the document the cursor of t rests on
  heap     \* the hits in the heap: documents with their scores

corpus == <<tf, len, dead, hidden, k>>

(* The tombstones are taken out of a scope when it is made (exclude): then *)
(* hidden stands for them too.                                             *)
CorpusInit ==
  /\ tf \in [Terms -> [Docs -> Tfs]]
  /\ len \in [Docs -> Lens]
  /\ dead \in SUBSET Docs /\ hidden \in SUBSET Docs
  /\ hidden = {} \/ dead = {}
  /\ k \in 1 .. MaxK

CorpusTypeOK ==
  /\ tf \in [Terms -> [Docs -> Tfs]] /\ len \in [Docs -> Lens]
  /\ dead \subseteq Docs /\ hidden \subseteq Docs /\ k \in 1 .. MaxK

SearchTypeOK ==
  /\ cur \in [Terms -> Docs \cup {End}]
  /\ \A t \in Terms : cur[t] # End => tf[t][cur[t]] > 0
  /\ \A h \in heap : h.doc \in Docs \ (dead \cup hidden) /\ h.score \in Nat
  /\ Cardinality(heap) = Cardinality({h.doc : h \in heap})
  /\ Cardinality(heap) <= k

-----------------------------------------------------------------------------
(* Posting lists. *)

List(t)     == {d \in Docs : tf[t][d] > 0}
BlockOf(t, d) ==  \* the postings of the block that holds posting d
  LET Block(e) == Cardinality({c \in List(t) : c < e}) \div BlockSize
  IN  {e \in List(t) : Block(e) = Block(d)}

(* Mutation of Bound: the longest document is taken for the dominating one. *)
BoundOfLongest(t, ds) == Idf[t] * Gain[<<Max({tf[t][d] : d \in ds}), Max({len[d] : d \in ds})>>]

(* The bound of some postings: the largest frequency in the shortest text. *)
Bound(t, ds) == Idf[t] * Gain[<<Max({tf[t][d] : d \in ds}), Min({len[d] : d \in ds})>>]

ListBound(t) == IF List(t) = {} THEN 0 ELSE Bound(t, List(t))

Contribution(t, d) == IF tf[t][d] = 0 THEN 0 ELSE Idf[t] * Gain[<<tf[t][d], len[d]>>]

Contributions(d)   == [t \in Terms |-> Contribution(t, d)]
Score(d)           == SumFunctionOnSet(Contributions(d), Terms)

-----------------------------------------------------------------------------
(* Cursors.  A seek never goes back, nor does next. *)

FirstIn(ds) == IF ds = {} THEN End ELSE Min(ds)
PostingFrom(t, target) == FirstIn({d \in List(t) : d >= target})
Seek(t, target) == IF cur[t] >= target THEN cur[t] ELSE PostingFrom(t, target)
Next1(t)        == PostingFrom(t, cur[t] + 1)

(* next_live: the scope's bitmap from d on; without a scope, d itself.     *)
NextLive(d) == FirstIn({e \in Docs \ hidden : e >= d})

CursorsInit == cur = [t \in Terms |-> PostingFrom(t, 0)]

-----------------------------------------------------------------------------
(* TopK. *)

Infinite == -1    \* below every score, as -inf is

Threshold == IF Cardinality(heap) = k THEN Min({h.score : h \in heap}) ELSE Infinite

(* Among equal scores the lower document comes first, and is evicted last. *)
Outranks(g, h) == g.score > h.score \/ (g.score = h.score /\ g.doc < h.doc)

Lowest(hits) == CHOOSE h \in hits : \A g \in hits : g = h \/ Outranks(g, h)

(* The loops ask is_deleted first, then insert.                            *)
Inserted(d, score) ==
  IF d \in dead \cup hidden \/ score <= Threshold THEN heap
  ELSE LET more == heap \cup {[doc |-> d, score |-> score]}
       IN  IF Cardinality(more) > k THEN more \ {Lowest(more)} ELSE more

-----------------------------------------------------------------------------
(* What an exhaustive scan returns. *)

Hit(d)   == [doc |-> d, score |-> Score(d)]
Eligible == {Hit(d) : d \in {e \in Docs \ (dead \cup hidden) : Score(e) > 0}}
TopHits  == {h \in Eligible : Cardinality({g \in Eligible : Outranks(g, h)}) < k}
===============================================================================
