---------------------------- MODULE BlockMaxWand ----------------------------
(***************************************************************************)
(* search of src/block_max_wand.rs: one action per branch of its loop.     *)
(* The cursors are kept sorted by document there; here they are a set, and *)
(* what an unstable sort leaves open among cursors on the same document is *)
(* a choice.                                                               *)
(***************************************************************************)
EXTENDS RankedQuery

VARIABLE done   \* has the loop ended?

WandTypeOK ==
  /\ CorpusTypeOK /\ SearchTypeOK
  /\ done \in BOOLEAN

WandInit ==
  /\ CorpusInit
  /\ CursorsInit
  /\ heap = {}
  /\ done = FALSE

-----------------------------------------------------------------------------
UpTo(d)   == {t \in Terms : cur[t] <= d}
Behind(d) == {t \in Terms : cur[t] < d}
At(d)     == {t \in Terms : cur[t] = d}

ListBounds(ts) == SumFunctionOnSet([t \in Terms |-> ListBound(t)], ts)

(* The first document where the summed bounds of the lists up to there     *)
(* clear the threshold, if there is one.                                   *)
Clear == {d \in {cur[t] : t \in Terms} \ {End} : ListBounds(UpTo(d)) > Threshold}
Pivot == {d \in Clear : \A e \in Clear : d <= e}

(* The bound of the blocks that would hold the pivot, each looked up from  *)
(* its cursor on; a list that ends before has none.                        *)
Reaching(p)     == {t \in UpTo(p) : PostingFrom(t, p) # End}
BlockAt(t, p)   == BlockOf(t, PostingFrom(t, p))
BlockBounds(p)  == SumFunctionOnSet([t \in Reaching(p) |-> Bound(t, BlockAt(t, p))], Reaching(p))
BlocksEnd(p)    == Min({Max(BlockAt(t, p)) : t \in Reaching(p)})

(* The first in sorted order among those of ts with the largest bound.     *)
Strongest(ts) ==
  LET strong == {t \in ts : \A u \in ts : ListBound(u) <= ListBound(t)}
  IN  {t \in strong : \A u \in strong : cur[t] <= cur[u]}

MoveTo(ts, target) == cur' = [t \in Terms |-> IF t \in ts THEN Seek(t, target) ELSE cur[t]]

WandFinish ==
  /\ Pivot = {}
  /\ done' = TRUE
  /\ UNCHANGED <<corpus, cur, heap>>

(* The pivot is out of scope: the prefix that cleared the threshold leaps. *)
(* It may stop short of other cursors on the pivot, but holds at least one *)
(* cursor: no bounds at all clear no threshold, not even -inf.             *)
WandLeap(p) ==
  /\ NextLive(p) # p
  /\ \E last \in At(p), some \in SUBSET At(p) :
       LET prefix == Behind(p) \cup some
       IN  /\ last \notin some
           /\ prefix # {} => ListBounds(prefix) <= Threshold
           /\ ListBounds(prefix \cup {last}) > Threshold
           /\ MoveTo(prefix \cup {last}, NextLive(p))
  /\ UNCHANGED <<corpus, heap, done>>

Competitive(p) == NextLive(p) = p /\ BlockBounds(p) > Threshold

(* Every list up to the pivot is on it: score the document.                *)
ScorePivot(p) ==
  /\ Competitive(p) /\ Behind(p) = {}
  /\ heap' = Inserted(p, SumFunctionOnSet(Contributions(p), At(p)))
  /\ cur' = [t \in Terms |-> IF t \in At(p) THEN Next1(t) ELSE cur[t]]
  /\ UNCHANGED <<corpus, done>>

(* Some list lags: the strongest of those comes up to the pivot.           *)
CatchUp(p) ==
  /\ Competitive(p) /\ Behind(p) # {}
  /\ \E t \in Strongest(Behind(p)) : MoveTo({t}, p)
  /\ UNCHANGED <<corpus, heap, done>>

(* Mutation of Beyond: the other lists are forgotten.                      *)
BeyondBlocks(p) == Max({BlocksEnd(p) + 1, p + 1})

(* Not past the nearest block end, nor past the next list's document.      *)
Beyond(p) ==
  LET next == Min({cur[t] : t \in Terms \ UpTo(p)} \cup {End})
      stop == Min({BlocksEnd(p) + 1, next})
  IN  Max({stop, p + 1})

SkipBlock(p) ==
  /\ NextLive(p) = p /\ BlockBounds(p) <= Threshold
  /\ \E t \in Strongest(UpTo(p)) : MoveTo({t}, Beyond(p))
  /\ UNCHANGED <<corpus, heap, done>>

WandNext ==
  /\ ~done
  /\ \/ WandFinish
     \/ \E p \in Pivot : WandLeap(p) \/ ScorePivot(p) \/ CatchUp(p) \/ SkipBlock(p)

-----------------------------------------------------------------------------
(* Properties *)

(* No document is overtaken by mistake: one that some cursor of its terms  *)
(* has left without its being in the heap is outranked by k others there.  *)
NoneOvertaken ==
  \A h \in Eligible \ heap :
    (\E t \in Terms : tf[t][h.doc] > 0 /\ cur[t] > h.doc) =>
      Cardinality(heap) = k /\ \A g \in heap : Outranks(g, h)
===============================================================================
