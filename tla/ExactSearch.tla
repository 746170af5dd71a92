----------------------------- MODULE ExactSearch -----------------------------
(***************************************************************************)
(* The exact ranked search of src/searcher.rs: one of the two evaluators,  *)
(* chosen by the number of terms, runs over the posting lists.  Either has *)
(* to be right for any number, so the choice is left open here.            *)
(***************************************************************************)
EXTENDS BlockMaxWand, MaxScore

VARIABLE evaluator   \* the one that runs

vars == <<corpus, cur, heap, evaluator, done, maxVars>>

(* The evaluator that does not run rests. *)
WandRests == done = TRUE
MaxRests  == /\ order = <<>> /\ essential = 1 /\ step = "done"
             /\ candidate = 0 /\ score = 0 /\ probe = 0

Init ==
  \/ evaluator = "wand" /\ WandInit /\ MaxRests
  \/ evaluator = "maxscore" /\ MaxInit /\ WandRests

WandTurn == evaluator = "wand" /\ WandNext /\ UNCHANGED <<evaluator, maxVars>>
MaxTurn  == evaluator = "maxscore" /\ MaxNext /\ UNCHANGED <<evaluator, done>>

Next == WandTurn \/ MaxTurn

(* Nothing can hold either loop up. *)
Spec == Init /\ [][Next]_vars /\ WF_vars(Next)

Ended == done /\ step = "done"

TypeOK ==
  /\ evaluator \in {"wand", "maxscore"}
  /\ evaluator = "wand" => WandTypeOK
  /\ evaluator = "maxscore" => MaxTypeOK

-----------------------------------------------------------------------------
(* Properties *)

(* Both evaluators promise "provably exact top-k; there is no approximate  *)
(* mode": what they return is what scoring every document returns, ties    *)
(* included, whatever the blocks, the tombstones and the scope.            *)
ResultIsTop == Ended => heap = TopHits

(* MaxScore gives candidates up half probed; a score that gets into the    *)
(* heap is nevertheless the document's whole score.                        *)
ScoredExactly == \A h \in heap : h.score = Score(h.doc)

(* Neither evaluator loses a document on its way: Block-Max WAND overtakes *)
(* none by mistake (NoneOvertaken), and no score is a part of one.         *)
TurnsAreSound == (evaluator = "wand" => NoneOvertaken) /\ ScoredExactly

(* The loops end: no turn, whatever it leaps over, lets lag, skips or      *)
(* gives up, leaves every cursor where it was to be taken again for ever.  *)
Terminates == <>Ended
===============================================================================
