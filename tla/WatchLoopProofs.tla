---------------------------- MODULE WatchLoopProofs ----------------------------
(***************************************************************************)
(* Theorems about WatchLoop, for any files, versions and texts, any number *)
(* of edits and searches.                                                  *)
(***************************************************************************)
EXTENDS WatchLoop, RepoBuildProofs

-----------------------------------------------------------------------------
(* The rebuild loop and the searches that wait for it. *)

(* Nothing the loop has not yet taken up. *)
Still == ~inbox /\ ~dirty

LoopInv ==
  /\ BuildInv /\ WatchTypeOK
  /\ lpc \in {"quiet", "settled", "building"} => state # "idle"
  /\ bpc # "idle" /\ Still => clean
  /\ (lpc = "loop" \/ (lpc = "building" /\ bpc = "idle")) /\ Still /\ ~failed => Exact
  /\ \A q \in Searches : spc[q] = "waiting" /\ promise[q] => Noticed
  /\ NoticedEditsAreSeen

LEMMA InitLoop == WatchInit => LoopInv
<1> SUFFICES ASSUME WatchInit PROVE LoopInv
  OBVIOUS
<1>1. BuildInv /\ bpc = "idle"
  BY InitBuild DEF WatchInit, Init
<1>2. WatchTypeOK
  <2>1. TypeOK
    BY <1>1 DEF BuildInv
  <2> QED
    BY <1>1, <2>1 DEF WatchTypeOK, WatchInit
<1> QED
  BY <1>1, <1>2 DEF LoopInv, WatchInit, NoticedEditsAreSeen

LEMMA ExactAtRest ==
  ASSUME LoopInv, lpc = "loop", ~inbox, ~dirty, ~failed
  PROVE  Exact
<1>1. Still
  BY DEF Still
<1>2. (lpc = "loop" \/ (lpc = "building" /\ bpc = "idle")) /\ Still /\ ~failed => Exact
  BY DEF LoopInv
<1> QED
  BY <1>1, <1>2

(* Steps that change neither files nor builds. *)
LEMMA LoopFrame ==
  ASSUME LoopInv, UNCHANGED vars
  PROVE  BuildInv' /\ TypeOK' /\ Exact' = Exact
<1>1. BuildInv'
  BY BuildNextKeeps DEF LoopInv
<1>2. TypeOK'
  BY <1>1 DEF BuildInv
<1> QED
  BY <1>1, <1>2, ExactKept DEF vars

(* What was answered to searches stays right while no edit comes.          *)
LEMMA AnswersKept ==
  ASSUME LoopInv, UNCHANGED <<tree, searchVars>>
  PROVE  NoticedEditsAreSeen'
  BY DEF LoopInv, NoticedEditsAreSeen, searchVars

LEMMA EditTreeKeeps ==
  ASSUME LoopInv, NEW f \in Files, EditTree(f)
  PROVE  LoopInv'
<1>1. BuildInv' /\ TypeOK'
  <2>1. BuildInv'
    BY EditKeeps DEF LoopInv, EditTree
  <2> QED
    BY <2>1 DEF BuildInv
<1>2. /\ inbox' = TRUE /\ bpc' = bpc
      /\ UNCHANGED <<dirty, burst, lpc, state, failed, spc, answer>>
      /\ promise' = [q \in Searches |-> FALSE]
  BY DEF EditTree, Edit, Broken
<1>3. WatchTypeOK'
  BY <1>1, <1>2 DEF LoopInv, WatchTypeOK
<1> QED
  BY <1>1, <1>2, <1>3 DEF LoopInv, Still, NoticedEditsAreSeen

LEMMA DeliverKeeps ==
  ASSUME LoopInv, Deliver
  PROVE  LoopInv'
<1>1. UNCHANGED vars /\ UNCHANGED <<lpc, state, failed, searchVars>> /\ inbox' = FALSE /\ dirty' = TRUE /\ inbox
  BY DEF Deliver
<1>2. WatchTypeOK'
  BY <1>1, LoopFrame DEF LoopInv, WatchTypeOK, Deliver, searchVars, vars
<1>3. \A q \in Searches : spc'[q] = "waiting" => ~promise'[q]
  BY <1>1 DEF LoopInv, Noticed, searchVars
<1>4. NoticedEditsAreSeen'
  BY <1>1, AnswersKept DEF vars
<1> QED
  BY <1>1, <1>2, <1>3, <1>4, LoopFrame DEF LoopInv, Still

(* Steps of the loop between builds. *)
LEMMA IdleLoopKeeps ==
  ASSUME LoopInv, TakeDirty \/ Announce \/ Sample \/ Settle
  PROVE  LoopInv'
<1>1. UNCHANGED vars /\ UNCHANGED <<inbox, failed, searchVars>>
  BY DEF TakeDirty, Announce, Sample, Settle
<1>2. bpc' = "idle" /\ lpc' \in {"announce", "quiet", "settled"}
  BY <1>1 DEF LoopInv, WatchTypeOK, TakeDirty, Announce, Sample, Settle, vars
<1>3. WatchTypeOK'
  BY <1>1, <1>2, LoopFrame DEF LoopInv, WatchTypeOK, TakeDirty, Announce, Sample, Settle, searchVars
<1>4. lpc' # "announce" => state' # "idle"
  BY <1>2 DEF LoopInv, TakeDirty, Announce, Sample, Settle
<1>5. \A q \in Searches : spc'[q] = "waiting" /\ promise'[q] => Noticed'
  BY <1>1 DEF LoopInv, Noticed, TakeDirty, Announce, Sample, Settle, searchVars
<1>6. NoticedEditsAreSeen'
  BY <1>1, AnswersKept DEF vars
<1> QED
  BY <1>1, <1>2, <1>3, <1>4, <1>5, <1>6, LoopFrame DEF LoopInv, Still

LEMMA StartBuildKeeps ==
  ASSUME LoopInv, StartBuild
  PROVE  LoopInv'
<1>1. /\ lpc = "settled" /\ lpc' = "building" /\ state' = "indexing" /\ failed' = FALSE
      /\ bpc' = "walk" /\ clean' = TRUE /\ UNCHANGED <<tree, inbox, dirty, burst, searchVars>>
  BY DEF StartBuild, Begin, treeVars
<1>2. BuildInv' /\ TypeOK'
  <2>1. BuildInv'
    BY DecisionKeeps DEF StartBuild, LoopInv
  <2> QED
    BY <2>1 DEF BuildInv
<1>3. WatchTypeOK'
  BY <1>1, <1>2 DEF LoopInv, WatchTypeOK, searchVars
<1>4. \A q \in Searches : spc'[q] = "waiting" /\ promise'[q] => Noticed'
  BY <1>1 DEF LoopInv, Noticed, searchVars
<1> QED
  BY <1>1, <1>2, <1>3, <1>4, AnswersKept DEF LoopInv, Still

LEMMA BuildStepKeeps ==
  ASSUME LoopInv, BuildStep
  PROVE  LoopInv'
<1>1. /\ lpc = "building" /\ UNCHANGED <<inbox, dirty, burst, lpc, state, searchVars>>
      /\ failed' = (failed \/ \E f \in Files : FileVanished(f)) /\ Build
  BY DEF BuildStep
<1>2. /\ BuildInv' /\ UNCHANGED <<tree, clean>> /\ bpc # "idle"
      /\ bpc' # "idle" \/ (clean => Exact') \/ \E f \in Files : FileVanished(f)
  BY <1>1, BuildSteps DEF LoopInv
<1>3. Still => clean
  BY <1>2 DEF LoopInv
<1>4. TypeOK'
  BY <1>2 DEF BuildInv
<1>5. WatchTypeOK'
  BY <1>1, <1>4 DEF LoopInv, WatchTypeOK, searchVars
<1>6. Still /\ bpc' = "idle" /\ ~failed' => Exact'
  BY <1>1, <1>2, <1>3
<1>7. \A q \in Searches : spc'[q] = "waiting" /\ promise'[q] => Noticed'
  BY <1>1, <1>3, NothingVanishes DEF LoopInv, Noticed, Still, searchVars
<1> QED
  BY <1>1, <1>2, <1>3, <1>5, <1>6, <1>7, AnswersKept DEF LoopInv, Still

LEMMA BuildFailsKeeps ==
  ASSUME LoopInv, BuildFails
  PROVE  LoopInv'
<1>1. /\ lpc = "building" /\ failed' = TRUE /\ bpc' = "idle" /\ promise' = [q \in Searches |-> FALSE]
      /\ UNCHANGED <<inbox, dirty, burst, lpc, state, spc, answer>>
  BY DEF BuildFails, Fail, Stop, Broken
<1>2. BuildInv' /\ TypeOK'
  <2>1. BuildInv'
    BY BuildNextKeeps DEF BuildFails, LoopInv, Next
  <2> QED
    BY <2>1 DEF BuildInv
<1>3. WatchTypeOK'
  BY <1>1, <1>2 DEF LoopInv, WatchTypeOK
<1> QED
  BY <1>1, <1>2, <1>3 DEF LoopInv, NoticedEditsAreSeen, Still

LEMMA FinishBuildKeeps ==
  ASSUME LoopInv, FinishBuild
  PROVE  LoopInv'
<1>1. /\ lpc = "building" /\ bpc = "idle" /\ state' = "idle" /\ lpc' = "loop"
      /\ UNCHANGED vars /\ UNCHANGED <<inbox, dirty, burst, failed, searchVars>>
  BY DEF FinishBuild
<1>2. bpc' = "idle" /\ tree' = tree
  BY <1>1 DEF vars
<1>3. WatchTypeOK'
  BY <1>1, <1>2, LoopFrame DEF LoopInv, WatchTypeOK, searchVars
<1>4. \A q \in Searches : spc'[q] = "waiting" /\ promise'[q] => Noticed'
  BY <1>1 DEF LoopInv, Noticed, searchVars
<1> QED
  BY <1>1, <1>2, <1>3, <1>4, LoopFrame, AnswersKept DEF LoopInv, Still

(* A search: what it opens is the tree if it waited for the watcher.       *)
LEMMA SearchKeeps ==
  ASSUME LoopInv, NEW q \in Searches, Issue(q) \/ Open(q) \/ OpenAnyway(q)
  PROVE  LoopInv'
<1>1. UNCHANGED vars /\ UNCHANGED loopVars
  BY DEF Issue, Open, OpenAnyway
<1>2. BuildInv' /\ TypeOK' /\ Exact' = Exact
  BY <1>1, LoopFrame
<1>3. WatchTypeOK /\ TypeOK
  BY DEF LoopInv, WatchTypeOK
<1>4. WatchTypeOK'
  BY <1>1, <1>2, <1>3 DEF WatchTypeOK, Issue, Open, OpenAnyway, Noticed, loopVars, TypeOK, vars
<1>5. ASSUME NEW p \in Searches
      PROVE  /\ spc'[p] = "waiting" /\ promise'[p] => Noticed'
             /\ spc'[p] = "done" /\ promise'[p] =>
                  answer'[p] = UNION {RowsOf(f, Text(tree[f])) : f \in Files}
  <2>1. Noticed' = Noticed
    BY <1>1 DEF Noticed, loopVars
  <2>2. CASE p # q
    BY <1>3, <2>1, <2>2 DEF LoopInv, NoticedEditsAreSeen, WatchTypeOK, Issue, Open, OpenAnyway
  <2>3. CASE p = q /\ Issue(q)
    BY <1>3, <2>1, <2>3 DEF WatchTypeOK, Issue
  <2>4. CASE p = q /\ Open(q)
    <3>1. spc[q] = "waiting" /\ state = "idle" /\ spc'[q] = "done" /\ answer'[q] = live /\ promise' = promise
      BY <1>3, <2>4 DEF WatchTypeOK, Open
    <3>2. ASSUME promise[q]
          PROVE  Exact
      <4>1. Noticed
        BY <3>1, <3>2 DEF LoopInv
      <4>2. lpc = "loop"
        BY <1>3, <3>1, <4>1 DEF LoopInv, WatchTypeOK, Noticed
      <4> QED
        BY <4>1, <4>2, ExactAtRest DEF Noticed
    <3> QED
      BY <1>3, <2>4, <3>1, <3>2, ExactIsTheTree
  <2>5. CASE p = q /\ OpenAnyway(q)
    BY <1>3, <2>5 DEF WatchTypeOK, OpenAnyway
  <2> QED
    BY <2>2, <2>3, <2>4, <2>5
<1>6. NoticedEditsAreSeen'
  BY <1>1, <1>5 DEF NoticedEditsAreSeen, vars
<1> QED
  BY <1>1, <1>2, <1>4, <1>5, <1>6 DEF LoopInv, Still, loopVars, vars

LEMMA WatchNextKeeps == LoopInv /\ [WatchNext]_allVars => LoopInv'
<1> SUFFICES ASSUME LoopInv, [WatchNext]_allVars PROVE LoopInv'
  OBVIOUS
<1>1. CASE UNCHANGED allVars
  <2>1. UNCHANGED vars /\ UNCHANGED loopVars /\ UNCHANGED searchVars
    BY <1>1 DEF allVars
  <2>2. WatchTypeOK'
    BY <2>1, LoopFrame DEF LoopInv, WatchTypeOK, loopVars, searchVars, vars
  <2>3. NoticedEditsAreSeen'
    BY <2>1, AnswersKept DEF vars
  <2> QED
    BY <2>1, <2>2, <2>3, LoopFrame DEF LoopInv, Still, Noticed, loopVars, searchVars, vars
<1>2. ASSUME NEW f \in Files, EditTree(f)
      PROVE  LoopInv'
  BY <1>2, EditTreeKeeps
<1>3. CASE Deliver \/ Loop \/ BuildFails
  BY <1>3, DeliverKeeps, IdleLoopKeeps, StartBuildKeeps, BuildStepKeeps, FinishBuildKeeps, BuildFailsKeeps DEF Loop
<1>4. ASSUME NEW q \in Searches, Issue(q) \/ Open(q) \/ OpenAnyway(q)
      PROVE  LoopInv'
  BY <1>4, SearchKeeps
<1> QED
  BY <1>1, <1>2, <1>3, <1>4 DEF WatchNext

(* The builds of the loop are builds of RepoBuild, so what holds of those  *)
(* holds in the loop.                                                      *)
LEMMA LoopBuilds == LoopInv /\ [WatchNext]_allVars => [Next]_vars
<1> SUFFICES ASSUME LoopInv, [WatchNext]_allVars PROVE [Next]_vars
  OBVIOUS
<1> QED
  BY DEF WatchNext, allVars, EditTree, Deliver, Loop, TakeDirty, Announce, Sample, Settle, StartBuild,
         BuildStep, FinishBuild, BuildFails, Issue, Open, OpenAnyway, Next

-----------------------------------------------------------------------------
(* The invariant of the loop: with nothing on its way, flagged or in hand, *)
(* and no failure, a build under way is not raced and one that ended left  *)
(* the index exact.                                                        *)
THEOREM LoopInvariance == WatchSpec => []LoopInv
  BY InitLoop, WatchNextKeeps, PTL DEF WatchSpec

(* The loop, its flags and the searches stay well-typed, and a build runs  *)
(* only while the loop waits for it.                                       *)
THEOREM WatchTypeCorrect == WatchSpec => []WatchTypeOK
<1>1. LoopInv => WatchTypeOK
  BY DEF LoopInv
<1> QED
  BY <1>1, LoopInvariance, PTL

(* The loop runs RepoBuild: whatever RepoBuild promises holds of it.       *)
THEOREM LoopRunsBuilds == WatchSpec => Spec
<1>1. WatchInit => Init
  BY DEF WatchInit
<1> QED
  BY <1>1, LoopBuilds, LoopInvariance, PTL DEF WatchSpec, Spec

(* An edit that races with a rebuild leads to another one.                 *)
THEOREM NoEditIsLost == WatchSpec => []NoEditLost
<1>1. LoopInv => NoEditLost
  BY ExactAtRest DEF NoEditLost
<1> QED
  BY <1>1, LoopInvariance, PTL

(* A search that waits for a watcher which has noticed every edit answers  *)
(* from the tree as it is.                                                 *)
THEOREM NoticedEditsStaySeen == WatchSpec => []NoticedEditsAreSeen
<1>1. LoopInv => NoticedEditsAreSeen
  BY DEF LoopInv
<1> QED
  BY <1>1, LoopInvariance, PTL
===============================================================================
