------------------------------ MODULE WatchLoop ------------------------------
(***************************************************************************)
(* The rebuild loop of src/daemon.rs over the builds of RepoBuild, fed by  *)
(* the dirty flag of src/watch.rs, and the searches that read watch.json   *)
(* to wait for it.  An edit becomes an event some time later; events that  *)
(* come while a build runs must lead to another.                           *)
(***************************************************************************)
EXTENDS RepoBuild

CONSTANTS Searches   \* searches, each issued once

VARIABLES
  inbox,   \* the operating system holds an event not yet delivered
  dirty,   \* the dirty flag
  burst,   \* an event has come since events_seen was sampled
  lpc,     \* what the loop does next
  state,   \* Status::state in watch.json
  spc,     \* spc[q]: what search q does next
  failed,  \* history: did the last build that was begun fail?
  promise, \* history: promise[q]: q was issued with every edit noticed, and
           \* since then no edit has come and no build has failed
  answer   \* answer[q]: the rows search q could return

loopVars   == <<inbox, dirty, burst, lpc, state, failed>>
searchVars == <<spc, promise, answer>>
allVars    == <<vars, loopVars, searchVars>>

WatchTypeOK ==
  /\ TypeOK
  /\ inbox \in BOOLEAN /\ dirty \in BOOLEAN /\ burst \in BOOLEAN
  /\ lpc \in {"loop", "announce", "quiet", "settled", "building"}
  /\ state \in {"starting", "indexing", "idle"} /\ failed \in BOOLEAN
  /\ spc \in [Searches -> {"new", "waiting", "done"}]
  /\ promise \in [Searches -> BOOLEAN]
  /\ answer \in [Searches -> SUBSET Rows]
  /\ bpc # "idle" => lpc = "building"

(* The tree is watched before the first build looks at it.                 *)
WatchInit ==
  /\ Init
  /\ inbox = FALSE /\ dirty = FALSE /\ burst = FALSE
  /\ lpc = "settled" /\ state = "starting" /\ failed = FALSE
  /\ spc = [q \in Searches |-> "new"]
  /\ promise = [q \in Searches |-> FALSE]
  /\ answer = [q \in Searches |-> {}]

Broken == promise' = [q \in Searches |-> FALSE]

EditTree(f) ==
  /\ Edit(f)
  /\ inbox' = TRUE
  /\ Broken
  /\ UNCHANGED <<dirty, burst, lpc, state, failed, spc, answer>>

(* The callback of TreeWatcher; a lost event is not counted.               *)
Deliver ==
  /\ inbox
  /\ inbox' = FALSE /\ dirty' = TRUE
  /\ burst' \in {burst, TRUE}
  /\ UNCHANGED <<vars, lpc, state, failed, searchVars>>

-----------------------------------------------------------------------------
(* run_watch *)

TakeDirty ==
  /\ lpc = "loop" /\ dirty
  /\ dirty' = FALSE
  /\ lpc' = "announce"
  /\ UNCHANGED <<vars, inbox, burst, state, failed, searchVars>>

(* Mutation of Announce: the status stays "idle" until the build starts.   *)
AnnounceSilently ==
  /\ lpc = "announce"
  /\ lpc' = "quiet"
  /\ UNCHANGED <<vars, inbox, dirty, burst, state, failed, searchVars>>

Announce ==
  /\ lpc = "announce"
  /\ state' = "indexing"
  /\ lpc' = "quiet"
  /\ UNCHANGED <<vars, inbox, dirty, burst, failed, searchVars>>

(* Wait until an interval passes without an event.                         *)
Sample ==
  /\ lpc = "quiet" /\ burst
  /\ burst' = FALSE
  /\ UNCHANGED <<vars, inbox, dirty, lpc, state, failed, searchVars>>

Settle ==
  /\ lpc = "quiet" /\ ~burst
  /\ dirty' = FALSE
  /\ lpc' = "settled"
  /\ UNCHANGED <<vars, inbox, burst, state, failed, searchVars>>

StartBuild ==
  /\ lpc = "settled" /\ Begin
  /\ state' = "indexing"
  /\ lpc' = "building" /\ failed' = FALSE
  /\ UNCHANGED <<inbox, dirty, burst, searchVars>>

(* A build that finds its files gone fails as well.                        *)
BuildStep ==
  /\ lpc = "building" /\ Build
  /\ failed' = (failed \/ \E f \in Files : FileVanished(f))
  /\ UNCHANGED <<inbox, dirty, burst, lpc, state, searchVars>>

(* rebuild logs the error and goes on as after a success.                  *)
BuildFails ==
  /\ lpc = "building" /\ Fail
  /\ failed' = TRUE
  /\ Broken
  /\ UNCHANGED <<inbox, dirty, burst, lpc, state, spc, answer>>

(* Mutation of FinishBuild: the dirty flag is cleared after the build.     *)
FinishClean ==
  /\ lpc = "building" /\ bpc = "idle"
  /\ state' = "idle" /\ dirty' = FALSE
  /\ lpc' = "loop"
  /\ UNCHANGED <<vars, inbox, burst, failed, searchVars>>

FinishBuild ==
  /\ lpc = "building" /\ bpc = "idle"
  /\ state' = "idle"
  /\ lpc' = "loop"
  /\ UNCHANGED <<vars, inbox, dirty, burst, failed, searchVars>>

-----------------------------------------------------------------------------
(* hips search: wait_for_idle, then open the index.                        *)

(* No edit on its way, none flagged or in hand, and the last build stands. *)
Noticed == ~failed /\ ~inbox /\ ~dirty /\ lpc # "announce"

Issue(q) ==
  /\ spc[q] = "new"
  /\ spc' = [spc EXCEPT ![q] = "waiting"]
  /\ promise' = [promise EXCEPT ![q] = Noticed]
  /\ UNCHANGED <<vars, loopVars, answer>>

Open(q) ==
  /\ spc[q] = "waiting" /\ state = "idle"
  /\ spc' = [spc EXCEPT ![q] = "done"]
  /\ answer' = [answer EXCEPT ![q] = live]
  /\ UNCHANGED <<vars, loopVars, promise>>

(* The wait is bounded: the search then takes what there is.               *)
OpenAnyway(q) ==
  /\ spc[q] = "waiting" /\ state # "idle"
  /\ spc' = [spc EXCEPT ![q] = "done"]
  /\ answer' = [answer EXCEPT ![q] = live]
  /\ promise' = [promise EXCEPT ![q] = FALSE]
  /\ UNCHANGED <<vars, loopVars>>

Loop == TakeDirty \/ Announce \/ Sample \/ Settle \/ StartBuild \/ BuildStep \/ FinishBuild

WatchNext ==
  \/ \E f \in Files : EditTree(f)
  \/ Deliver \/ Loop \/ BuildFails
  \/ \E q \in Searches : Issue(q) \/ Open(q) \/ OpenAnyway(q)

WatchSpec == WatchInit /\ [][WatchNext]_allVars

(* The operating system delivers, the loop and its builds go on.           *)
FairWatchSpec == WatchSpec /\ WF_allVars(Deliver) /\ WF_allVars(Loop)

-----------------------------------------------------------------------------
(* Properties *)

(* A search issued when the watcher has noticed every edit, and whose wait *)
(* was not cut short, answers from exactly the tree it was asked about,    *)
(* although status, flag and index are three separate things on disk and   *)
(* in memory.                                                              *)
NoticedEditsAreSeen ==
  \A q \in Searches :
    spc[q] = "done" /\ promise[q] =>
      answer[q] = UNION {RowsOf(f, Text(tree[f])) : f \in Files}

(* No edit is lost: whenever the index differs from the tree, an event is  *)
(* on its way, the flag is up, the loop is about to build again, or the    *)
(* last build failed.                                                      *)
NoEditLost == Exact \/ inbox \/ dirty \/ lpc # "loop" \/ failed

(* Once edits stop the index comes to equal the tree and stays so, unless  *)
(* the last build fails.                                                   *)
EventuallyExactOrFailed == <>[](Exact \/ failed)

(* "an edit racing with a rebuild ... is picked up next time rather than   *)
(* being lost": once edits stop, the index comes to equal the tree.        *)
EventuallyExact == <>[]Exact
===============================================================================
