----------------------------- MODULE SearchCommand -----------------------------
(***************************************************************************)
(* `hips search` of src/cli.rs: which index it answers from, whether it    *)
(* waits, by which ranking it answers, and where its locations point; with *)
(* the builds and watchers of src/daemon.rs and src/codeindex.rs beside it.*)
(*                                                                         *)
(* A directory is the sequence of the names on its path; the index and the *)
(* watcher of a directory are known by it (the hash of the path in the     *)
(* index's name is taken to be free of collisions).                        *)
(***************************************************************************)
EXTENDS Integers, Sequences, FiniteSets, SequencesExt, FiniteSetsExt

CONSTANTS Places,      \* the directories
          Worktrees,   \* those of them with a .git
          Requests,    \* what a search may be given: [given, rooted, asked], see Ask
          FilePaths,     \* paths of files within a directory
          MaxStirs     \* bound on what others do besides

Nowhere == <<"nowhere">>

(* A canonical path has no "..", and an index none that leaves its root.   *)
ASSUME PlacesAssumption ==
  /\ Worktrees \subseteq Places /\ MaxStirs \in Nat
  /\ Places \subseteq Seq(STRING) \ {Nowhere} /\ FilePaths \subseteq Seq(STRING)
  /\ \A path \in Places \cup FilePaths : \A i \in DOMAIN path : path[i] # ".."
ASSUME RequestsAssumption ==
  \A r \in Requests : /\ r.given \in Places \cup {Nowhere} /\ r.rooted \in BOOLEAN
                     /\ r.asked \in {"hybrid", "semantic", "rerank", "bm25"}

VARIABLES
  semantic,   \* the binary was built with the semantic feature
  shelf,      \* place -> "none", or its index, "lexical" or "embedded"
  keeper,     \* place -> its watcher: "none", "starting", "building" or "idle"
  stirs,
  search,     \* the search
  stood,      \* history: where there has been an index since it began,
  kept        \* and where there has been a watcher

commandVars == <<semantic, shelf, keeper, stirs, search, stood, kept>>

Unasked == [step |-> "none", here |-> Nowhere, given |-> Nowhere, rooted |-> FALSE, asked |-> "hybrid",
             at |-> Nowhere, dir |-> Nowhere, opened |-> "none", mode |-> "hybrid", loaded |-> TRUE]

CommandRests ==
  /\ semantic = TRUE /\ stirs = 0 /\ search = Unasked /\ stood = {} /\ kept = {}
  /\ shelf = [d \in Places |-> "none"] /\ keeper = [d \in Places |-> "none"]

CommandInit ==
  /\ semantic \in BOOLEAN /\ stirs = 0 /\ search = Unasked /\ stood = {} /\ kept = {}
  /\ shelf \in [Places -> {"none", "embedded"}]   \* a lexical one may be built
  /\ keeper = [d \in Places |-> "none"]

Exists(d) == d \in Places /\ shelf[d] # "none"

(* A watcher shows once it has written its status.                         *)
Watched(d) == d \in Places /\ keeper[d] \in {"building", "idle"}

-----------------------------------------------------------------------------
(* Others: hooks, watchers, `index-repo`, and whoever removes an index.    *)

Enclosing(dirs, d) == {e \in dirs : IsPrefix(e, d)}
Nearest(dirs)      == CHOOSE d \in dirs : \A e \in dirs : Len(e) <= Len(d)

(* embed_or_degrade. *)
Rankable == IF semantic THEN {"lexical", "embedded"} ELSE {"lexical"}

Stir == stirs < MaxStirs /\ stirs' = stirs + 1

(* A session's hook starts the watcher of the work tree around it.         *)
SessionStart(cwd) ==
  /\ Enclosing(Worktrees, cwd) # {}
  /\ LET root == Nearest(Enclosing(Worktrees, cwd))
     IN  keeper[root] = "none" /\ keeper' = [keeper EXCEPT ![root] = "starting"]
  /\ Stir /\ UNCHANGED <<semantic, shelf, search, stood, kept>>

BuildBegins(d) ==
  /\ keeper[d] = "starting" /\ keeper' = [keeper EXCEPT ![d] = "building"]
  /\ UNCHANGED <<semantic, shelf, stirs, search, stood, kept>>

(* A build succeeds or fails; either way its watcher is idle then.         *)
BuildReturns(d) ==
  /\ keeper[d] = "building" /\ keeper' = [keeper EXCEPT ![d] = "idle"]
  /\ \E kind \in Rankable \cup {shelf[d]} : shelf' = [shelf EXCEPT ![d] = kind]
  /\ UNCHANGED <<semantic, stirs, search, stood, kept>>

KeeperEnds(d) ==
  /\ keeper[d] # "none" /\ keeper' = [keeper EXCEPT ![d] = "none"] /\ kept' = kept \ {d}
  /\ Stir /\ UNCHANGED <<semantic, shelf, search, stood>>

IndexRepo(d) ==
  /\ \E kind \in Rankable : shelf' = [shelf EXCEPT ![d] = kind]
  /\ Stir /\ UNCHANGED <<semantic, keeper, search, stood, kept>>

(* The user clears the cache, or a single layout is being replaced.        *)
Vanish(d) ==
  /\ shelf[d] # "none" /\ shelf' = [shelf EXCEPT ![d] = "none"] /\ stood' = stood \ {d}
  /\ Stir /\ UNCHANGED <<semantic, keeper, search, kept>>

-----------------------------------------------------------------------------
(* The search.                                                             *)

Ask(here, given, rooted, asked) ==
  /\ search.step = "none"
  /\ search' = [Unasked EXCEPT !.step = IF given = Nowhere THEN "look" ELSE "settle", !.here = here, !.given = given,
                                !.rooted = rooted, !.asked = asked, !.at = here, !.dir = given, !.mode = asked]
  /\ stood' = {d \in Places : Exists(d)} /\ kept' = {d \in Places : Watched(d)}
  /\ UNCHANGED <<semantic, shelf, keeper, stirs>>

Moves(step) == search.step = step /\ UNCHANGED <<semantic, shelf, keeper, stirs, stood, kept>>

(* resolve_index: the caller's directory, then each above it.              *)
Look ==
  /\ Moves("look")
  /\ search' = IF Exists(search.at) THEN [search EXCEPT !.step = "settle", !.dir = search.at]
               ELSE IF search.at = <<>> THEN [search EXCEPT !.step = "wait"]
               ELSE [search EXCEPT !.at = Front(@)]

(* A watcher may be at the first build; its deadline may pass any time.    *)
Wait ==
  /\ Moves("wait")
  /\ search' = IF ~Watched(search.here) THEN [search EXCEPT !.step = "unindexed"]
               ELSE IF Exists(search.here) THEN [search EXCEPT !.step = "settle", !.dir = search.here]
               ELSE [search EXCEPT !.step = "later"]

(* wait_for_idle before opening, until its deadline at the latest.         *)
Settle == Moves("settle") /\ search' = [search EXCEPT !.step = "open"]

(* Hybrid falls back to BM25 where there are no vectors.                   *)
Open ==
  /\ Moves("open")
  /\ LET bare == ~semantic \/ shelf[search.dir] = "lexical"
     IN  search' = IF ~Exists(search.dir) THEN [search EXCEPT !.step = "failed"]
                   ELSE IF search.asked # "bm25" /\ bare /\ search.asked # "hybrid"
                        THEN [search EXCEPT !.step = "refused", !.opened = shelf[search.dir]]
                   ELSE [search EXCEPT !.step = "load", !.opened = shelf[search.dir], !.mode = IF bare THEN "bm25" ELSE @]

(* Only a ranking that needs the encoder loads it.                         *)
LoadEncoder ==
  /\ Moves("load")
  /\ \/ search' = [search EXCEPT !.step = "answered"]
     \/ /\ search.mode # "bm25"
        /\ search' = IF search.asked = "hybrid" THEN [search EXCEPT !.step = "answered", !.mode = "bm25", !.loaded = FALSE]
                     ELSE [search EXCEPT !.step = "refused", !.loaded = FALSE]

Over == search.step \in {"answered", "refused", "failed", "unindexed", "later"}

(* What happens once the search is over is of no concern.                  *)
CommandNext ==
  \/ /\ ~Over
     /\ \E d \in Places :
          SessionStart(d) \/ BuildBegins(d) \/ BuildReturns(d) \/ KeeperEnds(d) \/ IndexRepo(d) \/ Vanish(d)
  \/ \E here \in Places, r \in Requests : Ask(here, r.given, r.rooted, r.asked)
  \/ Look \/ Wait \/ Settle \/ Open \/ LoadEncoder

CommandSpec == CommandInit /\ [][CommandNext]_commandVars

-----------------------------------------------------------------------------
(* Locations.                                                              *)

Shared(s, t) == Max({n \in 0 .. Min({Len(s), Len(t)}) : SubSeq(s, 1, n) = SubSeq(t, 1, n)})

RelativeTo(from, path) ==
  LET n == Shared(from, path)
  IN  [i \in 1 .. Len(from) - n |-> ".."] \o SubSeq(path, n + 1, Len(path))

(* id_rebaser: only with --root, from a place below what is indexed.       *)
Shown(path) ==
  IF search.rooted /\ IsPrefix(search.dir, search.here)
  THEN RelativeTo(SubSeq(search.here, Len(search.dir) + 1, Len(search.here)), path) ELSE path

(* Where a path points from a directory, name by name.                     *)
PointsTo(here, path) ==
  LET after[n \in 0 .. Len(path)] ==
        IF n = 0 THEN here
        ELSE IF path[n] = ".." THEN Front(after[n - 1]) ELSE Append(after[n - 1], path[n])
  IN  after[Len(path)]

-----------------------------------------------------------------------------
(* Properties *)

Answers == search.dir # Nowhere

(* "An explicit --index wins", else "look upwards before giving up" (from  *)
(* resolve_index): no index that stood all the while is passed over for    *)
(* one further up, and none at or above the caller is missed.              *)
NonePassedOver ==
  LET near == Enclosing(stood, search.here)
  IN  /\ search.given # Nowhere => search.dir = search.given
      /\ Answers /\ search.given = Nowhere => \A d \in near : Len(d) <= Len(search.dir)
      /\ search.step \in {"unindexed", "later"} => near = {}

(* Who searches from the root of a tree whose watcher runs is never told   *)
(* to build the index himself.                                             *)
NotToldToIndex == search.step = "unindexed" => search.here \notin kept

(* "Rather than refusing to run": the default ranking degrades and is      *)
(* never refused; one that was asked for is used or refused, never swapped.*)
RankedAsAsked ==
  /\ search.step = "refused" => search.asked \in {"semantic", "rerank"}
  /\ search.step = "answered" /\ search.mode # search.asked =>
       search.asked = "hybrid" /\ (~semantic \/ search.opened = "lexical" \/ ~search.loaded)
  /\ search.step = "answered" /\ search.mode # "bm25" => semantic /\ search.opened = "embedded" /\ search.loaded

(* A location opens from where the caller said to stand, for every file    *)
(* of an index at or above that.                                           *)
LocationsOpen ==
  search.step = "answered" /\ search.rooted /\ IsPrefix(search.dir, search.here) =>
    \A path \in FilePaths : PointsTo(search.here, Shown(path)) = search.dir \o path

CommandIsSound == NonePassedOver /\ NotToldToIndex /\ RankedAsAsked /\ LocationsOpen
===============================================================================
