---------------------------- MODULE WatchSessions ----------------------------
(***************************************************************************)
(* One repository's background watcher and the processes around it, from   *)
(* src/daemon.rs: agents that come, end and die; the session hooks that    *)
(* take and drop their leases and start the watcher; searches and stop     *)
(* commands that look for it; the watcher's own life.                      *)
(*                                                                         *)
(* They share three things on disk: a lease file per session, the status   *)
(* file watch.json, and watch.lock.  There is no other way to ask whether  *)
(* the lock is held than to take it and give it back, so every process     *)
(* that looks for the watcher holds the lock for a moment when it is free. *)
(*                                                                         *)
(* Time is left out: a deadline may pass at any moment.  The grace period  *)
(* is at least one lease check long.  A process id is never used twice.    *)
(***************************************************************************)
EXTENDS Naturals, FiniteSets

CONSTANTS Sessions,     \* session ids; each has a hook process of its own
          Pidless,      \* the sessions whose agent's pid the hook does not know
          Searchers,    \* processes that look whether a watcher is running
          Stoppers,     \* processes that ask it to stop (watch --stop)
          Watchers,     \* the leased watchers hooks may spawn
          Foreground,   \* the watchers started by hand (hips watch)
          Pids,         \* process ids of agents
          Unknown,      \* the pid of a lease whose agent's pid is unknown (0)
          None,         \* no lease, no agent, no status
          Free,         \* the holder of a lock nobody holds
          MayCrash,     \* are watchers killed, or do they fail?
          MaxVersion,   \* bound: how often the hips binary is upgraded
          MaxBursts     \* bound: how many bursts of edits hit the tree

Clients == Sessions \cup Searchers \cup Stoppers
AllWatchers == Watchers \cup Foreground
Versions == 0 .. MaxVersion

ASSUME ProcessesAssumption ==
  /\ Free \notin Clients \cup AllWatchers
  /\ Clients \cap AllWatchers = {}
  /\ Watchers \cap Foreground = {} /\ Pidless \subseteq Sessions
  /\ None \notin Pids \cup {Unknown} /\ Unknown \notin Pids
ASSUME BoundsAssumption == MaxVersion \in Nat /\ MaxBursts \in Nat /\ MayCrash \in BOOLEAN

VARIABLES
  agent,      \* agent[s]: the pid of the running agent of session s, or None
  spent,      \* the pids used so far
  lease,      \* lease[s]: the pid in the lease file of s, or None
  installed,  \* the version of the hips binary on disk
  bursts,     \* how many bursts of edits have been indexed
  lock,       \* the holder of watch.lock
  status,     \* watch.json: the watcher and the binary it named, or None
  cpc,        \* cpc[c]: what client c does next
  wpc,        \* wpc[w]: what watcher w does next
  stop,       \* stop[w]: STOP of w
  seen,       \* seen[w]: the leases w has read and not yet looked at
  found,      \* found[w]: did this check find a live lease?
  leaseless,  \* leaseless[w]: leaseless_since of w is set
  raced       \* history: what has happened that may leave a session unserved

agents   == <<agent, spent, installed>>
loopVars == <<seen, found, leaseless>>
vars == <<agent, spent, lease, installed, bursts, lock, status, cpc, wpc, stop,
          seen, found, leaseless, raced>>

NoLeases == [s \in Sessions |-> None]
Statuses == [pid : AllWatchers, exe : Versions]

(* The absence of watch.json is no status.                                 *)
ASSUME NoStatusAssumption == None \notin Statuses

ClientSteps  == {"idle", "running", "read", "retire", "spawn", "confirm"}
WatcherSteps == {"unborn", "spawned", "locked", "building", "loop", "checking",
                 "exit", "exited", "gone"}

TypeOK ==
  /\ agent \in [Sessions -> Pids \cup {None}]
  /\ spent \subseteq Pids
  /\ lease \in [Sessions -> Pids \cup {Unknown, None}]
  /\ installed \in Versions
  /\ bursts \in 0 .. MaxBursts
  /\ lock \in Clients \cup AllWatchers \cup {Free}
  /\ status \in Statuses \cup {None}
  /\ cpc \in [Clients -> ClientSteps]
  /\ wpc \in [AllWatchers -> WatcherSteps]
  /\ stop \in [AllWatchers -> BOOLEAN]
  /\ seen \in [AllWatchers -> [Sessions -> Pids \cup {Unknown, None}]]
  /\ found \in [AllWatchers -> BOOLEAN]
  /\ leaseless \in [AllWatchers -> BOOLEAN]
  /\ raced \in BOOLEAN
  /\ \A w \in AllWatchers : wpc[w] \in {"unborn", "gone"} =>
       ~stop[w] /\ seen[w] = NoLeases /\ ~found[w] /\ ~leaseless[w] /\ lock # w

Init ==
  /\ agent = NoLeases
  /\ spent = {}
  /\ lease = NoLeases
  /\ installed = 0
  /\ bursts = 0
  /\ lock = Free
  /\ status = None
  /\ cpc = [c \in Clients |-> "idle"]
  /\ wpc = [w \in AllWatchers |-> "unborn"]
  /\ stop = [w \in AllWatchers |-> FALSE]
  /\ seen = [w \in AllWatchers |-> NoLeases]
  /\ found = [w \in AllWatchers |-> FALSE]
  /\ leaseless = [w \in AllWatchers |-> FALSE]
  /\ raced = FALSE

-----------------------------------------------------------------------------
(* Agents: external processes; the hooks are run when they start and end.  *)

AgentAlive(pid)   == pid \in {agent[s] : s \in Sessions} \ {None}
LiveLease(pid)    == pid = Unknown \/ AgentAlive(pid)
WatcherAlive(w)   == wpc[w] \notin {"unborn", "gone"}

(* An agent opens the repository; its hook writes the lease, by rename.    *)
SessionStart(s) ==
  /\ agent[s] = None /\ cpc[s] = "idle" /\ Pids \ spent # {}
  /\ LET pid == CHOOSE p \in Pids : p \notin spent
     IN  /\ agent' = [agent EXCEPT ![s] = pid]
         /\ spent' = spent \cup {pid}
         /\ lease' = [lease EXCEPT ![s] = IF s \in Pidless THEN Unknown ELSE pid]
  /\ cpc' = [cpc EXCEPT ![s] = "running"]
  /\ UNCHANGED <<installed, bursts, lock, status, wpc, stop, loopVars, raced>>

SessionEnd(s) ==
  /\ agent[s] # None /\ cpc[s] = "idle"
  /\ agent' = [agent EXCEPT ![s] = None]
  /\ lease' = [lease EXCEPT ![s] = None]
  /\ UNCHANGED <<spent, installed, bursts, lock, status, cpc, wpc, stop, loopVars, raced>>

KillAgent(s) ==
  /\ agent[s] # None
  /\ agent' = [agent EXCEPT ![s] = None]
  /\ UNCHANGED <<spent, lease, installed, bursts, lock, status, cpc, wpc, stop, loopVars, raced>>

Upgrade ==
  /\ installed < MaxVersion
  /\ installed' = installed + 1
  /\ UNCHANGED <<agent, spent, lease, bursts, lock, status, cpc, wpc, stop, loopVars, raced>>

-----------------------------------------------------------------------------
(* Clients *)

ClientGoto(c, step) == cpc' = [cpc EXCEPT ![c] = step]
HeldByOther(c) == lock \notin {Free, c}

LookForWatcher(c) ==
  /\ c \in Searchers \cup Stoppers /\ cpc[c] = "idle"
  /\ ClientGoto(c, "running")
  /\ UNCHANGED <<agents, lease, bursts, lock, status, wpc, stop, loopVars, raced>>

(* lock_is_held, when it is not: the lock is taken, then given back.       *)
ProbeTakes(c) ==
  /\ cpc[c] \in {"running", "retire", "confirm"} /\ lock = Free
  /\ lock' = c
  /\ UNCHANGED <<agents, lease, bursts, status, cpc, wpc, stop, loopVars, raced>>

ProbeReturns(c) ==
  /\ lock = c
  /\ lock' = Free
  /\ ClientGoto(c, IF cpc[c] = "confirm" THEN "confirm" ELSE IF c \in Sessions THEN "spawn" ELSE "idle")
  /\ UNCHANGED <<agents, lease, bursts, status, wpc, stop, loopVars, raced>>

(* lock_is_held, when it is, and when a waiting loop ends.                 *)
ProbeHeld(c) ==
  /\ cpc[c] \in {"running", "confirm"} /\ HeldByOther(c)
  /\ ClientGoto(c, IF cpc[c] = "running" THEN "read" ELSE "idle")
  /\ UNCHANGED <<agents, lease, bursts, lock, status, wpc, stop, loopVars, raced>>

Deadline(c) ==
  /\ cpc[c] \in {"retire", "confirm"} /\ lock # c
  /\ ClientGoto(c, IF cpc[c] = "retire" THEN "spawn" ELSE "idle")
  /\ UNCHANGED <<agents, lease, bursts, lock, status, wpc, stop, loopVars, raced>>

(* Past its last look at the leases, or told to stop.                      *)
Leaving(w) == stop[w] \/ wpc[w] \in {"exit", "exited"}

Serving == status # None /\ WatcherAlive(status.pid)

(* Mutation of FindNone: a held lock is taken for a watcher that serves.   *)
FindNoneWhileHeld(c) ==
  /\ cpc[c] = "read" /\ ~Serving
  /\ ClientGoto(c, "idle")
  /\ UNCHANGED <<agents, lease, bursts, lock, status, wpc, stop, loopVars, raced>>

(* running() names no watcher: a session starts one, others are done.      *)
FindNone(c) ==
  /\ cpc[c] = "read" /\ ~Serving
  /\ ClientGoto(c, IF c \in Sessions THEN "spawn" ELSE "idle")
  /\ UNCHANGED <<agents, lease, bursts, lock, status, wpc, stop, loopVars, raced>>

(* A session finds a watcher of its own binary, or a search finds any.     *)
Attach(c) ==
  /\ cpc[c] = "read" /\ Serving
  /\ c \in Searchers \/ (c \in Sessions /\ status.exe = installed)
  /\ raced' = (raced \/ (c \in Sessions /\ Leaving(status.pid)))
  /\ ClientGoto(c, "idle")
  /\ UNCHANGED <<agents, lease, bursts, lock, status, wpc, stop, loopVars>>

(* SIGTERM, to a watcher of another binary or on behalf of watch --stop.   *)
Signal(c) ==
  /\ cpc[c] = "read" /\ Serving
  /\ c \in Stoppers \/ (c \in Sessions /\ status.exe # installed)
  /\ stop' = [stop EXCEPT ![status.pid] = TRUE]
  /\ raced' = (raced \/ c \in Stoppers)
  /\ ClientGoto(c, IF c \in Sessions THEN "retire" ELSE "idle")
  /\ UNCHANGED <<agents, lease, bursts, lock, status, wpc, loopVars>>

Spawn(c) ==
  /\ cpc[c] = "spawn"
  /\ \E w \in Watchers : wpc[w] = "unborn"
  /\ LET w == CHOOSE v \in Watchers : wpc[v] = "unborn"
     IN  wpc' = [wpc EXCEPT ![w] = "spawned"]
  /\ ClientGoto(c, "confirm")
  /\ UNCHANGED <<agents, lease, bursts, lock, status, stop, loopVars, raced>>

-----------------------------------------------------------------------------
(* run_watch *)

WatcherGoto(w, step) == wpc' = [wpc EXCEPT ![w] = step]

(* The process ends; what it had in memory goes with it.                   *)
EndProcess(w) ==
  /\ WatcherGoto(w, "gone")
  /\ stop' = [stop EXCEPT ![w] = FALSE]
  /\ seen' = [seen EXCEPT ![w] = NoLeases]
  /\ found' = [found EXCEPT ![w] = FALSE]
  /\ leaseless' = [leaseless EXCEPT ![w] = FALSE]

StartByHand(w) ==
  /\ w \in Foreground /\ wpc[w] = "unborn"
  /\ WatcherGoto(w, "spawned")
  /\ UNCHANGED <<agents, lease, bursts, lock, status, cpc, stop, loopVars, raced>>

TakeLock(w) ==
  /\ wpc[w] = "spawned" /\ lock = Free
  /\ lock' = w
  /\ WatcherGoto(w, "locked")
  /\ UNCHANGED <<agents, lease, bursts, status, cpc, stop, loopVars, raced>>

(* "a watcher is already running", whoever holds the lock.                 *)
Rejected(w) ==
  /\ wpc[w] = "spawned" /\ lock # Free
  /\ EndProcess(w)
  /\ raced' = (raced \/ lock \in Clients \/ (lock \in AllWatchers /\ Leaving(lock)))
  /\ UNCHANGED <<agents, lease, bursts, lock, status, cpc>>

(* Mutation of Announce: the status is first written after the build.      *)
AnnounceAfterBuild(w) ==
  /\ wpc[w] = "locked"
  /\ stop' = [stop EXCEPT ![w] = FALSE]
  /\ WatcherGoto(w, "building")
  /\ UNCHANGED <<agents, lease, bursts, lock, status, cpc, loopVars, raced>>

(* STOP is cleared, the status says "starting", the first build begins.    *)
Announce(w) ==
  /\ wpc[w] = "locked"
  /\ stop' = [stop EXCEPT ![w] = FALSE]
  /\ status' = [pid |-> w, exe |-> installed]
  /\ WatcherGoto(w, "building")
  /\ UNCHANGED <<agents, lease, bursts, lock, cpc, loopVars, raced>>

FinishBuild(w) ==
  /\ wpc[w] = "building"
  /\ WatcherGoto(w, "loop")
  /\ UNCHANGED <<agents, lease, bursts, lock, status, cpc, stop, loopVars, raced>>

ObeyStop(w) ==
  /\ wpc[w] = "loop" /\ stop[w]
  /\ WatcherGoto(w, "exit")
  /\ UNCHANGED <<agents, lease, bursts, lock, status, cpc, stop, loopVars, raced>>

(* A burst of edits; no lease is looked at before its rebuild is done.     *)
Rebuild(w) ==
  /\ wpc[w] = "loop" /\ ~stop[w] /\ bursts < MaxBursts
  /\ bursts' = bursts + 1
  /\ WatcherGoto(w, "building")
  /\ UNCHANGED <<agents, lease, lock, status, cpc, stop, loopVars, raced>>

(* read_leases, then one decision for each lease read; that the files are  *)
(* read one after the other adds nothing, each is decided on by itself.    *)
ReadLeases(w) ==
  /\ wpc[w] = "loop" /\ ~stop[w]
  /\ seen' = [seen EXCEPT ![w] = lease]
  /\ WatcherGoto(w, "checking")
  /\ UNCHANGED <<agents, lease, bursts, lock, status, cpc, stop, found, leaseless, raced>>

KeepLease(w, s) ==
  /\ wpc[w] = "checking" /\ seen[w][s] # None /\ LiveLease(seen[w][s])
  /\ seen' = [seen EXCEPT ![w][s] = None]
  /\ found' = [found EXCEPT ![w] = TRUE]
  /\ UNCHANGED <<agents, lease, bursts, lock, status, cpc, wpc, stop, leaseless, raced>>

(* The lease file goes by its session's name, whatever it holds by now.    *)
ReapLease(w, s) ==
  /\ wpc[w] = "checking" /\ seen[w][s] # None /\ ~LiveLease(seen[w][s])
  /\ seen' = [seen EXCEPT ![w][s] = None]
  /\ lease' = [lease EXCEPT ![s] = None]
  /\ raced' = (raced \/ LiveLease(lease[s]))
  /\ UNCHANGED <<agents, bursts, lock, status, cpc, wpc, stop, found, leaseless>>

(* Mutation of StayOn: every check starts the grace period again.          *)
StayOnAfresh(w) ==
  /\ wpc[w] = "checking" /\ seen[w] = NoLeases
  /\ leaseless' = [leaseless EXCEPT ![w] = FALSE]
  /\ found' = [found EXCEPT ![w] = FALSE]
  /\ WatcherGoto(w, "loop")
  /\ UNCHANGED <<agents, lease, bursts, lock, status, cpc, stop, seen, raced>>

(* Stay: a live lease was found, grace is left, or nobody leases it.       *)
StayOn(w) ==
  /\ wpc[w] = "checking" /\ seen[w] = NoLeases
  /\ leaseless' = [leaseless EXCEPT ![w] = w \in Watchers /\ ~found[w]]
  /\ found' = [found EXCEPT ![w] = FALSE]
  /\ WatcherGoto(w, "loop")
  /\ UNCHANGED <<agents, lease, bursts, lock, status, cpc, stop, seen, raced>>

(* "no sessions left": the grace period is over. *)
GiveUp(w) ==
  /\ wpc[w] = "checking" /\ seen[w] = NoLeases
  /\ w \in Watchers /\ ~found[w] /\ leaseless[w]
  /\ WatcherGoto(w, "exit")
  /\ raced' = (raced \/ \E s \in Sessions : LiveLease(lease[s]))
  /\ UNCHANGED <<agents, lease, bursts, lock, status, cpc, stop, loopVars>>

RemoveStatus(w) ==
  /\ wpc[w] = "exit"
  /\ status' = None
  /\ WatcherGoto(w, "exited")
  /\ UNCHANGED <<agents, lease, bursts, lock, cpc, stop, loopVars, raced>>

DropLock(w) ==
  /\ wpc[w] = "exited"
  /\ lock' = Free
  /\ EndProcess(w)
  /\ UNCHANGED <<agents, lease, bursts, status, cpc, raced>>

(* Killed, or an error in run_watch: the lock goes, watch.json stays.      *)
Crash(w) ==
  /\ MayCrash /\ WatcherAlive(w)
  /\ lock' = IF lock = w THEN Free ELSE lock
  /\ EndProcess(w)
  /\ raced' = TRUE
  /\ UNCHANGED <<agents, lease, bursts, status, cpc>>

-----------------------------------------------------------------------------
External == \/ \E s \in Sessions : SessionStart(s) \/ SessionEnd(s) \/ KillAgent(s)
            \/ Upgrade
            \/ \E c \in Clients : LookForWatcher(c)
            \/ \E w \in AllWatchers : StartByHand(w) \/ Crash(w)

ClientStep(c) ==
  \/ ProbeTakes(c) \/ ProbeReturns(c) \/ ProbeHeld(c) \/ Deadline(c)
  \/ FindNone(c) \/ Attach(c) \/ Signal(c) \/ Spawn(c)

WatcherStep(w) ==
  \/ TakeLock(w) \/ Rejected(w) \/ Announce(w) \/ FinishBuild(w)
  \/ ObeyStop(w) \/ Rebuild(w) \/ ReadLeases(w)
  \/ \E s \in Sessions : KeepLease(w, s) \/ ReapLease(w, s)
  \/ StayOn(w) \/ GiveUp(w) \/ RemoveStatus(w) \/ DropLock(w)

Next == \/ External
        \/ \E c \in Clients : ClientStep(c)
        \/ \E w \in AllWatchers : WatcherStep(w)

Spec == Init /\ [][Next]_vars

(* Processes that are running go on; agents, users and crashes owe nothing. *)
(* The grace period is finite: the check that finds it over comes.         *)
Fairness ==
  /\ \A c \in Clients : WF_vars(ClientStep(c))
  /\ \A w \in AllWatchers : WF_vars(WatcherStep(w)) /\ SF_vars(GiveUp(w))

FairSpec == Spec /\ Fairness

-----------------------------------------------------------------------------
(* Properties *)

(* One watcher at a time, and once it has announced itself watch.json is   *)
(* its own until it leaves: what running() reports is whom a signal stops, *)
(* although status files outlive crashed watchers.                         *)
Watching(w) == wpc[w] \in {"building", "loop", "checking", "exit"}

StatusNamesWatcher ==
  \A w \in AllWatchers : Watching(w) => lock = w /\ status # None /\ status.pid = w

(* Once no hook is at work, every running session has a watcher that will  *)
(* stay, or one about to take the lock.                                    *)
Staying(w) == wpc[w] \in {"spawned", "locked", "building", "loop", "checking"} /\ ~stop[w]
Served ==
  (\A s \in Sessions : cpc[s] = "idle") =>
    \A s \in Sessions : agent[s] # None => \E w \in AllWatchers : Staying(w)

(* The races recorded in raced are the only ways to leave a session        *)
(* unserved: overlapping hooks, searches, replaced binaries and expired    *)
(* deadlines are otherwise harmless.                                       *)
ServedUnlessRaced == ~raced => Served

(* A crashed or killed agent never pins the watcher: once no live lease is *)
(* left for good, every leased watcher is gone for good.                   *)
Unpinned ==
  <>[](\A s \in Sessions : ~LiveLease(lease[s])) =>
    <>[](\A w \in Watchers : ~WatcherAlive(w))

(* Without one of those races a session that stays open is served: some    *)
(* watcher has built the index and looks for changes.                      *)
EventuallyServed ==
  \A s \in Sessions :
    agent[s] # None ~> \/ agent[s] = None \/ raced
                       \/ \E w \in AllWatchers : wpc[w] = "loop"
===============================================================================
