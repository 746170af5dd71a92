-------------------------- MODULE WatchSessionsProofs --------------------------
(***************************************************************************)
(* Theorems about WatchSessions, for any number of sessions, searches,     *)
(* stop commands and watchers, upgrades, edits and crashes.                *)
(***************************************************************************)
EXTENDS WatchSessions, TLAPS

(* The lock is held by the watcher that has taken it and not yet left.     *)
Holding(w) == Watching(w) \/ wpc[w] \in {"locked", "exited"}
HolderInv  == \A w \in AllWatchers : Holding(w) <=> lock = w

(* The lease of a running agent is there and counts as live.               *)
LeaseInv == ~raced => \A s \in Sessions : agent[s] # None => lease[s] \in {Unknown, agent[s]}

(* A hook that has not yet found or spawned a watcher.                     *)
Looking == \E s \in Sessions : cpc[s] \in {"running", "read", "retire", "spawn"}
ServeInv ==
  ~raced /\ (\E s \in Sessions : agent[s] # None) => Looking \/ \E w \in AllWatchers : Staying(w)

SessionsInv == TypeOK /\ HolderInv /\ StatusNamesWatcher /\ LeaseInv /\ ServeInv

-----------------------------------------------------------------------------
LEMMA InitSessions == Init => SessionsInv
<1> SUFFICES ASSUME Init PROVE SessionsInv
  OBVIOUS
<1>1. TypeOK
  <2>1. /\ agent \in [Sessions -> Pids \cup {None}] /\ spent \subseteq Pids
        /\ lease \in [Sessions -> Pids \cup {Unknown, None}]
        /\ NoLeases \in [Sessions -> Pids \cup {Unknown, None}]
    BY DEF Init, NoLeases
  <2>2. installed \in Versions /\ bursts \in 0 .. MaxBursts
    BY BoundsAssumption DEF Init, Versions
  <2>3. /\ lock \in Clients \cup AllWatchers \cup {Free} /\ status \in Statuses \cup {None}
        /\ cpc \in [Clients -> ClientSteps] /\ wpc \in [AllWatchers -> WatcherSteps]
    BY DEF Init, ClientSteps, WatcherSteps
  <2>4. /\ stop \in [AllWatchers -> BOOLEAN] /\ found \in [AllWatchers -> BOOLEAN]
        /\ leaseless \in [AllWatchers -> BOOLEAN] /\ raced \in BOOLEAN
        /\ seen \in [AllWatchers -> [Sessions -> Pids \cup {Unknown, None}]]
    BY <2>1 DEF Init
  <2>5. \A w \in AllWatchers : ~stop[w] /\ seen[w] = NoLeases /\ ~found[w] /\ ~leaseless[w] /\ lock # w
    BY ProcessesAssumption DEF Init
  <2> QED
    BY <2>1, <2>2, <2>3, <2>4, <2>5 DEF TypeOK
<1>2. HolderInv /\ StatusNamesWatcher
  BY ProcessesAssumption DEF Init, HolderInv, Holding, StatusNamesWatcher, Watching, AllWatchers
<1>3. LeaseInv /\ ServeInv
  BY DEF Init, LeaseInv, ServeInv, NoLeases
<1> QED
  BY <1>1, <1>2, <1>3 DEF SessionsInv

(* A watcher's process that ends. *)
LEMMA EndTypes ==
  ASSUME TypeOK, NEW w \in AllWatchers, EndProcess(w)
  PROVE  /\ wpc' \in [AllWatchers -> WatcherSteps] /\ stop' \in [AllWatchers -> BOOLEAN]
         /\ seen' \in [AllWatchers -> [Sessions -> Pids \cup {Unknown, None}]]
         /\ found' \in [AllWatchers -> BOOLEAN] /\ leaseless' \in [AllWatchers -> BOOLEAN]
         /\ \A v \in AllWatchers \ {w} : /\ wpc'[v] = wpc[v] /\ stop'[v] = stop[v] /\ seen'[v] = seen[v]
                                         /\ found'[v] = found[v] /\ leaseless'[v] = leaseless[v]
         /\ wpc'[w] = "gone" /\ ~stop'[w] /\ seen'[w] = NoLeases /\ ~found'[w] /\ ~leaseless'[w]
  BY DEF TypeOK, EndProcess, WatcherGoto, NoLeases, WatcherSteps

-----------------------------------------------------------------------------
(* Agents and clients. *)

LEMMA AgentKeeps ==
  ASSUME SessionsInv, NEW s \in Sessions, SessionStart(s) \/ SessionEnd(s) \/ KillAgent(s)
  PROVE  SessionsInv'
<1> USE ProcessesAssumption
<1>1. TypeOK /\ UNCHANGED <<lock, status, wpc, stop, seen, found, leaseless, raced>>
  BY DEF SessionsInv, SessionStart, SessionEnd, KillAgent, loopVars
<1>2. TypeOK'
  <2>1. /\ agent' \in [Sessions -> Pids \cup {None}] /\ spent' \subseteq Pids
        /\ lease' \in [Sessions -> Pids \cup {Unknown, None}] /\ cpc' \in [Clients -> ClientSteps]
    <3>1. CASE SessionStart(s)
      <4>1. PICK pid \in Pids : /\ agent' = [agent EXCEPT ![s] = pid] /\ spent' = spent \cup {pid}
                                /\ lease' = [lease EXCEPT ![s] = IF s \in Pidless THEN Unknown ELSE pid]
        BY <3>1 DEF SessionStart
      <4> QED
        BY <1>1, <3>1, <4>1 DEF TypeOK, SessionStart, Clients, ClientSteps
    <3>2. CASE SessionEnd(s) \/ KillAgent(s)
      BY <1>1, <3>2 DEF TypeOK, SessionEnd, KillAgent
    <3> QED
      BY <3>1, <3>2
  <2>2. UNCHANGED <<installed, bursts>>
    BY DEF SessionStart, SessionEnd, KillAgent
  <2> QED
    BY <1>1, <2>1, <2>2 DEF TypeOK
<1>3. HolderInv' /\ StatusNamesWatcher'
  BY <1>1 DEF SessionsInv, HolderInv, Holding, StatusNamesWatcher, Watching
<1>4. LeaseInv'
  <2>1. CASE SessionStart(s)
    <3>1. PICK pid \in Pids : /\ agent' = [agent EXCEPT ![s] = pid]
                              /\ lease' = [lease EXCEPT ![s] = IF s \in Pidless THEN Unknown ELSE pid]
      BY <2>1 DEF SessionStart
    <3> QED
      BY <1>1, <3>1 DEF SessionsInv, LeaseInv, TypeOK
  <2>2. CASE SessionEnd(s) \/ KillAgent(s)
    BY <1>1, <2>2 DEF SessionsInv, LeaseInv, TypeOK, SessionEnd, KillAgent
  <2> QED
    BY <2>1, <2>2
<1>5. ServeInv'
  <2>1. CASE SessionStart(s)
    <3>1. cpc'[s] = "running"
      BY <1>1, <2>1 DEF SessionStart, TypeOK, Clients
    <3> QED
      BY <3>1 DEF ServeInv, Looking
  <2>2. CASE SessionEnd(s) \/ KillAgent(s)
    <3>1. \A t \in Sessions : agent'[t] # None => agent[t] # None
      BY <1>1, <2>2 DEF SessionEnd, KillAgent, TypeOK
    <3>2. UNCHANGED cpc
      BY <2>2 DEF SessionEnd, KillAgent
    <3> QED
      BY <1>1, <3>1, <3>2 DEF SessionsInv, ServeInv, Looking, Staying
  <2> QED
    BY <2>1, <2>2
<1> QED
  BY <1>2, <1>3, <1>4, <1>5 DEF SessionsInv

LEMMA UpgradeKeeps ==
  ASSUME SessionsInv, Upgrade
  PROVE  SessionsInv'
<1>1. UNCHANGED <<agent, spent, lease, bursts, lock, status, cpc, wpc, stop, loopVars, raced>>
  BY DEF Upgrade
<1>2. TypeOK'
  BY <1>1, BoundsAssumption DEF SessionsInv, TypeOK, Upgrade, Versions, loopVars
<1> QED
  BY <1>1, <1>2 DEF SessionsInv, HolderInv, Holding, StatusNamesWatcher, Watching, LeaseInv, ServeInv, Looking, Staying

(* Steps of clients that neither start nor stop a watcher. *)
LEMMA ClientFrame ==
  ASSUME SessionsInv, UNCHANGED <<agents, lease, bursts, status, wpc, stop, loopVars>>,
         raced' \in BOOLEAN, raced => raced',
         cpc' \in [Clients -> ClientSteps], lock' \in Clients \cup AllWatchers \cup {Free},
         \A w \in AllWatchers : lock' = w <=> lock = w,
         ServeInv'
  PROVE  SessionsInv'
<1>1. TypeOK'
  BY DEF SessionsInv, TypeOK, agents, loopVars
<1>2. HolderInv' /\ StatusNamesWatcher' /\ LeaseInv'
  BY DEF SessionsInv, HolderInv, Holding, StatusNamesWatcher, Watching, LeaseInv, agents
<1> QED
  BY <1>1, <1>2 DEF SessionsInv

LEMMA ProbeKeeps ==
  ASSUME SessionsInv, NEW c \in Clients,
         LookForWatcher(c) \/ ProbeTakes(c) \/ ProbeReturns(c) \/ ProbeHeld(c) \/ Deadline(c) \/ FindNone(c)
  PROVE  SessionsInv'
<1>1. /\ TypeOK /\ UNCHANGED <<agents, lease, bursts, status, wpc, stop, loopVars, raced>>
      /\ c \notin AllWatchers /\ Free \notin AllWatchers
  BY ProcessesAssumption
     DEF SessionsInv, LookForWatcher, ProbeTakes, ProbeReturns, ProbeHeld, Deadline, FindNone
<1>2. /\ cpc' \in [Clients -> ClientSteps] /\ lock' \in Clients \cup AllWatchers \cup {Free}
      /\ \A w \in AllWatchers : lock' = w <=> lock = w
  BY <1>1 DEF TypeOK, LookForWatcher, ProbeTakes, ProbeReturns, ProbeHeld, Deadline, FindNone,
              ClientGoto, ClientSteps
<1>3. Looking => Looking'
  <2> SUFFICES ASSUME NEW s \in Sessions, cpc[s] \in {"running", "read", "retire", "spawn"}
               PROVE  cpc'[s] \in {"running", "read", "retire", "spawn"}
    BY DEF Looking
  <2> QED
    BY <1>1 DEF TypeOK, LookForWatcher, ProbeTakes, ProbeReturns, ProbeHeld, Deadline, FindNone,
                ClientGoto, Clients
<1>4. ServeInv'
  BY <1>1, <1>3 DEF SessionsInv, ServeInv, Staying, agents
<1> QED
  BY <1>1, <1>2, <1>4, ClientFrame DEF SessionsInv, TypeOK

LEMMA AttachKeeps ==
  ASSUME SessionsInv, NEW c \in Clients, Attach(c)
  PROVE  SessionsInv'
<1>1. /\ TypeOK /\ UNCHANGED <<agents, lease, bursts, lock, status, wpc, stop, loopVars>>
      /\ raced' = (raced \/ (c \in Sessions /\ Leaving(status.pid))) /\ Serving
  BY DEF SessionsInv, Attach
<1>2. cpc' \in [Clients -> ClientSteps] /\ \A d \in Clients \ {c} : cpc'[d] = cpc[d]
  BY <1>1 DEF TypeOK, Attach, ClientGoto, ClientSteps
<1>3. raced' \in BOOLEAN
  BY <1>1 DEF TypeOK
<1>4. ServeInv'
  <2>1. CASE c \in Sessions /\ ~raced'
    <3>1. status.pid \in AllWatchers /\ WatcherAlive(status.pid) /\ ~Leaving(status.pid)
      BY <1>1, <2>1 DEF TypeOK, Statuses, Serving
    <3>2. Staying(status.pid)
      BY <1>1, <3>1 DEF Staying, Leaving, WatcherAlive, TypeOK, WatcherSteps
    <3> QED
      BY <1>1, <3>1, <3>2 DEF ServeInv, Staying
  <2>2. CASE c \notin Sessions
    BY <1>1, <1>2, <2>2 DEF SessionsInv, ServeInv, Looking, Staying, agents, Clients
  <2> QED
    BY <2>1, <2>2 DEF ServeInv
<1> QED
  BY <1>1, <1>2, <1>3, <1>4, ClientFrame DEF TypeOK

LEMMA SignalKeeps ==
  ASSUME SessionsInv, NEW c \in Clients, Signal(c)
  PROVE  SessionsInv'
<1>1. /\ TypeOK /\ UNCHANGED <<agents, lease, bursts, lock, status, wpc, loopVars>>
      /\ raced' = (raced \/ c \in Stoppers) /\ Serving /\ stop' = [stop EXCEPT ![status.pid] = TRUE]
  BY DEF SessionsInv, Signal
<1>2. status.pid \in AllWatchers /\ WatcherAlive(status.pid)
  BY <1>1 DEF TypeOK, Serving, Statuses
<1>3. TypeOK'
  <2>1. /\ cpc' \in [Clients -> ClientSteps] /\ stop' \in [AllWatchers -> BOOLEAN] /\ raced' \in BOOLEAN
        /\ \A w \in AllWatchers : w # status.pid => stop'[w] = stop[w]
    BY <1>1, <1>2 DEF TypeOK, Signal, ClientGoto, ClientSteps
  <2> QED
    BY <1>1, <1>2, <2>1 DEF TypeOK, WatcherAlive, agents, loopVars
<1>4. HolderInv' /\ StatusNamesWatcher' /\ LeaseInv'
  BY <1>1 DEF SessionsInv, HolderInv, Holding, StatusNamesWatcher, Watching, LeaseInv, agents
<1>5. ServeInv'
  <2>1. ~raced' => c \in Sessions
    BY <1>1 DEF Signal
  <2>2. c \in Sessions => cpc'[c] = "retire"
    BY <1>1 DEF TypeOK, Signal, ClientGoto
  <2> QED
    BY <2>1, <2>2 DEF ServeInv, Looking
<1> QED
  BY <1>3, <1>4, <1>5 DEF SessionsInv

(* A watcher is started, by a hook or by hand. *)
LEMMA StartKeeps ==
  ASSUME SessionsInv, NEW w \in AllWatchers, wpc[w] = "unborn", WatcherGoto(w, "spawned"),
         UNCHANGED <<agents, lease, bursts, lock, status, stop, loopVars, raced>>,
         cpc' \in [Clients -> ClientSteps]
  PROVE  SessionsInv'
<1>1. TypeOK /\ wpc' = [wpc EXCEPT ![w] = "spawned"]
  BY DEF SessionsInv, WatcherGoto
<1>2. /\ wpc' \in [AllWatchers -> WatcherSteps] /\ wpc'[w] = "spawned"
      /\ \A v \in AllWatchers : v # w => wpc'[v] = wpc[v]
  BY <1>1 DEF TypeOK, WatcherSteps
<1>3. TypeOK'
  BY <1>1, <1>2 DEF TypeOK, agents, loopVars
<1>4. HolderInv' /\ StatusNamesWatcher' /\ LeaseInv'
  BY <1>1, <1>2 DEF SessionsInv, HolderInv, Holding, StatusNamesWatcher, Watching, LeaseInv, agents
<1>5. ServeInv'
  <2>1. Staying(w)'
    BY <1>1, <1>2 DEF TypeOK, Staying
  <2> QED
    BY <2>1 DEF ServeInv
<1> QED
  BY <1>3, <1>4, <1>5 DEF SessionsInv

LEMMA SpawnKeeps ==
  ASSUME SessionsInv, NEW c \in Clients, Spawn(c)
  PROVE  SessionsInv'
<1>1. PICK w \in Watchers : wpc[w] = "unborn" /\ WatcherGoto(w, "spawned")
  BY DEF Spawn, WatcherGoto
<1>2. /\ w \in AllWatchers /\ cpc' \in [Clients -> ClientSteps]
      /\ UNCHANGED <<agents, lease, bursts, lock, status, stop, loopVars, raced>>
  BY DEF SessionsInv, TypeOK, Spawn, ClientGoto, ClientSteps, AllWatchers
<1> QED
  BY <1>1, <1>2, StartKeeps

-----------------------------------------------------------------------------
(* Watchers. *)

(* A step of a watcher that leaves the files, the lock and STOP alone.     *)
LEMMA WatcherFrame ==
  ASSUME SessionsInv, NEW w \in AllWatchers, NEW step \in WatcherSteps, WatcherGoto(w, step),
         UNCHANGED <<agents, lease, lock, status, cpc, stop>>,
         bursts' \in 0 .. MaxBursts, raced' \in BOOLEAN, raced => raced',
         seen' \in [AllWatchers -> [Sessions -> Pids \cup {Unknown, None}]],
         found' \in [AllWatchers -> BOOLEAN], leaseless' \in [AllWatchers -> BOOLEAN],
         \A v \in AllWatchers \ {w} : seen'[v] = seen[v] /\ found'[v] = found[v] /\ leaseless'[v] = leaseless[v],
         wpc[w] \in {"building", "loop", "checking"}, step \in {"building", "loop", "checking", "exit"},
         step = "exit" /\ ~raced' /\ Staying(w) => \A s \in Sessions : agent[s] = None
  PROVE  SessionsInv'
<1>1. TypeOK /\ wpc' = [wpc EXCEPT ![w] = step]
  BY DEF SessionsInv, WatcherGoto
<1>2. /\ wpc' \in [AllWatchers -> WatcherSteps] /\ wpc'[w] = step
      /\ \A v \in AllWatchers : v # w => wpc'[v] = wpc[v]
  BY <1>1 DEF TypeOK
<1>3. TypeOK'
  BY <1>1, <1>2 DEF TypeOK, agents
<1>4. HolderInv' /\ StatusNamesWatcher' /\ LeaseInv'
  BY <1>1, <1>2 DEF SessionsInv, HolderInv, Holding, StatusNamesWatcher, Watching, LeaseInv, agents
<1>5. ServeInv'
  <2>1. \A v \in AllWatchers : v # w \/ step # "exit" => (Staying(v) => Staying(v)')
    BY <1>1, <1>2 DEF Staying
  <2>2. Looking' = Looking
    BY DEF Looking
  <2> QED
    BY <2>1, <2>2 DEF SessionsInv, ServeInv, agents
<1> QED
  BY <1>3, <1>4, <1>5 DEF SessionsInv

LEMMA WatchingKeeps ==
  ASSUME SessionsInv, NEW w \in AllWatchers,
         FinishBuild(w) \/ ObeyStop(w) \/ Rebuild(w) \/ ReadLeases(w) \/ StayOn(w)
  PROVE  SessionsInv'
<1>1. TypeOK /\ UNCHANGED <<agents, lease, lock, status, cpc, stop, raced>>
  BY DEF SessionsInv, FinishBuild, ObeyStop, Rebuild, ReadLeases, StayOn
<1>2. PICK step \in {"building", "loop", "checking", "exit"} :
        /\ WatcherGoto(w, step) /\ (step = "exit" => stop[w]) /\ wpc[w] \in {"building", "loop", "checking"}
  BY DEF FinishBuild, ObeyStop, Rebuild, ReadLeases, StayOn
<1>3. /\ bursts' \in 0 .. MaxBursts
      /\ seen' \in [AllWatchers -> [Sessions -> Pids \cup {Unknown, None}]]
      /\ found' \in [AllWatchers -> BOOLEAN] /\ leaseless' \in [AllWatchers -> BOOLEAN]
      /\ \A v \in AllWatchers \ {w} : seen'[v] = seen[v] /\ found'[v] = found[v] /\ leaseless'[v] = leaseless[v]
  <2>1. CASE FinishBuild(w) \/ ObeyStop(w)
    BY <1>1, <2>1 DEF TypeOK, FinishBuild, ObeyStop, loopVars
  <2>2. CASE Rebuild(w)
    BY <1>1, <2>2, BoundsAssumption DEF TypeOK, Rebuild, loopVars
  <2>3. CASE ReadLeases(w)
    BY <1>1, <2>3 DEF TypeOK, ReadLeases
  <2>4. CASE StayOn(w)
    <3>1. (w \in Watchers /\ ~found[w]) \in BOOLEAN
      OBVIOUS
    <3> QED
      BY <1>1, <2>4, <3>1 DEF TypeOK, StayOn
  <2> QED
    BY <2>1, <2>2, <2>3, <2>4
<1>4. step \in WatcherSteps /\ raced' \in BOOLEAN /\ (step = "exit" => ~Staying(w))
  BY <1>1, <1>2 DEF WatcherSteps, Staying, TypeOK
<1> QED
  BY <1>1, <1>2, <1>3, <1>4, WatcherFrame

LEMMA LeaseFoundKeeps ==
  ASSUME SessionsInv, NEW w \in AllWatchers, NEW s \in Sessions, KeepLease(w, s)
  PROVE  SessionsInv'
<1>1. TypeOK /\ UNCHANGED <<agents, lease, lock, status, cpc, wpc, stop, raced, bursts, leaseless>>
  BY DEF SessionsInv, KeepLease
<1>2. WatcherGoto(w, "checking") /\ wpc[w] = "checking"
  BY <1>1 DEF KeepLease, WatcherGoto, TypeOK
<1>3. /\ seen' \in [AllWatchers -> [Sessions -> Pids \cup {Unknown, None}]]
      /\ found' \in [AllWatchers -> BOOLEAN]
      /\ \A v \in AllWatchers \ {w} : seen'[v] = seen[v] /\ found'[v] = found[v]
  BY <1>1 DEF TypeOK, KeepLease
<1>4. bursts' \in 0 .. MaxBursts /\ raced' \in BOOLEAN /\ leaseless' \in [AllWatchers -> BOOLEAN]
      /\ "checking" \in WatcherSteps
  BY <1>1 DEF TypeOK, WatcherSteps
<1> QED
  BY <1>1, <1>2, <1>3, <1>4, WatcherFrame

(* A lease that is running out was nobody's, or the race is recorded.      *)
LEMMA LiveLeases ==
  ASSUME TypeOK, LeaseInv, ~raced, NEW s \in Sessions, agent[s] # None
  PROVE  LiveLease(lease[s])
  BY DEF TypeOK, LeaseInv, LiveLease, AgentAlive

LEMMA ReapLeaseKeeps ==
  ASSUME SessionsInv, NEW w \in AllWatchers, NEW s \in Sessions, ReapLease(w, s)
  PROVE  SessionsInv'
<1>1. /\ TypeOK /\ UNCHANGED <<agents, bursts, lock, status, cpc, wpc, stop, found, leaseless>>
      /\ raced' = (raced \/ LiveLease(lease[s])) /\ lease' = [lease EXCEPT ![s] = None] /\ wpc[w] = "checking"
  BY DEF SessionsInv, ReapLease
<1>2. /\ seen' \in [AllWatchers -> [Sessions -> Pids \cup {Unknown, None}]]
      /\ \A v \in AllWatchers \ {w} : seen'[v] = seen[v]
      /\ lease' \in [Sessions -> Pids \cup {Unknown, None}] /\ raced' \in BOOLEAN
  BY <1>1 DEF TypeOK, ReapLease, LiveLease
<1>3. TypeOK'
  BY <1>1, <1>2 DEF TypeOK, agents
<1>4. HolderInv' /\ StatusNamesWatcher'
  BY <1>1 DEF SessionsInv, HolderInv, Holding, StatusNamesWatcher, Watching
<1>5. LeaseInv'
  BY <1>1, LiveLeases DEF SessionsInv, LeaseInv, TypeOK, agents
<1>6. ServeInv'
  BY <1>1 DEF SessionsInv, ServeInv, Looking, Staying, agents
<1> QED
  BY <1>3, <1>4, <1>5, <1>6 DEF SessionsInv

LEMMA GiveUpKeeps ==
  ASSUME SessionsInv, NEW w \in AllWatchers, GiveUp(w)
  PROVE  SessionsInv'
<1>1. /\ TypeOK /\ LeaseInv /\ UNCHANGED <<agents, lease, bursts, lock, status, cpc, stop, loopVars>>
      /\ WatcherGoto(w, "exit") /\ wpc[w] = "checking"
      /\ raced' = (raced \/ \E s \in Sessions : LiveLease(lease[s]))
  BY DEF SessionsInv, GiveUp
<1>2. /\ UNCHANGED <<seen, found, leaseless>> /\ raced' \in BOOLEAN /\ (raced => raced')
      /\ "exit" \in WatcherSteps
  BY <1>1 DEF loopVars, WatcherSteps, TypeOK
<1>3. ~raced' => \A s \in Sessions : agent[s] = None
  BY <1>1, LiveLeases
<1> QED
  BY <1>1, <1>2, <1>3, WatcherFrame DEF TypeOK

LEMMA LockStepKeeps ==
  ASSUME SessionsInv, NEW w \in AllWatchers, TakeLock(w) \/ Announce(w) \/ RemoveStatus(w)
  PROVE  SessionsInv'
<1>1. TypeOK /\ UNCHANGED <<agents, lease, bursts, cpc, loopVars, raced>>
  BY DEF SessionsInv, TakeLock, Announce, RemoveStatus
<1>2. /\ wpc' \in [AllWatchers -> WatcherSteps] /\ \A v \in AllWatchers : v # w => wpc'[v] = wpc[v]
      /\ wpc'[w] = CASE wpc[w] = "spawned" -> "locked" [] wpc[w] = "locked" -> "building" [] OTHER -> "exited"
      /\ wpc[w] \in {"spawned", "locked", "exit"}
  BY <1>1 DEF TypeOK, TakeLock, Announce, RemoveStatus, WatcherGoto, WatcherSteps
<1>3. /\ stop' \in [AllWatchers -> BOOLEAN] /\ \A v \in AllWatchers : stop'[v] \in {stop[v], FALSE}
      /\ status' \in Statuses \cup {None} /\ lock' \in Clients \cup AllWatchers \cup {Free}
      /\ \A v \in AllWatchers : v # w => (lock' = v <=> lock = v) /\ stop'[v] = stop[v]
      /\ lock' = w
  <2>1. CASE TakeLock(w)
    BY <1>1, <2>1, ProcessesAssumption DEF TypeOK, TakeLock
  <2>2. wpc[w] \in {"locked", "exit"} => lock = w
    BY DEF SessionsInv, HolderInv, Holding, Watching
  <2>3. CASE Announce(w)
    BY <1>1, <2>2, <2>3 DEF TypeOK, Announce, Statuses
  <2>4. CASE RemoveStatus(w)
    BY <1>1, <2>2, <2>4 DEF TypeOK, RemoveStatus
  <2> QED
    BY <2>1, <2>3, <2>4
<1>4. TypeOK'
  BY <1>1, <1>2, <1>3 DEF TypeOK, agents, loopVars
<1>5. HolderInv'
  BY <1>2, <1>3 DEF SessionsInv, HolderInv, Holding, Watching
<1>6. StatusNamesWatcher'
  <2>1. CASE TakeLock(w)
    BY <1>1, <1>2, <1>3, <2>1 DEF SessionsInv, StatusNamesWatcher, Watching, TakeLock, HolderInv, Holding
  <2>2. CASE Announce(w) \/ RemoveStatus(w)
    <3>1. \A v \in AllWatchers : v # w => ~Watching(v)'
      BY <1>2, <1>3, <1>5, <2>2 DEF HolderInv, Holding
    <3>2. CASE Announce(w)
      <4>1. status' = [pid |-> w, exe |-> installed] /\ status' \in Statuses
        BY <1>1, <3>2 DEF Announce, Statuses, TypeOK
      <4>2. status' # None /\ status'.pid = w
        BY <4>1, NoStatusAssumption
      <4> QED
        BY <1>3, <3>1, <4>2 DEF StatusNamesWatcher
    <3>3. CASE RemoveStatus(w)
      <4>1. ~Watching(w)'
        BY <1>2, <3>3 DEF RemoveStatus, Watching
      <4> QED
        BY <3>1, <4>1 DEF StatusNamesWatcher
    <3> QED
      BY <2>2, <3>2, <3>3
  <2> QED
    BY <2>1, <2>2
<1>7. LeaseInv' /\ ServeInv'
  <2>1. \A v \in AllWatchers : Staying(v) => Staying(v)'
    BY <1>2, <1>3 DEF Staying
  <2> QED
    BY <1>1, <2>1 DEF SessionsInv, LeaseInv, ServeInv, Looking, agents
<1> QED
  BY <1>4, <1>5, <1>6, <1>7 DEF SessionsInv

(* A watcher that ends: everything but ServeInv depends on it alone. *)
LEMMA EndFrame ==
  ASSUME SessionsInv, NEW w \in AllWatchers, EndProcess(w),
         UNCHANGED <<agents, lease, bursts, status, cpc>>,
         raced' \in BOOLEAN, raced => raced',
         lock' = IF lock = w THEN Free ELSE lock
  PROVE  TypeOK' /\ HolderInv' /\ StatusNamesWatcher' /\ LeaseInv'
<1>1. TypeOK
  BY DEF SessionsInv
<1>2. /\ wpc' \in [AllWatchers -> WatcherSteps] /\ stop' \in [AllWatchers -> BOOLEAN]
      /\ seen' \in [AllWatchers -> [Sessions -> Pids \cup {Unknown, None}]]
      /\ found' \in [AllWatchers -> BOOLEAN] /\ leaseless' \in [AllWatchers -> BOOLEAN]
      /\ \A v \in AllWatchers \ {w} : /\ wpc'[v] = wpc[v] /\ stop'[v] = stop[v] /\ seen'[v] = seen[v]
                                      /\ found'[v] = found[v] /\ leaseless'[v] = leaseless[v]
      /\ wpc'[w] = "gone" /\ ~stop'[w] /\ seen'[w] = NoLeases /\ ~found'[w] /\ ~leaseless'[w]
  BY <1>1, EndTypes
<1>3. /\ lock' \in Clients \cup AllWatchers \cup {Free} /\ lock' # w
      /\ \A v \in AllWatchers \ {w} : lock' = v <=> lock = v
  BY <1>1, ProcessesAssumption DEF TypeOK
<1>4. TypeOK'
  <2>1. \A v \in AllWatchers : wpc'[v] \in {"unborn", "gone"} =>
          ~stop'[v] /\ seen'[v] = NoLeases /\ ~found'[v] /\ ~leaseless'[v] /\ lock' # v
    BY <1>1, <1>2, <1>3 DEF TypeOK
  <2> QED
    BY <1>1, <1>2, <1>3, <2>1 DEF TypeOK, agents
<1>5. HolderInv' /\ StatusNamesWatcher'
  BY <1>2, <1>3 DEF SessionsInv, HolderInv, Holding, StatusNamesWatcher, Watching
<1>6. LeaseInv'
  BY DEF SessionsInv, LeaseInv, agents
<1> QED
  BY <1>4, <1>5, <1>6

(* The watcher that finds the lock taken leaves it to one that will stay,  *)
(* or the race is recorded.                                                *)
LEMMA RejectedKeeps ==
  ASSUME SessionsInv, NEW w \in AllWatchers, Rejected(w)
  PROVE  SessionsInv'
<1>1. /\ TypeOK /\ EndProcess(w) /\ wpc[w] = "spawned" /\ lock # Free
      /\ UNCHANGED <<agents, lease, bursts, lock, status, cpc>>
      /\ raced' = (raced \/ lock \in Clients \/ (lock \in AllWatchers /\ Leaving(lock)))
  BY DEF SessionsInv, Rejected
<1>2. lock # w
  BY <1>1 DEF SessionsInv, HolderInv, Holding, Watching
<1>3. TypeOK' /\ HolderInv' /\ StatusNamesWatcher' /\ LeaseInv'
  <2>1. raced' \in BOOLEAN /\ (raced => raced')
    BY <1>1 DEF TypeOK
  <2> QED
    BY <1>1, <1>2, <2>1, EndFrame
<1>4. ServeInv'
  <2> SUFFICES ASSUME ~raced' PROVE \E v \in AllWatchers : Staying(v)'
    BY DEF ServeInv
  <2>1. lock \in AllWatchers /\ ~Leaving(lock)
    BY <1>1 DEF TypeOK
  <2>2. Staying(lock)
    BY <2>1 DEF SessionsInv, HolderInv, Holding, Watching, Leaving, Staying
  <2>3. wpc'[lock] = wpc[lock] /\ stop'[lock] = stop[lock]
    BY <1>1, <1>2, <2>1, EndTypes
  <2> QED
    BY <2>1, <2>2, <2>3 DEF Staying
<1> QED
  BY <1>3, <1>4 DEF SessionsInv

LEMMA DropLockKeeps ==
  ASSUME SessionsInv, NEW w \in AllWatchers, DropLock(w)
  PROVE  SessionsInv'
<1>1. /\ TypeOK /\ EndProcess(w) /\ wpc[w] = "exited" /\ lock' = Free
      /\ UNCHANGED <<agents, lease, bursts, status, cpc, raced>>
  BY DEF SessionsInv, DropLock
<1>2. lock = w
  BY <1>1 DEF SessionsInv, HolderInv, Holding
<1>3. TypeOK' /\ HolderInv' /\ StatusNamesWatcher' /\ LeaseInv'
  BY <1>1, <1>2, EndFrame DEF TypeOK
<1>4. \A v \in AllWatchers : Staying(v) => Staying(v)'
  <2>1. \A v \in AllWatchers \ {w} : wpc'[v] = wpc[v] /\ stop'[v] = stop[v]
    BY <1>1, EndTypes
  <2> QED
    BY <1>1, <2>1 DEF Staying
<1>5. ServeInv'
  BY <1>1, <1>4 DEF SessionsInv, ServeInv, Looking, agents
<1> QED
  BY <1>3, <1>5 DEF SessionsInv

LEMMA CrashKeeps ==
  ASSUME SessionsInv, NEW w \in AllWatchers, Crash(w)
  PROVE  SessionsInv'
<1>1. TypeOK' /\ HolderInv' /\ StatusNamesWatcher' /\ LeaseInv'
  BY EndFrame DEF Crash
<1>2. ServeInv'
  BY DEF Crash, ServeInv
<1> QED
  BY <1>1, <1>2 DEF SessionsInv

-----------------------------------------------------------------------------
LEMMA ClientStepKeeps ==
  ASSUME SessionsInv, NEW c \in Clients, ClientStep(c)
  PROVE  SessionsInv'
<1>1. CASE ProbeTakes(c) \/ ProbeReturns(c) \/ ProbeHeld(c) \/ Deadline(c) \/ FindNone(c)
  BY <1>1, ProbeKeeps
<1>2. CASE Attach(c)
  BY <1>2, AttachKeeps
<1>3. CASE Signal(c)
  BY <1>3, SignalKeeps
<1>4. CASE Spawn(c)
  BY <1>4, SpawnKeeps
<1> QED
  BY <1>1, <1>2, <1>3, <1>4 DEF ClientStep

LEMMA WatcherStepKeeps ==
  ASSUME SessionsInv, NEW w \in AllWatchers, WatcherStep(w)
  PROVE  SessionsInv'
<1>1. CASE TakeLock(w) \/ Announce(w) \/ RemoveStatus(w)
  BY <1>1, LockStepKeeps
<1>2. CASE Rejected(w)
  BY <1>2, RejectedKeeps
<1>3. CASE FinishBuild(w) \/ ObeyStop(w) \/ Rebuild(w) \/ ReadLeases(w) \/ StayOn(w)
  BY <1>3, WatchingKeeps
<1>4. CASE \E s \in Sessions : KeepLease(w, s) \/ ReapLease(w, s)
  BY <1>4, LeaseFoundKeeps, ReapLeaseKeeps
<1>5. CASE GiveUp(w)
  BY <1>5, GiveUpKeeps
<1>6. CASE DropLock(w)
  BY <1>6, DropLockKeeps
<1> QED
  BY <1>1, <1>2, <1>3, <1>4, <1>5, <1>6 DEF WatcherStep

LEMMA ExternalKeeps ==
  ASSUME SessionsInv, External
  PROVE  SessionsInv'
<1>1. CASE \E s \in Sessions : SessionStart(s) \/ SessionEnd(s) \/ KillAgent(s)
  BY <1>1, AgentKeeps
<1>2. CASE Upgrade
  BY <1>2, UpgradeKeeps
<1>3. CASE \E c \in Clients : LookForWatcher(c)
  BY <1>3, ProbeKeeps
<1>4. CASE \E w \in AllWatchers : StartByHand(w)
  <2>1. PICK w \in AllWatchers : StartByHand(w)
    BY <1>4
  <2>2. /\ wpc[w] = "unborn" /\ WatcherGoto(w, "spawned") /\ cpc' \in [Clients -> ClientSteps]
        /\ UNCHANGED <<agents, lease, bursts, lock, status, stop, loopVars, raced>>
    BY <2>1 DEF StartByHand, SessionsInv, TypeOK
  <2> QED
    BY <2>2, StartKeeps
<1>5. CASE \E w \in AllWatchers : Crash(w)
  BY <1>5, CrashKeeps
<1> QED
  BY <1>1, <1>2, <1>3, <1>4, <1>5 DEF External

LEMMA SessionsNextKeeps == SessionsInv /\ [Next]_vars => SessionsInv'
<1> SUFFICES ASSUME SessionsInv, [Next]_vars PROVE SessionsInv'
  OBVIOUS
<1>1. CASE UNCHANGED vars
  <2>1. TypeOK'
    BY <1>1 DEF vars, SessionsInv, TypeOK
  <2>2. HolderInv' /\ StatusNamesWatcher' /\ LeaseInv' /\ ServeInv'
    BY <1>1 DEF vars, SessionsInv, HolderInv, Holding, StatusNamesWatcher, Watching, LeaseInv,
                ServeInv, Looking, Staying
  <2> QED
    BY <2>1, <2>2 DEF SessionsInv
<1>2. CASE External
  BY <1>2, ExternalKeeps
<1>3. CASE \E c \in Clients : ClientStep(c)
  BY <1>3, ClientStepKeeps
<1>4. CASE \E w \in AllWatchers : WatcherStep(w)
  BY <1>4, WatcherStepKeeps
<1> QED
  BY <1>1, <1>2, <1>3, <1>4 DEF Next

(* In every behaviour of agents, hooks, searches, stop commands and        *)
(* watchers: the lock is held by the one watcher between taking and        *)
(* leaving it, watch.json names it once announced, a running agent's lease *)
(* is there and a watcher stays for it or a hook is at work, unless a race *)
(* is on record.                                                           *)
THEOREM SessionsInvariance == Spec => []SessionsInv
<1> QED
  BY InitSessions, SessionsNextKeeps, PTL DEF Spec

(* The state of the daemon protocol keeps its shape; a process that is not *)
(* there holds no lock and remembers nothing.                              *)
THEOREM SessionsTypeCorrect == Spec => []TypeOK
<1>1. SessionsInv => TypeOK
  BY DEF SessionsInv
<1> QED
  BY <1>1, SessionsInvariance, PTL

(* At most one watcher serves a repository, and watch.json is its own from *)
(* its announcement to its exit, whatever crashes, upgrades and probes of  *)
(* the lock come between: run_watch, running() and stop() agree on it.     *)
THEOREM StatusNamesTheWatcher == Spec => []StatusNamesWatcher
<1>1. SessionsInv => StatusNamesWatcher
  BY DEF SessionsInv
<1> QED
  BY <1>1, SessionsInvariance, PTL

(* The races on record are the only ways a session is left without a       *)
(* watcher, for any number of sessions, searches, watchers and upgrades.   *)
THEOREM ServedUnlessARace == Spec => []ServedUnlessRaced
<1>1. SessionsInv => ServedUnlessRaced
  BY DEF SessionsInv, ServeInv, Looking, ServedUnlessRaced, Served
<1> QED
  BY <1>1, SessionsInvariance, PTL
===============================================================================
