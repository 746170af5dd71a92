----------------------------- MODULE McpRefresh -----------------------------
(***************************************************************************)
(* Freshness in the MCP server (src/mcp.rs): before each search it decides *)
(* from its own dirty flag, the build.pending marker and repo.json's mtime *)
(* whether to build, to reopen, or to answer from the view it has open.    *)
(* Another process, the background watcher or index-repo, builds the same  *)
(* index; .rebuild.lock keeps their builds apart, and nothing else.        *)
(***************************************************************************)
EXTENDS RepoBuild

CONSTANTS Watching,   \* does the server watch the tree (not --no-watch)?
          MaxOthers   \* bound: builds by other processes

ASSUME ServerAssumption == Watching \in BOOLEAN /\ MaxOthers \in Nat

VARIABLES
  inbox,    \* an event for the server is not yet delivered
  dirty,    \* its dirty flag
  builder,  \* who holds .rebuild.lock: "server", "other" or "nobody"
  others,   \* how many builds other processes have begun
  mpc,      \* what the server does next
  due,      \* Server::refresh_pending
  opened,   \* Server::index is there
  view,     \* the rows it has open
  current,  \* repo.json has the modification time in Server::manifest_mtime
  asked     \* history: every edit had been delivered when the flag was
            \* tested, and the tree has not changed since

serverVars == <<inbox, dirty, builder, others, mpc, due, opened, view, current, asked>>
mcpVars    == <<vars, serverVars>>

ServerTypeOK ==
  /\ TypeOK
  /\ inbox \in BOOLEAN /\ dirty \in BOOLEAN /\ current \in BOOLEAN
  /\ builder \in {"server", "other", "nobody"}
  /\ others \in 0 .. MaxOthers
  /\ mpc \in {"start", "started", "ready", "wait", "building", "open", "stat", "answer"}
  /\ due \in BOOLEAN /\ opened \in BOOLEAN /\ asked \in BOOLEAN
  /\ view \subseteq Rows
  /\ bpc # "idle" <=> builder # "nobody"
  /\ builder = "server" => mpc = "building" /\ due

ServerInit ==
  /\ Init
  /\ inbox = FALSE /\ dirty = FALSE
  /\ builder = "nobody" /\ others = 0
  /\ mpc = "start" /\ due = Watching
  /\ opened = FALSE /\ view = {} /\ current = TRUE /\ asked = FALSE

EditTree(f) ==
  /\ Edit(f)
  /\ inbox' = (inbox \/ (Watching /\ mpc # "start"))
  /\ asked' = FALSE
  /\ UNCHANGED <<dirty, builder, others, mpc, due, opened, view, current>>

Deliver ==
  /\ inbox
  /\ inbox' = FALSE /\ dirty' = TRUE
  /\ UNCHANGED <<vars, builder, others, mpc, due, opened, view, current, asked>>

-----------------------------------------------------------------------------
(* Builds, by whoever holds .rebuild.lock. *)

OtherBegins ==
  /\ builder = "nobody" /\ others < MaxOthers
  /\ Begin
  /\ builder' = "other" /\ others' = others + 1
  /\ UNCHANGED <<inbox, dirty, mpc, due, opened, view, current, asked>>

(* Mutation of ServerBegins: the refresh is no longer due once it begins.  *)
ServerBeginsOnce ==
  /\ mpc = "wait" /\ builder = "nobody"
  /\ Begin
  /\ builder' = "server" /\ mpc' = "building"
  /\ due' = FALSE
  /\ UNCHANGED <<inbox, dirty, others, opened, view, current, asked>>

ServerBegins ==
  /\ mpc = "wait" /\ builder = "nobody"
  /\ Begin
  /\ builder' = "server" /\ mpc' = "building"
  /\ UNCHANGED <<inbox, dirty, others, due, opened, view, current, asked>>

(* The end of a build frees the lock; replacing repo.json gives it a new   *)
(* modification time.                                                      *)
Released == builder' = IF bpc' = "idle" THEN "nobody" ELSE builder

BuildStep ==
  /\ Build /\ Released
  /\ mpc' = IF builder = "server" /\ bpc' = "idle"
            THEN IF KeepIndex \/ ClearPending THEN "open" ELSE "ready"
            ELSE mpc
  /\ current' = (current /\ bpc # "save")
  /\ UNCHANGED <<inbox, dirty, others, due, opened, view, asked>>

BuildFails ==
  /\ Fail /\ Released
  /\ mpc' = IF builder = "server" THEN "ready" ELSE mpc
  /\ UNCHANGED <<inbox, dirty, others, due, opened, view, current, asked>>

-----------------------------------------------------------------------------
(* Server *)

(* An index that is there is opened; then the watch begins, and the        *)
(* modification time is read.                                              *)
Start ==
  /\ mpc = "start"
  /\ opened' = (inventory # NoInventory)
  /\ view' = IF opened' THEN live ELSE {}
  /\ mpc' = "started"
  /\ UNCHANGED <<vars, inbox, dirty, builder, others, due, current, asked>>

FinishStart ==
  /\ mpc = "started"
  /\ current' = TRUE
  /\ mpc' = "ready"
  /\ UNCHANGED <<vars, inbox, dirty, builder, others, due, opened, view, asked>>

(* ensure_fresh; a build that is due anyway leaves the flag up.  A build   *)
(* that fails fails the call and stays due.                                *)
Due == due \/ pending

EnsureFresh ==
  /\ mpc = "ready"
  /\ dirty' = (dirty /\ Due)
  /\ due' = (Due \/ dirty \/ ~opened)
  /\ mpc' = IF due' THEN "wait" ELSE IF current THEN "answer" ELSE "open"
  /\ asked' = ~inbox
  /\ UNCHANGED <<vars, inbox, builder, others, opened, view, current>>

(* The reindex tool builds whatever the flag says.                         *)
Reindex ==
  /\ mpc = "ready"
  /\ dirty' = FALSE /\ due' = TRUE
  /\ mpc' = "wait"
  /\ asked' = ~inbox
  /\ UNCHANGED <<vars, inbox, builder, others, opened, view, current>>

(* wait_for_file_lock gives up after its deadline: the call fails.         *)
GiveUp ==
  /\ mpc = "wait" /\ builder = "other"
  /\ mpc' = "ready"
  /\ UNCHANGED <<vars, inbox, dirty, builder, others, due, opened, view, current, asked>>

OpenIndex ==
  /\ mpc = "open"
  /\ view' = live /\ opened' = TRUE
  /\ mpc' = "stat"
  /\ UNCHANGED <<vars, inbox, dirty, builder, others, due, current, asked>>

(* The modification time is read once the index is open.                   *)
ReadMtime ==
  /\ mpc = "stat"
  /\ current' = TRUE
  /\ due' = FALSE
  /\ mpc' = "answer"
  /\ UNCHANGED <<vars, inbox, dirty, builder, others, opened, view, asked>>

Answer ==
  /\ mpc = "answer"
  /\ mpc' = "ready"
  /\ UNCHANGED <<vars, inbox, dirty, builder, others, due, opened, view, current, asked>>

Server == Start \/ FinishStart \/ EnsureFresh \/ Reindex \/ GiveUp \/ OpenIndex \/ ReadMtime \/ Answer

ServerNext ==
  \/ \E f \in Files : EditTree(f)
  \/ Deliver \/ OtherBegins \/ ServerBegins \/ BuildStep \/ BuildFails \/ Server

ServerSpec == ServerInit /\ [][ServerNext]_mcpVars

-----------------------------------------------------------------------------
(* Properties *)

(* A search asked of a watching server when every edit had been delivered, *)
(* the tree still unchanged, is answered from exactly that tree, whatever  *)
(* builds failed before it and whatever another process did meanwhile.     *)
AnswersAreExact ==
  mpc = "answer" /\ asked /\ Watching =>
    view = UNION {RowsOf(f, Text(tree[f])) : f \in Files}

(* "a changed mtime means reopen": a server that sees no reason to build   *)
(* or to reopen has the latest index open.                                 *)
UnchangedMeansLatest ==
  mpc = "ready" /\ opened /\ current /\ ~Due /\ builder = "nobody" => view = live
===============================================================================
