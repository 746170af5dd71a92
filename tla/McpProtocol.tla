----------------------------- MODULE McpProtocol -----------------------------
(***************************************************************************)
(* The protocol of the MCP server (src/mcp.rs): lines of JSON-RPC, single  *)
(* messages or batches, each message answered by its id or not at all; the *)
(* calls of tools, what they check before they build, build before they    *)
(* search and repair before they rank; and the progress that a build       *)
(* reports to the token of the call that caused it.                        *)
(*                                                                         *)
(* McpRefresh says when an index is fresh; here it is due or not, and a    *)
(* build may fail at any report, or leave vectors invalid.                 *)
(***************************************************************************)
EXTENDS Integers, Sequences, SequencesExt, FiniteSetsExt

CONSTANTS
  Lines,      \* what a client may send: [kind, items], see Parsed
  Embeds,     \* BuildOpts::embed
  MaxSent,    \* bound: lines sent
  MaxMishaps  \* bound: edits, damaged vectors and other processes' builds

NoId == "none"
Null == "null"
NoToken == "none"

ASSUME ProtocolAssumption == Embeds \in BOOLEAN /\ MaxSent \in Nat /\ MaxMishaps \in Nat

(* A message is of a method, known or not, or no object at all; a call is  *)
(* of a tool, known or not, or of none.  MCP wants the tokens of requests  *)
(* under way to differ: the calls of a line have tokens of their own.      *)
ASSUME LinesAssumption ==
  \A l \in Lines :
    /\ l.items \in Seq({l.items[i] : i \in DOMAIN l.items})
    /\ \A i \in DOMAIN l.items :
         /\ l.items[i].method \in {"scalar", "initialize", "tools/list", "ping", "unknown", "tools/call"}
         /\ l.items[i].method = "tools/call" =>
              l.items[i].tool \in {"none", "search_code", "index_status", "reindex", "unknown"}
    /\ \A i, j \in DOMAIN l.items :
         /\ l.items[i].method = "tools/call" /\ l.items[j].method = "tools/call"
         /\ l.items[i].args.token = l.items[j].args.token /\ l.items[i].args.token # NoToken
         => i = j

VARIABLES
  indexed,    \* the index open: "none", "lexical" or "hybrid" (Manifest::embedded)
  invalid,    \* has it vectors of live documents that are invalid?
  outdated,   \* refresh_pending, build.pending or the watcher's flag
  latest,     \* what another process has put in place since; "none" for nothing
  line,       \* the line last read
  messages,   \* its messages yet to be handled
  replies,    \* the responses to those handled
  call,       \* the tool call under way, or NoCall
  sink,       \* the token of RepoIndexer::progress, or NoToken
  sent,       \* the notifier's state: the last value and its phase
  phase,      \* what the build under way reports next; "none" without one
  found,      \* last_search
  wire,       \* what was written since the line was read
  sends,      \* how many lines were read
  mishaps     \* how many mishaps there were

indexState == <<indexed, invalid, outdated, latest, mishaps>>
lineState  == <<line, messages, replies, wire, sends>>
notifier   == <<sink, sent, phase>>
protocolVars == <<indexState, lineState, notifier, call, found>>

NoCall  == [stage |-> "none"]
NoLine  == [kind |-> "batch", items |-> <<>>]
NoSearch == [mode |-> "none", success |-> FALSE]

ProtocolRests ==
  /\ latest = "none" /\ line = NoLine /\ messages = <<>> /\ replies = <<>> /\ wire = <<>> /\ sends = 0 /\ mishaps = 0
  /\ call = NoCall /\ found = NoSearch
  /\ sink = NoToken /\ sent = [value |-> -100, phase |-> "none"] /\ phase = "none"

ProtocolInit ==
  /\ indexed \in {"none", "lexical", "hybrid"}
  /\ invalid \in {FALSE, indexed = "hybrid"} /\ outdated \in BOOLEAN
  /\ ProtocolRests

HybridEnabled == indexed = "hybrid" /\ Embeds

-----------------------------------------------------------------------------
(* What happens to the index between two calls.                            *)

AtRest == messages = <<>> /\ call = NoCall /\ replies = <<>>

Mishap ==
  /\ call = NoCall /\ (messages # <<>> \/ sends < MaxSent) /\ mishaps < MaxMishaps
  /\ \/ outdated' = TRUE /\ UNCHANGED <<latest, invalid>>
     \/ latest' \in {"lexical", "hybrid"} /\ UNCHANGED <<outdated, invalid>>
     \/ indexed = "hybrid" /\ invalid' = TRUE /\ UNCHANGED <<outdated, latest>>
  /\ mishaps' = mishaps + 1
  /\ UNCHANGED <<indexed, lineState, notifier, call, found>>

-----------------------------------------------------------------------------
(* serve, handle_line *)

Reply(id, out) == [kind |-> "reply", id |-> id, out |-> out]
Refusal(id)    == Reply(id, [of |-> "error"])

(* What is no message but refused as a whole.                              *)
Unread(l) == l.kind = "garbage" \/ (l.kind = "batch" /\ l.items = <<>>)

ReadLine ==
  /\ AtRest /\ sends < MaxSent
  /\ \E l \in Lines :
       /\ line' = l /\ sends' = sends + 1
       /\ messages' = IF Unread(l) THEN <<>> ELSE l.items
       /\ wire' = IF Unread(l) THEN <<[kind |-> "line", items |-> <<Refusal(Null)>>]>> ELSE <<>>
  /\ UNCHANGED <<indexState, notifier, call, found, replies>>

(* One message answered: the answers to a batch go out together, after its *)
(* last.                                                                   *)
Answered(answer) ==
  LET all == replies \o answer
  IN  /\ messages' = Tail(messages)
      /\ replies' = IF Len(messages) = 1 THEN <<>> ELSE all
      /\ wire' = IF Len(messages) = 1 /\ all # <<>>
                 THEN Append(wire, [kind |-> "line", items |-> all]) ELSE wire
      /\ UNCHANGED <<line, sends>>

(* handle_message of what needs no tool; a message without an id is not    *)
(* even run.                                                               *)
Version(asked) == IF asked \in {"new", "older", "oldest"} THEN asked ELSE "new"
Modes == IF HybridEnabled THEN {"hybrid", "lexical", "semantic"} ELSE {"lexical"}

Handle ==
  /\ messages # <<>> /\ call = NoCall
  /\ LET m == Head(messages)
     IN  /\ m.method # "tools/call" \/ m.id = NoId
         /\ Answered(
              CASE m.method = "scalar"     -> <<Refusal(Null)>>
                [] m.method # "scalar" /\ m.id = NoId -> <<>>
                [] m.method = "initialize" /\ m.id # NoId -> <<Reply(m.id, [of |-> "version", is |-> Version(m.asked)])>>
                [] m.method = "tools/list" /\ m.id # NoId -> <<Reply(m.id, [of |-> "tools", is |-> Modes])>>
                [] m.method = "ping" /\ m.id # NoId -> <<Reply(m.id, [of |-> "pong"])>>
                [] m.method = "unknown" /\ m.id # NoId -> <<Refusal(m.id)>>)
  /\ UNCHANGED <<indexState, notifier, call, found>>

-----------------------------------------------------------------------------
(* on_tools_call: a call of no tool and a flag that is none are refused    *)
(* before anything else; the token becomes the sink of the builds this     *)
(* call causes.                                                            *)

Calls == messages # <<>> /\ call = NoCall /\ Head(messages).method = "tools/call" /\ Head(messages).id # NoId

Outcome(of, mode, structured) ==
  [of |-> of, mode |-> mode, structured |-> structured, builds |-> 0, last |-> NoSearch, sound |-> TRUE]

RefuseCall ==
  /\ Calls
  /\ LET m == Head(messages)
     IN  \/ m.tool = "none" /\ Answered(<<Refusal(m.id)>>)
         \/ m.tool # "none" /\ m.args.verbose = "bad" /\ Answered(<<Reply(m.id, Outcome("failure", "none", FALSE))>>)
  /\ UNCHANGED <<indexState, notifier, call, found>>

BeginCall ==
  /\ Calls /\ Head(messages).tool # "none" /\ Head(messages).args.verbose # "bad"
  /\ LET m == Head(messages)
     IN  /\ call' = [stage |-> m.tool, id |-> m.id, args |-> m.args, builds |-> 0, then |-> "none", tool |-> m.tool]
         /\ found' = IF m.tool = "search_code" THEN [mode |-> m.args.mode, success |-> FALSE] ELSE found
         /\ IF m.args.token # NoToken
            THEN sink' = m.args.token /\ sent' = [value |-> -100, phase |-> "none"]
            ELSE UNCHANGED <<sink, sent>>
  /\ UNCHANGED <<indexState, lineState, phase>>

(* diagnostics, if asked for: what last_search says by then.               *)
Diagnosed == IF call.args.verbose = "yes" THEN found' ELSE NoSearch

(* The result of a call; and, for the properties, what was built and       *)
(* whether all vectors were valid.                                         *)
Result(of, mode, structured) ==
  [Outcome(of, mode, structured) EXCEPT !.builds = call.builds, !.sound = ~invalid, !.last = Diagnosed]

Finish(of, mode, structured) ==
  /\ Answered(<<Reply(call.id, Result(of, mode, structured))>>)
  /\ call' = NoCall /\ phase' = "none"
  /\ sink' = NoToken /\ UNCHANGED sent

CallFails == UNCHANGED <<indexState, found>> /\ Finish("failure", "none", FALSE)

Goes(stage) == call' = [call EXCEPT !.stage = stage]

(* What tool_search accepts: a query, this root, flags and numbers that    *)
(* are some, a mode it knows.                                              *)
Accepted == call.args.valid

(* dispatch *)
Dispatch ==
  \/ /\ call.stage = "search_code" /\ Accepted
     /\ Goes("fresh") /\ UNCHANGED <<indexState, lineState, notifier, found>>
  \/ /\ call.stage = "index_status"
     /\ Goes(IF call.args.valid THEN "fresh" ELSE "report") /\ UNCHANGED <<indexState, lineState, notifier, found>>
  \/ /\ call.stage = "reindex"
     /\ outdated' = TRUE /\ phase' = "scanning"
     /\ call' = [call EXCEPT !.stage = "building", !.then = "report", !.builds = 1]
     /\ UNCHANGED <<indexed, invalid, latest, mishaps, lineState, sink, sent, found>>
  \/ call.stage = "unknown" /\ CallFails
  \/ call.stage = "search_code" /\ ~Accepted /\ CallFails

-----------------------------------------------------------------------------
(* A build and what it reports.  Values are hundredths of a hundred.       *)

Scale(p) == CASE p = "scanning" -> <<0, 100>> [] p = "chunking" -> <<100, 400>>
              [] p = "model" -> <<400, 600>>  [] p = "encoding" -> <<600, 9900>>

(* progress_notifier: what is told of a report, if anything.  Within a     *)
(* phase a report may be too early to be told.                             *)
Told(p, done, total) ==
  LET lo == Scale(p)[1]  hi == Scale(p)[2]
      value == Max({lo + (IF total = 0 THEN 0 ELSE ((hi - lo) * done) \div total), sent.value})
  IN  IF sent.phase = p THEN (IF value > sent.value THEN {value} ELSE {})
      ELSE {IF value > sent.value THEN value ELSE Min({sent.value + 1, hi})}

Report(p, done, total) ==
  \/ /\ sink # NoToken
     /\ \E value \in Told(p, done, total) :
          /\ sent' = [value |-> value, phase |-> p]
          /\ wire' = Append(wire, [kind |-> "progress", token |-> sink, value |-> value, build |-> call.builds])
     /\ UNCHANGED <<line, messages, replies, sends, sink>>
  \/ /\ sink = NoToken \/ Told(p, done, total) = {} \/ sent.phase = p
     /\ UNCHANGED <<lineState, sink, sent>>

(* The phases of one build: of an unchanged tree no more than the walk; of *)
(* no new text no encoding; the encoder is loaded for the first; two       *)
(* windows, and another segment's texts once those of one are encoded.     *)
After(p) ==
  CASE p = "scanning" -> {"chunking", "done"}
    [] p = "chunking" -> {"model", "encode0", "done"}
    [] p = "model"    -> {"encode0"}
    [] p = "encode0" -> {"encode1"}
    [] p = "encode1" -> {"encode2"}
    [] p = "encode2" -> {"encode0", "done"}
Encoded(p) == CASE p = "encode0" -> 0 [] p = "encode1" -> 1 [] p = "encode2" -> 2

BuildReports ==
  /\ call.stage = "building" /\ phase \notin {"none", "done"}
  /\ IF phase \in {"scanning", "chunking", "model"} THEN Report(phase, 0, IF phase = "chunking" THEN 2 ELSE 0)
     ELSE Report("encoding", Encoded(phase), 2)
  /\ phase' \in After(phase)
  /\ UNCHANGED <<indexState, call, found>>

BuildBreaks == call.stage = "building" /\ phase # "none" /\ CallFails

(* rebuild_with: what it leaves is opened, and nothing is due any more.    *)
BuildEnds ==
  /\ call.stage = "building" /\ phase = "done"
  /\ indexed' = IF Embeds THEN "hybrid" ELSE "lexical"
  /\ invalid' \in {FALSE, Embeds}
  /\ outdated' = FALSE /\ latest' = "none"
  /\ phase' = "none" /\ Goes(call.then)
  /\ UNCHANGED <<lineState, sink, sent, found, mishaps>>

-----------------------------------------------------------------------------
(* ensure_fresh, with the repair that all but lexical searches want.       *)

Builds(then) ==
  /\ call' = [call EXCEPT !.stage = "building", !.then = then, !.builds = @ + 1]
  /\ phase' = "scanning"

WantsVectors == call.tool = "search_code" /\ call.args.mode # "lexical"

FreshenIndex ==
  /\ call.stage = "fresh"
  /\ \/ /\ outdated \/ indexed = "none"
        /\ outdated' = TRUE /\ Builds("repair")
        /\ UNCHANGED <<indexed, invalid, latest>>
     \/ /\ ~outdated /\ indexed # "none" /\ latest # "none"
        /\ indexed' = latest /\ latest' = "none" /\ invalid' \in {FALSE, latest = "hybrid"}
        /\ Goes("repair") /\ UNCHANGED <<outdated, phase>>
     \/ /\ ~outdated /\ indexed # "none" /\ latest = "none"
        /\ Goes("repair") /\ UNCHANGED <<indexed, invalid, outdated, latest, phase>>
  /\ UNCHANGED <<mishaps, lineState, sink, sent, found>>

Repair ==
  \/ /\ call.stage = "repair"
     /\ IF WantsVectors /\ HybridEnabled /\ invalid THEN Builds("check")
        ELSE Goes(IF call.tool = "search_code" THEN "retrieve" ELSE "report") /\ UNCHANGED phase
     /\ UNCHANGED <<indexState, lineState, sink, sent, found>>
  \/ /\ call.stage = "check" /\ ~invalid
     /\ Goes("retrieve") /\ UNCHANGED <<indexState, lineState, notifier, found>>
  \/ call.stage = "check" /\ invalid /\ CallFails    \* results withheld

-----------------------------------------------------------------------------
(* tool_search, tool_status *)

EffectiveMode == IF call.args.mode # "auto" THEN call.args.mode ELSE IF HybridEnabled THEN "hybrid" ELSE "lexical"

Succeeds(mode) ==
  /\ found' = [mode |-> call.args.mode, success |-> TRUE]
  /\ Finish("hits", mode, call.args.structured)
  /\ UNCHANGED indexState

(* retrieve: by words, or by meaning if the index can.                     *)
Lexically == call.args.mode = "lexical" \/ (call.args.mode = "auto" /\ ~HybridEnabled)

(* A glob that selects no file is reported as such, in whatever mode.      *)
Unmatched == call.args.glob = "unmatched"

(* By meaning it fails without vectors, without an encoder, or with a      *)
(* score that is no number.                                                *)
Retrieve ==
  /\ call.stage = "retrieve"
  /\ \/ (Unmatched \/ Lexically \/ HybridEnabled) /\ Succeeds(EffectiveMode)
     \/ ~Unmatched /\ ~Lexically /\ CallFails

ReportStatus ==
  /\ call.stage = "report"
  /\ UNCHANGED <<indexState, found>>
  /\ Finish("status", "none", FALSE)

ProtocolNext ==
  \/ Mishap \/ ReadLine \/ Handle \/ RefuseCall \/ BeginCall \/ Dispatch
  \/ BuildReports \/ BuildBreaks \/ BuildEnds \/ FreshenIndex \/ Repair \/ Retrieve \/ ReportStatus

ProtocolSpec == ProtocolInit /\ [][ProtocolNext]_protocolVars

-----------------------------------------------------------------------------
(* Properties *)

(* What a line asks: what is no message counts as one that is no object.   *)
Asked(l) == IF Unread(l) THEN <<[id |-> NoId, method |-> "scalar"]>> ELSE l.items

(* What must be answered, with which id, and as which in turn.             *)
IsDue(m)    == m.id # NoId \/ m.method = "scalar"
IdOf(m)     == IF m.method = "scalar" THEN Null ELSE m.id
Turn(ms, i) == Cardinality({j \in 1 .. i : IsDue(ms[j])})

Written(kind) == {i \in DOMAIN wire : wire[i].kind = kind}

(* "A client waiting on a malformed request would block forever on         *)
(* silence": once a line is handled it is answered by one line, with the   *)
(* id of every request in it and in their order, or by none if it holds    *)
(* notifications alone; nothing follows the answer.                        *)
AnsweredByIds ==
  AtRest /\ sends > 0 =>
    LET ms    == Asked(line)
        items == wire[Len(wire)].items
    IN  IF Turn(ms, Len(ms)) = 0 THEN Written("line") = {}
        ELSE /\ Written("line") = {Len(wire)} /\ Len(items) = Turn(ms, Len(ms))
             /\ \A i \in DOMAIN ms : IsDue(ms[i]) => items[Turn(ms, i)].id = IdOf(ms[i])

(* "MCP requires each token's progress to increase": a build tells the     *)
(* token of the call that causes it and no other, ever more, whatever it   *)
(* finds to encode; a token hears nothing after its call is answered.      *)
ProgressIncreases ==
  /\ \A i \in Written("progress") : \E j \in DOMAIN line.items :
       line.items[j].method = "tools/call" /\ line.items[j].args.token = wire[i].token
  /\ \A i, j \in Written("progress") :
       i < j /\ wire[i].token = wire[j].token /\ wire[i].build = wire[j].build => wire[i].value < wire[j].value
  /\ AtRest => sink = NoToken

(* "Failed semantic execution is a tool error, never a successful lexical  *)
(* response": hits are in the mode asked for, and ranked by meaning only   *)
(* if no vector is invalid, or no file was to be searched; what a call is  *)
(* refused for, it builds nothing for; and last_search is of the search    *)
(* just answered.                                                          *)
AsAsked(m, out) ==
  /\ out.of = "hits" =>
       /\ m.args.mode \in {"auto", out.mode} /\ m.args.structured = out.structured
       /\ out.mode # "lexical" => IF Embeds THEN out.sound ELSE m.args.glob = "unmatched"
  /\ m.tool = "search_code" /\ ~m.args.valid => out.of = "failure" /\ out.builds = 0
  /\ m.args.verbose = "yes" /\ m.tool = "search_code" =>
       out.last = [mode |-> m.args.mode, success |-> out.of = "hits"]

SearchesAsAsked ==
  AtRest =>
    \A i \in DOMAIN Asked(line) :
      LET m == Asked(line)[i]
      IN  m.method = "tools/call" /\ m.id # NoId /\ m.tool # "none" =>
            \A k \in Written("line") : AsAsked(m, wire[k].items[Turn(Asked(line), i)].out)

ProtocolIsSound == AnsweredByIds /\ ProgressIncreases /\ SearchesAsAsked
===============================================================================
