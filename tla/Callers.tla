------------------------------- MODULE Callers -------------------------------
(***************************************************************************)
(* What whoever searches an index is promised, whether through the MCP     *)
(* server (src/mcp.rs), whose freshness and whose protocol have a module   *)
(* each, or by the command line (src/cli.rs).                              *)
(***************************************************************************)
EXTENDS McpRefresh, McpProtocol, SearchCommand

CallersSpec == ServerSpec /\ ProtocolSpec /\ CommandSpec

(* The server answers from the tree as it is, and each call as it asked:   *)
(* AnswersAreExact, ProtocolIsSound; the command from the nearest index,   *)
(* ranked as asked, with locations that open: CommandIsSound.              *)
CallsAreAnswered == AnswersAreExact /\ ProtocolIsSound /\ CommandIsSound
===============================================================================
