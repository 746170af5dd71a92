----------------------------- MODULE MCWatchLoop -----------------------------
(* Files whose edits change a chunk's text, move a chunk or add one.       *)
EXTENDS WatchLoop

CONSTANTS f, g, x, y, q1, q2

MCChunksOf == <<{[slot |-> 1, body |-> x]}, {[slot |-> 1, body |-> y]}, {[slot |-> 2, body |-> x], [slot |-> 1, body |-> y]}>>
===============================================================================
