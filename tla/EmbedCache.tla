------------------------------ MODULE EmbedCache ------------------------------
(***************************************************************************)
(* The content cache of src/embcache.rs: the vector of every text that was *)
(* encoded, and its code under the quantizer of the cache.                 *)
(*                                                                         *)
(* What the encoder makes of a text is that text, and so is its key; a     *)
(* quantizer is known by the vectors it was trained on.                    *)
(***************************************************************************)
EXTENDS Integers, Sequences, SequencesExt, FiniteSets, FiniteSetsExt, Functions, TLC

CONSTANTS Contents,  \* the texts
          Damaged,   \* a vector that is not finite or not of length 1
          NoCode

ASSUME CacheAssumption == Damaged \notin Contents /\ NoCode \notin Contents

NoCache == [quantizer |-> <<>>, entries |-> <<>>]

(* Entries with a damaged vector are not loaded.                           *)
Loadable(c) == [c EXCEPT !.entries = Restrict(@, {k \in DOMAIN @ : @[k].vector # Damaged})]

Insert(c, keys) ==
  [c EXCEPT !.entries = [k \in keys \cup DOMAIN @ |-> IF k \in keys THEN [vector |-> k, code |-> NoCode] ELSE @[k]]]

Misses(c, texts) == ToSet(texts) \ DOMAIN c.entries

(* Mutation of SetQuantizer: a cache that has a quantizer keeps it.        *)
SetQuantizerOnce(c, q) == IF c.quantizer = <<>> THEN [c EXCEPT !.quantizer = q] ELSE c

SetQuantizer(c, q) ==
  IF c.quantizer = q THEN c
  ELSE [quantizer |-> q, entries |-> [k \in DOMAIN c.entries |-> [c.entries[k] EXCEPT !.code = NoCode]]]

SetCodes(c, codeOf) ==
  [c EXCEPT !.entries = [k \in DOMAIN @ |-> IF k \in DOMAIN codeOf THEN [@[k] EXCEPT !.code = codeOf[k]] ELSE @[k]]]

RetainKeys(c, live) == [c EXCEPT !.entries = Restrict(@, DOMAIN @ \cap live)]

CodeOf(q, vector) == <<q, vector>>
===============================================================================
