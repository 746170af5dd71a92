---------------------------- MODULE MCSegmentStore ----------------------------
(* Small instances of SegmentStore. *)
EXTENDS SegmentStore, TLC

CONSTANTS w1, w2, a, b, x, y

Symmetry == Permutations(Writers)

Doc(id, body) == [id |-> id, body |-> body]

(* New, changed and unchanged documents, an id twice in one batch. *)
MCBatches == {<<Doc(a, x)>>, <<Doc(a, y), Doc(b, x)>>, <<Doc(a, x), Doc(a, y)>>}

Nothing == [n \in Names |-> {}]

FreshDisk == [manifest |-> NoManifest, dirs |-> [n \in Names |-> Absent], tombs |-> Nothing]

(* Left by an older writer: tombstones set in place and the cached count   *)
(* not yet lowered, a segment interrupted while it was built.              *)
LegacyDisk ==
  [manifest |-> [exists |-> TRUE, next |-> 1, segs |-> <<[name |-> 0, live |-> 2]>>],
   dirs     |-> [n \in Names |->
                   CASE n = 0 -> [stage |-> "complete", docs |-> <<Doc(a, x), Doc(b, x)>>]
                     [] n = 1 -> Partial
                     [] OTHER -> Absent],
   tombs    |-> [n \in Names |-> CASE n = 0 -> {1} [] n = 1 -> {1} [] OTHER -> {}]]

MCInitialDisks == {FreshDisk, LegacyDisk}
===============================================================================
