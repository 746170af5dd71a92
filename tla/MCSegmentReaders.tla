--------------------------- MODULE MCSegmentReaders ---------------------------
(* A writer and a reader on an index an older writer left with one document *)
(* deleted, or on a fresh directory.                                        *)
EXTENDS SegmentReaders

CONSTANTS a, b, x

Doc(id, body) == [id |-> id, body |-> body]

MCBatches == {<<Doc(a, x)>>, <<Doc(a, x), Doc(b, x)>>}

FreshDisk == [manifest |-> NoManifest, dirs |-> [n \in Names |-> Absent],
              tombs |-> [n \in Names |-> {}]]

DeletedDisk ==
  [manifest |-> [exists |-> TRUE, next |-> 1, segs |-> <<[name |-> 0, live |-> 1]>>],
   dirs     |-> [n \in Names |->
                   IF n = 0 THEN [stage |-> "complete", docs |-> <<Doc(a, x), Doc(b, x)>>] ELSE Absent],
   tombs    |-> [n \in Names |-> IF n = 0 THEN {1} ELSE {}]]

MCInitialDisks == {FreshDisk, DeletedDisk}
===============================================================================
