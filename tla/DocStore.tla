------------------------------- MODULE DocStore -------------------------------
(***************************************************************************)
(* What a segmented index promises to whoever changes it: a bag of live    *)
(* documents, changed only by whole batches.  A batch is published         *)
(* entirely or not at all; merging, recovering, crashing and failing leave *)
(* the bag alone.  SegmentStore is shown to implement this module.         *)
(*                                                                         *)
(* External ids are not keys of the bag: add_documents appends without     *)
(* looking for other copies, so an id may have several live documents.     *)
(***************************************************************************)
EXTENDS Naturals, Sequences, FiniteSets

CONSTANTS Ids,      \* external document ids
          Bodies,   \* document contents, told apart by their content hash
          Batches   \* the batches (non-empty sequences of documents) a caller hands over

Docs == [id : Ids, body : Bodies]

VARIABLE store      \* store[d]: how many live copies of document d there are

Init == store \in [Docs -> Nat]

(* add_documents: every document of the batch becomes one more live copy. *)
Add(batch) ==
  store' = [d \in Docs |->
              store[d] + Cardinality({k \in DOMAIN batch : batch[k] = d})]

(* upsert_documents and delete_documents: an id of the batch is left with  *)
(* exactly one live copy, the last document given for it; the other ids to *)
(* delete are left with none; every other document keeps its copies.       *)
Final(batch, id) ==
  LET given == {k \in DOMAIN batch : batch[k].id = id}
  IN  batch[CHOOSE k \in given : \A j \in given : j <= k]

Replace(batch, deleted) ==
  LET replaced == {batch[k].id : k \in DOMAIN batch}
  IN  store' = [d \in Docs |->
                  CASE d.id \in replaced -> IF d = Final(batch, d.id) THEN 1 ELSE 0
                    [] d.id \in deleted \ replaced -> 0
                    [] OTHER -> store[d]]

Next == \/ \E batch \in Batches : Add(batch)
        \/ \E batch \in Batches \cup {<<>>}, deleted \in SUBSET Ids : Replace(batch, deleted)

Spec == Init /\ [][Next]_store
===============================================================================
