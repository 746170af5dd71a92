------------------------------ MODULE IndexBuild ------------------------------
(***************************************************************************)
(* Building an inverted index of a stream of documents: in memory          *)
(* (src/indexer.rs), where documents may change places at the end          *)
(* (src/reorder.rs), or through sorted shards on disk (src/external.rs).   *)
(*                                                                         *)
(* The documents of a chunk are tokenized at the same time and share the   *)
(* interner, which gives words their numbers as they come.  A word is a    *)
(* number greater than 0, in the order of the dictionary; a document is    *)
(* told from another by its place in the stream.                           *)
(***************************************************************************)
EXTENDS Naturals, SequencesExt

CONSTANTS ChunkSize,     \* documents per chunk
          SpillBudget,   \* triples in memory before they go to a shard
          TitleWeight,   \* what an occurrence in the title counts
          MinPartition   \* documents that are not split any more

ASSUME BuildAssumption == {ChunkSize, SpillBudget, TitleWeight, MinPartition} \subseteq Nat \ {0}

Blank  == [kind |-> "blank"]
Broken == [kind |-> "broken"]     \* a line that is no document
Text(name, title, body) == [kind |-> "document", name |-> name, title |-> title, body |-> body]

Unnamed == 0                      \* the empty string that a number without word has

VARIABLES
  stream,     \* its documents
  mode,       \* "none", "path" or "bp" in memory, "spill" outside
  lines,      \* what is left of the stream
  chunk,      \* the documents being tokenized
  interned,   \* the word -> number pairs of the interner
  nextId,
  tokenized,  \* in memory: the documents of earlier chunks
  lens,       \* outside: their lengths
  pending,    \* outside: triples not yet in a shard
  shards,
  phase,      \* "reading", "working", "failed" or "built"
  built       \* the index

buildVars == <<stream, mode, lines, chunk, interned, nextId, tokenized, lens, pending, shards, phase, built>>

None == [none |-> TRUE]

BuildInit ==
  /\ chunk = <<>> /\ interned = {} /\ nextId = 0 /\ tokenized = <<>> /\ lens = <<>>
  /\ pending = <<>> /\ shards = <<>> /\ phase = "reading" /\ built = None

-----------------------------------------------------------------------------
(* Reading. *)

IsText(line) == line.kind # "blank"

Task(at, doc) == [at |-> at, words |-> doc.title \o doc.body, ids |-> <<>>, missed |-> FALSE]

(* The lines up to and with the last of a chunk.                           *)
ChunkEnd ==
  LET full == {n \in DOMAIN lines : Len(SelectSeq(SubSeq(lines, 1, n), IsText)) = ChunkSize}
  IN  IF full = {} THEN Len(lines) ELSE Min(full)

(* A chunk with a line that is no document fails the build.                *)
ReadChunk ==
  LET texts == SelectSeq(SubSeq(lines, 1, ChunkEnd), IsText)
      done  == Len(tokenized) + Len(lens)
  IN  /\ phase = "reading" /\ lines # <<>>
      /\ lines' = SubSeq(lines, ChunkEnd + 1, Len(lines))
      /\ IF Broken \in ToSet(texts)
         THEN phase' = "failed" /\ UNCHANGED chunk
         ELSE /\ phase' = IF texts = <<>> THEN phase ELSE "working"
              /\ chunk' = [i \in DOMAIN texts |-> Task(done + i, texts[i])]
      /\ UNCHANGED <<stream, mode, interned, nextId, tokenized, lens, pending, shards, built>>

-----------------------------------------------------------------------------
(* The interner. *)

Knows(word)  == \E e \in interned : e.word = word
IdOf(word)   == (CHOOSE e \in interned : e.word = word).id
WordOf(task) == task.words[Len(task.ids) + 1]
HasWork(i)   == phase = "working" /\ Len(chunk[i].ids) < Len(chunk[i].words)

Numbered(i, id) == chunk' = [chunk EXCEPT ![i].ids = Append(@, id), ![i].missed = FALSE]

(* Under the lock of readers.                                              *)
Lookup(i) ==
  /\ HasWork(i) /\ ~chunk[i].missed
  /\ IF Knows(WordOf(chunk[i])) THEN Numbered(i, IdOf(WordOf(chunk[i])))
     ELSE chunk' = [chunk EXCEPT ![i].missed = TRUE]
  /\ UNCHANGED <<stream, mode, lines, interned, nextId, tokenized, lens, pending, shards, phase, built>>

(* Mutation of Insert: the word is not looked for again under the lock of the writer. *)
InsertBlindly(i) ==
  /\ HasWork(i) /\ chunk[i].missed
  /\ Numbered(i, nextId)
  /\ interned' = {e \in interned : e.word # WordOf(chunk[i])} \cup {[word |-> WordOf(chunk[i]), id |-> nextId]}
  /\ nextId' = nextId + 1
  /\ UNCHANGED <<stream, mode, lines, tokenized, lens, pending, shards, phase, built>>

(* Under the lock of the writer: another may have put it there meanwhile.  *)
Insert(i) ==
  LET word == WordOf(chunk[i])
  IN  /\ HasWork(i) /\ chunk[i].missed
      /\ IF Knows(word)
         THEN Numbered(i, IdOf(word)) /\ UNCHANGED <<interned, nextId>>
         ELSE /\ Numbered(i, nextId)
              /\ interned' = interned \cup {[word |-> word, id |-> nextId]}
              /\ nextId' = nextId + 1
      /\ UNCHANGED <<stream, mode, lines, tokenized, lens, pending, shards, phase, built>>

-----------------------------------------------------------------------------
(* The end of a chunk. *)

(* A document's distinct numbers with what they weigh.                     *)
Weighs(task, j) == IF j <= Len(stream[task.at].title) THEN TitleWeight ELSE 1
Pairs(task) ==
  SetToSortSeq({[id |-> id, tf |-> FoldFunction(+, 0, [j \in {n \in DOMAIN task.ids : task.ids[n] = id} |-> Weighs(task, j)])] :
                  id \in ToSet(task.ids)},
               LAMBDA p, q : p.id < q.id)

Triples(task) ==
  [i \in DOMAIN Pairs(task) |-> [id |-> Pairs(task)[i].id, doc |-> task.at, tf |-> Pairs(task)[i].tf]]

Spilled(triples) ==
  SortSeq(triples, LAMBDA s, t : s.id < t.id \/ (s.id = t.id /\ s.doc < t.doc))

EndChunk ==
  LET triples == pending \o FlattenSeq([i \in DOMAIN chunk |-> Triples(chunk[i])])
      spills  == Len(triples) >= SpillBudget
  IN  /\ phase = "working" /\ \A i \in DOMAIN chunk : ~HasWork(i)
      /\ IF mode = "spill"
         THEN /\ lens' = lens \o [i \in DOMAIN chunk |-> Len(chunk[i].words)]
              /\ pending' = IF spills THEN <<>> ELSE triples
              /\ shards' = IF spills THEN Append(shards, Spilled(triples)) ELSE shards
              /\ UNCHANGED tokenized
         ELSE /\ tokenized' = tokenized \o [i \in DOMAIN chunk |->
                                [at |-> chunk[i].at, len |-> Len(chunk[i].words), pairs |-> Pairs(chunk[i])]]
              /\ UNCHANGED <<lens, pending, shards>>
      /\ chunk' = <<>> /\ phase' = "reading"
      /\ UNCHANGED <<stream, mode, lines, interned, nextId, built>>

-----------------------------------------------------------------------------
(* The new places of documents. *)

(* Documents are exchanged between the halves of a part as long as that    *)
(* gains something, whatever it is; a half keeps the order it had.         *)
Bisected[order \in Seq(Nat)] ==
  LET n     == Len(order)
      Of(s) == [i \in 1 .. Cardinality(s) |-> order[SetToSortSeq(s, <)[i]]]
  IN  IF n <= MinPartition THEN {order}
      ELSE UNION {{l \o r : l \in Bisected[Of(s)], r \in Bisected[Of((1 .. n) \ s)]} : s \in kSubset(n \div 2, 1 .. n)}

InTurn(n) == [i \in 1 .. n |-> i]

(* The orders a strategy may end in; documents of one name keep theirs.    *)
Orders(n) ==
  CASE mode = "path" -> {SortSeq(InTurn(n), LAMBDA i, j : stream[tokenized[i].at].name < stream[tokenized[j].at].name
                                              \/ (stream[tokenized[i].at].name = stream[tokenized[j].at].name /\ i < j))}
    [] mode = "bp"   -> Bisected[InTurn(n)]
    [] OTHER         -> {InTurn(n)}

-----------------------------------------------------------------------------
(* The index. *)

Names == [id \in 0 .. nextId - 1 |->
            IF \E e \in interned : e.id = id THEN (CHOOSE e \in interned : e.id = id).word ELSE Unnamed]
ByName == SortSeq([i \in 1 .. nextId |-> i - 1], LAMBDA i, j : Names[i] < Names[j])

(* The slot of a name's list is the place of the name.                     *)
FinishInMemory ==
  \E order \in Orders(Len(tokenized)) :
    LET docs == [i \in DOMAIN order |-> tokenized[order[i]]]
        PostingsOf(id) ==
          SelectSeq([d \in DOMAIN docs |->
                       LET ps == SelectSeq(docs[d].pairs, LAMBDA p : p.id = id)
                       IN  [doc |-> d, tf |-> IF ps = <<>> THEN 0 ELSE ps[1].tf]],
                    LAMBDA p : p.tf > 0)
    IN  built' = [docs  |-> [d \in DOMAIN docs |-> docs[d].at],
                  lens  |-> [d \in DOMAIN docs |-> docs[d].len],
                  names |-> [r \in 1 .. nextId |-> Names[ByName[r]]],
                  slots |-> [r \in 1 .. nextId |-> r],
                  lists |-> [r \in 1 .. nextId |-> PostingsOf(ByName[r])]]

(* The slot of a name's list is its number; a list is what the shards have *)
(* of it, one shard after the other.                                       *)
FinishFromShards ==
  LET all == IF pending = <<>> THEN shards ELSE Append(shards, Spilled(pending))
      RunOf(s, id) == LET ts == SelectSeq(all[s], LAMBDA t : t.id = id)
                      IN  [i \in DOMAIN ts |-> [doc |-> ts[i].doc, tf |-> ts[i].tf]]
  IN  built' = [docs  |-> InTurn(Len(lens)),
                lens  |-> lens,
                names |-> [r \in 1 .. nextId |-> Names[ByName[r]]],
                slots |-> [r \in 1 .. nextId |-> ByName[r] + 1],
                lists |-> [s \in 1 .. nextId |-> FlattenSeq([i \in DOMAIN all |-> RunOf(i, s - 1)])]]

Finish ==
  /\ phase = "reading" /\ lines = <<>>
  /\ IF mode = "spill" THEN FinishFromShards ELSE FinishInMemory
  /\ phase' = "built"
  /\ UNCHANGED <<stream, mode, lines, chunk, interned, nextId, tokenized, lens, pending, shards>>

BuildNext ==
  \/ ReadChunk \/ EndChunk \/ Finish
  \/ \E i \in DOMAIN chunk : Lookup(i) \/ Insert(i)

BuildSpec == BuildInit /\ [][BuildNext]_buildVars

-----------------------------------------------------------------------------
Counted(doc, word) ==
  TitleWeight * Cardinality({i \in DOMAIN doc.title : doc.title[i] = word})
    + Cardinality({i \in DOMAIN doc.body : doc.body[i] = word})

(* However its documents were tokenized, reordered or spilled, an index    *)
(* says exactly what the documents do: each is there once, with its        *)
(* length; the dictionary has every word of theirs once, in order; and the *)
(* list of a word has the documents it is in, ascending, with how often.   *)
IndexIsExact ==
  phase = "built" =>
    LET words == UNION {ToSet(d.title) \cup ToSet(d.body) : d \in ToSet(stream)}
    IN  /\ Len(built.docs) = Len(stream) /\ ToSet(built.docs) = DOMAIN stream
        /\ \A d \in DOMAIN built.docs :
             built.lens[d] = Len(stream[built.docs[d]].title) + Len(stream[built.docs[d]].body)
        /\ built.names = SetToSortSeq(words, <)
        /\ \A r \in DOMAIN built.names :
             built.lists[built.slots[r]] =
               SelectSeq([d \in DOMAIN built.docs |-> [doc |-> d, tf |-> Counted(stream[built.docs[d]], built.names[r])]],
                         LAMBDA p : p.tf > 0)
===============================================================================
