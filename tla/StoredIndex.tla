----------------------------- MODULE StoredIndex ------------------------------
(***************************************************************************)
(* An inverted index on disk (src/storage.rs): the front-coded dictionary, *)
(* per-term tables in the order of the lists and not of the names, the     *)
(* document store, the sidecar of hashed external ids, and a metadata file *)
(* of aligned sections; and what an older one becomes (src/migrate.rs).    *)
(*                                                                         *)
(* A string is a sequence of bytes, of which those above Lead continue a   *)
(* character; a length that is written is one cell.  Offsets count from 0, *)
(* ranks, slots and documents of this module from 1.                       *)
(***************************************************************************)
EXTENDS PostingBlocks

CONSTANTS DictGroup,   \* terms per group of the dictionary
          MaxShared,   \* the longest prefix that a term shares with the one before (255)
          MaxStr,      \* the longest string that is written (65535)
          Lead,        \* the largest byte that begins a character
          Align,       \* sections begin at multiples of it (8)
          HashOf(_)    \* the hash of an external id

(* An index that was built: names in order, and for each the slot of its   *)
(* list, which in memory is its rank and outside is the order of arrival.  *)
Sums(sizes) == [i \in 1 .. Len(sizes) + 1 |-> FoldFunction(+, 0, SubSeq(sizes, 1, i - 1))]
Each(s, Op(_)) == [i \in DOMAIN s |-> Op(s[i])]

RECURSIVE Before(_, _)
Before(s, t) ==  \* the order of byte strings
  CASE t = <<>> -> FALSE
    [] s = <<>> -> t # <<>>
    [] OTHER    -> s[1] < t[1] \/ (s[1] = t[1] /\ Before(Tail(s), Tail(t)))

(* How many of n entries come first that pass, when those come first.      *)
PartitionPoint(n, Passes(_)) ==
  LET Narrow[lo \in 0 .. n, hi \in 0 .. n] ==
        LET mid == (lo + hi) \div 2
        IN  IF lo = hi THEN lo ELSE IF Passes(mid + 1) THEN Narrow[mid + 1, hi] ELSE Narrow[lo, mid]
  IN  Narrow[0, n]

-----------------------------------------------------------------------------
(* Strings and documents. *)

(* A string that is too long is cut at the end of a character.             *)
ClampLen(s) ==
  IF Len(s) <= MaxStr THEN Len(s)
  ELSE Max({0} \cup {n \in 1 .. MaxStr : s[n + 1] <= Lead})

WriteStr(s)       == <<ClampLen(s)>> \o SubSeq(s, 1, ClampLen(s))
ReadStr(bytes, at) == SubSeq(bytes, at + 2, at + 1 + bytes[at + 1])

Record(doc) == WriteStr(doc.id) \o WriteStr(doc.title) \o WriteStr(doc.snippet)

DocSummary(st, d) ==
  LET at == st.docOffsets[d]
      id == ReadStr(st.docs, at)
  IN  [id |-> id, title |-> ReadStr(st.docs, at + 1 + Len(id))]

-----------------------------------------------------------------------------
(* The dictionary. *)

Shared(s, t) ==
  Max({n \in 0 .. Min({Len(s), Len(t), MaxShared}) : SubSeq(s, 1, n) = SubSeq(t, 1, n)})

InGroup(i) == (i - 1) % DictGroup

(* The first of a group is whole; another has what it shares and the rest. *)
Entry(names, i) ==
  IF InGroup(i) = 0 THEN WriteStr(names[i])
  ELSE LET n == Shared(names[i - 1], names[i])
       IN  <<n>> \o WriteStr(SubSeq(names[i], n + 1, Len(names[i])))

FrontCoded(names) ==
  LET entries == [i \in DOMAIN names |-> Entry(names, i)]
      offsets == Sums(Each(entries, Len))
      groups  == Ceiling(Len(names), DictGroup)
  IN  [bytes  |-> FlattenSeq(entries),
       groups |-> [g \in 1 .. groups + 1 |-> offsets[Min({(g - 1) * DictGroup, Len(names)}) + 1]]]

GroupHead(st, g) == ReadStr(st.dict, st.groups[g])

(* The terms of a group, one after the other to its end.                   *)
GroupTerms(st, g) ==
  LET head == GroupHead(st, g)
      From[at \in 0 .. Len(st.dict), current \in Seq(Nat)] ==
        IF at >= st.groups[g + 1] THEN <<>>
        ELSE LET suffix == ReadStr(st.dict, at + 1)
                 term   == SubSeq(current, 1, st.dict[at + 1]) \o suffix
             IN  <<term>> \o From[at + 2 + Len(suffix), term]
  IN  <<head>> \o From[st.groups[g] + 1 + Len(head), head]

(* The rank of a term, 0 if there is none: in the last group that does not *)
(* begin after it, up to the first term that is not before it.             *)
DictLookup(st, term) ==
  LET g     == PartitionPoint(Len(st.groups) - 1, LAMBDA h : ~Before(term, GroupHead(st, h)))
      terms == GroupTerms(st, g)
      at    == {i \in DOMAIN terms : ~Before(terms[i], term)}
  IN  IF g = 0 \/ at = {} \/ terms[Min(at)] # term THEN 0 ELSE (g - 1) * DictGroup + Min(at)

TermAt(st, rank) == GroupTerms(st, ((rank - 1) \div DictGroup) + 1)[InGroup(rank) + 1]

AllTerms(st) == FlattenSeq([g \in 1 .. Len(st.groups) - 1 |-> GroupTerms(st, g)])

-----------------------------------------------------------------------------
(* External ids. *)

IdsFile(docs) ==
  SortSeq([d \in DOMAIN docs |-> [hash |-> HashOf(docs[d].id), doc |-> d]],
          LAMBDA e, f : e.hash < f.hash \/ (e.hash = f.hash /\ e.doc < f.doc))

(* The documents of that hash, less those of another id; without the       *)
(* sidecar, the documents of that id.                                      *)
FindAll(st, id) ==
  LET n     == Len(st.ids)
      begin == PartitionPoint(n, LAMBDA i : st.ids[i].hash < HashOf(id))
      run   == SelectSeq(SubSeq(st.ids, begin + 1, n), LAMBDA e : e.hash = HashOf(id))
  IN  IF st.sidecar THEN Each(SelectSeq(run, LAMBDA e : DocSummary(st, e.doc).id = id), LAMBDA e : e.doc)
      ELSE SelectSeq([d \in 1 .. Len(st.docLens) |-> d], LAMBDA d : DocSummary(st, d).id = id)

-----------------------------------------------------------------------------
(* The whole. *)

LenOf(docs) == [d \in DOMAIN docs |-> docs[d].len]

SaveIndex(ix) ==
  LET records == Each(ix.docs, Record)
      regions == Each(ix.lists, Region)
      dict    == FrontCoded(ix.names)
      blocks  == FlattenSeq(Each(ix.lists, LAMBDA l : BuildBlocks(l, LenOf(ix.docs))))
  IN  [docs |-> FlattenSeq(records), docOffsets |-> Sums(Each(records, Len)), docLens |-> LenOf(ix.docs),
       ids |-> IdsFile(ix.docs), sidecar |-> TRUE,
       postings |-> FlattenSeq(regions), regionOffsets |-> Sums(Each(regions, Len)),
       dfs |-> Each(ix.lists, Len), blockRows |-> Sums(Each(ix.lists, LAMBDA l : NumBlocks(Len(l)))),
       blocks |-> blocks, blockOffsets |-> FlattenSeq(Each(ix.lists, BlockOffsets)),
       dict |-> dict.bytes, groups |-> dict.groups, toSlot |-> ix.toSlot]

(* What a term's cursor is given: none for a term that is not there.       *)
TermPostings(st, term) ==
  LET rank == DictLookup(st, term)
      slot == st.toSlot[rank]
      rows == SubSeq(st.blocks, st.blockRows[slot] + 1, st.blockRows[slot + 1])
  IN  IF rank = 0 THEN [df |-> 0]
      ELSE [df |-> st.dfs[slot], blocks |-> rows,
            region  |-> SubSeq(st.postings, st.regionOffsets[slot] + 1, st.regionOffsets[slot + 1]),
            offsets |-> SubSeq(st.blockOffsets, st.blockRows[slot] + 1, st.blockRows[slot + 1])]

(* An index of the format before, which had no pairs of frequency and      *)
(* length and no sidecar: the pairs are found by decoding every block, the *)
(* ids by reading every document.                                          *)
Migrated(st) ==
  LET Pair(slot, row) ==
        LET at      == st.regionOffsets[slot] + st.blockOffsets[row]
            decoded == DecodeBlock(SubSeq(st.postings, at + 1, st.regionOffsets[slot + 1]))
        IN  [last |-> st.blocks[row].last, maxTf |-> MaxIn(Field(decoded, TfOf)),
             minLen |-> MinIn([j \in DOMAIN decoded |-> st.docLens[decoded[j].doc]])]
      SlotOf(row) == CHOOSE s \in DOMAIN st.dfs : st.blockRows[s] < row /\ row <= st.blockRows[s + 1]
  IN  [st EXCEPT !.blocks = [row \in DOMAIN st.blocks |-> Pair(SlotOf(row), row)],
                 !.ids = IdsFile([d \in DOMAIN st.docLens |-> [id |-> ReadStr(st.docs, st.docOffsets[d])]])]

(* The metadata file: where each section begins after a header.            *)
Padded(n) == Ceiling(n, Align) * Align
Table(header, sizes) ==
  [i \in DOMAIN sizes |-> [at |-> Padded(header) + FoldFunction(+, 0, [j \in 1 .. i - 1 |-> Padded(sizes[j])]),
                           size |-> sizes[i]]]
FileLen(header, table) == MaxIn(<<header>> \o [i \in DOMAIN table |-> table[i].at + table[i].size])
Accepted(table, length) == \A i \in DOMAIN table : table[i].at % Align = 0 /\ table[i].at + table[i].size <= length

-----------------------------------------------------------------------------
(* What is read of a stored index is what was stored: every name has its   *)
(* rank and every other word none, each list comes back whole with bounds  *)
(* that hold, each document and all those of an id are found, with the     *)
(* sidecar and without, and a migrated index is like a new one.            *)
ReadsAs(st, ix, words) ==
  /\ AllTerms(st) = ix.names
  /\ \A r \in DOMAIN ix.names : TermAt(st, r) = ix.names[r]
  /\ \A w \in words :
       LET got == TermPostings(st, w)
       IN  IF w \notin ToSet(ix.names) THEN got.df = 0
           ELSE LET ps == ix.lists[ix.toSlot[CHOOSE r \in DOMAIN ix.names : ix.names[r] = w]]
                IN  /\ got.df = Len(ps) /\ got.blocks = BuildBlocks(ps, LenOf(ix.docs))
                    /\ ReadsBack(got.region, got.offsets, ps)
DocsReadAs(st, ix) ==
  \A d \in DOMAIN ix.docs :
    LET Cut(s) == SubSeq(s, 1, ClampLen(s))
        same   == {e \in DOMAIN ix.docs : ix.docs[e].id = ix.docs[d].id}
    IN  /\ DocSummary(st, d) = [id |-> Cut(ix.docs[d].id), title |-> Cut(ix.docs[d].title)]
        /\ Len(ix.docs[d].id) <= MaxStr =>
             \A sidecar \in BOOLEAN :
               LET found == ToSet(FindAll([st EXCEPT !.sidecar = sidecar], ix.docs[d].id))
               IN  same \subseteq found /\ \A e \in found : Cut(ix.docs[e].id) = ix.docs[d].id
SectionsHold(header, sizes) ==
  LET table == Table(header, sizes)
      n     == FileLen(header, table)
  IN  /\ Accepted(table, n) /\ ~Accepted(table, n - 1)
      /\ \A i, j \in DOMAIN table : i < j => table[i].at + table[i].size <= table[j].at

-------------------------------------------------------------------------------
(***************************************************************************)
(* What merging makes of segments, merge_all_prepared of src/segments.rs:  *)
(* the live documents of all are numbered anew and copied, the             *)
(* dictionaries merged term by term.  A document is [id, tfs, len]: tfs    *)
(* gives for each word of it how often; a segment is [docs, dead].  Words  *)
(* are numbers, in the order of the dictionary.  SegmentStore models how   *)
(* the merged segment takes the place of the others.                       *)
(***************************************************************************)

(* The dictionary and the lists of a segment as it was built; its dead     *)
(* documents are still there.                                              *)
NamesIn(docs) == SetToSortSeq(UNION {DOMAIN docs[d].tfs : d \in DOMAIN docs}, <)
ListIn(docs, word) ==
  SelectSeq([d \in DOMAIN docs |-> Posting(d, IF word \in DOMAIN docs[d].tfs THEN docs[d].tfs[word] ELSE 0)],
            LAMBDA p : TfOf(p) > 0)

LivePlaces(s) == SetToSortSeq(DOMAIN s.docs \ s.dead, <)

(* remap: the live documents of a segment, after those of the ones before. *)
Remap(parts) ==
  LET before[i \in DOMAIN parts] == IF i = 1 THEN 0 ELSE before[i - 1] + Len(LivePlaces(parts[i - 1]))
  IN  [i \in DOMAIN parts |-> [d \in ToSet(LivePlaces(parts[i])) |->
         before[i] + Cardinality({e \in ToSet(LivePlaces(parts[i])) : e <= d})]]

(* Their records are copied as they are.                                   *)
CopiedDocs(parts) ==
  FlattenSeq([i \in DOMAIN parts |-> [n \in DOMAIN LivePlaces(parts[i]) |-> parts[i].docs[LivePlaces(parts[i])[n]]]])

Renumbered(list, map) ==
  LET live == SelectSeq(list, LAMBDA p : DocOf(p) \in DOMAIN map)
  IN  [i \in DOMAIN live |-> Posting(map[DocOf(live[i])], TfOf(live[i]))]

(* One cursor for the dictionary of each segment; the smallest term that   *)
(* any is at is next, and all that are at it go on.  A term of which only  *)
(* dead documents had a posting is left out.                               *)
RECURSIVE MergeTerms(_, _, _)
MergeTerms(parts, remap, cursor) ==
  LET Names(i) == NamesIn(parts[i].docs)
      left == {i \in DOMAIN parts : cursor[i] <= Len(Names(i))}
      term == Min({Names(i)[cursor[i]] : i \in left})
      on   == {i \in left : Names(i)[cursor[i]] = term}
      list == FlattenSeq([i \in DOMAIN parts |-> IF i \in on THEN Renumbered(ListIn(parts[i].docs, term), remap[i]) ELSE <<>>])
      rest == MergeTerms(parts, remap, [i \in DOMAIN parts |-> IF i \in on THEN cursor[i] + 1 ELSE cursor[i]])
  IN  IF left = {} THEN <<>> ELSE IF list = <<>> THEN rest ELSE <<[name |-> term, list |-> list]>> \o rest

(* The merged segment: its documents and their lengths, and of every term  *)
(* its list and the bounds of its blocks.                                  *)
Merged(parts) ==
  LET docs  == CopiedDocs(parts)
      lens  == [d \in DOMAIN docs |-> docs[d].len]
      terms == MergeTerms(parts, Remap(parts), [i \in DOMAIN parts |-> 1])
  IN  [docs |-> docs, total |-> FoldFunction(+, 0, lens),
       terms |-> [t \in DOMAIN terms |-> [name |-> terms[t].name, list |-> terms[t].list,
                                          blocks |-> BuildBlocks(terms[t].list, lens)]]]

(* A merge loses and moves nothing: the merged segment is what building    *)
(* one of the live documents, in their order, makes, and every list is     *)
(* ascending, so that its blocks can be skipped by.                        *)
MergedAsBuilt(parts) ==
  LET m == Merged(parts)
      Live(p) == LET order == SetToSortSeq(DOMAIN p.docs \ p.dead, <) IN [i \in DOMAIN order |-> p.docs[order[i]]]
      docs == FlattenSeq([i \in DOMAIN parts |-> Live(parts[i])])
  IN  /\ m.docs = docs
      /\ [t \in DOMAIN m.terms |-> m.terms[t].name] = NamesIn(docs)
      /\ \A t \in DOMAIN m.terms :
           /\ m.terms[t].list = ListIn(docs, m.terms[t].name)
           /\ BoundsHold(m.terms[t].list, [d \in DOMAIN docs |-> docs[d].len])
===============================================================================
