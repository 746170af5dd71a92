--------------------------- MODULE MCLexicalIndex ---------------------------
(* The inverted index from its documents to its hits: the search of short  *)
(* posting lists, the building of an index of up to five documents in      *)
(* chunks of two, and how short lists, small dictionaries and a few        *)
(* documents lie on disk, and what a merge makes of up to three segments.  *)
(* Each behavior is of one of them.                                        *)
EXTENDS ExactSearch, IndexBuild, StoredIndex, TLC

CONSTANTS a, b, c

VARIABLE input   \* what is stored; Nothing in other behaviors

lexicalVars == <<vars, buildVars, input>>

Nothing == [kind |-> "none"]

-----------------------------------------------------------------------------
(* Three terms of different weight over four documents of two lengths.     *)
(* Block-Max WAND runs on two lists over all four, which gives each two    *)
(* blocks; MaxScore on three lists over the first three.                   *)
MCIdf  == a :> 1 @@ b :> 2 @@ c :> 2
MCGain == [p \in (1 .. 2) \X (1 .. 2) |-> p[1] * (3 - p[2])]

Lists4   == [Docs -> Tfs]
Lists3   == {l \in Lists4 : l[3] = 0}
Absent   == [d \in Docs |-> 0]
Lengths3 == {l \in [Docs -> Lens] : l[3] = 1}

(* A document in no list changes nothing but the numbers of the others.    *)
Covers(lists, ds) == \A d \in ds : \E t \in Terms : lists[t][d] > 0

(* At most one hidden document, and then k is 2.                           *)
SearchInit ==
  /\ \/ /\ evaluator = "wand"
        /\ tf \in {a :> l @@ b :> m @@ c :> Absent : l, m \in Lists4}
        /\ Covers(tf, Docs)
        /\ len \in [Docs -> Lens]
     \/ /\ evaluator = "maxscore"
        /\ tf \in {a :> l @@ b :> m @@ c :> n : l, m, n \in Lists3}
        /\ Covers(tf, 0 .. 2)
        /\ Cardinality(List(b)) >= Cardinality(List(c))   \* b and c weigh the same
        /\ len \in Lengths3
  /\ LET one == {{}} \cup {{d} : d \in UNION {List(t) : t \in Terms}}
     IN  dead \in one /\ hidden \in {h \in one : dead = {} \/ h = {}}
  /\ k \in {j \in 1 .. MaxK : dead \cup hidden # {} => j = MaxK}
  /\ Init

-----------------------------------------------------------------------------
(* Streams in which documents of one chunk meet in words new to both.      *)
D1 == Text(2, <<2>>, <<1>>)
D2 == Text(1, <<>>, <<1, 3>>)
D3 == Text(1, <<1>>, <<1>>)
D4 == Text(3, <<>>, <<>>)
D5 == Text(0, <<3>>, <<2>>)

Streams ==
  {<<>>, <<Blank>>, <<D4>>, <<D1, Broken>>, <<D1, D2, Blank, D4, Broken, D3>>,
   <<D1, D2, Blank, D3>>, <<D2, D3, D1, Blank, D5>>, <<D2, D2, D4, D1, D5>>, <<Blank, D1, Blank, Blank, D5, Blank>>}

NoBuild  == stream = <<>> /\ mode = "none" /\ lines = <<>> /\ BuildInit
AnyBuild == /\ lines \in Streams /\ stream = SelectSeq(lines, LAMBDA l : l.kind = "document")
            /\ mode \in {"none", "path", "bp", "spill"} /\ BuildInit

NoSearch ==
  /\ evaluator = "none" /\ WandRests /\ MaxRests
  /\ tf = [t \in Terms |-> Absent] /\ len = [d \in Docs |-> 1] /\ dead = {} /\ hidden = {} /\ k = 1
  /\ cur = [t \in Terms |-> End] /\ heap = {}

-----------------------------------------------------------------------------
(* Gaps of widths 0, 2, 3 and 4.                                           *)
GapsOf(n) == [1 .. n -> {0, 3, 5, 12}]
FreqsOf(n) == {[i \in 1 .. n |-> 1], [i \in 1 .. n |-> i], [i \in 1 .. n |-> IF i = 2 THEN 4 ELSE 1]}
ListOf(first, gaps, freqs) ==
  [i \in DOMAIN gaps |-> Posting(first + FoldFunction(+, 0, SubSeq(gaps, 1, i)) + i, freqs[i])]
PostingLists ==
  UNION {{ListOf(first, g, t) : first \in {0, 2}, g \in {h \in GapsOf(n) : h[1] = 0 /\ (n = 6 => h[6] = 12)}, t \in FreqsOf(n)} :
           n \in {1, 5, 6}}
AnyLens == [d \in 1 .. 80 |-> ((d * 7) % 5) + 1]

MCHashOf(id) == IF id = <<>> THEN 0 ELSE id[1] % 2

Words == UNION {[1 .. n -> {1, 2}] : n \in 1 .. 3}
Stored(id, title, snippet, length) == [id |-> id, title |-> title, snippet |-> snippet, len |-> length]
ThreeDocs == <<Stored(<<1>>, <<1, 2>>, <<>>, 3), Stored(<<3>>, <<>>, <<1>>, 4), Stored(<<1>>, <<1>>, <<1>>, 2)>>
ThreeLists == <<<<Posting(1, 1)>>, <<Posting(1, 2), Posting(2, 1), Posting(3, 3)>>, <<Posting(2, 1), Posting(3, 1)>>>>

Places(n) == {[r \in 1 .. n |-> r], [r \in 1 .. n |-> n + 1 - r]}
Dictionaries ==
  UNION {{[names |-> SetToSortSeq(s, Before), toSlot |-> slots, docs |-> ThreeDocs,
           lists |-> [i \in 1 .. Cardinality(s) |-> ThreeLists[(i % 3) + 1]]] : slots \in Places(Cardinality(s))} :
           s \in UNION {kSubset(n, Words) : n \in 0 .. 4}}

(* Byte 11 continues a character.                                          *)
Strings == UNION {[1 .. n -> {1, 11}] : n \in 0 .. 4}
DocStores ==
  {[names |-> <<>>, toSlot |-> <<>>, lists |-> <<>>,
    docs |-> <<Stored(i, t, <<1>>, 1), Stored(j, <<1>>, <<>>, 1), Stored(i, <<1>>, <<>>, 1)>>] : i, j, t \in Strings}

(* Up to three segments, of no more than five documents together.          *)
Kinds == {[w \in {} |-> 0], 1 :> 2, 2 :> 1, 1 :> 1 @@ 2 :> 3}
Shapes(n) == [1 .. n -> Kinds]
PartsOf(at, shape) ==
  {[docs |-> [d \in DOMAIN shape |-> [id |-> <<at, d>>, tfs |-> shape[d], len |-> FoldFunction(+, d, shape[d])]], dead |-> gone] :
     gone \in SUBSET DOMAIN shape}
Parts(at, sizes) == UNION {PartsOf(at, shape) : shape \in UNION {Shapes(n) : n \in sizes}}
Merges == {<<p, q>> : p \in Parts(1, 0 .. 2), q \in Parts(2, 0 .. 2)}
          \cup {<<p, q, r>> : p \in Parts(1, {2}), q \in Parts(2, {0, 1}), r \in {x \in Parts(3, {2}) : x.dead = {}}}

Given(kind, of) == {[kind |-> kind, of |-> x] : x \in of}

MCLexicalInit ==
  \/ SearchInit /\ NoBuild /\ input = Nothing
  \/ NoSearch /\ AnyBuild /\ input = [kind |-> "build"]
  \/ /\ NoSearch /\ NoBuild
     /\ input \in Given("list", PostingLists) \cup Given("index", Dictionaries)
               \cup Given("docs", DocStores) \cup Given("merge", Merges)
                  \cup Given("sections", (1 .. 5) \X [1 .. 3 -> 0 .. 5])

MCLexicalNext ==
  /\ \/ Next /\ UNCHANGED buildVars
     \/ input.kind = "build" /\ BuildNext /\ UNCHANGED vars
  /\ UNCHANGED input

MCLexicalSpec == MCLexicalInit /\ [][MCLexicalNext]_lexicalVars /\ WF_vars(Next)

-----------------------------------------------------------------------------
(* Lists, dictionaries and documents are read from disk as they were       *)
(* written, by every way of reading them, migrated or not; and segments    *)
(* once they are merged: MergedAsBuilt.                                    *)
StoredIsRead ==
  /\ input.kind = "list" =>
       /\ ReadsBack(Region(input.of), BlockOffsets(input.of), input.of)
       /\ BoundsHold(input.of, AnyLens)
  /\ input.kind = "index" =>
       LET st == SaveIndex(input.of)
       IN  ReadsAs(st, input.of, Words) /\ Migrated([st EXCEPT !.ids = <<>>]) = st
  /\ input.kind = "docs" =>
       DocsReadAs(SaveIndex(input.of), input.of) /\ DocsReadAs(Migrated(SaveIndex(input.of)), input.of)
  /\ input.kind = "merge" => MergedAsBuilt(input.of)
  /\ input.kind = "sections" => SectionsHold(input.of[1], input.of[2])
===============================================================================
