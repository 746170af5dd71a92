----------------------------- MODULE MCDocuments -----------------------------
(* From the tree to the directory: the freshness of the MCP server, on     *)
(* small inputs the walk, the globs and the cutting of files, and how      *)
(* builds replace an index and what vectors they give it.  Each behavior   *)
(* is of one of them.                                                      *)
EXTENDS Callers, RepoFiles, DocumentFiles, SingleLayout, SegmentVectors

CONSTANTS f, g, x, y   \* files, and texts of their chunks

VARIABLE input   \* what a behavior is of, and what an algorithm is given

docVars == <<mcpVars, walkVars, layoutVars, vectorVars, protocolVars, commandVars, input>>

Input(kind) == [kind |-> kind]

MCChunksOf == <<{[slot |-> 1, body |-> x]}, {[slot |-> 1, body |-> y]}>>

-----------------------------------------------------------------------------
T(of)   == Line("text", 1, 0, of)
Long(of) == Line("text", 6, 0, of)
Comment == Line("doc", 1, 0, 0)
Decl    == Line("decl", 1, 0, 0)
Heading(level) == Line("text", 1, level, 0)
Underline(char) == Line("rule", 1, char, 0)

Sources(n) == {<<p, q>> : p \in BoundedSeq({Blank(1), T(1), Long(1)}, n), q \in BoundedSeq({Blank(2), T(2), Long(2)}, n)}
CellsOf(i) == {[j \in DOMAIN ls |-> [ls[j] EXCEPT !.of = i]] :
                 ls \in {c \in BoundedSeq({Blank(0), T(0), Heading(1)}, 3) : \E j \in DOMAIN c : ~IsBlank(c[j])}}

Texts ==
  {[kind |-> "cut", format |-> "code", text |-> ls] : ls \in BoundedSeq({Blank(0), T(0), Comment, Decl}, 6)}
  \cup {[kind |-> "cut", format |-> "md", text |-> ls] : ls \in BoundedSeq({Blank(0), T(0), Heading(1), Heading(2)}, 5)}
  \cup {[kind |-> "cut", format |-> "rst", text |-> ls] : ls \in BoundedSeq({Blank(0), T(0), Underline(1), Underline(2)}, 6)}
  \cup {[kind |-> "cut", format |-> "text", text |-> ls] : ls \in BoundedSeq({Blank(0), T(0), Long(0)}, 6)}
  \cup {[kind |-> "cut", format |-> k, text |-> ps] : k \in {"pages", "parts"}, ps \in Sources(3)}
  \cup {[kind |-> "cut", format |-> "cells", text |-> cs] : cs \in CellsOf(1) \X CellsOf(2)}

Spans == {s \in (1 .. 5) \X (1 .. 5) : s[1] <= s[2]}
Nests(d, e) == e[1] > d[1] /\ (e[2] <= d[2] \/ e[1] > d[2])
Kinds == {"signature", "label", "block", "short", "unit"}
Parsed ==
  {[kind |-> "parsed", text |-> ls, defs |-> <<Def(1, k, d[1], d[2], d[1]), Def(2, m, e[1], e[2], e[1])>>] :
     ls \in {l \in [1 .. 5 -> {Blank(0), Comment, T(0)}] :
               l[3] = T(0) /\ l[5] # Comment /\ \A i \in {1, 2, 4} : l[i] # T(0)},
     <<d, e>> \in {s \in Spans \X Spans : Nests(s[1], s[2])}, k, m \in Kinds}

Braced == {<<"{">> \o u \o <<",">> \o v \o <<"}">> \o w :
             u, v \in BoundedSeq({"a", "*", "/"}, 1), w \in BoundedSeq({"a", "*", "{"}, 1)}
Globs ==
  {[kind |-> "glob", pattern |-> n, text |-> t] :
     n \in BoundedSeq({"a", "*", "/", "?"}, 4) \cup Braced \cup {<<"{", "a", "}">>, <<"{", "a", ",">>},
     t \in BoundedSeq({"a", "/", "b"}, 3)}

-----------------------------------------------------------------------------
(* Decks of two slides, notes and pages in every state, and what refers to *)
(* them; a page with header and footer; sheets; targets; notebooks.        *)
Link(id, names, as, external, complete) ==
  Event("rel", [id |-> id, target |-> [absolute |-> FALSE, names |-> names],
                kind |-> as, external |-> external, complete |-> complete])
Says(word) == <<Event("start", "t"), Event("text", word), Event("end", "t"), Event("text", "between"), Event("end", "p")>>
Pages == {Says("a"), <<Event("doctype", "any")>>,
          <<Event("entity", "unknown"), Event("start", "t"), Event("entity", "amp"), Event("empty", "br"),
            Event("start", "tc"), Event("end", "tc"), Event("end", "t")>>}
DeckLinks ==
  {<<Link("1", <<"s1">>, "slide", FALSE, TRUE), Link("2", <<".", "s2">>, "slide", FALSE, TRUE)>>,
   <<Link("1", <<"s2">>, "other", FALSE, TRUE), Link("1", <<"s1">>, "slide", FALSE, TRUE),
     Link("2", <<"s3">>, "slide", TRUE, TRUE), Link("2", <<"s2">>, "slide", FALSE, TRUE)>>,
   <<Link("1", <<"s1">>, "slide", FALSE, FALSE)>>}
NoteLinks == {<<>>, <<Link("3", <<"..", "n">>, "notesSlide", FALSE, TRUE), Link("4", <<"..", "..", "n">>, "other", FALSE, TRUE)>>}
DeckOf(ids, links, notes, one, two, three) ==
  Presentation :> [i \in DOMAIN ids |-> Event("slide", ids[i])] @@ RelsOf(Presentation) :> links
    @@ <<"ppt", "s1">> :> one @@ <<"ppt", "s2">> :> two @@ <<"n">> :> three @@ RelsOf(<<"ppt", "s1">>) :> notes
Decks == {DeckOf(ids, links, notes, one, two, three) :
            ids \in BoundedSeq({"1", "2"}, 2), links \in DeckLinks, notes \in NoteLinks, one, two, three \in Pages}
Letters == {Word :> main @@ <<"word", "h">> :> head @@ <<"word", "f">> :> Says("f")
              @@ RelsOf(Word) :> <<Link("1", <<"h">>, as, FALSE, TRUE), Link("2", <<"f">>, "footer", external, TRUE)>> :
              main, head \in Pages, as \in {"header", "image"}, external \in BOOLEAN}

Corners == (1 .. 2) \X (2 .. 4)
Sheets == {LET cells == {[row |-> p[1], col |-> p[2], value |-> v[p]] : p \in t}
           IN  SetToSortSeq(cells, LAMBDA c, d : c.row < d.row \/ (c.row = d.row /\ c.col < d.col)) :
             t \in SUBSET Corners, v \in {[p \in Corners |-> 1], [p \in Corners |-> (p[1] + p[2]) % 3]}}

NoSource == [form |-> "absent", lines |-> <<>>]
CellSources == {NoSource, [form |-> "other", lines |-> <<>>]}
           \cup {[form |-> "array", lines |-> ls] :
                   ls \in BoundedSeq({<<"a", "newline">>, <<"newline">>, <<"blank">>, <<"a">>}, 2)}
Notebooks == {[i \in DOMAIN ss |-> [type |-> "code", source |-> ss[i], input |-> NoSource]] : ss \in BoundedSeq(CellSources, 2)}

DocumentInputs ==
  {[kind |-> "package", format |-> "pptx", members |-> d] : d \in Decks}
  \cup {[kind |-> "package", format |-> "docx", members |-> l] : l \in Letters}
  \cup {[kind |-> "sheet", cells |-> c] : c \in Sheets} \cup {[kind |-> "column", number |-> n] : n \in 0 .. 120}
  \cup {[kind |-> "target", names |-> n] : n \in BoundedSeq({"..", ".", "a"}, 4)}
  \cup {[kind |-> "notebook", cells |-> c] : c \in Notebooks}

-----------------------------------------------------------------------------
Paths == {<<"a">>, <<"d", "a">>, <<"d", "e", "a">>, <<"d", "e", "b">>, <<"v.2", "a">>, <<"#a">>, <<"x">>, <<"x", "a">>, <<".h">>}
Disks == {[path \in Paths \ absent |-> path \notin {<<"d", "e", "b">>, <<"x">>}] : absent \in {{<<"x">>}, {<<"x", "a">>}}}

Rules ==
  {Rule(h, anchored, dirOnly, negated) :
     h \in {{<<"a">>}, {<<"e">>, <<"d">>}, {<<"d", "e">>, <<"d", "a">>}}, anchored, dirOnly, negated \in BOOLEAN}
Negated == {r \in Rules : r.negated}

WalkGiven ==
  /\ disk \in Disks
  /\ \/ excludes = <<>> /\ ignores \in {<<>> :> <<r, s>> @@ <<"d">> :> <<t>> : r, s \in Rules, t \in Negated}
     \/ /\ excludes \in {<<<<>>, <<r>>>> : r \in Rules}
        /\ ignores \in {<<>> :> <<r>> : r \in Rules} \cup {<<"d">> :> <<r>> : r \in Rules}
     \/ excludes \in {<<<<r>>, <<s>>>> : r \in Rules, s \in Negated} /\ ignores = <<>>

NoWalk == disk = <<>> /\ excludes = <<>> /\ ignores = <<>> /\ todo = {} /\ listed = {}

(* Lines of the protocol; tokens are not used again.                       *)
Args(mode, verbose, glob, structured, token) ==
  [valid |-> TRUE, verbose |-> verbose, mode |-> mode, glob |-> glob, structured |-> structured, token |-> token]
Plain    == Args("auto", "no", "none", FALSE, NoToken)
Searches == {Plain, [Plain EXCEPT !.valid = FALSE, !.verbose = "yes", !.token = "s"], Args("hybrid", "yes", "none", TRUE, "t"),
             Args("lexical", "yes", "none", FALSE, "t"), Args("auto", "no", "unmatched", TRUE, "t"),
             [Plain EXCEPT !.verbose = "bad", !.token = "t"]}
ToolCall(id, tool, args) == [id |-> id, method |-> "tools/call", tool |-> tool, args |-> args]
Message(id, method)      == [id |-> id, method |-> method]
Scalar       == Message(NoId, "scalar")
Alone(m)     == [kind |-> "one", items |-> <<m>>]
Batch(items) == [kind |-> "batch", items |-> items]
Spare(s) == IF s.token = "t" THEN NoToken ELSE "u"   \* one token is reported to at a time

MCLines ==
  {[kind |-> "garbage", items |-> <<>>], Batch(<<>>), Batch(<<Message(NoId, "unknown"), ToolCall(NoId, "search_code", Plain)>>)}
  \cup {Alone(m) : m \in {Scalar, Message(NoId, "ping"), ToolCall(NoId, "reindex", Plain), ToolCall("1", "none", Plain)}
                        \cup {[id |-> "1", method |-> "initialize", asked |-> v] : v \in {"oldest", "unheard"}}}
  \cup {Batch(<<ToolCall("1", "search_code", s), ToolCall("2", "search_code", Args("hybrid", "yes", "none", FALSE, Spare(s)))>>) :
           s \in Searches}
  \cup {Batch(<<ToolCall("1", "index_status", Plain), m, ToolCall("2", "reindex", Plain)>>) :
           m \in {Message("3", "tools/list"), Message("3", "ping"), Message(NoId, "ping"), Message("3", "unknown"), Scalar}}
  \cup {Batch(<<ToolCall("1", tool, [Plain EXCEPT !.token = "s", !.valid = refresh]),
                ToolCall("2", "search_code", [Plain EXCEPT !.verbose = "yes"])>>) :
           tool \in {"index_status", "reindex", "unknown"}, refresh \in BOOLEAN}

(* A tree within a tree, and directories of both.                          *)
MCWorktrees == {<<"r">>, <<"r", "a">>}
MCPlaces    == MCWorktrees \cup {<<"r", "a", "b">>}
MCRequests == {[given |-> Nowhere, rooted |-> a = "rerank", asked |-> a] : a \in {"bm25", "rerank", "hybrid"}}
               \cup {[given |-> <<"r", "a">>, rooted |-> TRUE, asked |-> "hybrid"]}
MCFilePaths   == {<<"m">>, <<"a", "m">>, <<"a", "b", "m">>, <<"a", "c", "m">>, <<"c", "m">>}

(* Neither two files nor two texts to encode are told apart.               *)
Alike == Permutations(Files) \cup Permutations(Contents)

MCClusters == 1 :> 1 @@ 2 :> 2

NoLayout == corpus = <<>> /\ index = NoDir /\ LayoutRests
NoCalls  == indexed = "none" /\ invalid = FALSE /\ outdated = FALSE /\ ProtocolRests
NoSegments == source = <<>> /\ segs = <<>> /\ stored = <<>> /\ VectorsRest

DocumentsInit ==
  /\ ServerInit
  /\ \/ NoWalk /\ NoLayout /\ NoSegments /\ NoCalls /\ CommandRests
        /\ input \in {Input("server")} \cup Texts \cup Parsed \cup Globs \cup DocumentInputs
     \/ WalkGiven /\ WalkInit /\ NoLayout /\ NoSegments /\ NoCalls /\ CommandRests /\ input = Input("walk")
     \/ NoWalk /\ LayoutInit /\ NoSegments /\ NoCalls /\ CommandRests /\ input = Input("layout")
     \/ NoWalk /\ NoLayout /\ VectorInit /\ NoCalls /\ CommandRests /\ input = Input("vectors")
     \/ NoWalk /\ NoLayout /\ NoSegments /\ NoCalls /\ CommandInit /\ input = Input("command")
     \/ NoWalk /\ NoLayout /\ NoSegments /\ ProtocolInit /\ CommandRests /\ input = Input("protocol")

(* The server alone.                                                       *)
FreshInit ==
  ServerInit /\ NoWalk /\ NoLayout /\ NoSegments /\ NoCalls /\ CommandRests /\ input = Input("server")

(* Nothing is left to do in a behavior that is not the server's.           *)
Finished ==
  /\ input.kind # "server" /\ todo = {} /\ pc = "idle" /\ vpc = "idle"
  /\ UNCHANGED docVars

DocumentsNext ==
  \/ input.kind = "server" /\ ServerNext /\ UNCHANGED <<walkVars, layoutVars, vectorVars, protocolVars, commandVars, input>>
  \/ Walk /\ UNCHANGED <<mcpVars, layoutVars, vectorVars, protocolVars, commandVars, input>>
  \/ input.kind = "layout" /\ LayoutNext /\ UNCHANGED <<mcpVars, walkVars, vectorVars, protocolVars, commandVars, input>>
  \/ input.kind = "vectors" /\ VectorNext /\ UNCHANGED <<mcpVars, walkVars, layoutVars, protocolVars, commandVars, input>>
  \/ input.kind = "protocol" /\ ProtocolNext /\ UNCHANGED <<mcpVars, walkVars, layoutVars, vectorVars, commandVars, input>>
  \/ input.kind = "command" /\ CommandNext /\ UNCHANGED <<mcpVars, walkVars, layoutVars, vectorVars, protocolVars, input>>
  \/ Finished

DocumentsSpec == DocumentsInit /\ [][DocumentsNext]_docVars
FreshSpec     == FreshInit /\ [][DocumentsNext]_docVars

-----------------------------------------------------------------------------
(* What documents say is read, PackageIsWhole to NotebooksReadAlike;       *)
(* ChunksAreExact, of every short file of every format; Tile and Findable, *)
(* of every way two definitions lie in a short file.                       *)
FilesAreCut ==
  /\ input.kind = "package" => PackageIsWhole(input.format, input.members)
  /\ input.kind = "sheet" => SheetsReadAlike(input.cells)
  /\ input.kind = "column" => ColumnsAreNamed(input.number)
  /\ input.kind = "target" => TargetsResolve(<<"b", "c">>, input.names)
  /\ input.kind = "notebook" => \A cut \in 0 .. Len(input.cells) : NotebooksReadAlike(input.cells, cut)
  /\ input.kind = "cut" => ChunksAreExact(input.format, input.text)
  /\ input.kind = "parsed" =>
       Tile(input.text, GrammarChunks(input.text, input.defs)) /\ Findable(input.text, input.defs)

(* What a walk finds is what it should, and the watcher would notice:      *)
(* WalkIsExact, ListedIsNoticed.                                           *)
TreeIsSeen == WalkIsExact /\ ListedIsNoticed

(* GlobIsExact, of every short pattern and text.                           *)
GlobsAreExact == input.kind = "glob" => GlobIsExact(input.pattern, input.text)
===============================================================================
