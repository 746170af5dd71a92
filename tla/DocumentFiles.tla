----------------------------- MODULE DocumentFiles -----------------------------
(***************************************************************************)
(* What is read of office documents (src/office.rs) and of notebooks       *)
(* (src/notebook.rs) before it is cut, which RepoFiles models.               *)
(*                                                                         *)
(* A package is a function from paths to XML.  XML is a sequence of events *)
(* [tag, of]: "start", "end" and "empty" of an element's name, "text",     *)
(* "entity" of a known or the unknown one, "doctype", "rel" of a           *)
(* relationship and "slide" of a slide's relationship.                     *)
(***************************************************************************)
EXTENDS Integers, Sequences, SequencesExt, FiniteSetsExt

CONSTANTS ColumnLetters,              \* 26
          MaxMembers, MaxExpanded,    \* of an archive
          MaxText                     \* of what is read from one

ASSUME FileAssumption == {ColumnLetters, MaxMembers, MaxExpanded, MaxText} \subseteq Nat \ {0}

NoDocument == [read |-> FALSE]
Document(parts) == [read |-> TRUE, parts |-> parts]

(* A tag of markup and of a text, without attributes.                      *)
Event(tag, of) == [tag |-> tag, of |-> of]
Is(e, tags, names) == e.tag \in tags /\ e.of \in names

-----------------------------------------------------------------------------
(* Sheets.  A cell is [row, col, value], from 0; value 0 is an empty one.  *)

Column(n) ==
  LET Letters[m \in 0 .. n] ==
        IF m < ColumnLetters THEN <<m>>
        ELSE Append(Letters[(m \div ColumnLetters) - 1], m % ColumnLetters)
  IN  Letters[n]

Used(cells) == SelectSeq(cells, LAMBDA c : c.value # 0)
CellLine(row, col, value) == [at |-> Column(col), row |-> row + 1, value |-> value]

(* The cells of an xlsx as they stream by.                                 *)
StreamedSheet(cells) == [i \in DOMAIN Used(cells) |-> CellLine(Used(cells)[i].row, Used(cells)[i].col, Used(cells)[i].value)]

(* The others are a range that begins at the first used row and column;    *)
(* its cells are counted from there, row by row.                           *)
RangedSheet(cells) ==
  LET used  == ToSet(Used(cells))
      start == [row |-> Min({c.row : c \in used}), col |-> Min({c.col : c \in used})]
      inner == {[c EXCEPT !.row = @ - start.row, !.col = @ - start.col] : c \in used}
      order == SetToSortSeq(inner, LAMBDA c, d : c.row < d.row \/ (c.row = d.row /\ c.col < d.col))
  IN  IF used = {} THEN <<>>
      ELSE [i \in DOMAIN order |-> CellLine(order[i].row + start.row, order[i].col + start.col, order[i].value)]

-----------------------------------------------------------------------------
(* Packages. *)

Fits(members) ==
  Cardinality(DOMAIN members) <= MaxMembers /\ MapThenSumSet(LAMBDA p : Len(members[p]), DOMAIN members) <= MaxExpanded

InText(xml, i) ==
  LET turns == {j \in 1 .. i : Is(xml[j], {"start", "end"}, {"t"})}
  IN  turns # {} /\ xml[Max(turns)].tag = "start"

XmlText(xml) ==
  LET Says(i) ==
        LET e == xml[i]
        IN  CASE e.tag \in {"text", "entity"}             -> IF InText(xml, i) THEN <<e.of>> ELSE <<>>
              [] Is(e, {"end"}, {"p", "tr"})              -> <<"newline">>
              [] Is(e, {"end"}, {"tc"})                   -> <<"tab">>
              [] Is(e, {"start", "empty"}, {"tab"})       -> <<"tab">>
              [] Is(e, {"start", "empty"}, {"br", "cr"})  -> <<"newline">>
              [] OTHER                                    -> <<>>
  IN  FlattenSeq([i \in DOMAIN xml |-> Says(i)])

Declares(xml) == \E i \in DOMAIN xml : xml[i].tag = "doctype"
Loads(xml) == Len(xml) <= MaxText /\ ~Declares(xml)
XmlReads(xml) ==
  /\ Loads(xml)
  /\ \A i \in DOMAIN xml : Is(xml[i], {"entity"}, {"unknown"}) => ~InText(xml, i)

(* relationships: external ones are left out, the others must be complete. *)
Relationships(xml) ==
  LET rels == SelectSeq(xml, LAMBDA e : e.tag = "rel" /\ ~e.of.external)
  IN  [i \in DOMAIN rels |-> rels[i].of]
RelationshipsRead(xml) == Loads(xml) /\ \A i \in DOMAIN Relationships(xml) : Relationships(xml)[i].complete

(* resolve: a target is [absolute, names]; above the root there is nothing.*)
Outside == <<"..">>
Resolve(base, target) ==
  LET Step(at, name) ==
        IF name \in {"", "."} \/ at = Outside THEN at
        ELSE IF name # ".." THEN Append(at, name)
        ELSE IF at = <<>> THEN Outside ELSE Front(at)
  IN  FoldLeft(Step, IF target.absolute \/ base = <<>> THEN <<>> ELSE Front(base), target.names)

RelsOf(path) == Append(path, "_rels")
LinksOf(members, path, kinds) ==
  LET rels == SelectSeq(Relationships(members[RelsOf(path)]), LAMBDA r : r.kind \in kinds)
  IN  IF RelsOf(path) \in DOMAIN members THEN [i \in DOMAIN rels |-> Resolve(path, rels[i].target)] ELSE <<>>
LinksRead(members, path, kinds) ==
  /\ RelsOf(path) \in DOMAIN members => RelationshipsRead(members[RelsOf(path)])
  /\ \A i \in DOMAIN LinksOf(members, path, kinds) :
       LinksOf(members, path, kinds)[i] \in DOMAIN members /\ XmlReads(members[LinksOf(members, path, kinds)[i]])

Part(name, xml) == [name |-> name, text |-> XmlText(xml)]

Word == <<"word", "document.xml">>
Margins == {"header", "footer", "footnotes", "endnotes"}
Docx(members) ==
  LET margins == LinksOf(members, Word, Margins)
  IN  IF Word \in DOMAIN members /\ XmlReads(members[Word]) /\ LinksRead(members, Word, Margins)
      THEN Document(<<Part(<<"document">>, members[Word])>> \o [i \in DOMAIN margins |-> Part(margins[i], members[margins[i]])])
      ELSE NoDocument

(* The slides in the order of the presentation, each found by the first    *)
(* relationship of its id, with its notes after it.                        *)
Presentation == <<"ppt", "presentation.xml">>
Slides(members) ==
  LET shown == SelectSeq(members[Presentation], LAMBDA e : e.tag = "slide")
      rels  == Relationships(members[RelsOf(Presentation)])
      Nth(id) == SelectInSeq(rels, LAMBDA r : r.id = id /\ r.kind = "slide")
  IN  [i \in DOMAIN shown |-> IF Nth(shown[i].of) = 0 THEN Outside ELSE Resolve(Presentation, rels[Nth(shown[i].of)].target)]
Pptx(members) ==
  LET slides == Slides(members)
      Notes(i) == LinksOf(members, slides[i], {"notesSlide"})
      Of(i) == <<Part(<<"slide", i>>, members[slides[i]])>>
               \o [j \in DOMAIN Notes(i) |-> Part(<<"slide", i, "notes">>, members[Notes(i)[j]])]
      reads == /\ {Presentation, RelsOf(Presentation)} \subseteq DOMAIN members
               /\ Loads(members[Presentation]) /\ RelationshipsRead(members[RelsOf(Presentation)])
               /\ \A i \in DOMAIN slides : /\ slides[i] \in DOMAIN members /\ Len(slides[i]) > 1 /\ XmlReads(members[slides[i]])
                                           /\ LinksRead(members, slides[i], {"notesSlide"})
  IN  IF reads THEN Document(FlattenSeq([i \in DOMAIN slides |-> Of(i)])) ELSE NoDocument

(* extract: a document is read as a whole or skipped.                      *)
ExtractOffice(format, members) ==
  LET doc == IF format = "docx" THEN Docx(members) ELSE Pptx(members)
  IN  IF ~Fits(members) \/ ~doc.read THEN NoDocument
      ELSE IF FoldFunction(+, 0, [i \in DOMAIN doc.parts |-> Len(doc.parts[i].text)]) > MaxText THEN NoDocument
      ELSE doc

-----------------------------------------------------------------------------
(* Notebooks.  A source is [form, lines], a line [of, end]: a string, an   *)
(* array of which some may be no strings, or absent.                       *)

SourceText(source) == IF source.form \in {"string", "array"} THEN FlattenSeq(source.lines) ELSE <<>>

Absent(x) == x.form = "absent"
CellSource(cell) ==
  LET text == SourceText(IF Absent(cell.source) THEN cell.input ELSE cell.source)
      last == SelectLastInSeq(text, LAMBDA c : c # "newline")
  IN  SubSeq(text, 1, last)

(* A flat list of cells, or one in every worksheet that has one.           *)
NotebookCells(root) ==
  IF root.format = 4 THEN root.cells ELSE FlattenSeq(root.sheets)
ExtractNotebook(root) ==
  LET raw == NotebookCells(root)
      all == [i \in DOMAIN raw |-> [type |-> raw[i].type, source |-> CellSource(raw[i])]]
  IN  SelectSeq(all, LAMBDA c : ToSet(c.source) \ {"newline", "blank"} # {})

-----------------------------------------------------------------------------
(* Properties *)

(* Every column has its own letters, and the next ones after those before. *)
ColumnsAreNamed(n) ==
  LET Value(letters) == FoldLeft(LAMBDA v, l : v * ColumnLetters + l + 1, 0, letters) - 1
  IN  Value(Column(n)) = n

(* A sheet says the same in every format it is saved in.                   *)
SheetsReadAlike(cells) == RangedSheet(cells) = StreamedSheet(cells)

(* A target is found from its own file as from the root, and never above.  *)
TargetsResolve(base, names) ==
  LET path == Resolve(base, [absolute |-> FALSE, names |-> names])
      names0 == Front(base) \o names
  IN  /\ path = Resolve(<<>>, [absolute |-> TRUE, names |-> names0])
      /\ path # Outside => ToSet(path) \cap {"", ".", ".."} = {}
      /\ path # Outside <=> \A n \in DOMAIN names0 :
                              Cardinality({i \in 1 .. n : names0[i] = ".."})
                                <= Cardinality({i \in 1 .. n : names0[i] \notin {"", ".", ".."}})

(* A document that is read says all its slides or pages say, in their      *)
(* order, and nothing of what it does not refer to: it is the same without *)
(* a part it can be read without.  One that breaks is skipped as a whole,  *)
(* even if only its last part does.                                        *)
PackageIsWhole(format, members) ==
  LET shown == IF format = "pptx" THEN Slides(members) ELSE <<Word>>
      Named(p) == p \in {Word, Presentation} \/ Last(p) = "_rels"
      parts == {p \in DOMAIN members : ~Named(p)}
      Without(p) == Restrict(members, DOMAIN members \ {p})
      Broken(p)  == [members EXCEPT ![p] = Append(@, Event("doctype", "any"))]
      Variants   == {members} \cup {Without(p) : p \in parts} \cup {Broken(p) : p \in parts}
  IN  \A doc \in {[m \in Variants |-> ExtractOffice(format, m)]} :
        doc[members].read =>
          /\ LET firsts == SelectSeq(doc[members].parts, LAMBDA p : Len(p.name) < 3)
             IN  format = "pptx" =>
                   Len(firsts) = Len(shown) /\ \A i \in DOMAIN shown :
                     firsts[i].name = <<"slide", i>> /\ firsts[i].text = XmlText(members[shown[i]])
          /\ \A p \in parts : ~doc[Without(p)].read \/ doc[Without(p)] = doc[members]
          /\ \A p \in parts : ~doc[Without(p)].read => ~doc[Broken(p)].read

(* A notebook reads alike in the old format and the new, and with every    *)
(* source as one string or as lines; no cell of it is empty.               *)
NotebooksReadAlike(cells, cut) ==
  LET Old == [i \in DOMAIN cells |-> [cells[i] EXCEPT !.source = [form |-> "absent", lines |-> <<>>], !.input = cells[i].source]]
      Joined == [i \in DOMAIN cells |-> [cells[i] EXCEPT !.source =
                   IF @.form = "array" THEN [form |-> "string", lines |-> <<FlattenSeq(@.lines)>>] ELSE @]]
      new == ExtractNotebook([format |-> 4, cells |-> cells])
  IN  /\ new = ExtractNotebook([format |-> 3, sheets |-> <<SubSeq(Old, 1, cut), SubSeq(Old, cut + 1, Len(cells))>>])
      /\ new = ExtractNotebook([format |-> 4, cells |-> Joined])
      /\ \A i \in DOMAIN new : new[i].source # <<>> /\ new[i].source[Len(new[i].source)] # "newline"
===============================================================================
