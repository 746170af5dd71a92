------------------------------ MODULE RepoFiles -------------------------------
(***************************************************************************)
(* The files of a repository that are indexed, and how each is cut.        *)
(***************************************************************************)
EXTENDS Integers, Sequences, FiniteSets, SequencesExt, FiniteSetsExt

(***************************************************************************)
(* Which files there are, src/repo.rs: globs, ignore rules and the walk,   *)
(* which goes through directories in parallel.  A path is the sequence of  *)
(* its names; in the glob matcher, of its characters.  In a rule, what its *)
(* pattern matches stands for the pattern.                                 *)
(***************************************************************************)

-----------------------------------------------------------------------------
(* Globs *)

Stars(p) == Min({i \in DOMAIN p : p[i] # "*"} \cup {Len(p) + 1}) - 1
From(s, i) == SubSeq(s, i, Len(s))

(* Mutation of Glob: a single star crosses separators as a double one.     *)
GlobCrossing(p0, t0) ==
  LET Match[p \in {From(p0, i) : i \in 1 .. Len(p0) + 1}, t \in {From(t0, i) : i \in 1 .. Len(t0) + 1}] ==
        IF p = <<>> THEN t = <<>>
        ELSE IF p[1] = "*"
        THEN LET rest == From(p, Stars(p) + 1)
             IN  \/ Stars(p) > 1 /\ rest # <<>> /\ rest[1] = "/" /\ Match[Tail(rest), t]
                 \/ \E i \in 1 .. Len(t) + 1 : Match[rest, From(t, i)]
        ELSE t # <<>> /\ (p[1] = t[1] \/ (p[1] = "?" /\ t[1] # "/")) /\ Match[Tail(p), Tail(t)]
  IN  Match[p0, t0]

(* glob_inner: a star tries every suffix it could leave over, up to the    *)
(* next separator unless it is double; a double star with its separator    *)
(* may also stand for nothing.                                             *)
Glob(p0, t0) ==
  LET Match[p \in {From(p0, i) : i \in 1 .. Len(p0) + 1}, t \in {From(t0, i) : i \in 1 .. Len(t0) + 1}] ==
        IF p = <<>> THEN t = <<>>
        ELSE IF p[1] = "*"
        THEN LET rest == From(p, Stars(p) + 1)
             IN  \/ Stars(p) > 1 /\ rest # <<>> /\ rest[1] = "/" /\ Match[Tail(rest), t]
                 \/ \E i \in 1 .. Len(t) + 1 :
                      (Stars(p) > 1 \/ \A j \in 1 .. i - 1 : t[j] # "/") /\ Match[rest, From(t, i)]
        ELSE t # <<>> /\ (p[1] = t[1] \/ (p[1] = "?" /\ t[1] # "/")) /\ Match[Tail(p), Tail(t)]
  IN  Match[p0, t0]

(* expand_braces: the alternatives of the first pair of braces, with those *)
(* of what follows; a pair without a comma is left as it is, and with it   *)
(* all that follows.                                                       *)
Expand(pattern) ==
  LET Alternatives[p \in {From(pattern, i) : i \in 1 .. Len(pattern) + 1}] ==
        LET open  == SelectInSeq(p, LAMBDA c : c = "{")
            close == Min({i \in DOMAIN p : i > open /\ p[i] = "}"} \cup {Len(p) + 1})
            inner == SubSeq(p, open + 1, close - 1)
            cuts  == {open, close} \cup {i \in open .. close - 1 : p[i] = ","}
            ends  == SetToSortSeq(cuts, <)
            alts  == {SubSeq(p, ends[i] + 1, ends[i + 1] - 1) : i \in 1 .. Len(ends) - 1}
        IN  IF open = 0 \/ close > Len(p) \/ ~Contains(inner, ",") THEN {p}
            ELSE {SubSeq(p, 1, open - 1) \o a \o rest : a \in alts, rest \in Alternatives[From(p, close + 1)]}
  IN  Alternatives[pattern]

PathGlob(pattern, text) == \E p \in Expand(pattern) : Glob(p, text)

(* Reference: the pattern positions reached while the text is read once.   *)
(* Position -i is inside the star at i, which has read something: only one *)
(* that has not may be left together with the separator after it.          *)
GlobReads(p, t) ==
  LET Run(i)   == Stars(From(p, i))
      Free(i)  == IF i < 0 THEN {i, Run(-i) - i}
                  ELSE {i, i + Run(i)} \cup IF Run(i) > 1 /\ i + Run(i) <= Len(p) /\ p[i + Run(i)] = "/"
                                            THEN {i + Run(i) + 1} ELSE {}
      Close(S) == UNION {UNION {Free(j) : j \in Free(i)} : i \in S}
      After(i, c) ==
        LET at == IF i < 0 THEN -i ELSE i
        IN  IF at > Len(p) THEN {}
            ELSE IF p[at] = "*" THEN IF Run(at) > 1 \/ c # "/" THEN {-at} ELSE {}
            ELSE IF p[at] = c \/ (p[at] = "?" /\ c # "/") THEN {at + 1} ELSE {}
  IN  Len(p) + 1 \in FoldLeft(LAMBDA S, c : Close(UNION {After(i, c) : i \in S}), Close({1}), t)

(* A path matches a pattern with braces exactly when reading it once along *)
(* one of the alternatives ends at the end of that alternative: the stars  *)
(* of path_glob_match backtrack, over separators only if they are double.  *)
GlobIsExact(pattern, text) == PathGlob(pattern, text) <=> \E p \in Expand(pattern) : GlobReads(p, text)

-----------------------------------------------------------------------------
(* Ignore rules and the walk                                               *)

CONSTANTS Hidden,    \* names that begin with a dot
          Skipped,   \* ALWAYS_SKIP_DIRS
          Unwatched, \* is_skipped_component
          Litter,    \* names that end in "~" or begin with "#"
          Foreign    \* names with an extension that is no source's

VARIABLES
  disk,     \* the files: path -> is it source, non-empty, small enough?
  excludes, \* the ignore files outside the tree, the user's and .git/info/exclude
  ignores,  \* the ignore file of a directory: its path -> its rules, in order
  todo,     \* directories to be walked, with the layers that apply there
  listed    \* the files found

walkVars == <<disk, excludes, ignores, todo, listed>>

Rule(hits, anchored, dirOnly, negated) ==
  [hits |-> hits, anchored |-> anchored, dirOnly |-> dirOnly, negated |-> negated]

Dirs == UNION {{SubSeq(f, 1, n) : n \in 0 .. Len(f) - 1} : f \in DOMAIN disk}
Name(path) == path[Len(path)]
In(dir)    == {p \in Dirs \cup DOMAIN disk : p # <<>> /\ Front(p) = dir}

(* An anchored pattern is matched with the path below the ignore file, any *)
(* other with each of its names.                                           *)
Applies(rule, sub, isDir) ==
  /\ rule.dirOnly => isDir
  /\ IF rule.anchored THEN sub \in rule.hits ELSE \E name \in ToSet(sub) : <<name>> \in rule.hits

(* Later layers and later rules win.                                       *)
IsIgnored(layers, path, isDir) ==
  LET Below(dir) == IsPrefix(dir, path)
      OfLayer(was, layer) ==
        IF ~Below(layer.dir) THEN was
        ELSE FoldLeft(LAMBDA w, r : IF Applies(r, From(path, Len(layer.dir) + 1), isDir) THEN ~r.negated ELSE w,
                      was, layer.rules)
  IN  FoldLeft(OfLayer, FALSE, layers)

(* Mutation of WithRulesOf: the ignore file of a directory replaces those  *)
(* above.                                                                  *)
WithRulesOfAlone(layers, dir) ==
  IF dir \in DOMAIN ignores /\ ignores[dir] # <<>>
  THEN <<[dir |-> dir, rules |-> ignores[dir]]>> ELSE layers

WithRulesOf(layers, dir) ==
  IF dir \in DOMAIN ignores /\ ignores[dir] # <<>>
  THEN Append(layers, [dir |-> dir, rules |-> ignores[dir]]) ELSE layers

IsSkipped(path) == Name(path) \in Hidden \/ (path \in Dirs /\ Name(path) \in Skipped)

(* The files outside the tree come first, so that committed rules win.     *)
GitExcludes ==
  LET layers == [i \in DOMAIN excludes |-> [dir |-> <<>>, rules |-> excludes[i]]]
  IN  SelectSeq(layers, LAMBDA l : l.rules # <<>>)

WalkInit == todo = {[dir |-> <<>>, layers |-> WithRulesOf(GitExcludes, <<>>)]} /\ listed = {}

(* One directory: its files, and its subdirectories for later, each with a *)
(* copy of the layers of its own.                                          *)
WalkDir(job) ==
  LET seen == {p \in In(job.dir) : ~IsSkipped(p) /\ ~IsIgnored(job.layers, p, p \in Dirs)}
  IN  /\ job \in todo
      /\ listed' = listed \cup {p \in seen \ Dirs : disk[p]}
      /\ todo' = (todo \ {job}) \cup {[dir |-> d, layers |-> WithRulesOf(job.layers, d)] : d \in seen \cap Dirs}
      /\ UNCHANGED <<disk, excludes, ignores>>

Walk == \E job \in todo : WalkDir(job)

(* The rules of the ignore file of a directory, those of the files         *)
(* outside the tree before those of its root.                              *)
RulesAt(dir) ==
  (IF dir = <<>> THEN FlattenSeq(excludes) ELSE <<>>)
    \o (IF dir \in DOMAIN ignores THEN ignores[dir] ELSE <<>>)

(* The last rule that matches a path, from the top down, decides.          *)
LastRuleIgnores(Matches(_, _, _), path, isDir) ==
  LET rules == FlattenSeq([n \in 1 .. Len(path) |->
                 [i \in DOMAIN RulesAt(SubSeq(path, 1, n - 1)) |->
                    [rule |-> RulesAt(SubSeq(path, 1, n - 1))[i], sub |-> From(path, n)]]])
      last  == SelectLastInSeq(rules, LAMBDA r : Matches(r.rule, r.sub, isDir))
  IN  last > 0 /\ ~rules[last].rule.negated

(* The files that are neither ignored nor in a directory that is.          *)
FilesLeft(Matches(_, _, _)) ==
  {f \in DOMAIN disk : disk[f] /\ \A n \in 1 .. Len(f) :
     LET p == SubSeq(f, 1, n)
     IN  ~IsSkipped(p) /\ ~LastRuleIgnores(Matches, p, n < Len(f))}

(* Whatever order the directories are walked in, each with its copy of the *)
(* layers above, the files found are those the rules leave.                *)
WalkIsExact == todo = {} => listed = FilesLeft(Applies)

-----------------------------------------------------------------------------
(* Which events make the watcher notice: src/watch.rs.  An event is of a   *)
(* path, and has a kind: of a folder, of a name, another change, one that  *)
(* changes no content, or events were lost.                                *)

EventKinds == {"folder", "name", "content", "access", "lost"}

IsRelevant(path, kind, isDir) ==
  \/ path = <<>> \/ path = <<".git", "info", "exclude">>
  \/ Name(path) = ".gitignore"
  \/ /\ ToSet(path) \cap Unwatched = {} /\ Name(path) \notin Hidden \cup Litter
     /\ isDir \/ kind \in {"folder", "name"} \/ Name(path) \notin Foreign

Triggers(path, kind, isDir) == kind = "lost" \/ (kind # "access" /\ IsRelevant(path, kind, isDir))

(* The watcher judges a path without the rules and the tree, even one that *)
(* is gone, but misses nothing a walk would find: changes of a file listed *)
(* (but for one named like an editor's), of a directory above it, and of   *)
(* an ignore file anywhere; nor does it react to what lies in directories  *)
(* that are never walked.                                                  *)
ListedIsNoticed ==
  todo = {} =>
    /\ \A f \in listed :
         /\ Name(f) \notin Litter => Triggers(f, "content", FALSE)
         /\ \A n \in 1 .. Len(f) - 1 : Triggers(SubSeq(f, 1, n), "folder", FALSE) /\ Triggers(SubSeq(f, 1, n), "name", FALSE)
    /\ \A d \in Dirs : \A kind \in EventKinds \ {"access"} : Triggers(Append(d, ".gitignore"), kind, FALSE)
    /\ \A p \in Dirs \cup DOMAIN disk : (\E n \in 1 .. Len(p) - 1 : p[n] \in Skipped) => ~Triggers(p, "content", FALSE)

-------------------------------------------------------------------------------
(***************************************************************************)
(* Cutting a file into chunks: src/repo.rs by declaration, by heading and  *)
(* by page, src/notebook.rs by cell, src/office.rs by part, src/treesit.rs *)
(* by the definitions a grammar finds.  A line is known by its kind and    *)
(* its bytes; level is the level of a heading or the character of an       *)
(* underline; of is the page, cell or part it came from.                   *)
(* Lines are numbered from 0 while cutting, from 1 in a chunk.             *)
(***************************************************************************)

CONSTANTS MaxLines,    \* MAX_CHUNK_LINES
          MaxBytes,    \* MAX_CHUNK_BYTES
          ProseBytes,  \* PROSE_CHUNK_BYTES
          WrapBytes,   \* 1024, where lines of office documents are wrapped
          RunLines     \* RUN_LINES, the longest run of one-line units

ASSUME ChunkAssumption ==
  /\ MaxLines \in Nat \ {0} /\ ProseBytes \in Nat \ {0}
  /\ MaxBytes >= ProseBytes /\ WrapBytes \in 1 .. MaxBytes

Line(kind, size, level, of) == [kind |-> kind, size |-> size, level |-> level, of |-> of]
Blank(of)     == Line("blank", 0, 0, of)
IsBlank(l)    == l.kind = "blank"
NoName        == 0
NoParent      == 0

(* Lines from .. to - 1, joined by newlines.                               *)
Bytes(lines, from, to) ==
  FoldLeft(LAMBDA n, l : n + l.size, 0, SubSeq(lines, from + 1, to)) + to - from - 1

(* A chunk of these lines, unless all are blank, cut at the byte limit.    *)
ChunkOf(lines, from, to, name, parent) ==
  IF \A i \in from + 1 .. to : IsBlank(lines[i]) THEN <<>>
  ELSE <<[first |-> from + 1, last |-> to, name |-> name, parent |-> parent,
          size |-> Min({Bytes(lines, from, to), MaxBytes})]>>

(* push_split: slices of MaxLines, the first with the name.                *)
Split(lines, from, to, name, parent) ==
  LET slices == [i \in 1 .. (to - from + MaxLines - 1) \div MaxLines |-> from + (i - 1) * MaxLines]
  IN  FlattenSeq([i \in DOMAIN slices |->
        ChunkOf(lines, slices[i], Min({slices[i] + MaxLines, to}),
                IF i = 1 THEN name ELSE NoName, IF i = 1 THEN parent ELSE NoParent)])

(* Mutation of WindowEnd: a window stops at the blank line, which may be   *)
(* the one it begins with.                                                 *)
WindowEndAtBlank(lines, from, to) ==
  LET room   == {s \in from + 1 .. Min({to, from + MaxLines}) :
                   s = from + 1 \/ Bytes(lines, from, s) <= ProseBytes}
      stop   == Max(room)
      blanks == {i \in from + (stop - from) \div 2 .. stop - 1 : IsBlank(lines[i + 1])}
  IN  IF stop < to /\ blanks # {} THEN Max(blanks) ELSE stop

(* Where a window ends: as many lines and bytes as fit, but at the last    *)
(* blank line of its second half if it is not the rest.                    *)
WindowEnd(lines, from, to) ==
  LET room   == {s \in from + 1 .. Min({to, from + MaxLines}) :
                   s = from + 1 \/ Bytes(lines, from, s) <= ProseBytes}
      stop   == Max(room)
      blanks == {i \in from + (stop - from) \div 2 .. stop - 1 : IsBlank(lines[i + 1])}
  IN  IF stop < to /\ blanks # {} THEN Max(blanks) + 1 ELSE stop

(* push_windowed: windows, all with the name.                              *)
Windowed(lines, from, to, name, parent) ==
  LET Step(st, i) ==
        IF st.at >= to THEN st
        ELSE LET stop == WindowEnd(lines, st.at, to)
             IN  [at |-> stop, out |-> st.out \o ChunkOf(lines, st.at, stop, name, parent)]
  IN  FoldLeft(Step, [at |-> from, out |-> <<>>], lines).out

-----------------------------------------------------------------------------
(* chunk_text: from one declaration with its comments to the next.         *)

Declarations(lines) == SetToSortSeq({i - 1 : i \in {j \in DOMAIN lines : lines[j].kind = "decl"}}, <)

(* Pulled up over comments, but not past the declaration before it.        *)
PulledUp(lines, floor, start) ==
  Min({at \in floor .. start : \A i \in at + 1 .. start : lines[i].kind = "doc"})

TextChunks(lines) ==
  LET starts == Declarations(lines)
      adj    == [n \in DOMAIN starts |-> PulledUp(lines, IF n = 1 THEN 0 ELSE starts[n - 1], starts[n])]
      EndOf(n) == IF n = Len(adj) THEN Len(lines) ELSE adj[n + 1]
  IN  IF starts = <<>> THEN Windowed(lines, 0, Len(lines), NoName, NoParent)
      ELSE Split(lines, 0, adj[1], NoName, NoParent)
           \o FlattenSeq([n \in DOMAIN adj |-> Split(lines, adj[n], EndOf(n), starts[n] + 1, NoParent)])

-----------------------------------------------------------------------------
(* chunk_prose: by heading.  A heading is marked on its line, or a line    *)
(* with a rule below, in "rst", and perhaps the same rule above.           *)

IsRule(line, char) == line.kind = "rule" /\ line.level = char

HeadingAt(format, lines, i) ==
  IF format # "rst" THEN [found |-> lines[i + 1].level > 0, level |-> lines[i + 1].level, start |-> i]
  ELSE LET under == i + 1 < Len(lines) /\ lines[i + 2].kind = "rule"
           char  == lines[i + 2].level
       IN  IF ~under \/ IsBlank(lines[i + 1]) \/ IsRule(lines[i + 1], char)
           THEN [found |-> FALSE, level |-> 0, start |-> i]
           ELSE [found |-> TRUE, level |-> char,
                 start |-> IF i > 0 /\ IsRule(lines[i], char) THEN i - 1 ELSE i]

(* Underline characters rank by first appearance.                          *)
Headings(format, lines) ==
  LET Step(st, line) ==
        LET h     == HeadingAt(format, lines, st.i)
            ranks == IF format # "rst" \/ Contains(st.ranks, h.level) THEN st.ranks
                     ELSE Append(st.ranks, h.level)
            level == IF format # "rst" THEN h.level ELSE SelectInSeq(ranks, LAMBDA c : c = h.level)
        IN  IF st.i >= Len(lines) THEN st
            ELSE IF ~h.found THEN [st EXCEPT !.i = @ + 1]
            ELSE [i |-> st.i + (IF h.start < st.i THEN 2 ELSE 1), ranks |-> ranks,
                  heads |-> Append(st.heads, [start |-> h.start, level |-> level, title |-> st.i + 1])]
  IN  FoldLeft(Step, [i |-> 0, ranks |-> <<>>, heads |-> <<>>], lines).heads

(* Every section under the headings still open above it.                   *)
ProseChunks(format, lines) ==
  LET heads == Headings(format, lines)
      EndOf(n) == IF n = Len(heads) THEN Len(lines) ELSE heads[n + 1].start
      Section(st, n) ==
        LET open == SelectSeq(st.open, LAMBDA h : h.level < heads[n].level)
        IN  [open |-> Append(open, heads[n]),
             out  |-> st.out \o Windowed(lines, heads[n].start, EndOf(n), heads[n].title,
                                         IF open = <<>> THEN NoParent ELSE open[Len(open)].title)]
      preamble == Windowed(lines, 0, IF heads = <<>> THEN Len(lines) ELSE heads[1].start, NoName, NoParent)
  IN  FoldLeft(Section, [open |-> <<>>, out |-> preamble], [n \in DOMAIN heads |-> n]).out

-----------------------------------------------------------------------------
(* Pages, cells and parts: cut one by one, numbered in the joined text.    *)

(* A page without trailing blank lines, runs of blank ones made one.       *)
Normalized(page) ==
  LET Step(ls, l) == IF IsBlank(l) /\ (ls = <<>> \/ IsBlank(Last(ls))) THEN ls ELSE Append(ls, l)
      ls == FoldLeft(Step, <<>>, page)
  IN  IF ls # <<>> /\ IsBlank(Last(ls)) THEN Front(ls) ELSE ls

(* An empty page is an empty line, which the end of the text swallows.     *)
PageText(pages) ==
  LET each == [i \in DOMAIN pages |->
                 IF Normalized(pages[i]) = <<>> THEN <<Blank(i)>> ELSE Normalized(pages[i])]
      all  == FlattenSeq(each)
  IN  IF pages # <<>> /\ Normalized(Last(pages)) = <<>> THEN Front(all) ELSE all

PageChunks(pages) ==
  LET lines == PageText(pages)
      Step(st, i) ==
        LET end == Min({st.at + Max({Len(Normalized(pages[i])), 1}), Len(lines)})
        IN  [at |-> end, out |-> st.out \o Split(lines, st.at, end, i, NoParent)]
  IN  FoldLeft(Step, [at |-> 0, out |-> <<>>], [i \in DOMAIN pages |-> i]).out

(* Cells, a blank line between two.  A heading lasts until the next.       *)
CellText(cells) ==
  FlattenSeq([i \in DOMAIN cells |-> IF i = 1 THEN cells[i] ELSE <<Blank(i)>> \o cells[i]])

CellChunks(cells) ==
  LET lines == CellText(cells)
      Step(st, i) ==
        LET end   == Min({st.at + Len(cells[i]), Len(lines)})
            under == IF \E l \in ToSet(cells[i]) : l.level > 0 THEN i ELSE st.under
        IN  [at |-> end + 1, under |-> under,
             out |-> st.out \o Windowed(lines, st.at, end, i, under)]
  IN  FoldLeft(Step, [at |-> 0, under |-> NoParent, out |-> <<>>], [i \in DOMAIN cells |-> i]).out

(* Parts, their long lines wrapped and their blank ends trimmed.           *)
Wrap(l) ==
  IF l.size <= WrapBytes THEN <<l>>
  ELSE LET n == (l.size + WrapBytes - 1) \div WrapBytes
       IN  [i \in 1 .. n |-> [l EXCEPT !.size = IF i < n THEN WrapBytes ELSE l.size - (n - 1) * WrapBytes]]

Trimmed(part) ==
  LET ls   == FlattenSeq([i \in DOMAIN part |-> Wrap(part[i])])
      full == {i \in DOMAIN ls : ~IsBlank(ls[i])}
  IN  IF full = {} THEN <<>> ELSE SubSeq(ls, Min(full), Max(full))

PartText(parts) == FlattenSeq(SelectSeq([i \in DOMAIN parts |-> Trimmed(parts[i])], LAMBDA p : p # <<>>))

PartChunks(parts) ==
  LET lines == PartText(parts)
      kept  == SelectSeq([i \in DOMAIN parts |-> Trimmed(parts[i])], LAMBDA p : p # <<>>)
      EndOf(at, to) == Max({s \in at .. Min({to, at + MaxLines}) : s = at \/ Bytes(lines, at, s) <= MaxBytes})
      Part(st, p) ==
        LET to == st.at + Len(p)
            Step(s, i) ==
              IF s.at >= to THEN s
              ELSE [at |-> EndOf(s.at, to),
                    out |-> Append(s.out, [first |-> s.at + 1, last |-> EndOf(s.at, to), name |-> p[1].of,
                                           parent |-> NoParent, size |-> Bytes(lines, s.at, EndOf(s.at, to))])]
        IN  FoldLeft(Step, st, p)
  IN  FoldLeft(Part, [at |-> 0, out |-> <<>>], kept).out

(* The text that the line numbers of a file's chunks refer to. *)
CutText(format, text) ==
  CASE format = "pages" -> PageText(text)
    [] format = "cells" -> CellText(text)
    [] format = "parts" -> PartText(text)
    [] OTHER            -> text

(* What cuts it. *)
CutChunks(format, text) ==
  CASE format = "code"  -> TextChunks(text)
    [] format = "pages" -> PageChunks(text)
    [] format = "cells" -> CellChunks(text)
    [] format = "parts" -> PartChunks(text)
    [] OTHER            -> ProseChunks(format, text)

-----------------------------------------------------------------------------
(* Properties: of chunks, and the lines they are numbered in.              *)

(* Chunks follow one another without overlap, so that their ids, which are *)
(* their line ranges, differ; no line with text is left out; and none      *)
(* exceeds the limits.                                                     *)
Tile(lines, chunks) ==
  /\ \A c \in ToSet(chunks) : /\ 1 <= c.first /\ c.first <= c.last /\ c.last <= Len(lines)
                              /\ c.last - c.first < MaxLines /\ c.size <= MaxBytes
  /\ \A i \in 1 .. Len(chunks) - 1 : chunks[i].last < chunks[i + 1].first
  /\ \A i \in DOMAIN lines :
       IsBlank(lines[i]) \/ \E c \in ToSet(chunks) : i \in c.first .. c.last

(* The lines of the joined text that a chunk spans come from one page,     *)
(* cell or part, the one it is named after if it is: "chunk line numbers   *)
(* refer to this text", and a hit is shown by reading those lines again.   *)
FromNamed(lines, chunks) ==
  \A c \in ToSet(chunks) :
    LET sources == {lines[i].of : i \in {j \in c.first .. c.last : ~IsBlank(lines[j])}}
    IN  Cardinality(sources) <= 1 /\ (c.name # NoName => sources \subseteq {c.name})

(* No chunk spans two declarations, a name is that of the next one, and    *)
(* every one gives its name: comments above it may fill slices of their    *)
(* own, of which the first has the name.                                   *)
OneDeclaration(lines, chunks) ==
  LET decls == {i \in DOMAIN lines : lines[i].kind = "decl"}
  IN  /\ \A c \in ToSet(chunks) : /\ Cardinality(decls \cap c.first .. c.last) <= 1
                                 /\ c.name # NoName => c.name = Min({d \in decls : d >= c.first})
      /\ \A d \in decls : \E c \in ToSet(chunks) : c.name = d

(* A section's parent is the nearest heading above of a higher rank.       *)
RightParent(format, lines, chunks) ==
  LET heads == ToSet(Headings(format, lines))
  IN  \A c \in {d \in ToSet(chunks) : d.name # NoName} :
        LET h     == CHOOSE g \in heads : g.title = c.name
            above == {g.title : g \in {e \in heads : e.title < h.title /\ e.level < h.level}}
        IN  c.parent = IF above = {} THEN NoParent ELSE Max(above)

(* Every file, whatever its format, is cut so, and code and prose keep     *)
(* their declarations and headings.                                        *)
ChunksAreExact(format, text) ==
  \A lines \in {CutText(format, text)}, chunks \in {CutChunks(format, text)} :
    /\ Tile(lines, chunks)
    /\ format \in {"pages", "cells", "parts"} => FromNamed(lines, chunks)
    /\ format = "code" => OneDeclaration(lines, chunks)
    /\ format \in {"md", "rst"} => RightParent(format, lines, chunks)

-----------------------------------------------------------------------------
(* Cutting a file at the definitions its grammar finds: cover of           *)
(* src/treesit.rs.  What tree-sitter and the queries return is any list of *)
(* definitions with lines from start to end, by start, no two with the     *)
(* same; here lines are numbered from 1 throughout.                        *)

(* Kinds: "member" stays inside its parent, "signature" too but it may     *)
(* belong to the unit below; "label" runs on to the next unit; "block" is  *)
(* an implementation; "short" is a bodyless kind that merges; "unit".      *)
Def(name, kind, start, end, doc) ==
  [name |-> name, kind |-> kind, start |-> start, end |-> end, doc |-> doc]

IsMember(d) == d.kind \in {"member", "signature"}

(* The first line of unit u, whose comments and signature are above it:    *)
(* over comments, a comment block one blank line away, and a signature.    *)
RECURSIVE Above(_, _, _, _, _)
Above(lines, members, u, floor, at) ==
  LET sigs == {m \in members : /\ m.kind = "signature" /\ m.name = u.name
                               /\ m.end + 1 >= at - 1 /\ m.end < at}
      sig  == CHOOSE m \in sigs : \A n \in sigs : m.start <= n.start
      IsDoc(i) == lines[i].kind = "doc"
  IN  IF \/ at > floor /\ IsDoc(at - 1)
         \/ at > floor + 1 /\ IsBlank(lines[at - 1]) /\ ~IsBlank(lines[at]) /\ IsDoc(at - 2)
      THEN Above(lines, members, u, floor, at - 1)
      ELSE IF sigs # {} /\ sig.start >= floor THEN Above(lines, members, u, floor, sig.start)
      ELSE at

Units(lines, defs) ==
  LET members == {d \in ToSet(defs) : IsMember(d)}
      Pull(st, u) ==
        LET from == Min({u.doc, u.start})
            at   == IF from = u.start THEN Above(lines, members, u, st.floor, from) ELSE from
        IN  [floor |-> u.start, out |-> Append(st.out, [u EXCEPT !.doc = Max({at, st.floor})])]
      pulled == FoldLeft(Pull, [floor |-> 1, out |-> <<>>], SelectSeq(defs, LAMBDA d : ~IsMember(d))).out
      Next1(i) == IF i < Len(pulled) THEN pulled[i + 1].doc - 1 ELSE Len(lines)
  IN  [i \in DOMAIN pulled |-> IF pulled[i].kind = "label"
                               THEN [pulled[i] EXCEPT !.end = Max({@, Next1(i)})] ELSE pulled[i]]

-----------------------------------------------------------------------------
(* Segments between cut points.                                            *)

Innermost(us) == CHOOSE u \in us : \A v \in us \ {u} : \/ u.end - u.doc < v.end - v.doc
                                                       \/ u.end - u.doc = v.end - v.doc /\ u.start < v.start

(* Lines a .. b - 1.                                                       *)
Segment(units, a, b) ==
  LET us       == ToSet(units)
      starting == {u \in us : u.doc = a}
      holding  == IF starting # {} THEN starting ELSE {u \in us : u.doc <= a /\ u.end >= a}
      owner    == Innermost(holding)
      around   == IF holding = {} THEN {} ELSE {u \in us \ {owner} : u.doc <= owner.doc /\ u.end >= owner.end}
      mine     == IF holding = {} THEN Def(NoName, "none", a, a, a) ELSE owner
  IN  [a |-> a, b |-> b, name |-> mine.name, kind |-> mine.kind, starts |-> starting # {},
       parent |-> IF around = {} THEN NoParent ELSE Innermost(around).name,
       tiny |-> starting # {} /\ mine.kind = "short" /\ mine.end + 1 - mine.doc <= 2,
       unitEnd |-> IF starting # {} THEN mine.end ELSE a]

Segments(lines, units) ==
  LET n    == Len(lines)
      cuts == {c \in {1, n + 1} \cup UNION {{u.doc, u.end + 1} : u \in ToSet(units)} : c \in 1 .. n + 1}
      seq  == SetToSortSeq(cuts, <)
  IN  [i \in 1 .. Len(seq) - 1 |-> Segment(units, seq[i], seq[i + 1])]

NonBlank(lines, seg) == Cardinality({i \in seg.a .. seg.b - 1 : ~IsBlank(lines[i])})

(* A block that is nothing but its header joins its first member.  Each    *)
(* segment is looked at once: one that took in a header takes in no other. *)
HeadersFolded(lines, segs) ==
  LET Fold(st, s) ==
        LET h == Last(st.out)
        IN  IF /\ st.out # <<>> /\ ~st.took
               /\ h.starts /\ h.kind = "block" /\ NonBlank(lines, h) <= 2
               /\ s.starts /\ s.a <= h.unitEnd /\ s.parent = h.name
            THEN [out |-> Append(Front(st.out), [s EXCEPT !.a = h.a]), took |-> TRUE]
            ELSE [out |-> Append(st.out, s), took |-> FALSE]
  IN  FoldLeft(Fold, [out |-> <<>>, took |-> FALSE], segs).out

(* Small tails join what is before them, and one-line units make runs.     *)
Merged(lines, segs) ==
  LET Join(st, s) ==
        LET prev == Last(st.out)
        IN  IF /\ st.out # <<>>
               /\ \/ ~s.starts /\ NonBlank(lines, s) <= 2 /\ s.b - prev.a <= MaxLines
                  \/ s.tiny /\ st.open /\ s.b - prev.a <= RunLines
            THEN [st EXCEPT !.out = [@ EXCEPT ![Len(st.out)].b = s.b]]
            ELSE [out |-> Append(st.out, s), open |-> s.tiny]
  IN  FoldLeft(Join, [out |-> <<>>, open |-> FALSE], segs).out

GrammarChunks(lines, defs) ==
  LET segs == Merged(lines, HeadersFolded(lines, Segments(lines, Units(lines, defs))))
  IN  FlattenSeq([i \in DOMAIN segs |-> Split(lines, segs[i].a - 1, segs[i].b - 1, segs[i].name, segs[i].parent)])

-----------------------------------------------------------------------------
(* Every definition that owns a chunk and opens on a line of its own is    *)
(* found by name: it names a chunk that covers its first line or the       *)
(* comments above, unless it was put into a run or the header of its       *)
(* implementation went to its first member.                                *)
Findable(lines, defs) ==
  \A u \in ToSet(Units(lines, defs)) :
    \/ u.kind \in {"block", "short"}
    \/ \E v \in ToSet(Units(lines, defs)) \ {u} : v.doc = u.doc
    \/ IsBlank(lines[u.start])
    \/ \E c \in ToSet(GrammarChunks(lines, defs)) : c.name = u.name /\ c.first <= u.start
===============================================================================
