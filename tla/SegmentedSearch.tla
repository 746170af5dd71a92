--------------------------- MODULE SegmentedSearch ----------------------------
(***************************************************************************)
(* Queries on one opened handle, AnyIndex of src/searcher.rs: a glob is    *)
(* resolved to a scope, remembered for the last few globs; unknown terms   *)
(* are corrected; every segment is searched under global statistics, all   *)
(* at once, and the per-segment hits are merged (search_core of            *)
(* src/segments.rs).  A single index is one segment without tombstones.    *)
(*                                                                         *)
(* What an evaluator returns for one segment is its contract, which        *)
(* ExactSearch checks.  Weights are naturals: Rarity stands for idf, Gain  *)
(* for the rest of BM25, which sees a length relative to the average.      *)
(***************************************************************************)
EXTENDS Integers, Sequences, FiniteSets, SequencesExt, FiniteSetsExt, TLC

(***************************************************************************)
(* The scope of a query, src/scope.rs: a bitmap per segment made from the  *)
(* files a glob accepts, less the tombstones.  A word of a bitmap is the   *)
(* set of its bits; Width stands for 64 and RangeSize for the 8192         *)
(* documents one task scans.  The path of a document is known by its file. *)
(***************************************************************************)

CONSTANTS Width,      \* bits per word
          RangeSize   \* documents per scanned range

ASSUME ScopeAssumption == Width \in Nat \ {0} /\ RangeSize \in Nat \ {0}

Bits     == 0 .. Width - 1
NoBit    == -1          \* u32::MAX, "none remains"
CeilDiv(n, w) == (n + w - 1) \div w

-----------------------------------------------------------------------------
(* Bitmaps are sequences of words, numbered from 0 as in the code.         *)

WordAt(words, i)    == words[i + 1]
BitIsSet(words, d)  == d \div Width < Len(words) /\ d % Width \in WordAt(words, d \div Width)
BitsOf(words)       == {d \in 0 .. Len(words) * Width - 1 : BitIsSet(words, d)}
BitmapOf(ds, n)     == [i \in 1 .. CeilDiv(n, Width) |-> {b \in Bits : (i - 1) * Width + b \in ds}]

(* Mutation of NextSetBit: the first word is taken whole.                  *)
NextSetBitWhole(words, d) ==
  LET from == d \div Width
      rest == {i \in from .. Len(words) - 1 : WordAt(words, i) # {}}
  IN  IF rest = {} THEN NoBit ELSE Min(rest) * Width + Min(WordAt(words, Min(rest)))

(* The masked first word, then the words after it.                         *)
NextSetBit(words, d) ==
  LET from == d \div Width
      Left(i) == IF i = from THEN {b \in WordAt(words, i) : b >= d % Width} ELSE WordAt(words, i)
      rest == {i \in from .. Len(words) - 1 : Left(i) # {}}
  IN  IF rest = {} THEN NoBit ELSE Min(rest) * Width + Min(Left(Min(rest)))

-----------------------------------------------------------------------------
(* DocScope: the bitmaps and how many documents they allow.                *)

NewScope(sizes) == [allowed |-> [s \in DOMAIN sizes |-> BitmapOf({}, sizes[s])], matched |-> 0]

(* One word's share of a range, counting only the bits that are new.       *)
AllowInWord(scope, s, word, mask) ==
  [allowed |-> [scope.allowed EXCEPT ![s][word + 1] = @ \cup mask],
   matched |-> scope.matched + Cardinality(mask \ WordAt(scope.allowed[s], word))]

Count(n) == [i \in 1 .. n |-> i]     \* to go over 1 .. n in order

(* The documents of a range that fall into one word: its bits lo .. hi.    *)
MaskIn(word, start, end) ==
  LET lo   == IF word = start \div Width THEN start % Width ELSE 0
      take == Min({Width - lo, end - (word * Width + lo)})
  IN  lo .. lo + take - 1

AllowRange(scope, s, start, len) ==
  LET first == start \div Width
      words == CeilDiv(start + len, Width) - first
  IN  FoldLeft(LAMBDA sc, i : AllowInWord(sc, s, first + i - 1, MaskIn(first + i - 1, start, start + len)),
               scope, Count(words))

ExcludeInWord(scope, s, word, gone) ==
  LET dropped == WordAt(scope.allowed[s], word) \cap gone
  IN  [allowed |-> [scope.allowed EXCEPT ![s][word + 1] = @ \ dropped], matched |-> scope.matched - Cardinality(dropped)]

(* The words that the scope and the tombstones both have.                  *)
Exclude(scope, s, deleted) ==
  FoldLeft(LAMBDA sc, i : ExcludeInWord(sc, s, i - 1, deleted[i]), scope, Count(Min({Len(scope.allowed[s]), Len(deleted)})))

SegmentBits(scope, s) == IF s \in DOMAIN scope.allowed THEN scope.allowed[s] ELSE <<>>

-----------------------------------------------------------------------------
(* PathIndex: the runs of documents of each file.  files[s][d] is the file *)
(* of document d of segment s, numbered from 1 there.                      *)

Run(s, f, first, len) == [seg |-> s, file |-> f, first |-> first, len |-> len]

(* One document after the runs so far of its range.                        *)
Extend(runs, s, f, d) ==
  IF runs # <<>> /\ Last(runs).file = f /\ Last(runs).first + Last(runs).len = d
  THEN [runs EXCEPT ![Len(runs)].len = @ + 1]
  ELSE Append(runs, Run(s, f, d, 1))

(* The ranges of all segments, in order, with the runs each yields.        *)
RangesOf(s, n)   == [i \in 1 .. CeilDiv(n, RangeSize) |-> <<s, (i - 1) * RangeSize>>]
ScanRange(files, s, start) ==
  LET n == Min({RangeSize, Len(files[s]) - start})
  IN  FoldLeft(LAMBDA runs, i : Extend(runs, s, files[s][start + i], start + i - 1), <<>>, Count(n))
Partial(files) ==
  LET ranges == FlattenSeq([s \in 1 .. Len(files) |-> RangesOf(s, Len(files[s]))])
  IN  FlattenSeq([i \in DOMAIN ranges |-> ScanRange(files, ranges[i][1], ranges[i][2])])

(* A run split only by a range boundary rejoins.                           *)
Rejoin(runs, run) ==
  IF runs # <<>> /\ Last(runs).seg = run.seg /\ Last(runs).first + Last(runs).len = run.first
  THEN [runs EXCEPT ![Len(runs)].len = @ + run.len]
  ELSE Append(runs, run)

RunsOf(files, f) == FoldLeft(LAMBDA runs, run : IF run.file = f THEN Rejoin(runs, run) ELSE runs, <<>>, Partial(files))

(* The scope of the live documents of the accepted files.                  *)
ScopeOf(files, accepted, deleted) ==
  LET sizes   == [s \in DOMAIN files |-> Len(files[s])]
      runs    == FlattenSeq(SetToSeq({RunsOf(files, f) : f \in accepted}))
      allowed == FoldLeft(LAMBDA sc, r : AllowRange(sc, r.seg, r.first, r.len), NewScope(sizes), runs)
  IN  FoldLeft(LAMBDA sc, s : Exclude(sc, s, deleted[s]), allowed, Count(Len(files)))

-------------------------------------------------------------------------------
CONSTANTS Terms,         \* what queries may contain
          Paths,         \* the files, and what globs accept are sets of them
          Globs,         \* the globs asked for, with NoGlob for none
          NoGlob,
          Accepts,       \* Accepts[g]: the files g matches (path_glob_match)
          Rarity,        \* Rarity[n][f]: for f of n documents
          Gain,          \* Gain[f][long]: for frequency f, in a long text or not
          CommonDf,      \* MIN_DF of src/spell.rs
          ScopesKept,    \* SCOPE_CACHE_ENTRIES
          AskedFor,      \* the k of every query
          PoolSize       \* semantic_candidates, of queries that rank by meaning

(* A term in the index weighs something, in whatever text it is.           *)
ASSUME SearchAssumption ==
  /\ NoGlob \notin Globs /\ Accepts \in [Globs -> SUBSET Paths]
  /\ ScopesKept \in Nat \ {0} /\ AskedFor \in Nat \ {0}
  /\ PoolSize \in Nat /\ IsFiniteSet(Terms)
  /\ \A n \in DOMAIN Rarity : \A f \in 1 .. n : Rarity[n][f] \in Nat \ {0}
  /\ DOMAIN Gain \subseteq Nat \ {0} /\ \A f \in DOMAIN Gain, long \in BOOLEAN : Gain[f][long] \in Nat \ {0}

VARIABLES
  files,    \* files[s][i]: the path of the i-th document of segment s
  texts,    \* texts[s][i]: its terms, as a function to frequencies
  deleted,  \* deleted[s]: the tombstones of s, a bitmap
  scopes,   \* the scopes last resolved, oldest first
  query,    \* the terms asked for, in order; <<>> between queries
  glob,     \* the glob of the query
  depth,    \* how many hits it needs of the lexical search
  scope,    \* the scope it was resolved to
  answers,  \* answers[s]: the hits of segment s, once it has answered
  ranking,  \* what the last query returned: <<segment, document, score>>
  left      \* bound: how many queries are still to come

indexVars == <<files, texts, deleted>>
handleVars == <<indexVars, scopes, query, glob, depth, scope, answers, ranking, left>>

Segs     == 1 .. Len(files)
Local(s) == 0 .. Len(files[s]) - 1
Keys     == UNION {{<<s, d>> : d \in Local(s)} : s \in Segs}
TextOf(key)   == texts[key[1]][key[2] + 1]
FileOf(key)   == files[key[1]][key[2] + 1]
LengthOf(key) == SumFunction(TextOf(key))
IsDead(key)   == BitIsSet(deleted[key[1]], key[2])
NoQuery   == <<>>
NoRanking == [done |-> FALSE]
Nobody    == <<>>    \* no segment has answered

(* An index that is open: its segments have a text of each document, and   *)
(* the tables cover its frequencies and its documents.                     *)
IndexOK ==
  /\ files \in Seq(Seq(Paths)) /\ texts \in Seq(Seq([Terms -> {0} \cup DOMAIN Gain])) /\ deleted \in Seq(Seq(SUBSET Bits))
  /\ Len(texts) = Len(files) /\ Len(deleted) = Len(files) /\ \A s \in Segs : Len(texts[s]) = Len(files[s])
  /\ 0 .. Cardinality(Keys) \subseteq DOMAIN Rarity

HandleInit ==
  /\ scopes = <<>> /\ query = NoQuery /\ glob = NoGlob /\ depth = 0 /\ scope = NewScope(<<>>)
  /\ answers = Nobody /\ ranking = NoRanking

-----------------------------------------------------------------------------
(* Statistics: live documents and lengths, recounted from the bitmaps, but *)
(* document frequencies with the tombstoned counted in.                    *)

LiveKeys == {key \in Keys : ~IsDead(key)}
NumLive  == Cardinality(LiveKeys)
LiveLen  == SumFunction([key \in LiveKeys |-> LengthOf(key)])
Df(t)    == Cardinality({key \in Keys : TextOf(key)[t] > 0})

(* Mutation of Idf: the document frequency is not clamped.                 *)
IdfUnclamped(t) == Rarity[NumLive][Df(t)]

Idf(t)   == Rarity[NumLive][Min({Df(t), NumLive})]

(* Longer than the average length, which is taken for 1 if nothing lives.  *)
IsLong(key) == IF NumLive = 0 THEN LengthOf(key) > 1 ELSE LengthOf(key) * NumLive > LiveLen

Weight(ts, key) ==
  SumFunction([t \in ts |-> IF TextOf(key)[t] = 0 THEN 0 ELSE Idf(t) * Gain[TextOf(key)[t]][IsLong(key)]])

-----------------------------------------------------------------------------
(* The query: duplicates go, unknown terms become known ones.              *)

Dedup(seq) == FoldLeft(LAMBDA ts, t : IF Contains(ts, t) THEN ts ELSE Append(ts, t), <<>>, seq)

Position(g) == SelectInSeq(scopes, LAMBDA e : e.glob = g)

Remembered(g, sc) ==
  LET room == IF Len(scopes) >= ScopesKept THEN Tail(scopes) ELSE scopes
  IN  Append(room, [glob |-> g, scope |-> sc])

(* scope_for_glob: a hit moves to the end, a miss is resolved and kept.    *)
Resolve(g) ==
  IF Position(g) # 0
  THEN /\ scope' = scopes[Position(g)].scope
       /\ scopes' = Append(RemoveAt(scopes, Position(g)), scopes[Position(g)])
  ELSE /\ scope' = ScopeOf(files, Accepts[g] \cap UNION {ToSet(files[s]) : s \in Segs}, deleted)
       /\ scopes' = Remembered(g, scope')

(* A correction is a frequent term of the vocabulary; which one is chosen  *)
(* is the matter of QueryWords.                                            *)
Fixes(t) == IF Df(t) > 0 THEN {t} ELSE {t} \cup {u \in Terms : Df(u) >= CommonDf}

Ranked(terms, g, hits) == [done |-> TRUE, terms |-> terms, glob |-> g, hits |-> hits]

(* A query that wants n lexical hits; none if it ranks by meaning alone.   *)
(* Only an ordinary query has its terms corrected.                         *)
Ask(n, lexical, corrected) ==
  /\ query = NoQuery /\ left > 0
  /\ \E g \in Globs \cup {NoGlob} :
       /\ glob' = g
       /\ IF g = NoGlob THEN UNCHANGED <<scope, scopes>> ELSE Resolve(g)
  /\ \E t, u \in Terms :
       LET terms == Dedup(<<t, u>>)
       IN  \E fixed \in [DOMAIN terms -> Terms] :
             /\ \A i \in DOMAIN terms : fixed[i] \in IF corrected THEN Fixes(terms[i]) ELSE {terms[i]}
             /\ query' = IF lexical THEN Dedup(fixed) ELSE NoQuery
             /\ ranking' = IF lexical THEN NoRanking ELSE Ranked({}, glob', <<>>)
  /\ answers' = Nobody
  /\ depth' = n
  /\ left' = left - 1
  /\ UNCHANGED indexVars

-----------------------------------------------------------------------------
(* Search: one evaluator per segment, then the merge.                      *)

(* is_deleted and next_live of SegmentView and Scoped.                     *)
Visible(s) == {d \in Local(s) : ~IsDead(<<s, d>>)
                                /\ (glob # NoGlob => BitIsSet(SegmentBits(scope, s), d))}

Hit(key) == <<key[1], key[2], Weight(ToSet(query), key)>>

(* By score, then segment, then document.  Also hits by meaning: a hit is  *)
(* a segment, a document there and a score.                                *)
Before(h, i) == \/ h[3] > i[3]
                \/ h[3] = i[3] /\ (h[1] < i[1] \/ (h[1] = i[1] /\ h[2] < i[2]))
PlaceIn(hits, h) == Cardinality({i \in hits : Before(i, h)})
TopOf(hits, n) == [r \in 1 .. Min({Cardinality(hits), n}) |-> CHOOSE h \in hits : PlaceIn(hits, h) = r - 1]

(* What segment s contributes, beside what others have.                    *)
Contributed(parts, s, part) == [r \in DOMAIN parts \cup {s} |-> IF r = s THEN part ELSE parts[r]]

Answer(s) ==
  /\ query # NoQuery /\ s \notin DOMAIN answers
  /\ answers' = Contributed(answers, s, TopOf({h \in {Hit(<<s, d>>) : d \in Visible(s)} : h[3] > 0}, depth))
  /\ UNCHANGED <<indexVars, scopes, query, glob, depth, scope, ranking, left>>

Merge ==
  /\ query # NoQuery /\ DOMAIN answers = Segs
  /\ ranking' = Ranked(ToSet(query), glob, TopOf(UNION {ToSet(answers[s]) : s \in Segs}, depth))
  /\ query' = NoQuery /\ answers' = Nobody
  /\ UNCHANGED <<indexVars, scopes, glob, depth, scope, left>>

Lexically == (\E s \in Segs : Answer(s)) \/ Merge

-----------------------------------------------------------------------------
(* Properties *)

(* A scope, built from runs of documents and word by word, is the set of   *)
(* live documents of the accepted files: bit by bit, by its count, and for *)
(* whoever leaps along it, from every document and from behind the last.   *)
IsScopeOf(sc, g) ==
  LET in == {key \in LiveKeys : FileOf(key) \in Accepts[g]}
  IN  /\ sc.matched = Cardinality(in)
      /\ \A s \in Segs :
           LET here == {key[2] : key \in {k \in in : k[1] = s}}
               words == SegmentBits(sc, s)
           IN  /\ BitsOf(words) = here
               /\ \A d \in 0 .. (Len(words) + 1) * Width :
                    LET next == {e \in here : e >= d}
                    IN  NextSetBit(words, d) = IF next = {} THEN NoBit ELSE Min(next)

(* Every scope the handle remembers, and the one in use, is that of its    *)
(* glob, whatever was asked, remembered and dropped before.                *)
ScopesAreExact ==
  /\ Len(scopes) <= ScopesKept
  /\ query # NoQuery /\ glob # NoGlob => IsScopeOf(scope, glob) /\ Position(glob) # 0
  /\ \A i \in DOMAIN scopes : IsScopeOf(scopes[i].scope, scopes[i].glob)

(* What is returned is the top of all live documents in scope that hold a  *)
(* term, "the exact top-k among in-scope documents", under one set of      *)
(* statistics: however they are spread over segments, whichever segment    *)
(* answers first, and although tombstones count in the frequencies and not *)
(* in the number of documents.                                             *)
MergeIsExact ==
  ranking.done =>
    LET in == {key \in LiveKeys :
                 /\ ranking.glob # NoGlob => FileOf(key) \in Accepts[ranking.glob]
                 /\ \E t \in ranking.terms : TextOf(key)[t] > 0}
    IN  ranking.hits = TopOf({<<key[1], key[2], Weight(ranking.terms, key)>> : key \in in}, depth)
===============================================================================
