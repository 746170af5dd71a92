------------------------------ MODULE QueryWords ------------------------------
(***************************************************************************)
(* The words of texts and queries, and the words taken for misspelt ones.  *)
(***************************************************************************)
EXTENDS Integers, Sequences, FiniteSets, SequencesExt, FiniteSetsExt

(***************************************************************************)
(* The two analyzers of src/tokenizer.rs.  A text is a sequence of         *)
(* characters, known by their classes; a window of sixteen that the vector *)
(* unit classifies at once is sixteen characters one by one.               *)
(***************************************************************************)

CONSTANTS Small, Capital, Digit,   \* characters; "_" and "." are two more
          LowerOf,                 \* the small letter of every capital
          Stopwords                \* words, as sequences

ASSUME LettersAssumption ==
  /\ LowerOf \in [Capital -> Small]
  /\ Small \cap Capital = {} /\ (Small \cup Capital) \cap (Digit \cup {"_", "."}) = {}

Letter     == Small \cup Capital
Alnum      == Letter \cup Digit
IdentStart == Letter \cup {"_"}
IdentPart  == Alnum \cup {"_"}

Lowered(s) == [i \in DOMAIN s |-> IF s[i] \in Capital THEN LowerOf[s[i]] ELSE s[i]]

(* The pieces between the characters of a set, empty ones included.        *)
Pieces(s, cut) ==
  FoldLeft(LAMBDA ps, c : IF c \in cut THEN Append(ps, <<>>) ELSE [ps EXCEPT ![Len(ps)] = Append(@, c)],
           <<<<>>>>, s)

NotStopped(t) == t # <<>> /\ t \notin Stopwords

(* The analyzer of prose: maximal runs of letters and digits.              *)
PlainTokens(text) ==
  LET others == ToSet(text) \ Alnum
      lower  == [i \in DOMAIN Pieces(text, others) |-> Lowered(Pieces(text, others)[i])]
  IN  SelectSeq(lower, NotStopped)

-----------------------------------------------------------------------------
(* The analyzer of code.                                                   *)

(* camel_parts: where case or kind changes, but not before the last        *)
(* capital of a run that a small letter follows.                           *)
Splits(s, i) ==
  LET prev == s[i - 1]
      curr == s[i]
  IN  \/ prev \in Small /\ curr \in Capital
      \/ prev \in Capital /\ curr \in Capital /\ i < Len(s) /\ s[i + 1] \in Small
      \/ prev \in Letter /\ curr \in Digit
      \/ prev \in Digit /\ curr \in Letter

(* Mutation of CamelParts: the pieces keep their case.                     *)
CamelPartsCased(s) ==
  LET starts == {1} \cup {i \in 2 .. Len(s) : Splits(s, i)}
      EndOf(i) == Min({j \in starts : j > i} \cup {Len(s) + 1}) - 1
      order == SetToSortSeq(starts, <)
  IN  [n \in DOMAIN order |-> SubSeq(s, order[n], EndOf(order[n]))]

CamelParts(s) ==
  LET starts == {1} \cup {i \in 2 .. Len(s) : Splits(s, i)}
      EndOf(i) == Min({j \in starts : j > i} \cup {Len(s) + 1}) - 1
      order == SetToSortSeq(starts, <)
  IN  [n \in DOMAIN order |-> Lowered(SubSeq(s, order[n], EndOf(order[n])))]

(* emit_ident: the identifier whole, whatever it is, then its pieces at    *)
(* dots, at underscores and at humps, none a repeat of what holds it.      *)
IdentTokens(span) ==
  LET full == Lowered(span)
      OfSnake(snake, dotted) ==
        LET low == Lowered(snake)
        IN  (IF low \notin {full, dotted} THEN <<low>> ELSE <<>>)
            \o SelectSeq(CamelParts(snake), LAMBDA p : p \notin {low, full, dotted})
      OfDotted(d) ==
        LET low    == Lowered(d)
            snakes == SelectSeq(Pieces(d, {"_"}), LAMBDA s : s # <<>>)
        IN  (IF low # full THEN <<low>> ELSE <<>>)
            \o FlattenSeq([i \in DOMAIN snakes |-> OfSnake(snakes[i], low)])
      dots == SelectSeq(Pieces(span, {"."}), LAMBDA d : d # <<>>)
  IN  <<full>> \o SelectSeq(FlattenSeq([i \in DOMAIN dots |-> OfDotted(dots[i])]), NotStopped)

(* An identifier goes on over a dot if another one begins there.           *)
EndOfIdent(text, i) ==
  LET GoesOn(j) == \/ text[j] \in IdentPart
                   \/ text[j] = "." /\ j < Len(text) /\ text[j + 1] \in IdentStart
  IN  Min({j \in i + 1 .. Len(text) : ~GoesOn(j)} \cup {Len(text) + 1})

EndOfNumber(text, i) == Min({j \in i + 1 .. Len(text) : text[j] \notin Alnum} \cup {Len(text) + 1})

(* Left to right: next is where the scan goes on.                          *)
CodeTokensOf(text) ==
  LET At(st, i) ==
        IF i < st.next THEN st
        ELSE IF text[i] \in IdentStart
        THEN [next |-> EndOfIdent(text, i),
              out  |-> st.out \o IdentTokens(SubSeq(text, i, EndOfIdent(text, i) - 1))]
        ELSE IF text[i] \in Alnum
        THEN [next |-> EndOfNumber(text, i),
              out  |-> st.out \o SelectSeq(<<Lowered(SubSeq(text, i, EndOfNumber(text, i) - 1))>>, NotStopped)]
        ELSE [st EXCEPT !.next = i + 1]
  IN  FoldLeft(At, [next |-> 1, out |-> <<>>], [i \in DOMAIN text |-> i]).out

-----------------------------------------------------------------------------
(* The humps of a text, a capital and its small letters, in identifiers.   *)
Humps(text) ==
  {SubSeq(text, h[1], h[2]) : h \in
    {r \in (1 .. Len(text)) \X (1 .. Len(text)) :
       /\ r[1] < r[2] /\ text[r[1]] \in Capital
       /\ \A i \in r[1] + 1 .. r[2] : text[i] \in Small
       /\ r[2] < Len(text) => text[r[2] + 1] \notin Small
       /\ \E s \in 1 .. r[1] :
            /\ text[s] \in IdentStart /\ \A i \in s .. r[1] : text[i] \in IdentPart
            /\ s > 1 => text[s - 1] \notin IdentPart}}

(* Whoever asks for a term of the index finds it: read as a query, a token *)
(* yields itself, in either mode and from any text.  A name is found by    *)
(* the words its capitals show, acronyms in it or not.  And case and       *)
(* punctuation decide how a text is cut up, never whether it is found: the *)
(* first name of a text is found however it is capitalized.                *)
TokensMeet(text) ==
  LET tokens == ToSet(CodeTokensOf(text))
      asked  == CodeTokensOf(Lowered(text))
  IN  /\ \A t \in ToSet(PlainTokens(text)) : PlainTokens(t) = <<t>>
      /\ \A t \in tokens : Contains(CodeTokensOf(t), t)
      /\ \A h \in Humps(text) : Lowered(h) \in tokens \cup Stopwords
      /\ PlainTokens(Lowered(text)) = PlainTokens(text)
      /\ asked # <<>> => asked[1] \in tokens

-------------------------------------------------------------------------------
(***************************************************************************)
(* Typo correction of src/spell.rs.  Candidates are the terms that share a *)
(* delete-variant of a prefix with the word; each is then measured.  Words *)
(* are sequences of letters.  A map keyed by hashes only adds candidates,  *)
(* which measuring drops again: the variants themselves are the keys here. *)
(***************************************************************************)

CONSTANTS MaxEd,      \* MAX_ED: the largest distance corrected
          PrefixLen,  \* PREFIX_LEN: variants are made of this many letters
          ShortLen,   \* words up to here are corrected at distance 1
          LeastLen,   \* shorter words are not corrected
          MinDf       \* MIN_DF: rarer terms are no targets

Prefix(w) == SubSeq(w, 1, Min({Len(w), PrefixLen}))

(* All that is left of the prefix after deleting up to n letters.          *)
DeleteVariants(w, n) ==
  LET Level[i \in 0 .. n] ==
        IF i = 0 THEN {Prefix(w)}
        ELSE Level[i - 1] \cup UNION {{RemoveAt(v, j) : j \in 1 .. Len(v)} : v \in Level[i - 1]}
  IN  Level[n]

(* A table row by row: Cell(rows, row, i, j) is the next of row i.         *)
Table(m, n, Cell(_, _, _, _)) ==
  LET Row(rows, i) ==
        LET Upto[j \in 0 .. n] ==
              IF j = 0 THEN <<i>> ELSE LET row == Upto[j - 1] IN Append(row, Cell(rows, row, i, j))
        IN  Upto[n]
      Rows[i \in 0 .. m] ==
        IF i = 0 THEN <<[j \in 1 .. n + 1 |-> j - 1]>>
        ELSE LET rows == Rows[i - 1] IN Append(rows, Row(rows, i))
  IN  Rows[m][m + 1][n + 1]

(* Insertions, deletions, substitutions and swaps of neighbours: the       *)
(* optimal string alignment distance.                                      *)
Osa(a, b) ==
  Table(Len(a), Len(b), LAMBDA rows, row, i, j :
    Min({rows[i][j + 1] + 1, row[j] + 1, rows[i][j] + IF a[i] = b[j] THEN 0 ELSE 1}
        \cup IF i > 1 /\ j > 1 /\ a[i] = b[j - 1] /\ a[i - 1] = b[j]
             THEN {rows[i - 1][j - 1] + 1} ELSE {}))

MaxEdOf(w) == IF Len(w) <= ShortLen THEN 1 ELSE MaxEd

Difference(m, n) == IF m > n THEN m - n ELSE n - m

(* df is a function from the vocabulary to document frequencies.           *)
Targets(df) == {t \in DOMAIN df : df[t] >= MinDf}

Candidates(df, w) ==
  LET mine == DeleteVariants(w, MaxEdOf(w))
  IN  {t \in Targets(df) : DeleteVariants(t, MaxEd) \cap mine # {}}

(* The nearest within the budget, among those the most frequent; between   *)
(* equals the order of a hash set decides.                                 *)
Corrections(df, w) ==
  LET ed    == [t \in Candidates(df, w) |-> Osa(w, t)]
      found == {t \in DOMAIN ed : /\ Difference(Len(t), Len(w)) <= MaxEdOf(w)
                                  /\ ed[t] \in 1 .. MaxEdOf(w)}
      Better(t, u) == ed[t] < ed[u] \/ (ed[t] = ed[u] /\ df[t] > df[u])
  IN  IF Len(w) < LeastLen THEN {} ELSE {t \in found : \A u \in found : ~Better(u, t)}

-----------------------------------------------------------------------------
(* What one edit makes of a word.                                          *)
Edited(w, letters) ==
  {RemoveAt(w, i) : i \in 1 .. Len(w)}
  \cup {InsertAt(w, i, c) : i \in 1 .. Len(w) + 1, c \in letters}
  \cup {ReplaceAt(w, i, c) : i \in 1 .. Len(w), c \in letters}
  \cup {[w EXCEPT ![i] = w[i + 1], ![i + 1] = w[i]] : i \in 1 .. Len(w) - 1}

(* Typos are corrected as if every term were measured: although only those *)
(* that share a variant of their first letters are, no target within the   *)
(* budget is missed, also when the edits are at the end of the prefix; and *)
(* a distance of one is one edit, a swap of neighbours included.           *)
TyposAreCorrected(df, w, letters) ==
  LET ed   == [t \in DOMAIN df |-> Osa(w, t)]
      near == {t \in Targets(df) : ed[t] \in 1 .. MaxEdOf(w)}
      least == {t \in near : \A u \in near : ed[t] <= ed[u]}
      edits == Edited(w, letters) \ {w}
  IN  /\ Corrections(df, w) =
           IF Len(w) < LeastLen THEN {} ELSE {t \in least : \A u \in least : df[t] >= df[u]}
      /\ \A t \in DOMAIN df : ed[t] = 1 <=> t \in edits
===============================================================================
