------------------------------ MODULE TextEncoder ------------------------------
(***************************************************************************)
(* How the encoder runs a text.  src/wordpiece.rs makes it the numbers of  *)
(* the pieces of its words: a text is a sequence of characters, and the    *)
(* vocabulary is a sequence of tokens [text, mark, control], as the model  *)
(* file holds them: mark begins a word, control is one like [CLS].         *)
(*                                                                         *)
(* src/ggml.rs lays a batch of them out in rows of one length, and builds  *)
(* one graph for a shape, which it keeps for the next batch of that shape. *)
(* Arithmetic is left out: what a layer makes of a row is a record of the  *)
(* row it had, its position, and the rows its attention was let see, with  *)
(* theirs.  Two vectors are the same when they are made of the same.       *)
(***************************************************************************)
EXTENDS Integers, Sequences, SequencesExt, FiniteSets, FiniteSetsExt

CONSTANTS Blanks, Unseen, Ideographs, Signs,  \* classes of characters
          Folded,                 \* what the other characters are folded to
          Tokens,                 \* the vocabulary of the model file
          Unk, Cls, Sep,          \* three of its numbers
          LongestWord             \* characters of the longest word that is looked up

CONSTANTS QueryPad,    \* QUERY_PAD
          Context,     \* n_ctx
          ClsFrom,     \* 256: tokens from which the last layer is cut short
          LayerCount,  \* n_layer
          PadToken

ASSUME TokensAssumption ==
  /\ {Unk, Cls, Sep} \subseteq DOMAIN Tokens /\ LongestWord \in Nat \ {0}
  /\ \A c \in DOMAIN Folded : c \notin Blanks \cup Unseen \cup Ideographs /\ ToSet(Folded[c]) \cap Blanks = {}
ASSUME EncoderGraphAssumption ==
  /\ QueryPad \in Nat \ {0} /\ Context \in Nat \ {0} /\ LayerCount \in Nat \ {0} /\ ClsFrom \in Nat

-----------------------------------------------------------------------------
(* The vocabulary: how a piece is looked up, its number (the last one's).  *)

Within(word) == <<"##">> \o word
KeyOf(t) == IF t.mark \/ t.control THEN t.text ELSE Within(t.text)
Found(key) == {id \in DOMAIN Tokens : KeyOf(Tokens[id]) = key}
IdOf(key) == Max(Found(key))

Specials == {id \in DOMAIN Tokens : Tokens[id].control /\ Tokens[id].text # <<>>}

-----------------------------------------------------------------------------
(* A text without specials: cleaned, its words, and their pieces.          *)

Cleaned(text) ==
  LET Clean(c) == IF c \in Unseen THEN <<>>
                  ELSE IF c \in Blanks THEN <<" ">>
                  ELSE IF c \in Ideographs THEN <<" ", c, " ">>
                  ELSE IF c \in DOMAIN Folded THEN Folded[c] ELSE <<c>>
  IN  FlattenSeq([i \in DOMAIN text |-> Clean(text[i])])

(* encode_segment: a sign is a word of its own.                            *)
WordsIn(text) ==
  LET signs == [i \in DOMAIN Cleaned(text) |-> LET c == Cleaned(text)[i] IN IF c \in Signs THEN <<" ", c, " ">> ELSE <<c>>]
      cut == FoldLeft(LAMBDA ws, c : IF c = " " THEN Append(ws, <<>>) ELSE [ws EXCEPT ![Len(ws)] = Append(@, c)],
                      <<<<>>>>, FlattenSeq(signs))
  IN  SelectSeq(cut, LAMBDA w : w # <<>>)

(* word_pieces: from every start the longest piece; one place without any  *)
(* makes the whole word unknown.                                           *)
WordPieces(word) ==
  LET Key(i, j) == IF i = 1 THEN SubSeq(word, i, j) ELSE Within(SubSeq(word, i, j))
      ends[i \in 1 .. Len(word)] == {j \in i .. Len(word) : Found(Key(i, j)) # {}}
      pieces[i \in 1 .. Len(word) + 1] ==
        IF i > Len(word) THEN <<>>
        ELSE IF ends[i] = {} THEN <<Unk>>
        ELSE <<IdOf(Key(i, Max(ends[i])))>> \o pieces[Max(ends[i]) + 1]
  IN  IF Len(word) > LongestWord \/ Unk \in ToSet(pieces[1]) THEN <<Unk>> ELSE pieces[1]

EncodeSegment(text) == LET words == WordsIn(text) IN FlattenSeq([i \in DOMAIN words |-> WordPieces(words[i])])

-----------------------------------------------------------------------------
(* next_special: the earliest occurrence, of those the longest: <<at, id>>.*)
At(text, id) == {i \in 1 .. Len(text) - Len(Tokens[id].text) + 1 :
                   SubSeq(text, i, i + Len(Tokens[id].text) - 1) = Tokens[id].text}
NextSpecial(text) ==
  LET there == UNION {{<<i, id>> : i \in At(text, id)} : id \in Specials}
  IN  CHOOSE o \in there : \A x \in there :
        o[1] < x[1] \/ (o[1] = x[1] /\ Len(Tokens[o[2]].text) >= Len(Tokens[x[2]].text))

RECURSIVE Content(_)
Content(text) ==
  IF \A id \in Specials : At(text, id) = {} THEN EncodeSegment(text)
  ELSE LET o == NextSpecial(text)
       IN  EncodeSegment(SubSeq(text, 1, o[1] - 1)) \o <<o[2]>>
           \o Content(SubSeq(text, o[1] + Len(Tokens[o[2]].text), Len(text)))

(* encode: cut from the end, but Sep is always there.                      *)
Truncated(ids, maxLen) == IF Len(ids) + 1 > maxLen THEN SubSeq(ids, 1, Max({maxLen - 1, 1})) ELSE ids
EncodeText(text, maxLen) == Truncated(<<Cls>> \o Content(text), maxLen) \o <<Sep>>

-----------------------------------------------------------------------------
(* Properties *)

(* What the numbers spell is the text: a word is spelled by its pieces or  *)
(* unknown as a whole, whatever the classes of its characters; a special   *)
(* quoted in the text is its own number and never read as words.  What is  *)
(* too long loses its end, and is then exactly as long as it may be.       *)
NumbersSpellText(text, n) ==
  LET Spelled(ids) == FlattenSeq([i \in DOMAIN ids |-> Tokens[ids[i]].text])
      words == WordsIn(text)
      content == Content(text)
  IN  /\ \A i \in DOMAIN words :
           LET ids == WordPieces(words[i])
           IN  /\ ids = <<Unk>> \/ Spelled(ids) = words[i]
               /\ ids # <<Unk>> => /\ Tokens[ids[1]].mark \/ Tokens[ids[1]].control
                                   /\ \A j \in 2 .. Len(ids) : ~(Tokens[ids[j]].mark \/ Tokens[ids[j]].control)
      /\ \A id \in ToSet(content) \cap (Specials \ {Unk}) : At(text, id) # {}
      /\ (\E id \in Specials : At(text, id) # {}) => ToSet(content) \cap Specials # {}
      /\ EncodeText(text, n) = IF Len(content) + 2 <= n THEN <<Cls>> \o content \o <<Sep>>
                           ELSE SubSeq(<<Cls>> \o content, 1, Max({n, 2}) - 1) \o <<Sep>>

(* Texts on two sides of a blank are read alone: neither a special nor a   *)
(* word of one is read differently because of the other.                   *)
TextsAddUp(text) ==
  \A i \in DOMAIN text :
    text[i] \in Blanks => Content(text) = Content(SubSeq(text, 1, i - 1)) \o Content(SubSeq(text, i + 1, Len(text)))

-----------------------------------------------------------------------------
(* Batches and the graph. *)

VARIABLES
  engine,     \* onGpu, and clsOnly: whether the last layer may be cut short
  shaped,     \* the cached graph, its shape and inputs
  sequences,  \* the last batch
  said        \* its vectors

encodingVars == <<engine, shaped, sequences, said>>

NoGraphYet == [l |-> 0, ns |-> 0, clsOnly |-> FALSE, inputs |-> <<>>]

EncodingRests == engine = [onGpu |-> FALSE, clsOnly |-> FALSE] /\ shaped = NoGraphYet /\ sequences = <<>> /\ said = <<>>

EncodingInit == engine \in [onGpu : BOOLEAN, clsOnly : BOOLEAN] /\ shaped = NoGraphYet /\ sequences = <<>> /\ said = <<>>

-----------------------------------------------------------------------------
Longest(seqs) == Max({Len(seqs[s]) : s \in DOMAIN seqs})

(* A lone query is padded on a GPU, so that the next one finds its shape.  *)
Padded(seqs) ==
  LET most == Longest(seqs)
      full == ((most + QueryPad - 1) \div QueryPad) * QueryPad
  IN  IF Len(seqs) = 1 /\ engine.onGpu THEN Max({Min({full, Context}), most}) ELSE most

ShortLast(seqs) == engine.clsOnly /\ Padded(seqs) * Len(seqs) >= ClsFrom

RowAt(l, s, j) == (s - 1) * l + j

(* The tokens of all rows, what each row may see, and where each sequence  *)
(* begins; a graph that is not cut short has no clsMask.                   *)
InputsOf(seqs) ==
  LET l == Padded(seqs)
      SequenceOf(r) == ((r - 1) \div l) + 1
      PlaceOf(r)    == ((r - 1) % l) + 1
      Token(seq, j) == IF j <= Len(seq) THEN seq[j] ELSE PadToken
  IN  [ids  |-> [r \in 1 .. l * Len(seqs) |-> Token(seqs[SequenceOf(r)], PlaceOf(r))],
       mask |-> [r \in 1 .. l * Len(seqs) |-> 1 .. Len(seqs[SequenceOf(r)])],
       clsMask |-> [s \in DOMAIN seqs |-> IF ShortLast(seqs) THEN 1 .. Len(seqs[s]) ELSE {}],
       cls  |-> [s \in DOMAIN seqs |-> RowAt(l, s, 1)]]

Made(own, at, seen) == [own |-> own, at |-> at, seen |-> seen]

(* build_graph and its computation.                                        *)
Computed(graph) ==
  LET in == graph.inputs
      Seen(x, s, keys) == {[at |-> k, row |-> x[RowAt(graph.l, s, k)]] : k \in keys}
      Layer(x) == [r \in DOMAIN x |->
                     LET s == ((r - 1) \div graph.l) + 1
                     IN  Made(x[r], ((r - 1) % graph.l) + 1, Seen(x, s, in.mask[r]))]
      after[n \in 0 .. LayerCount] == IF n = 0 THEN in.ids ELSE Layer(after[n - 1])
      last == after[LayerCount - 1]
  IN  IF graph.clsOnly
      THEN [s \in 1 .. graph.ns |-> Made(last[in.cls[s]], 1, Seen(last, s, in.clsMask[s]))]
      ELSE [s \in 1 .. graph.ns |-> after[LayerCount][in.cls[s]]]

Fits(seqs) == seqs # <<>> /\ Longest(seqs) \in 1 .. Context

(* Building or allocating a graph may fail, once the old one is gone; and  *)
(* so may computing it, which keeps it.                                    *)
Forward(seqs) ==
  /\ sequences' = seqs /\ UNCHANGED engine
  /\ IF ~Fits(seqs) THEN said' = <<>> /\ UNCHANGED shaped
     ELSE LET shape == [l |-> Padded(seqs), ns |-> Len(seqs), clsOnly |-> ShortLast(seqs)]
              graph == [l |-> shape.l, ns |-> shape.ns, clsOnly |-> shape.clsOnly, inputs |-> InputsOf(seqs)]
              same  == shaped.l = shape.l /\ shaped.ns = shape.ns /\ shaped.clsOnly = shape.clsOnly
          IN  \/ shaped' = graph /\ said' \in {Computed(graph), <<>>}
              \/ ~same /\ shaped' = NoGraphYet /\ said' = <<>>

-----------------------------------------------------------------------------
(* What a sequence means by itself, in full.                               *)
MeansAlone(seq) ==
  LET after[n \in 0 .. LayerCount] ==
        IF n = 0 THEN seq
        ELSE LET x == after[n - 1]
             IN  [j \in DOMAIN seq |-> Made(x[j], j, {[at |-> k, row |-> x[k]] : k \in DOMAIN seq})]
  IN  after[LayerCount][1]

(* "results must not depend on whether the graph was fresh or reused, nor  *)
(* on what ran before it" (ggml.rs), nor on the rest of the batch, the     *)
(* padding, or the last layer being cut short: a sequence has the vector   *)
(* it has alone.                                                           *)
MeansTheSame == said # <<>> => \A s \in DOMAIN sequences : said[s] = MeansAlone(sequences[s])
================================================================================
