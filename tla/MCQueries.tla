------------------------------ MODULE MCQueries ------------------------------
(* All that answers a query: the handle of MCSearchHandle, a routing graph *)
(* over five points, the encoder in two processes and how its model gets   *)
(* there, k-means over up to four vectors, and the algorithms that words,  *)
(* numbers and batches go through, on every short input.  Each behavior is *)
(* of one of them.                                                         *)
EXTENDS MCSearchHandle, SingleSearch, VectorIndex, QueryWords, TextEncoder, QueryEncoder,
        GrowingWords, Download

CONSTANTS p1, p2, v1, v2

VARIABLE input   \* what an algorithm is given; Nothing in other behaviors

vars == <<hybridVars, graphVars, encoderVars, growingVars, downloadVars, quantizerVars, encodingVars, input>>

Nothing == [kind |-> "none"]

-----------------------------------------------------------------------------
MCLowerOf   == "A" :> "a" @@ "B" :> "b"
MCStopwords == {<<"a">>, <<"a", "b">>}
Characters  == {"a", "b", "A", "B", "1", "_", "."}

(* Pieces of words over three letters, and controls that begin alike.      *)
Token(text, mark, control) == [text |-> text, mark |-> mark, control |-> control]
MCTokens == <<Token(<<"[", "U", "]">>, FALSE, TRUE), Token(<<"[", "a", "]">>, FALSE, TRUE), Token(<<"[", "a">>, FALSE, TRUE),
              Token(<<"a">>, TRUE, FALSE), Token(<<"b">>, FALSE, FALSE), Token(<<"a", "b">>, TRUE, FALSE),
              Token(<<"b", "a">>, FALSE, FALSE), Token(<<"]">>, TRUE, FALSE),
              Token(<<"z">>, TRUE, FALSE), Token(<<"a">>, TRUE, FALSE)>>
MCFolded == "A" :> <<"a">>
Pieced   == {[kind |-> "pieces", text |-> t] :
               t \in BoundedSeq({"a", "b", "A", "[", "]", " ", "~", "z"}, 3) \cup [1 .. 4 -> {"a", "b", "A", "[", "]", " "}]
                       \cup [1 .. 5 -> {"a", "[", "]"}]}

MCWords == UNION {[1 .. n -> {"a", "b"}] : n \in 1 .. 5}
MCDf    == [w \in MCWords |-> IF w[1] = "a" THEN Len(w) ELSE 6 - Len(w)]

MCRecipe == p1 :> [model |-> 1, run |-> 1] @@ p2 :> [model |-> 1, run |-> 2]
Alike    == Permutations(Questions)   \* questions are not told apart
MCAsked  == p1 :> 3 @@ p2 :> 1

(* Words learned after any of three base vocabularies; "y" has no meaning. *)
MCBase  == [prefix |-> TRUE, rows |-> "u" :> 5]
MCBases == {MCBase, [MCBase EXCEPT !.prefix = FALSE], [MCBase EXCEPT !.rows = "u" :> 5 @@ "v" :> 10]}
MCRowOf == "u" :> 7 @@ "v" :> 12 @@ "w" :> 20 @@ "y" :> 0

(* Fractions around every rounding; all halves of an exponent.             *)
Fractions == UNION {{f - 1, f, f + 1} : f \in {4096 * k : k \in {1, 2, 3, 1024, 2047}}} \cup {0, 8388607}
Numbers   == {[kind |-> "single", single |-> Single(s, e, f)] : s \in {0, 1}, e \in 0 .. 255, f \in Fractions}
             \cup {[kind |-> "halves", exp |-> e] : e \in 0 .. 31}
Batches   == {[kind |-> "batch", lens |-> lens] : lens \in BoundedSeq(1 .. 3, 5)}

(* Three documents of a single layout, their words and how near they are.  *)
Rankings == {r \in [kind : {"ranked"}, words : [1 .. 3 -> 0 .. 2], near : [1 .. 3 -> 0 .. 2], codes : {<<0, 1, 0>>},
                    probed : {{0, 2}, {0, 1, 2}}, scope : {{0, 1, 2}, {1, 2}}, rank : {"semantic", "rerank", "hybrid"},
                    fusion : {"weighted", "rrf"}, exact : BOOLEAN, forced : BOOLEAN, k : {2}, pool : {3}] :
               r.fusion = "weighted" \/ r.rank = "hybrid"}   \* only a hybrid ranking is fused

Inputs == {[kind |-> "text", text |-> t] : t \in BoundedSeq(Characters, 3) \cup [1 .. 4 -> {"a", "A", "B", "1", "_"}]}
          \cup {[kind |-> "word", word |-> w] :
                  w \in {v \in MCWords : Len(v) \in 2 .. 4}
                          \cup {<<"a", "b">> \o v : v \in [1 .. 3 -> {"a", "b"}] \cup [1 .. 4 -> {"a", "b"}]}}

(* Batches of up to two sequences, all of whose tokens differ, twice over; *)
(* 4 is too long.                                                          *)
Sequenced == {[s \in DOMAIN lens |-> [j \in 1 .. lens[s] |-> salt + 10 * s + j]] :
                lens \in BoundedSeq(1 .. 4, 2), salt \in {0, 50}}

-----------------------------------------------------------------------------
NoHandle ==
  /\ files = <<>> /\ texts = <<>> /\ deleted = <<>> /\ vectors = <<>> /\ graphs = {} /\ left = 0
  /\ HandleInit /\ FusionInit

NoGraph    == points = <<>> /\ GraphInit
NoTraining == places = <<>> /\ centroids = <<>> /\ assigned = <<>> /\ turn = 0 /\ training = "none"
Others     == EncoderInit /\ DownloadInit /\ GrowingRests /\ base = MCBase
Rests      == Others /\ EncodingRests

MCQueriesInit ==
  \/ MCInit /\ NoGraph /\ NoTraining /\ Rests /\ input = Nothing
  \/ /\ NoHandle /\ GraphInit /\ NoTraining /\ Rests /\ input = Nothing
     /\ points \in [1 .. 5 -> 0 .. 3] /\ points[1] = 0 /\ points[2] \in {0, 3}
  \/ NoHandle /\ NoGraph /\ NoTraining /\ Rests
     /\ input \in Inputs \cup Numbers \cup Batches \cup Pieced \cup Rankings
              \cup {[kind |-> "encoder"], [kind |-> "download"], [kind |-> "growing"]}
  \/ NoHandle /\ NoGraph /\ NoTraining /\ Others /\ EncodingInit /\ input = [kind |-> "encoding"]
  \/ NoHandle /\ NoGraph /\ QuantizerInit /\ Rests /\ input = [kind |-> "training"]

GraphNext ==
  \/ \E h \in 1 .. MaxLayer : AddNode(h)
  \/ \E x \in {0, 2}, n \in {2, 3}, ef \in {1, 5}, live \in {1 .. 5, {2, 4, 5}} : SearchGraph(x, n, ef, live)

MCQueriesNext ==
  /\ \/ HybridNext /\ UNCHANGED <<graphVars, encoderVars, growingVars, downloadVars, quantizerVars, encodingVars>>
     \/ GraphNext /\ UNCHANGED <<hybridVars, encoderVars, growingVars, downloadVars, quantizerVars, encodingVars>>
     \/ /\ input.kind = "encoder" /\ EncoderNext
        /\ UNCHANGED <<hybridVars, graphVars, growingVars, downloadVars, quantizerVars, encodingVars>>
     \/ /\ input.kind = "growing" /\ GrowingNext
        /\ UNCHANGED <<hybridVars, graphVars, encoderVars, downloadVars, quantizerVars, encodingVars>>
     \/ /\ input.kind = "download" /\ DownloadNext
        /\ UNCHANGED <<hybridVars, graphVars, encoderVars, growingVars, quantizerVars, encodingVars>>
     \/ /\ input.kind = "encoding" /\ \E seqs \in Sequenced : Forward(seqs)
        /\ UNCHANGED <<hybridVars, graphVars, encoderVars, growingVars, downloadVars, quantizerVars>>
     \/ QuantizerNext /\ UNCHANGED <<hybridVars, graphVars, encoderVars, growingVars, downloadVars, encodingVars>>
  /\ UNCHANGED input

MCQueriesSpec == MCQueriesInit /\ [][MCQueriesNext]_vars

-----------------------------------------------------------------------------
(* A graph opens as it was built, and what it answers is never less than   *)
(* what was asked for: GraphReopens, AnswersInFull; and a single layout    *)
(* ranks as a segment does: AnswersAsSegment, BeatenIsBelow.               *)
GraphAnswers ==
  /\ GraphReopens /\ AnswersInFull
  /\ input.kind = "ranked" => AnswersAsSegment(input) /\ BeatenIsBelow(input)

(* TyposAreCorrected, of every word; TokensMeet, of every text, and what   *)
(* the encoder reads: NumbersSpellText, TextsAddUp.                        *)
WordsAreRead ==
  /\ input.kind = "word" => TyposAreCorrected(MCDf, input.word, {"a", "b"})
  /\ input.kind = "text" => TokensMeet(input.text)
  /\ input.kind = "pieces" => NumbersSpellText(input.text, 3) /\ TextsAddUp(input.text)

(* A query's vector is its own and the latest stays: AnswersAreOwn,        *)
(* KeepsTheLatest; what is learned of words is kept as it is answered from:*)
(* RestartKnowsTheSame, LookedUpIsKnown, LearnedStays; BatchesAreSound, of *)
(* every few texts; and MeansTheSame, of every few batches.                *)
EncoderAnswers ==
  /\ AnswersAreOwn /\ KeepsTheLatest /\ MeansTheSame
  /\ input.kind = "growing" => RestartKnowsTheSame /\ LookedUpIsKnown /\ LearnedStays
  /\ input.kind = "batch" => \A batch \in 1 .. 3, budget \in 1 .. 6 : BatchesAreSound(input.lens, batch, budget)

(* What is quantized is near enough: ReusedAsTrained, ProbesAreExact;      *)
(* NearestHalf of singles of every exponent, HalvesComeBack of every half. *)
NumbersAreClose ==
  /\ ReusedAsTrained /\ ProbesAreExact
  /\ input.kind = "single" => NearestHalf(input.single)
  /\ input.kind = "halves" =>
       \A sign \in {0, 1}, f \in 0 .. 1023 : HalvesComeBack([sign |-> sign, exp |-> input.exp, frac |-> f])
===============================================================================
