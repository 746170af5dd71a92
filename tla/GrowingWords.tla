----------------------------- MODULE GrowingWords -----------------------------
(***************************************************************************)
(* The words whose vectors are kept, src/static_query.rs: a query is read  *)
(* without the model from the vectors of its words.  A base vocabulary,    *)
(* and a file of words learned from the model when they were missing.  A   *)
(* row is a number; the model's are fine, those of a file are coarse, as   *)
(* the 127 steps of a component are, and 0 is a row with no direction.     *)
(***************************************************************************)
EXTENDS Integers, FiniteSets, FiniteSetsExt, Functions

CONSTANTS Words, RowOf,      \* what may be asked, and what the model says of each
          Bases,             \* base vocabularies: [prefix, rows] of coarse rows
          NoWords,           \* there is no file
          Coarseness,        \* fine steps per coarse one
          MaxMisses          \* calls of the model, and restarts

VARIABLES kept,      \* the file: NoWords, or [prefix, rows]
          draft,     \* the unnamed file beside it: NoWords, or [prefix, rows]
          base,      \* the base vocabulary of the running process
          known,     \* the vectors in memory
          learned,   \* the rows to write again with the next ones
          step,      \* where a lookup is: "off", "idle", "learned", "persisted"
          lookedUp,  \* the words looked up last, and those that were missing
          told,      \* what it answered: [outcome], or also row, known, total, missing
          misses

growingVars == <<kept, draft, base, known, learned, step, lookedUp, told, misses>>

(* A row is rounded once; a file's rows are read as they were written.     *)
Coarse127(row) == ((row + Coarseness \div 2) \div Coarseness) * Coarseness
Resident(row)  == Coarse127(row)

(* from_table: a table that cannot be used is refused as a whole.          *)
Usable(rows) == DOMAIN rows # {} /\ \A w \in DOMAIN rows : rows[w] > 0

AllWords   == Words \cup UNION {DOMAIN b.rows : b \in Bases}
IsTable(t) == \E W \in SUBSET AllWords : t \in [prefix : BOOLEAN, rows : [W -> Int]]

(* A row with a direction keeps one: of the 768 components of a row of     *)
(* length 1 one is more than a half of 1/127.                              *)
ASSUME GrowingAssumption ==
  /\ RowOf \in [Words -> Nat] /\ Coarseness \in Nat \ {0} /\ MaxMisses \in Nat
  /\ ~IsTable(NoWords) /\ \A b \in Bases : IsTable(b) /\ Usable(b.rows)
  /\ \A w \in Words : RowOf[w] > 0 => Coarse127(RowOf[w]) > 0

Silent == [outcome |-> "none"]
Unanswered == [outcome |-> "error"]

Empty == [w \in {} |-> 0]
With(f, g) == [w \in DOMAIN f \cup DOMAIN g |-> IF w \in DOMAIN g THEN g[w] ELSE f[w]]

GrowingRests ==
  /\ kept = NoWords /\ draft = NoWords /\ known = Empty /\ learned = Empty
  /\ step = "off" /\ lookedUp = [words |-> {}, missing |-> {}] /\ told = Silent /\ misses = 0

GrowingInit == GrowingRests /\ base \in Bases

-----------------------------------------------------------------------------
(* with_base, with the same base vocabulary or another.                    *)
Start(b) ==
  /\ step = "off" /\ base' = b
  /\ IF kept # NoWords /\ (kept.prefix # b.prefix \/ ~Usable(kept.rows))
     THEN told' = Unanswered /\ UNCHANGED <<known, learned, step>>
     ELSE /\ known' = With(b.rows, IF kept = NoWords THEN Empty ELSE kept.rows)
          /\ learned' = IF kept = NoWords THEN Empty ELSE kept.rows
          /\ step' = "idle" /\ told' = Silent
  /\ lookedUp' = [words |-> {}, missing |-> {}] /\ UNCHANGED <<kept, draft, misses>>

(* approximate: the known words, weighed and added.                        *)
SumOf(words) == SumFunctionOnSet(known, words \cap DOMAIN known)
Approximate(words, missing) ==
  IF words \cap DOMAIN known = {} THEN Unanswered
  ELSE [outcome |-> "answered", row |-> SumOf(words), known |-> Cardinality(words \cap DOMAIN known),
        total |-> Cardinality(words), missing |-> missing]

(* lookup: an answer at once if all words are known.                       *)
LookUp(words) ==
  /\ step = "idle" /\ words \in SUBSET Words
  /\ lookedUp' = [words |-> words, missing |-> words \ DOMAIN known]
  /\ IF words = {} THEN told' = Unanswered /\ UNCHANGED <<step, misses>>
     ELSE IF words \subseteq DOMAIN known THEN told' = Approximate(words, 0) /\ UNCHANGED <<step, misses>>
     ELSE misses < MaxMisses /\ misses' = misses + 1 /\ step' = "learned" /\ told' = Silent
  /\ UNCHANGED <<kept, draft, base, known, learned>>

(* The model's rows of the missing words: it fails, or one of its rows has *)
(* no direction, or all go to a file of no name yet, with those before.    *)
ModelRefuses == step = "learned" /\ draft = NoWords /\ step' = "idle" /\ told' = Unanswered
                /\ UNCHANGED <<kept, draft, base, known, learned, lookedUp, misses>>
Write ==
  /\ step = "learned" /\ draft = NoWords /\ \A w \in lookedUp.missing : RowOf[w] > 0
  /\ draft' = [prefix |-> base.prefix, rows |-> With(learned, [w \in lookedUp.missing |-> Coarse127(RowOf[w])])]
  /\ UNCHANGED <<kept, base, known, learned, step, lookedUp, told, misses>>
WriteFails == step = "learned" /\ draft # NoWords /\ draft' = NoWords /\ step' = "idle" /\ told' = Unanswered
              /\ UNCHANGED <<kept, base, known, learned, lookedUp, misses>>

(* persist names the file at once; then memory learns the words.           *)
Persist == step = "learned" /\ draft # NoWords /\ kept' = draft /\ draft' = NoWords /\ step' = "persisted"
           /\ UNCHANGED <<base, known, learned, lookedUp, told, misses>>
Learn ==
  /\ step = "persisted" /\ step' = "idle"
  /\ learned' = kept.rows
  /\ known' = With(known, [w \in lookedUp.missing |-> Resident(RowOf[w])])
  /\ told' = LET words == lookedUp.words
             IN  [outcome |-> "answered", row |-> SumFunctionOnSet(known', words), known |-> Cardinality(words),
                  total |-> Cardinality(words), missing |-> Cardinality(lookedUp.missing)]
  /\ UNCHANGED <<kept, draft, base, lookedUp, misses>>

(* The process ends anywhere.                                              *)
Stop == /\ step # "off" /\ misses < MaxMisses /\ misses' = misses + 1
        /\ step' = "off" /\ draft' = NoWords /\ known' = Empty /\ learned' = Empty
        /\ UNCHANGED <<kept, base, lookedUp, told>>

GrowingNext ==
  \/ \E b \in Bases : Start(b)
  \/ \E words \in SUBSET Words : LookUp(words)
  \/ ModelRefuses \/ Write \/ WriteFails \/ Persist \/ Learn \/ Stop

GrowingSpec == GrowingInit /\ [][GrowingNext]_growingVars

-----------------------------------------------------------------------------
(* Properties *)

(* "failed calls can be retried": when no lookup is between its steps, the *)
(* words in memory are exactly those a restart would find, and with the    *)
(* same vectors, whatever failed before; so are the rows that the next     *)
(* write repeats, or it would lose some.                                   *)
RestartKnowsTheSame ==
  step = "idle" =>
    LET rows == IF kept = NoWords THEN Empty ELSE kept.rows
    IN  known = With(base.rows, rows) /\ learned = rows

(* An answer after a lookup knows every word that was asked, and those are *)
(* missing that were; a query is answered alike when it is asked again,    *)
(* with or without a restart between.                                      *)
LookedUpIsKnown ==
  step = "idle" /\ told.outcome = "answered" =>
    told.known = told.total /\ told = Approximate(lookedUp.words, told.missing)

(* No word that was learned is lost, and a file can be opened again.       *)
LearnedStays ==
  /\ kept # NoWords => Usable(kept.rows)
  /\ step # "off" /\ step # "persisted" => DOMAIN learned = IF kept = NoWords THEN {} ELSE DOMAIN kept.rows
===============================================================================
