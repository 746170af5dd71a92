----------------------------- MODULE QueryEncoder -----------------------------
(***************************************************************************)
(* The encoder of src/embedder.rs, loaded in several processes: vectors of *)
(* queries are kept in memory, the latest of them, and by a background     *)
(* writer in files that all processes share (src/query_cache.rs); texts    *)
(* are encoded in batches of similar length.                               *)
(*                                                                         *)
(* What an encoder makes of a query depends on its recipe: the model and   *)
(* how it is run.  The vector is known by the two.                         *)
(***************************************************************************)
EXTENDS Integers, Sequences, SequencesExt, FiniteSets, FiniteSetsExt, Functions

CONSTANTS Processes, Questions, Warmup,
          Recipe,        \* Recipe[p]: [model, run]
          QueryCap,      \* QUERY_CACHE_CAP
          QueueCap,      \* entries the queue to the writer holds
          MaxAsked,      \* bound: queries of a process
          MaxFaults      \* bound: failed writes, damaged files, killed processes

ASSUME EncoderAssumption ==
  /\ Warmup \notin Questions
  /\ QueryCap \in Nat \ {0} /\ QueueCap \in Nat \ {0} /\ MaxAsked \in [Processes -> Nat] /\ MaxFaults \in Nat

VARIABLES
  memory,    \* memory[p]: [map |-> query -> vector, order |-> the queries, oldest use first]
  at,        \* at[p]: what p does next
  wanted,    \* wanted[p]: the query it does it for
  answer,    \* answer[p]: the last vector it got
  queue,     \* queue[p]: of its writer
  disk,      \* <<encoder, query>> -> the entry
  asked,     \* history: asked[p]: the queries answered, in order
  accepted,  \* history: accepted[p]: the queries the queue took
  faults

encoderVars == <<memory, at, wanted, answer, queue, disk, asked, accepted, faults>>

-----------------------------------------------------------------------------
Vector(recipe, q) == [recipe |-> recipe, text |-> q]

(* Mutation of EncoderOf: the model alone.                                 *)
EncoderOfModel(p) == Recipe[p].model

(* DiskQueryCache::new: the digest of the recipe.                          *)
EncoderOf(p) == Recipe[p]

(* QueryCache::get, QueryCache::put                                        *)

Used(cache, q) ==
  LET places == {i \in DOMAIN cache.order : cache.order[i] = q}
  IN  IF places = {} THEN cache ELSE [cache EXCEPT !.order = Append(RemoveAt(@, Min(places)), q)]

Put(cache, q, v) ==
  LET full  == Cardinality(DOMAIN cache.map) >= QueryCap /\ q \notin DOMAIN cache.map
      kept  == IF full THEN Restrict(cache.map, DOMAIN cache.map \ {Head(cache.order)}) ELSE cache.map
      order == IF full THEN Tail(cache.order) ELSE cache.order
  IN  [map   |-> [k \in DOMAIN kept \cup {q} |-> IF k = q THEN v ELSE kept[k]],
       order |-> IF q \in DOMAIN kept THEN order ELSE Append(order, q)]

(* The prediction that ends the loading of a model is kept in memory only. *)
Loaded(p) == Put([map |-> <<>>, order |-> <<>>], Warmup, Vector(Recipe[p], Warmup))

EncoderInit ==
  /\ memory = [p \in Processes |-> Loaded(p)]
  /\ at = [p \in Processes |-> "ready"]
  /\ wanted = [p \in Processes |-> Warmup]
  /\ answer = [p \in Processes |-> Vector(Recipe[p], Warmup)]
  /\ queue = [p \in Processes |-> <<>>]
  /\ disk = <<>>
  /\ asked = [p \in Processes |-> <<Warmup>>] /\ accepted = [p \in Processes |-> {}]
  /\ faults = 0

Fault == faults < MaxFaults /\ faults' = faults + 1

-----------------------------------------------------------------------------
(* embed_query *)

Answered(p, q, v) ==
  /\ answer' = [answer EXCEPT ![p] = v]
  /\ asked' = [asked EXCEPT ![p] = Append(@, q)]
  /\ at' = [at EXCEPT ![p] = "ready"]

AskVector(p, q) ==
  /\ at[p] = "ready" /\ Len(asked[p]) <= MaxAsked[p]
  /\ wanted' = [wanted EXCEPT ![p] = q]
  /\ IF q \in DOMAIN memory[p].map
     THEN Answered(p, q, memory[p].map[q]) /\ memory' = [memory EXCEPT ![p] = Used(@, q)]
     ELSE at' = [at EXCEPT ![p] = "disk"] /\ UNCHANGED <<memory, answer, asked>>
  /\ UNCHANGED <<queue, disk, accepted, faults>>

(* DiskQueryCache::get: an entry that is not whole, or names another       *)
(* encoder or query, is a miss.                                            *)
ReadDisk(p) ==
  LET text == wanted[p]
      key  == <<EncoderOf(p), text>>
  IN  /\ at[p] = "disk"
      /\ IF key \in DOMAIN disk /\ disk[key].whole
         THEN /\ Answered(p, text, disk[key].vector)
              /\ memory' = [memory EXCEPT ![p] = Put(@, text, disk[key].vector)]
         ELSE at' = [at EXCEPT ![p] = "model"] /\ UNCHANGED <<memory, answer, asked>>
      /\ UNCHANGED <<wanted, queue, disk, accepted, faults>>

(* The prediction, and try_send: an entry the queue has no room for is not *)
(* kept on disk.                                                           *)
Predict(p) ==
  LET text == wanted[p]
      v    == Vector(Recipe[p], text)
      room == Len(queue[p]) < QueueCap
  IN  /\ at[p] = "model"
      /\ Answered(p, text, v) /\ memory' = [memory EXCEPT ![p] = Put(@, text, v)]
      /\ queue' = IF room THEN [queue EXCEPT ![p] = Append(@, [save |-> TRUE, vector |-> v])] ELSE queue
      /\ accepted' = IF room THEN [accepted EXCEPT ![p] = @ \cup {text}] ELSE accepted
      /\ UNCHANGED <<wanted, disk, faults>>

(* An invalid prediction is an error and is kept nowhere.                  *)
PredictFails(p) ==
  /\ at[p] = "model" /\ Fault
  /\ at' = [at EXCEPT ![p] = "ready"]
  /\ UNCHANGED <<memory, wanted, answer, queue, disk, asked, accepted>>

-----------------------------------------------------------------------------
(* BackgroundWriter *)

Next1(p) == Head(queue[p])

(* write_entry: a file of its own, renamed when it is complete.            *)
Save(p) ==
  /\ queue[p] # <<>> /\ Next1(p).save
  /\ LET v == Next1(p).vector
     IN  disk' = [k \in DOMAIN disk \cup {<<EncoderOf(p), v.text>>} |->
                    IF k = <<EncoderOf(p), v.text>> THEN [whole |-> TRUE, vector |-> v] ELSE disk[k]]
  /\ queue' = [queue EXCEPT ![p] = Tail(@)]
  /\ UNCHANGED <<memory, at, wanted, answer, asked, accepted, faults>>

SaveFails(p) ==
  /\ queue[p] # <<>> /\ Next1(p).save /\ Fault
  /\ queue' = [queue EXCEPT ![p] = Tail(@)]
  /\ accepted' = [accepted EXCEPT ![p] = @ \ {Next1(p).vector.text}]
  /\ UNCHANGED <<memory, at, wanted, answer, disk, asked>>

(* Mutation of Flush: it does not wait for room.                           *)
FlushTry(p) ==
  /\ at[p] = "ready"
  /\ IF Len(queue[p]) < QueueCap
     THEN queue' = [queue EXCEPT ![p] = Append(@, [save |-> FALSE])] /\ at' = [at EXCEPT ![p] = "flushing"]
     ELSE at' = [at EXCEPT ![p] = "flushed"] /\ UNCHANGED queue
  /\ UNCHANGED <<memory, wanted, answer, disk, asked, accepted, faults>>

(* BackgroundWriter::flush, flush_pending                                  *)
Flush(p) ==
  /\ at[p] = "ready" /\ Len(queue[p]) < QueueCap
  /\ queue' = [queue EXCEPT ![p] = Append(@, [save |-> FALSE])]
  /\ at' = [at EXCEPT ![p] = "flushing"]
  /\ UNCHANGED <<memory, wanted, answer, disk, asked, accepted, faults>>

Flushed(p) ==
  /\ queue[p] # <<>> /\ ~Next1(p).save
  /\ queue' = [queue EXCEPT ![p] = Tail(@)]
  /\ at' = [at EXCEPT ![p] = "flushed"]
  /\ UNCHANGED <<memory, wanted, answer, disk, asked, accepted, faults>>

(* The process ends, of itself or killed; another one loads the model.     *)
Restart(p) ==
  /\ IF at[p] = "flushed" THEN UNCHANGED faults ELSE Fault
  /\ memory' = [memory EXCEPT ![p] = Loaded(p)]
  /\ answer' = [answer EXCEPT ![p] = Vector(Recipe[p], Warmup)]
  /\ at' = [at EXCEPT ![p] = "ready"] /\ queue' = [queue EXCEPT ![p] = <<>>]
  /\ asked' = [asked EXCEPT ![p] = <<Warmup>>] /\ accepted' = [accepted EXCEPT ![p] = {}]
  /\ UNCHANGED <<wanted, disk>>

(* A file is damaged.                                                      *)
Damage(key) ==
  /\ Fault
  /\ disk' = [disk EXCEPT ![key].whole = FALSE]
  /\ UNCHANGED <<memory, at, wanted, answer, queue, asked, accepted>>

EncoderNext ==
  \/ \E p \in Processes :
       \/ \E q \in Questions \cup {Warmup} : AskVector(p, q)
       \/ ReadDisk(p) \/ Predict(p) \/ PredictFails(p)
       \/ Save(p) \/ SaveFails(p) \/ Flush(p) \/ Flushed(p) \/ Restart(p)
  \/ \E key \in DOMAIN disk : Damage(key)

EncoderSpec == EncoderInit /\ [][EncoderNext]_encoderVars

-----------------------------------------------------------------------------
(* embed_docs_with: texts, known by their lengths in tokens, ordered by    *)
(* length and cut into groups of at most batch texts and budget tokens,    *)
(* padding included; each vector goes where its text was.                  *)

ByLength(lens) == SetToSortSeq(DOMAIN lens, LAMBDA i, j : lens[i] < lens[j] \/ (lens[i] = lens[j] /\ i < j))

(* plan_groups: groups are from a cut to the one before the next.          *)
Groups(lens, order, batch, budget) ==
  LET \* first[n]: where the group of the n-th text begins
      Longest(m, n) == Max({lens[order[i]] : i \in m .. n})
      first[n \in DOMAIN order] ==
        IF n = 1 THEN 1
        ELSE IF n - first[n - 1] >= batch \/ Longest(first[n - 1], n) * (n - first[n - 1] + 1) > budget
             THEN n ELSE first[n - 1]
      cuts == SetToSortSeq(Range(first), <)
  IN  [g \in DOMAIN cuts |->
         SubSeq(order, cuts[g], IF g < Len(cuts) THEN cuts[g + 1] - 1 ELSE Len(order))]

(* The vector of a text is known by where the text was.                    *)
EmbedDocs(lens, batch, budget) ==
  LET groups == Groups(lens, ByLength(lens), batch, budget)
      Of(g, n) == [row |-> groups[g][n], vector |-> groups[g][n]]
      placed == UNION {{Of(g, n) : n \in DOMAIN groups[g]} : g \in DOMAIN groups}
  IN  [i \in DOMAIN lens |-> (CHOOSE r \in placed : r.row = i).vector]

-----------------------------------------------------------------------------
(* Properties *)

(* Whatever other processes, with other models or settings, have kept on   *)
(* disk, whatever was damaged or evicted meanwhile: a query has the vector *)
(* the process's own encoder gives it.                                     *)
AnswersAreOwn == \A p \in Processes : answer[p] = Vector(Recipe[p], Last(asked[p]))

(* In memory are the queries used last, as many as there is room for, and  *)
(* they are in the order in which they were used.                          *)
LastUse(uses, q)   == Max({i \in DOMAIN uses : uses[i] = q})
UsedAfter(uses, q) == {r \in ToSet(uses) : LastUse(uses, r) > LastUse(uses, q)}
LatestOf(uses)     == {q \in ToSet(uses) : Cardinality(UsedAfter(uses, q)) < QueryCap}

KeepsTheLatest ==
  \A p \in Processes :
    LET order == memory[p].order
    IN  /\ DOMAIN memory[p].map = LatestOf(asked[p]) /\ ToSet(order) = LatestOf(asked[p])
        /\ \A i, j \in DOMAIN order : i < j => order[j] \in UsedAfter(asked[p], order[i])

(* "Only for shutdown or explicit durability checks": after a flush all    *)
(* that the queue took is on disk, whole unless damaged there, or its      *)
(* write failed.                                                           *)
FlushedIsWritten ==
  \A p \in Processes : at[p] = "flushed" =>
    /\ queue[p] = <<>>
    /\ \A q \in accepted[p] : <<EncoderOf(p), q>> \in DOMAIN disk

(* Each text's vector is where the text was; groups keep to the batch, and *)
(* to the budget unless one text alone is above it; and none could have    *)
(* taken the next text too.                                                *)
BatchesAreSound(lens, batch, budget) ==
  LET order  == ByLength(lens)
      groups == Groups(lens, order, batch, budget)
      Cost(group) == Len(group) * Max({lens[i] : i \in ToSet(group)})
      Fits(group) == Len(group) <= batch /\ (Cost(group) <= budget \/ Len(group) = 1)
  IN  /\ EmbedDocs(lens, batch, budget) = [i \in DOMAIN lens |-> i]
      /\ FlattenSeq(groups) = order
      /\ \A g \in DOMAIN groups : Fits(groups[g]) /\ (g > 1 => ~Fits(Append(groups[g - 1], Head(groups[g]))))
===============================================================================
