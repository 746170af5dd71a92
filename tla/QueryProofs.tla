------------------------------ MODULE QueryProofs ------------------------------
(***************************************************************************)
(* Theorems about queries, first about what encodes them: how its file     *)
(* comes to be there (Download), what the loaded encoder answers and keeps *)
(* (QueryEncoder), and the words that are learned to do without it         *)
(* (GrowingWords), for any number of processes, served versions, models,   *)
(* queries, words and faults.  Then about the search of an opened handle   *)
(* (SegmentedSearch, HybridSearch), for any segments, texts, tombstones,   *)
(* vectors, globs, queries and tables of weights.                          *)
(***************************************************************************)
EXTENDS QueryEncoder, Download, GrowingWords, HybridSearch, FiniteLemmas, FunctionTheorems, SequenceTheorems

(* What may be at the path: a verified download, or nothing yet.           *)
Published == {NoTemp} \cup {Whole(version) : version \in Versions}

(* Who is about to open the file has seen or put it there; what is         *)
(* verified has been fetched; what is loaded is still there.               *)
DownloadInv ==
  /\ target \in Published
  /\ loader \in [Loaders -> {"look", "fetch", "verify", "open", "loaded", "failed"}]
  /\ temp \in [Loaders -> Served \cup {NoTemp}] /\ opened \in [Loaders -> Published]
  /\ \A w \in Loaders : /\ loader[w] = "verify" => temp[w] \in Served
                        /\ loader[w] = "open" => target # NoTemp
                        /\ opened[w] # NoTemp => opened[w] = target

LEMMA DownloadInvInit == DownloadInit => DownloadInv
  BY DEF DownloadInit, DownloadInv, Published

(* What passes the checksum and the format's check is a whole version.     *)
LEMMA VerifiedIsWhole ==
  ASSUME NEW w \in Loaders, temp[w] \in Served, Verified(w)
  PROVE  temp[w] \in Published \ {NoTemp}
<1>1. temp[w].of \in Versions \cup {Garbage}
  BY DEF Served
<1>2. temp[w] = [of |-> temp[w].of, cut |-> FALSE] /\ temp[w].of # Garbage
  BY DEF Verified, Whole
<1>3. temp[w].of \in Versions /\ temp[w].of # NoFile
  BY <1>1, <1>2, DownloadAssumption
<1> QED
  BY <1>2, <1>3 DEF Published, Whole, NoTemp

LEMMA DownloadKeeps ==
  ASSUME DownloadInv, NEW w \in Loaders,
         Look(w) \/ Fetch(w) \/ Publish(w) \/ Reject(w) \/ Open(w) \/ Again(w)
  PROVE  DownloadInv'
<1>1. CASE Look(w)
  BY <1>1 DEF DownloadInv, Look, Goes
<1>2. CASE Fetch(w)
  BY <1>2 DEF DownloadInv, Fetch, Goes
<1>3. CASE Publish(w)
  <2>1. temp[w] \in Published \ {NoTemp}
    BY <1>3, VerifiedIsWhole DEF DownloadInv, Publish
  <2>2. /\ target' \in Published \ {NoTemp} /\ (target # NoTemp => target' = target)
        /\ temp' \in [Loaders -> Served \cup {NoTemp}] /\ UNCHANGED opened
        /\ loader' = [loader EXCEPT ![w] = "open"]
    BY <1>3, <2>1 DEF DownloadInv, Publish, Goes
  <2>3. \A v \in Loaders \ {w} : loader'[v] = loader[v] /\ temp'[v] = temp[v]
    BY <1>3 DEF DownloadInv, Publish, Goes
  <2> QED
    BY <2>2, <2>3 DEF DownloadInv
<1>4. CASE Reject(w)
  BY <1>4 DEF DownloadInv, Reject, Goes
<1>5. CASE Open(w)
  BY <1>5 DEF DownloadInv, Open, Goes
<1>6. CASE Again(w)
  BY <1>6 DEF DownloadInv, Again, Goes, Published
<1> QED
  BY <1>1, <1>2, <1>3, <1>4, <1>5, <1>6

(* Downloads of any number of processes, of whatever versions the servers  *)
(* come to offer, cut off and begun again in any order.                    *)
THEOREM DownloadInvariance == DownloadSpec => []DownloadInv
<1>1. DownloadInv /\ [DownloadNext]_downloadVars => DownloadInv'
  <2>1. ASSUME DownloadInv, UNCHANGED downloadVars PROVE DownloadInv'
    BY <2>1 DEF DownloadInv, downloadVars
  <2>2. ASSUME DownloadInv, DownloadNext PROVE DownloadInv'
    BY <2>2, DownloadKeeps DEF DownloadNext
  <2> QED
    BY <2>1, <2>2
<1> QED
  BY <1>1, DownloadInvInit, PTL DEF DownloadSpec

(* model_path and download_verified: what is at the path is complete and   *)
(* of the format, and what a process has loaded stays there.               *)
THEOREM LoadsAreWhole == DownloadSpec => []LoadedIsWhole
<1>1. DownloadInv => LoadedIsWhole
  BY DEF DownloadInv, LoadedIsWhole, Published
<1> QED
  BY <1>1, DownloadInvariance, PTL

-----------------------------------------------------------------------------
(* The encoder *)

Texts  == Questions \cup {Warmup}
Marker == [save |-> FALSE]
SaveOf(p, q)    == [save |-> TRUE, vector |-> Vector(Recipe[p], q)]
QueueEntries(p) == {SaveOf(p, q) : q \in Texts} \cup {Marker}

(* A cache with nothing in it but vectors of one recipe, by their texts.   *)
OwnCache(cache, recipe) ==
  /\ cache = [map |-> cache.map, order |-> cache.order]
  /\ \A q \in DOMAIN cache.map : cache.map[q] = Vector(recipe, q)

EncoderSteps == {"ready", "disk", "model", "flushing", "flushed"}

EncoderTypes ==
  /\ memory = [p \in Processes |-> memory[p]]
  /\ at \in [Processes -> EncoderSteps]
  /\ wanted \in [Processes -> Texts]
  /\ answer = [p \in Processes |-> answer[p]]
  /\ queue = [p \in Processes |-> queue[p]] /\ \A p \in Processes : queue[p] \in Seq(QueueEntries(p))
  /\ asked \in [Processes -> Seq(Texts) \ {<<>>}]
  /\ accepted \in [Processes -> SUBSET Texts]

DiskInv ==
  \A key \in DOMAIN disk : disk[key] \in [whole : BOOLEAN, vector : {Vector(key[1], key[2])}]

(* The request to flush is the last thing in the queue.                    *)
QueueInv ==
  \A p \in Processes :
    /\ at[p] = "flushed" => queue[p] = <<>>
    /\ \A i \in 1 .. Len(queue[p]) : queue[p][i].save \/ (i = Len(queue[p]) /\ at[p] = "flushing")

(* What the queue took is on disk, or still in the queue.                  *)
AcceptedInv ==
  \A p \in Processes : \A q \in accepted[p] :
    <<EncoderOf(p), q>> \in DOMAIN disk \/ \E i \in 1 .. Len(queue[p]) : queue[p][i] = SaveOf(p, q)

MemoryInv == \A p \in Processes : OwnCache(memory[p], Recipe[p])

EncoderInv == EncoderTypes /\ MemoryInv /\ DiskInv /\ QueueInv /\ AcceptedInv /\ AnswersAreOwn

(* Nothing of another recipe gets in by put, whatever is evicted.          *)
LEMMA PutIsOwn ==
  ASSUME NEW cache, NEW recipe, NEW q,
         \A k \in DOMAIN cache.map : cache.map[k] = Vector(recipe, k)
  PROVE  OwnCache(Put(cache, q, Vector(recipe, q)), recipe)
<1> DEFINE full  == Cardinality(DOMAIN cache.map) >= QueryCap /\ q \notin DOMAIN cache.map
           held  == IF full THEN Restrict(cache.map, DOMAIN cache.map \ {Head(cache.order)}) ELSE cache.map
           order == IF full THEN Tail(cache.order) ELSE cache.order
           map   == [k \in DOMAIN held \cup {q} |-> IF k = q THEN Vector(recipe, q) ELSE held[k]]
           last  == IF q \in DOMAIN held THEN order ELSE Append(order, q)
<1>1. Put(cache, q, Vector(recipe, q)) = [map |-> map, order |-> last]
  BY DEF Put
<1>2. \A k \in DOMAIN held : held[k] = Vector(recipe, k)
  <2>1. CASE full
    BY <2>1 DEF Restrict
  <2>2. CASE ~full
    BY <2>2
  <2> QED
    BY <2>1, <2>2
<1>3. \A k \in DOMAIN map : map[k] = Vector(recipe, k)
  BY <1>2
<1> HIDE DEF map, last
<1> QED
  BY <1>1, <1>3 DEF OwnCache

LEMMA LoadedIsOwn ==
  ASSUME NEW p \in Processes PROVE OwnCache(Loaded(p), Recipe[p])
<1>1. \A k \in DOMAIN [map |-> <<>>, order |-> <<>>].map :
        [map |-> <<>>, order |-> <<>>].map[k] = Vector(Recipe[p], k)
  OBVIOUS
<1> QED
  BY <1>1, PutIsOwn DEF Loaded

LEMMA EncoderInvInit == EncoderInit => EncoderInv
<1> SUFFICES ASSUME EncoderInit PROVE EncoderInv
  OBVIOUS
<1>1. EncoderTypes
  BY DEF EncoderInit, EncoderTypes, EncoderSteps, Texts
<1>2. MemoryInv
  BY LoadedIsOwn DEF EncoderInit, MemoryInv
<1>3. DiskInv /\ QueueInv /\ AcceptedInv
  BY DEF EncoderInit, DiskInv, QueueInv, AcceptedInv
<1>4. AnswersAreOwn
  BY DEF EncoderInit, AnswersAreOwn, Last
<1> QED
  BY <1>1, <1>2, <1>3, <1>4 DEF EncoderInv

LEMMA AppendFacts ==
  ASSUME NEW S, NEW s \in Seq(S), NEW e \in S
  PROVE  /\ Append(s, e) \in Seq(S) /\ Append(s, e) # <<>> /\ Len(Append(s, e)) = Len(s) + 1
         /\ \A i \in 1 .. Len(s) : Append(s, e)[i] = s[i]
         /\ Append(s, e)[Len(s) + 1] = e /\ Len(s) \in Nat
  OBVIOUS

LEMMA TailFacts ==
  ASSUME NEW S, NEW s \in Seq(S), s # <<>>
  PROVE  /\ Tail(s) \in Seq(S) /\ Len(Tail(s)) = Len(s) - 1 /\ Len(s) \in Nat \ {0}
         /\ \A i \in 1 .. Len(s) - 1 : Tail(s)[i] = s[i + 1]
         /\ Head(s) = s[1] /\ s[1] \in S
  OBVIOUS

LEMMA SavesAreSaves ==
  ASSUME NEW p \in Processes, NEW e \in QueueEntries(p)
  PROVE  /\ e.save \in BOOLEAN /\ (~e.save => e = Marker)
         /\ e.save => \E q \in Texts : e = SaveOf(p, q) /\ e.vector = Vector(Recipe[p], q) /\ e.vector.text = q
<1>1. CASE e = Marker
  BY <1>1 DEF Marker
<1>2. CASE e # Marker
  <2>1. PICK q \in Texts : e = SaveOf(p, q)
    BY <1>2 DEF QueueEntries
  <2>2. e.save = TRUE /\ e.vector = Vector(Recipe[p], q) /\ Vector(Recipe[p], q).text = q
    BY <2>1 DEF SaveOf, Vector
  <2> QED
    BY <2>1, <2>2
<1> QED
  BY <1>1, <1>2

-----------------------------------------------------------------------------
(* A process that gets an answer: the next state of what is its own.       *)
LEMMA AnswerGives ==
  ASSUME EncoderInv, NEW p \in Processes, NEW q \in Texts, Answered(p, q, Vector(Recipe[p], q)),
         NEW cache, memory' = [memory EXCEPT ![p] = cache], OwnCache(cache, Recipe[p])
  PROVE  /\ at' \in [Processes -> EncoderSteps] /\ at'[p] = "ready"
         /\ \A r \in Processes \ {p} : at'[r] = at[r]
         /\ memory' = [r \in Processes |-> memory'[r]] /\ answer' = [r \in Processes |-> answer'[r]]
         /\ asked' \in [Processes -> Seq(Texts) \ {<<>>}]
         /\ MemoryInv' /\ AnswersAreOwn'
<1>1. EncoderTypes
  BY DEF EncoderInv
<1>2. /\ at' \in [Processes -> EncoderSteps] /\ at'[p] = "ready"
      /\ \A r \in Processes \ {p} : at'[r] = at[r]
  BY <1>1 DEF EncoderTypes, Answered, EncoderSteps
<1>3. /\ asked[p] \in Seq(Texts) /\ asked'[p] = Append(asked[p], q)
      /\ asked' = [asked EXCEPT ![p] = Append(asked[p], q)]
  BY <1>1 DEF EncoderTypes, Answered
<1>4. Append(asked[p], q) \in Seq(Texts) \ {<<>>} /\ Last(Append(asked[p], q)) = q
  BY <1>3, AppendFacts DEF Last
<1>5. /\ memory' = [r \in Processes |-> memory'[r]] /\ answer' = [r \in Processes |-> answer'[r]]
      /\ asked' \in [Processes -> Seq(Texts) \ {<<>>}]
  BY <1>1, <1>3, <1>4 DEF EncoderTypes, Answered
<1>6. MemoryInv'
  BY <1>1 DEF EncoderInv, MemoryInv, EncoderTypes
<1>7. AnswersAreOwn'
  <2> SUFFICES ASSUME NEW r \in Processes PROVE answer'[r] = Vector(Recipe[r], Last(asked'[r]))
    BY DEF AnswersAreOwn
  <2>1. CASE r = p
    BY <1>1, <1>3, <1>4, <2>1 DEF Answered, EncoderTypes
  <2>2. CASE r # p
    BY <1>1, <1>3, <2>2 DEF Answered, EncoderTypes, EncoderInv, AnswersAreOwn
  <2> QED
    BY <2>1, <2>2
<1> QED
  BY <1>2, <1>5, <1>6, <1>7

LEMMA AnswerKeeps ==
  ASSUME EncoderInv, NEW p \in Processes, NEW q \in Texts, Answered(p, q, Vector(Recipe[p], q)),
         at[p] # "flushing",
         NEW cache, memory' = [memory EXCEPT ![p] = cache], OwnCache(cache, Recipe[p]),
         wanted' \in [Processes -> Texts], UNCHANGED <<queue, disk, accepted>>
  PROVE  EncoderInv'
<1>1. /\ at' \in [Processes -> EncoderSteps] /\ at'[p] = "ready"
      /\ \A r \in Processes \ {p} : at'[r] = at[r]
      /\ memory' = [r \in Processes |-> memory'[r]] /\ answer' = [r \in Processes |-> answer'[r]]
      /\ asked' \in [Processes -> Seq(Texts) \ {<<>>}]
      /\ MemoryInv' /\ AnswersAreOwn'
  BY AnswerGives
<1>2. EncoderTypes'
  BY <1>1 DEF EncoderInv, EncoderTypes
<1>3. DiskInv' /\ AcceptedInv'
  BY DEF EncoderInv, DiskInv, AcceptedInv
<1>4. QueueInv'
  BY <1>1 DEF EncoderInv, QueueInv
<1> QED
  BY <1>1, <1>2, <1>3, <1>4 DEF EncoderInv

(* A process that goes on without an answer.                               *)
LEMMA GoOnKeeps ==
  ASSUME EncoderInv, NEW p \in Processes, NEW next \in {"ready", "disk", "model"},
         at' = [at EXCEPT ![p] = next], at[p] # "flushing",
         wanted' \in [Processes -> Texts], UNCHANGED <<memory, answer, asked, queue, disk, accepted>>
  PROVE  EncoderInv'
<1>1. /\ at' \in [Processes -> EncoderSteps] /\ \A r \in Processes \ {p} : at'[r] = at[r]
      /\ at'[p] # "flushed"
  BY DEF EncoderInv, EncoderTypes, EncoderSteps
<1>2. EncoderTypes'
  BY <1>1 DEF EncoderInv, EncoderTypes
<1>3. QueueInv'
  BY <1>1 DEF EncoderInv, QueueInv
<1> QED
  BY <1>2, <1>3 DEF EncoderInv, MemoryInv, DiskInv, AcceptedInv, AnswersAreOwn

LEMMA AskKeeps ==
  ASSUME EncoderInv, NEW p \in Processes, NEW q \in Texts, AskVector(p, q)
  PROVE  EncoderInv'
<1>1. /\ EncoderTypes /\ at[p] = "ready" /\ wanted' \in [Processes -> Texts]
      /\ UNCHANGED <<queue, disk, accepted>>
  BY DEF EncoderInv, EncoderTypes, AskVector
<1>2. CASE q \in DOMAIN memory[p].map
  <2>1. OwnCache(memory[p], Recipe[p])
    BY DEF EncoderInv, MemoryInv
  <2>2. memory[p].map[q] = Vector(Recipe[p], q)
    BY <1>2, <2>1 DEF OwnCache
  <2>3. OwnCache(Used(memory[p], q), Recipe[p])
    <3> DEFINE places == {i \in DOMAIN memory[p].order : memory[p].order[i] = q}
               order  == Append(RemoveAt(memory[p].order, Min(places)), q)
    <3>1. Used(memory[p], q) \in {memory[p], [memory[p] EXCEPT !.order = order]}
      BY Zenon DEF Used
    <3> HIDE DEF order
    <3>2. [memory[p] EXCEPT !.order = order] = [map |-> memory[p].map, order |-> order]
      BY <2>1 DEF OwnCache
    <3> QED
      BY <2>1, <3>1, <3>2 DEF OwnCache
  <2>4. memory' = [memory EXCEPT ![p] = Used(memory[p], q)]
    BY <1>2 DEF AskVector
  <2> QED
    BY <1>1, <1>2, <2>2, <2>3, <2>4, AnswerKeeps DEF AskVector
<1>3. CASE q \notin DOMAIN memory[p].map
  BY <1>1, <1>3, GoOnKeeps DEF AskVector
<1> QED
  BY <1>2, <1>3

(* An entry that names the encoder and the query holds their vector.       *)
LEMMA ReadDiskKeeps ==
  ASSUME EncoderInv, NEW p \in Processes, ReadDisk(p)
  PROVE  EncoderInv'
<1> DEFINE key == <<EncoderOf(p), wanted[p]>>
<1>1. /\ EncoderTypes /\ at[p] = "disk" /\ wanted' \in [Processes -> Texts] /\ wanted[p] \in Texts
      /\ UNCHANGED <<queue, disk, accepted>>
  BY DEF EncoderInv, EncoderTypes, ReadDisk
<1>2. CASE key \in DOMAIN disk /\ disk[key].whole
  <2>1. disk[key].vector = Vector(Recipe[p], wanted[p])
    BY <1>2 DEF EncoderInv, DiskInv, EncoderOf
  <2>2. OwnCache(Put(memory[p], wanted[p], Vector(Recipe[p], wanted[p])), Recipe[p])
    <3>1. \A k \in DOMAIN memory[p].map : memory[p].map[k] = Vector(Recipe[p], k)
      BY DEF EncoderInv, MemoryInv, OwnCache
    <3> QED
      BY <3>1, PutIsOwn
  <2>3. /\ Answered(p, wanted[p], Vector(Recipe[p], wanted[p]))
        /\ memory' = [memory EXCEPT ![p] = Put(memory[p], wanted[p], Vector(Recipe[p], wanted[p]))]
    BY <1>2, <2>1 DEF ReadDisk
  <2> QED
    BY <1>1, <2>2, <2>3, AnswerKeeps
<1>3. CASE ~(key \in DOMAIN disk /\ disk[key].whole)
  BY <1>1, <1>3, GoOnKeeps DEF ReadDisk
<1> QED
  BY <1>2, <1>3

(* A step that adds to a queue: QueueInv and AcceptedInv are asked of the  *)
(* process whose queue it is.                                              *)
LEMMA EnqueueKeeps ==
  ASSUME EncoderInv, NEW p \in Processes, NEW e \in QueueEntries(p), NEW next \in {"ready", "flushing"},
         queue' = [queue EXCEPT ![p] = Append(queue[p], e)], at[p] \notin {"flushing", "flushed"},
         at'[p] = next, \A r \in Processes \ {p} : at'[r] = at[r] /\ accepted'[r] = accepted[r],
         UNCHANGED disk, e.save \/ next = "flushing",
         \A q \in accepted'[p] : q \in accepted[p] \/ e = SaveOf(p, q)
  PROVE  /\ queue' = [r \in Processes |-> queue'[r]]
         /\ \A r \in Processes : queue'[r] \in Seq(QueueEntries(r))
         /\ QueueInv' /\ AcceptedInv'
<1>1. EncoderTypes /\ queue[p] \in Seq(QueueEntries(p))
  BY DEF EncoderInv, EncoderTypes
<1> DEFINE longer == Append(queue[p], e)
<1>2. /\ longer \in Seq(QueueEntries(p)) /\ Len(longer) = Len(queue[p]) + 1 /\ Len(queue[p]) \in Nat
      /\ longer[Len(queue[p]) + 1] = e /\ \A i \in 1 .. Len(queue[p]) : longer[i] = queue[p][i]
  BY <1>1, AppendFacts
<1>3. /\ queue' = [r \in Processes |-> queue'[r]] /\ queue'[p] = longer
      /\ \A r \in Processes \ {p} : queue'[r] = queue[r]
  BY <1>1 DEF EncoderTypes
<1> HIDE DEF longer
<1>4. QueueInv'
  <2> SUFFICES ASSUME NEW r \in Processes
               PROVE  /\ at'[r] = "flushed" => queue'[r] = <<>>
                      /\ \A i \in 1 .. Len(queue'[r]) :
                           queue'[r][i].save \/ (i = Len(queue'[r]) /\ at'[r] = "flushing")
    BY DEF QueueInv
  <2>1. CASE r # p
    BY <1>3, <2>1 DEF EncoderInv, QueueInv
  <2>2. CASE r = p
    <3>1. \A i \in 1 .. Len(queue[p]) : queue[p][i].save
      BY DEF EncoderInv, QueueInv
    <3>2. ASSUME NEW i \in 1 .. Len(longer)
          PROVE  longer[i].save \/ (i = Len(longer) /\ next = "flushing")
      <4>1. CASE i = Len(queue[p]) + 1
        BY <1>2, <4>1
      <4>2. CASE i \in 1 .. Len(queue[p])
        BY <1>2, <3>1, <4>2
      <4> QED
        BY <1>2, <4>1, <4>2
    <3> QED
      BY <1>3, <2>2, <3>2
  <2> QED
    BY <2>1, <2>2
<1>5. AcceptedInv'
  <2> SUFFICES ASSUME NEW r \in Processes, NEW q \in accepted'[r]
               PROVE  <<EncoderOf(r), q>> \in DOMAIN disk' \/ \E i \in 1 .. Len(queue'[r]) : queue'[r][i] = SaveOf(r, q)
    BY DEF AcceptedInv, EncoderOf, SaveOf, Vector
  <2>1. CASE r # p
    <3>1. q \in accepted[r] /\ queue'[r] = queue[r] /\ disk' = disk
      BY <1>3, <2>1
    <3>2. <<EncoderOf(r), q>> \in DOMAIN disk \/ \E i \in 1 .. Len(queue[r]) : queue[r][i] = SaveOf(r, q)
      BY <3>1 DEF EncoderInv, AcceptedInv
    <3> QED
      BY <3>1, <3>2
  <2>2. CASE r = p /\ q \in accepted[p]
    <3>1. <<EncoderOf(p), q>> \in DOMAIN disk \/ \E i \in 1 .. Len(queue[p]) : queue[p][i] = SaveOf(p, q)
      BY <2>2 DEF EncoderInv, AcceptedInv
    <3>2. \A i \in 1 .. Len(queue[p]) : i \in 1 .. Len(longer)
      BY <1>2
    <3> QED
      BY <1>2, <1>3, <2>2, <3>1, <3>2
  <2>3. CASE r = p /\ e = SaveOf(p, q)
    <3>1. Len(queue[p]) + 1 \in 1 .. Len(longer)
      BY <1>2
    <3> QED
      BY <1>2, <1>3, <2>3, <3>1
  <2> QED
    BY <2>1, <2>2, <2>3
<1>6. \A r \in Processes : queue'[r] \in Seq(QueueEntries(r))
  BY <1>1, <1>2, <1>3 DEF EncoderTypes
<1> QED
  BY <1>3, <1>4, <1>5, <1>6

LEMMA PredictKeeps ==
  ASSUME EncoderInv, NEW p \in Processes, Predict(p)
  PROVE  EncoderInv'
<1> DEFINE text == wanted[p]
           v    == Vector(Recipe[p], text)
<1>1. EncoderTypes /\ at[p] = "model" /\ text \in Texts /\ UNCHANGED <<wanted, disk>>
  BY DEF EncoderInv, EncoderTypes, Predict
<1>2. Answered(p, text, v) /\ memory' = [memory EXCEPT ![p] = Put(memory[p], text, v)]
  BY DEF Predict
<1>3. OwnCache(Put(memory[p], text, v), Recipe[p])
  <2>1. \A k \in DOMAIN memory[p].map : memory[p].map[k] = Vector(Recipe[p], k)
    BY DEF EncoderInv, MemoryInv, OwnCache
  <2> QED
    BY <2>1, PutIsOwn
<1>4. CASE ~(Len(queue[p]) < QueueCap)
  <2>1. UNCHANGED <<queue, accepted>> /\ wanted' \in [Processes -> Texts]
    BY <1>1, <1>4 DEF Predict, EncoderTypes
  <2> QED
    BY <1>1, <1>2, <1>3, <2>1, AnswerKeeps
<1>5. CASE Len(queue[p]) < QueueCap
  <2>1. /\ queue' = [queue EXCEPT ![p] = Append(queue[p], [save |-> TRUE, vector |-> v])]
        /\ accepted' = [accepted EXCEPT ![p] = accepted[p] \cup {text}]
        /\ wanted' \in [Processes -> Texts]
    BY <1>1, <1>5 DEF Predict, EncoderTypes
  <2>2. [save |-> TRUE, vector |-> v] = SaveOf(p, text) /\ SaveOf(p, text).save
    BY DEF SaveOf
  <2>3. SaveOf(p, text) \in QueueEntries(p)
    BY <1>1 DEF QueueEntries
  <2>4. /\ accepted' \in [Processes -> SUBSET Texts] /\ accepted'[p] = accepted[p] \cup {text}
        /\ \A r \in Processes \ {p} : accepted'[r] = accepted[r]
    BY <1>1, <2>1 DEF EncoderTypes
  <2>5. /\ at' \in [Processes -> EncoderSteps] /\ at'[p] = "ready"
        /\ \A r \in Processes \ {p} : at'[r] = at[r]
        /\ memory' = [r \in Processes |-> memory'[r]] /\ answer' = [r \in Processes |-> answer'[r]]
        /\ asked' \in [Processes -> Seq(Texts) \ {<<>>}]
        /\ MemoryInv' /\ AnswersAreOwn'
    BY <1>1, <1>2, <1>3, AnswerGives
  <2>6. \A q \in accepted'[p] : q \in accepted[p] \/ SaveOf(p, text) = SaveOf(p, q)
    BY <2>4
  <2>7. /\ queue' = [r \in Processes |-> queue'[r]]
        /\ \A r \in Processes : queue'[r] \in Seq(QueueEntries(r))
        /\ QueueInv' /\ AcceptedInv'
    <3> DEFINE e == SaveOf(p, text)
    <3>1. e \in QueueEntries(p) /\ e.save /\ queue' = [queue EXCEPT ![p] = Append(queue[p], e)]
      BY <2>1, <2>2, <2>3
    <3>2. UNCHANGED disk /\ at[p] \notin {"flushing", "flushed"}
      BY <1>1 DEF Predict
    <3>3. at'[p] = "ready" /\ \A r \in Processes \ {p} : at'[r] = at[r] /\ accepted'[r] = accepted[r]
      BY <2>4, <2>5
    <3>4. \A q \in accepted'[p] : q \in accepted[p] \/ e = SaveOf(p, q)
      BY <2>6
    <3> HIDE DEF e
    <3> QED
      BY <3>1, <3>2, <3>3, <3>4, EnqueueKeeps
  <2>8. EncoderTypes' /\ DiskInv'
    BY <1>1, <2>4, <2>5, <2>7 DEF EncoderInv, EncoderTypes, DiskInv
  <2> QED
    BY <2>5, <2>7, <2>8 DEF EncoderInv
<1> QED
  BY <1>4, <1>5

LEMMA FlushKeeps ==
  ASSUME EncoderInv, NEW p \in Processes, Flush(p)
  PROVE  EncoderInv'
<1>1. /\ EncoderTypes /\ at[p] = "ready" /\ at' = [at EXCEPT ![p] = "flushing"]
      /\ queue' = [queue EXCEPT ![p] = Append(queue[p], Marker)]
      /\ UNCHANGED <<memory, wanted, answer, disk, asked, accepted>> /\ Marker \in QueueEntries(p)
  BY DEF EncoderInv, Flush, Marker, QueueEntries
<1>2. /\ at' \in [Processes -> EncoderSteps] /\ at'[p] = "flushing"
      /\ \A r \in Processes \ {p} : at'[r] = at[r]
  BY <1>1 DEF EncoderTypes, EncoderSteps
<1>3. /\ queue' = [r \in Processes |-> queue'[r]]
      /\ \A r \in Processes : queue'[r] \in Seq(QueueEntries(r))
      /\ QueueInv' /\ AcceptedInv'
  BY <1>1, <1>2, EnqueueKeeps
<1>4. EncoderTypes'
  BY <1>1, <1>2, <1>3 DEF EncoderTypes
<1> QED
  BY <1>1, <1>3, <1>4 DEF EncoderInv, MemoryInv, DiskInv, AnswersAreOwn

(* A step that takes the first entry of a queue.                           *)
LEMMA DequeueKeeps ==
  ASSUME EncoderInv, NEW p \in Processes, queue[p] # <<>>,
         queue' = [queue EXCEPT ![p] = Tail(queue[p])],
         at' \in [Processes -> EncoderSteps], \A r \in Processes \ {p} : at'[r] = at[r],
         at'[p] = at[p] \/ ~Next1(p).save,
         accepted' \in [Processes -> SUBSET Texts], \A r \in Processes : accepted'[r] \subseteq accepted[r],
         \A q \in accepted'[p] : Next1(p) = SaveOf(p, q) => <<EncoderOf(p), q>> \in DOMAIN disk',
         DOMAIN disk \subseteq DOMAIN disk', DiskInv',
         UNCHANGED <<memory, wanted, answer, asked>>
  PROVE  EncoderInv'
<1>1. EncoderTypes /\ queue[p] \in Seq(QueueEntries(p))
  BY DEF EncoderInv, EncoderTypes
<1>2. PICK shorter : shorter = Tail(queue[p])
  OBVIOUS
<1>3. PICK n : n = Len(queue[p])
  OBVIOUS
<1>4. /\ shorter \in Seq(QueueEntries(p)) /\ Len(shorter) = n - 1 /\ n \in Nat \ {0}
      /\ \A i \in 1 .. n - 1 : shorter[i] = queue[p][i + 1]
      /\ Next1(p) = queue[p][1]
  BY <1>1, <1>2, <1>3, TailFacts DEF Next1
<1>5. /\ queue' = [r \in Processes |-> queue'[r]] /\ queue'[p] = shorter
      /\ \A r \in Processes \ {p} : queue'[r] = queue[r]
  BY <1>1, <1>2 DEF EncoderTypes
<1>6. EncoderTypes'
  BY <1>1, <1>4, <1>5 DEF EncoderTypes
<1>7. QueueInv'
  <2> SUFFICES ASSUME NEW r \in Processes
               PROVE  /\ at'[r] = "flushed" => queue'[r] = <<>>
                      /\ \A i \in 1 .. Len(queue'[r]) :
                           queue'[r][i].save \/ (i = Len(queue'[r]) /\ at'[r] = "flushing")
    BY DEF QueueInv
  <2>1. CASE r # p
    BY <1>5, <2>1 DEF EncoderInv, QueueInv
  <2>2. CASE r = p /\ ~Next1(p).save
    <3>1. n = 1
      <4>1. 1 \in 1 .. Len(queue[p]) /\ ~queue[p][1].save
        BY <1>3, <1>4, <2>2
      <4>2. queue[p][1].save \/ (1 = Len(queue[p]) /\ at[p] = "flushing")
        BY <4>1 DEF EncoderInv, QueueInv
      <4> QED
        BY <1>3, <4>1, <4>2
    <3>2. shorter = <<>>
      BY <1>4, <3>1
    <3> QED
      BY <1>5, <2>2, <3>2
  <2>3. CASE r = p /\ Next1(p).save
    <3>1. at'[p] = at[p] /\ at[p] # "flushed"
      BY <2>3 DEF EncoderInv, QueueInv
    <3>2. ASSUME NEW i \in 1 .. n - 1
          PROVE  shorter[i].save \/ (i = n - 1 /\ at[p] = "flushing")
      <4>1. i + 1 \in 1 .. n /\ shorter[i] = queue[p][i + 1]
        BY <1>4
      <4>2. queue[p][i + 1].save \/ (i + 1 = n /\ at[p] = "flushing")
        BY <1>3, <4>1 DEF EncoderInv, QueueInv
      <4> QED
        BY <1>4, <4>1, <4>2
    <3> QED
      BY <1>4, <1>5, <2>3, <3>1, <3>2
  <2> QED
    BY <2>1, <2>2, <2>3
<1>8. AcceptedInv'
  <2> SUFFICES ASSUME NEW r \in Processes, NEW q \in accepted'[r]
               PROVE  <<EncoderOf(r), q>> \in DOMAIN disk' \/ \E i \in 1 .. Len(queue'[r]) : queue'[r][i] = SaveOf(r, q)
    BY DEF AcceptedInv, EncoderOf, SaveOf, Vector
  <2>1. <<EncoderOf(r), q>> \in DOMAIN disk \/ \E i \in 1 .. Len(queue[r]) : queue[r][i] = SaveOf(r, q)
    BY DEF EncoderInv, AcceptedInv
  <2>2. CASE <<EncoderOf(r), q>> \in DOMAIN disk \/ r # p
    BY <1>5, <2>1, <2>2
  <2>3. CASE r = p /\ <<EncoderOf(r), q>> \notin DOMAIN disk
    <3>1. PICK i \in 1 .. n : queue[p][i] = SaveOf(p, q)
      BY <1>3, <2>1, <2>3
    <3>2. CASE i = 1
      BY <1>4, <2>3, <3>1, <3>2
    <3>3. CASE i # 1
      <4>1. i - 1 \in 1 .. n - 1 /\ shorter[i - 1] = queue[p][i]
        BY <1>4, <3>3
      <4> QED
        BY <1>4, <1>5, <2>3, <3>1, <4>1
    <3> QED
      BY <3>2, <3>3
  <2> QED
    BY <2>2, <2>3
<1> QED
  BY <1>6, <1>7, <1>8 DEF EncoderInv, MemoryInv, AnswersAreOwn

LEMMA SaveKeeps ==
  ASSUME EncoderInv, NEW p \in Processes, Save(p)
  PROVE  EncoderInv'
<1>1. /\ EncoderTypes /\ queue[p] # <<>> /\ Next1(p).save
      /\ queue' = [queue EXCEPT ![p] = Tail(queue[p])]
      /\ UNCHANGED <<memory, at, wanted, answer, asked, accepted>>
  BY DEF EncoderInv, Save
<1>2. Next1(p) \in QueueEntries(p)
  BY <1>1, TailFacts DEF EncoderTypes, Next1
<1>3. PICK q \in Texts : Next1(p) = SaveOf(p, q) /\ Next1(p).vector = Vector(Recipe[p], q) /\ Next1(p).vector.text = q
  BY <1>1, <1>2, SavesAreSaves
<1> DEFINE key == <<EncoderOf(p), q>>
           entry == [whole |-> TRUE, vector |-> Vector(Recipe[p], q)]
<1>4. disk' = [k \in DOMAIN disk \cup {key} |-> IF k = key THEN entry ELSE disk[k]]
  BY <1>3 DEF Save
<1>5. DiskInv'
  <2> SUFFICES ASSUME NEW k \in DOMAIN disk'
               PROVE  disk'[k] \in [whole : BOOLEAN, vector : {Vector(k[1], k[2])}]
    BY DEF DiskInv, Vector
  <2>1. CASE k = key
    BY <1>4, <2>1 DEF EncoderOf
  <2>2. CASE k # key
    BY <1>4, <2>2 DEF EncoderInv, DiskInv
  <2> QED
    BY <2>1, <2>2
<1>6. \A r \in Texts : SaveOf(p, q) = SaveOf(p, r) => q = r
  <2> SUFFICES ASSUME NEW r \in Texts, SaveOf(p, q) = SaveOf(p, r) PROVE q = r
    OBVIOUS
  <2>1. SaveOf(p, q).vector = SaveOf(p, r).vector
    OBVIOUS
  <2>2. Vector(Recipe[p], q) = Vector(Recipe[p], r)
    BY <2>1 DEF SaveOf
  <2>3. Vector(Recipe[p], q).text = Vector(Recipe[p], r).text
    BY <2>2
  <2> QED
    BY <2>3 DEF Vector
<1>7. \A r \in accepted'[p] : Next1(p) = SaveOf(p, r) => <<EncoderOf(p), r>> \in DOMAIN disk'
  BY <1>1, <1>3, <1>4, <1>6 DEF EncoderTypes
<1>8. /\ DOMAIN disk \subseteq DOMAIN disk' /\ at' \in [Processes -> EncoderSteps]
      /\ accepted' \in [Processes -> SUBSET Texts]
  BY <1>1, <1>4 DEF EncoderTypes
<1> QED
  BY <1>1, <1>5, <1>7, <1>8, DequeueKeeps

LEMMA SaveFailsKeeps ==
  ASSUME EncoderInv, NEW p \in Processes, SaveFails(p)
  PROVE  EncoderInv'
<1>1. /\ EncoderTypes /\ queue[p] # <<>> /\ Next1(p).save
      /\ queue' = [queue EXCEPT ![p] = Tail(queue[p])]
      /\ accepted' = [accepted EXCEPT ![p] = accepted[p] \ {Next1(p).vector.text}]
      /\ UNCHANGED <<memory, at, wanted, answer, disk, asked>>
  BY DEF EncoderInv, SaveFails
<1>2. /\ accepted' \in [Processes -> SUBSET Texts] /\ at' \in [Processes -> EncoderSteps]
      /\ \A r \in Processes : accepted'[r] \subseteq accepted[r]
      /\ accepted'[p] = accepted[p] \ {Next1(p).vector.text}
  BY <1>1 DEF EncoderTypes
<1>3. \A q \in accepted'[p] : Next1(p) # SaveOf(p, q)
  <2> SUFFICES ASSUME NEW q \in accepted'[p], Next1(p) = SaveOf(p, q) PROVE FALSE
    OBVIOUS
  <2>1. Next1(p).vector.text = q
    BY DEF SaveOf, Vector
  <2> QED
    BY <1>2, <2>1
<1>4. DiskInv'
  BY <1>1 DEF EncoderInv, DiskInv
<1> QED
  BY <1>1, <1>2, <1>3, <1>4, DequeueKeeps

LEMMA FlushedKeeps ==
  ASSUME EncoderInv, NEW p \in Processes, Flushed(p)
  PROVE  EncoderInv'
<1>1. /\ EncoderTypes /\ queue[p] # <<>> /\ ~Next1(p).save
      /\ queue' = [queue EXCEPT ![p] = Tail(queue[p])]
      /\ at' = [at EXCEPT ![p] = "flushed"]
      /\ UNCHANGED <<memory, wanted, answer, disk, asked, accepted>>
  BY DEF EncoderInv, Flushed
<1>2. /\ accepted' \in [Processes -> SUBSET Texts] /\ at' \in [Processes -> EncoderSteps]
      /\ \A r \in Processes \ {p} : at'[r] = at[r]
  BY <1>1 DEF EncoderTypes, EncoderSteps
<1>3. \A q \in accepted'[p] : Next1(p) # SaveOf(p, q)
  BY <1>1 DEF SaveOf
<1>4. DiskInv'
  BY <1>1 DEF EncoderInv, DiskInv
<1> QED
  BY <1>1, <1>2, <1>3, <1>4, DequeueKeeps

LEMMA RestartKeeps ==
  ASSUME EncoderInv, NEW p \in Processes, Restart(p)
  PROVE  EncoderInv'
<1>1. /\ EncoderTypes /\ UNCHANGED <<wanted, disk>>
      /\ memory' = [memory EXCEPT ![p] = Loaded(p)]
      /\ answer' = [answer EXCEPT ![p] = Vector(Recipe[p], Warmup)]
      /\ at' = [at EXCEPT ![p] = "ready"] /\ queue' = [queue EXCEPT ![p] = <<>>]
      /\ asked' = [asked EXCEPT ![p] = <<Warmup>>] /\ accepted' = [accepted EXCEPT ![p] = {}]
  BY DEF EncoderInv, Restart
<1>2. EncoderTypes'
  <2>1. <<>> \in Seq(QueueEntries(p)) /\ <<Warmup>> \in Seq(Texts) \ {<<>>} /\ "ready" \in EncoderSteps
    BY DEF Texts, EncoderSteps
  <2> QED
    BY <1>1, <2>1 DEF EncoderTypes
<1>3. MemoryInv'
  BY <1>1, LoadedIsOwn DEF EncoderInv, MemoryInv, EncoderTypes
<1>4. DiskInv' /\ QueueInv' /\ AcceptedInv'
  BY <1>1 DEF EncoderInv, DiskInv, QueueInv, AcceptedInv, EncoderTypes
<1>5. AnswersAreOwn'
  <2>1. Last(<<Warmup>>) = Warmup
    BY DEF Last
  <2> QED
    BY <1>1, <2>1 DEF EncoderInv, AnswersAreOwn, EncoderTypes
<1> QED
  BY <1>2, <1>3, <1>4, <1>5 DEF EncoderInv

LEMMA DamageKeeps ==
  ASSUME EncoderInv, NEW key \in DOMAIN disk, Damage(key)
  PROVE  EncoderInv'
<1>1. /\ disk' = [disk EXCEPT ![key].whole = FALSE]
      /\ UNCHANGED <<memory, at, wanted, answer, queue, asked, accepted>>
  BY DEF Damage
<1>2. DOMAIN disk' = DOMAIN disk
  BY <1>1
<1>3. DiskInv'
  BY <1>1 DEF EncoderInv, DiskInv, Vector
<1> QED
  BY <1>1, <1>2, <1>3 DEF EncoderInv, EncoderTypes, MemoryInv, QueueInv, AcceptedInv, AnswersAreOwn, EncoderOf

-----------------------------------------------------------------------------
LEMMA EncoderNextKeeps == EncoderInv /\ [EncoderNext]_encoderVars => EncoderInv'
<1> SUFFICES ASSUME EncoderInv, [EncoderNext]_encoderVars PROVE EncoderInv'
  OBVIOUS
<1>1. CASE UNCHANGED encoderVars
  BY <1>1 DEF encoderVars, EncoderInv, EncoderTypes, MemoryInv, DiskInv, QueueInv, AcceptedInv, AnswersAreOwn
<1>2. CASE \E key \in DOMAIN disk : Damage(key)
  BY <1>2, DamageKeeps
<1>3. CASE \E p \in Processes : \E q \in Questions \cup {Warmup} : AskVector(p, q)
  BY <1>3, AskKeeps DEF Texts
<1>4. CASE \E p \in Processes : ReadDisk(p) \/ Predict(p) \/ PredictFails(p)
  <2>1. PICK p \in Processes : ReadDisk(p) \/ Predict(p) \/ PredictFails(p)
    BY <1>4
  <2>2. CASE PredictFails(p)
    <3>1. /\ at[p] = "model" /\ at' = [at EXCEPT ![p] = "ready"] /\ wanted' \in [Processes -> Texts]
          /\ UNCHANGED <<memory, answer, asked, queue, disk, accepted>>
      BY <2>2 DEF PredictFails, EncoderInv, EncoderTypes
    <3> QED
      BY <3>1, GoOnKeeps
  <2> QED
    BY <2>1, <2>2, ReadDiskKeeps, PredictKeeps
<1>5. CASE \E p \in Processes : Save(p) \/ SaveFails(p) \/ Flush(p) \/ Flushed(p) \/ Restart(p)
  BY <1>5, SaveKeeps, SaveFailsKeeps, FlushKeeps, FlushedKeeps, RestartKeeps
<1> QED
  BY <1>1, <1>2, <1>3, <1>4, <1>5 DEF EncoderNext

(* In every behaviour of encoders that share a cache directory: memory,    *)
(* disk and queues hold vectors under the recipe and text they are of, and *)
(* what a queue took is on disk, in the queue, or its write has failed.    *)
THEOREM EncoderInvariance == EncoderSpec => []EncoderInv
<1> QED
  BY EncoderInvInit, EncoderNextKeeps, PTL DEF EncoderSpec

(* embed_query: whatever processes with other models or settings keep in   *)
(* the same directory, and whatever is damaged, evicted or restarted, an   *)
(* answer is the vector the asking process's own encoder gives the query.  *)
THEOREM AnswersStayOwn == EncoderSpec => []AnswersAreOwn
<1>1. EncoderInv => AnswersAreOwn
  BY DEF EncoderInv
<1> QED
  BY <1>1, EncoderInvariance, PTL

(* BackgroundWriter::flush: when it returns, everything the queue took is  *)
(* on disk under its recipe and text, but for writes that failed.          *)
THEOREM FlushesWrite == EncoderSpec => []FlushedIsWritten
<1>1. EncoderInv => FlushedIsWritten
  <2> SUFFICES ASSUME EncoderInv, NEW p \in Processes, at[p] = "flushed"
               PROVE  queue[p] = <<>> /\ \A q \in accepted[p] : <<EncoderOf(p), q>> \in DOMAIN disk
    BY DEF FlushedIsWritten
  <2>1. queue[p] = <<>>
    BY DEF EncoderInv, QueueInv
  <2>2. 1 .. Len(queue[p]) = {}
    BY <2>1
  <2> QED
    BY <2>1, <2>2 DEF EncoderInv, AcceptedInv
<1> QED
  BY <1>1, EncoderInvariance, PTL

-----------------------------------------------------------------------------
(* The latest queries *)

(* What is in memory are queries in the order of their last uses, and none *)
(* that is not has been used since one of them.                            *)
LatestFirst(cache, uses) ==
  /\ cache.order \in Seq(ToSet(uses)) /\ Len(cache.order) <= QueryCap
  /\ DOMAIN cache.map = ToSet(cache.order)
  /\ \A i, j \in DOMAIN cache.order : i < j => LastUse(uses, cache.order[i]) < LastUse(uses, cache.order[j])
  /\ \A q \in ToSet(uses) \ DOMAIN cache.map :
       Len(cache.order) = QueryCap /\ \A r \in DOMAIN cache.map : LastUse(uses, q) < LastUse(uses, r)

LEMMA MaxIs ==
  ASSUME NEW n \in Nat, NEW S \in SUBSET (1 .. n), S # {}
  PROVE  Max(S) \in S /\ \A x \in S : x <= Max(S)
<1> DEFINE Below == {n - x : x \in S}
<1>1. Below \subseteq Nat /\ Below # {}
  OBVIOUS
<1>2. PICK m \in Below : \A k \in Below : <<k, m>> \notin OpToRel(<, Nat)
  <2>1. IsWellFoundedOn(OpToRel(<, Nat), Nat)
    BY NatLessThanWellFounded
  <2> HIDE DEF Below
  <2> QED
    BY <1>1, <2>1, WFMin
<1>3. \A k \in Below : ~(k < m)
  <2> SUFFICES ASSUME NEW k \in Below, k < m PROVE FALSE
    OBVIOUS
  <2>1. k \in Nat /\ m \in Nat /\ <<k, m>> \in Nat \X Nat
    BY <1>1
  <2>2. <<k, m>> \in OpToRel(<, Nat)
    BY <2>1, Zenon DEF OpToRel
  <2> QED
    BY <1>2, <2>2
<1>4. PICK y \in S : m = n - y
  OBVIOUS
<1>5. \A x \in S : x <= y
  BY <1>3, <1>4
<1>6. \E x \in S : \A z \in S : z <= x
  BY <1>5
<1> QED
  BY <1>6 DEF Max

LEMMA LastUseIs ==
  ASSUME NEW uses \in Seq(Texts), NEW q \in ToSet(uses)
  PROVE  /\ LastUse(uses, q) \in 1 .. Len(uses) /\ uses[LastUse(uses, q)] = q /\ Len(uses) \in Nat
<1> DEFINE S == {i \in DOMAIN uses : uses[i] = q}
<1>1. S \in SUBSET (1 .. Len(uses)) /\ S # {} /\ Len(uses) \in Nat
  BY DEF ToSet
<1>2. Max(S) \in S
  BY <1>1, MaxIs
<1> QED
  BY <1>1, <1>2 DEF LastUse

(* No two queries were last used at once.                                  *)
LEMMA LastUsesDiffer ==
  ASSUME NEW uses \in Seq(Texts), NEW q \in ToSet(uses), NEW r \in ToSet(uses), q # r
  PROVE  LastUse(uses, q) < LastUse(uses, r) \/ LastUse(uses, r) < LastUse(uses, q)
<1>1. LastUse(uses, q) # LastUse(uses, r) /\ LastUse(uses, q) \in Nat /\ LastUse(uses, r) \in Nat
  BY LastUseIs
<1> QED
  BY <1>1

(* The next use is the last one of its query and of no other.              *)
LEMMA NextUse ==
  ASSUME NEW uses \in Seq(Texts), NEW q \in Texts
  PROVE  /\ Append(uses, q) \in Seq(Texts) /\ ToSet(Append(uses, q)) = ToSet(uses) \cup {q}
         /\ LastUse(Append(uses, q), q) = Len(uses) + 1
         /\ \A r \in ToSet(uses) \ {q} : LastUse(Append(uses, q), r) = LastUse(uses, r)
         /\ \A r \in ToSet(uses) \ {q} : LastUse(Append(uses, q), r) < LastUse(Append(uses, q), q)
<1> DEFINE n == Len(uses)
           longer == Append(uses, q)
<1>1. /\ longer \in Seq(Texts) /\ n \in Nat /\ DOMAIN longer = 1 .. n + 1 /\ DOMAIN uses = 1 .. n
      /\ longer[n + 1] = q /\ \A i \in 1 .. n : longer[i] = uses[i]
      /\ Len(longer) = n + 1
  OBVIOUS
<1> HIDE DEF longer, n
<1>2. ToSet(longer) = ToSet(uses) \cup {q}
  <2>1. \A i \in 1 .. n + 1 : i = n + 1 \/ i \in 1 .. n
    BY <1>1
  <2>2. \A i \in 1 .. n : i \in 1 .. n + 1
    BY <1>1
  <2>3. n + 1 \in 1 .. n + 1
    BY <1>1
  <2> QED
    BY <1>1, <2>1, <2>2, <2>3 DEF ToSet
<1>3. LastUse(longer, q) = n + 1
  <2> DEFINE S == {i \in DOMAIN longer : longer[i] = q}
  <2>1. S \in SUBSET (1 .. n + 1) /\ n + 1 \in S /\ n + 1 \in Nat
    BY <1>1
  <2>2. Max(S) \in S /\ n + 1 <= Max(S)
    BY <2>1, MaxIs
  <2> QED
    BY <1>1, <2>1, <2>2 DEF LastUse
<1>4. ASSUME NEW r \in ToSet(uses) \ {q}
      PROVE  LastUse(longer, r) = LastUse(uses, r)
  <2>1. {i \in DOMAIN longer : longer[i] = r} = {i \in DOMAIN uses : uses[i] = r}
    BY <1>1
  <2> QED
    BY <2>1 DEF LastUse
<1>5. \A r \in ToSet(uses) \ {q} : LastUse(uses, r) < n + 1
  BY <1>1, LastUseIs DEF n
<1> QED
  BY <1>1, <1>2, <1>3, <1>4, <1>5 DEF longer, n

(* An order has each of its queries once.                                  *)
LEMMA OrderIs ==
  ASSUME NEW uses \in Seq(Texts), NEW cache, LatestFirst(cache, uses)
  PROVE  /\ \A i, j \in DOMAIN cache.order : cache.order[i] = cache.order[j] => i = j
         /\ DOMAIN cache.order = 1 .. Len(cache.order) /\ Len(cache.order) \in Nat
         /\ \A i \in DOMAIN cache.order : cache.order[i] \in DOMAIN cache.map
         /\ DOMAIN cache.map \subseteq ToSet(uses)
         /\ IsFiniteSet(DOMAIN cache.map) /\ Cardinality(DOMAIN cache.map) = Len(cache.order)
<1> DEFINE order == cache.order
           n == Len(order)
<1>1. /\ order \in Seq(ToSet(uses)) /\ DOMAIN order = 1 .. n /\ n \in Nat
      /\ DOMAIN cache.map = ToSet(order)
      /\ \A i, j \in DOMAIN order : i < j => LastUse(uses, order[i]) < LastUse(uses, order[j])
  BY DEF LatestFirst
<1> HIDE DEF order
<1>2. \A i \in DOMAIN order : order[i] \in ToSet(uses)
  BY <1>1
<1>3. ASSUME NEW i \in DOMAIN order, NEW j \in DOMAIN order, order[i] = order[j]
      PROVE  i = j
  <2>1. LastUse(uses, order[i]) \in Nat
    BY <1>2, LastUseIs
  <2>2. ~(i < j) /\ ~(j < i)
    BY <1>1, <1>3, <2>1
  <2> QED
    BY <1>1, <2>2
<1>4. \A i \in DOMAIN order : order[i] \in DOMAIN cache.map
  BY <1>1 DEF ToSet
<1>5. DOMAIN cache.map \subseteq ToSet(uses)
  BY <1>1, <1>2 DEF ToSet
<1>6. IsFiniteSet(1 .. n) /\ Cardinality(1 .. n) = n
  <2> HIDE DEF n
  <2>1. n \in Int /\ 1 \in Int
    BY <1>1
  <2>2. IsFiniteSet(1 .. n) /\ Cardinality(1 .. n) = IF 1 > n THEN 0 ELSE n - 1 + 1
    BY <2>1, FS_Interval
  <2> QED
    BY <1>1, <2>2
<1>7. order \in Surjection(1 .. n, DOMAIN cache.map) /\ order \in Injection(1 .. n, DOMAIN cache.map)
  <2>1. order \in [1 .. n -> DOMAIN cache.map]
    BY <1>1, <1>4
  <2>2. \A q \in DOMAIN cache.map : \E i \in 1 .. n : order[i] = q
    BY <1>1 DEF ToSet
  <2> HIDE DEF n
  <2> QED
    BY <1>1, <1>3, <2>1, <2>2 DEF Surjection, Injection, IsInjective
<1>8. IsFiniteSet(DOMAIN cache.map) /\ Cardinality(DOMAIN cache.map) = n
  BY <1>6, <1>7, FS_Surjection
<1> QED
  BY <1>1, <1>3, <1>4, <1>5, <1>8 DEF order

LEMMA RemoveAtIs ==
  ASSUME NEW S, NEW s \in Seq(S), NEW k \in 1 .. Len(s)
  PROVE  /\ RemoveAt(s, k) \in Seq(S) /\ Len(RemoveAt(s, k)) = Len(s) - 1
         /\ \A i \in 1 .. Len(s) - 1 : RemoveAt(s, k)[i] = IF i < k THEN s[i] ELSE s[i + 1]
<1> DEFINE n == Len(s)
<1>1. n \in Nat /\ k \in 1 .. n
  OBVIOUS
<1>2. PICK low : low = SubSeq(s, 1, k - 1)
  OBVIOUS
<1>3. PICK high : high = SubSeq(s, k + 1, n)
  OBVIOUS
<1>4. /\ low \in Seq(S) /\ Len(low) = k - 1 /\ \A i \in 1 .. k - 1 : low[i] = s[i]
  <2>1. \A i \in 1 .. k - 1 : i \in 1 .. n
    BY <1>1
  <2> QED
    BY <1>1, <1>2, <2>1
<1>5. /\ high \in Seq(S) /\ Len(high) = n - k /\ \A i \in 1 .. n - k : high[i] = s[k + i]
  BY <1>1, <1>3
<1>6. RemoveAt(s, k) = low \o high
  BY <1>2, <1>3 DEF RemoveAt
<1> HIDE DEF n
<1>7. low \o high \in Seq(S) /\ Len(low \o high) = n - 1
  <2>1. low \in Seq(S) /\ high \in Seq(S)
    BY <1>4, <1>5
  <2>2. low \o high \in Seq(S) /\ Len(low \o high) = Len(low) + Len(high)
    BY <2>1
  <2> QED
    BY <1>1, <1>4, <1>5, <2>1, <2>2
<1>8. ASSUME NEW i \in 1 .. n - 1
      PROVE  (low \o high)[i] = IF i < k THEN s[i] ELSE s[i + 1]
  <2>1. CASE i < k
    BY <1>1, <1>4, <1>5, <2>1
  <2>2. CASE ~(i < k)
    <3>1. (low \o high)[i] = high[i - (k - 1)]
      BY <1>1, <1>4, <1>5, <2>2
    <3>2. i - (k - 1) \in 1 .. n - k /\ k + (i - (k - 1)) = i + 1
      BY <1>1, <2>2
    <3> QED
      BY <1>5, <2>2, <3>1, <3>2
  <2> QED
    BY <2>1, <2>2
<1> QED
  BY <1>6, <1>7, <1>8 DEF n

(* embed_query finds the query in memory: it becomes the latest.           *)
LEMMA UsedIsLatest ==
  ASSUME NEW uses \in Seq(Texts), NEW cache, LatestFirst(cache, uses), NEW q \in DOMAIN cache.map,
         cache = [map |-> cache.map, order |-> cache.order]
  PROVE  /\ LatestFirst(Used(cache, q), Append(uses, q))
         /\ Used(cache, q) = [map |-> cache.map, order |-> Used(cache, q).order]
<1> DEFINE order  == cache.order
           n      == Len(order)
           places == {i \in DOMAIN order : order[i] = q}
           longer == Append(uses, q)
<1>1. /\ order \in Seq(ToSet(uses)) /\ DOMAIN order = 1 .. n /\ n \in Nat /\ n <= QueryCap
      /\ DOMAIN cache.map = ToSet(order) /\ DOMAIN cache.map \subseteq ToSet(uses)
      /\ \A i, j \in DOMAIN order : i < j => LastUse(uses, order[i]) < LastUse(uses, order[j])
      /\ \A i, j \in DOMAIN order : order[i] = order[j] => i = j
  BY OrderIs DEF LatestFirst
<1>2. PICK at0 \in 1 .. n : order[at0] = q
  BY <1>1 DEF ToSet
<1>3. places = {at0}
  BY <1>1, <1>2
<1>4. Min(places) = at0
  BY <1>1, <1>3 DEF Min
<1> DEFINE rest == RemoveAt(order, at0)
           new  == Append(rest, q)
<1>5. Used(cache, q) = [cache EXCEPT !.order = new]
  BY <1>3, <1>4, Zenon DEF Used
<1>6. Used(cache, q) = [map |-> cache.map, order |-> new]
  <2> HIDE DEF new
  <2> QED
    BY <1>5
<1>7. /\ rest \in Seq(ToSet(uses)) /\ Len(rest) = n - 1
      /\ \A i \in 1 .. n - 1 : rest[i] = IF i < at0 THEN order[i] ELSE order[i + 1]
  BY <1>1, <1>2, RemoveAtIs
<1> HIDE DEF rest, order, n
<1>8. q \in ToSet(uses) /\ q \in Texts
  <2>1. q \in ToSet(uses)
    BY <1>1
  <2> QED
    BY <2>1, LastUseIs
<1>9. /\ ToSet(longer) = ToSet(uses) \cup {q}
      /\ LastUse(longer, q) = Len(uses) + 1
      /\ \A r \in ToSet(uses) \ {q} : LastUse(longer, r) = LastUse(uses, r)
      /\ \A r \in ToSet(uses) \ {q} : LastUse(longer, r) < LastUse(longer, q)
  BY <1>8, NextUse
<1>10. /\ new \in Seq(ToSet(longer)) /\ Len(new) = n /\ DOMAIN new = 1 .. n /\ new[n] = q
       /\ \A i \in 1 .. n - 1 : new[i] = rest[i]
  BY <1>1, <1>7, <1>8, <1>9
<1> HIDE DEF new, longer
<1> DEFINE Was(i) == IF i < at0 THEN i ELSE i + 1
<1>11. \A i \in 1 .. n - 1 : /\ Was(i) \in 1 .. n /\ Was(i) # at0 /\ new[i] = order[Was(i)]
                             /\ new[i] # q /\ new[i] \in ToSet(uses)
  <2> SUFFICES ASSUME NEW i \in 1 .. n - 1
               PROVE  /\ Was(i) \in 1 .. n /\ Was(i) # at0 /\ new[i] = order[Was(i)]
                      /\ new[i] # q /\ new[i] \in ToSet(uses)
    OBVIOUS
  <2>1. Was(i) \in 1 .. n /\ Was(i) # at0
    BY <1>1, <1>2
  <2>2. new[i] = order[Was(i)]
    BY <1>7, <1>10
  <2> HIDE DEF Was
  <2> QED
    BY <1>1, <1>2, <2>1, <2>2
<1>12. ToSet(new) = ToSet(order)
  <2>1. ASSUME NEW i \in 1 .. n
        PROVE  new[i] \in ToSet(order)
    <3>1. CASE i = n
      BY <1>1, <1>2, <1>10, <3>1 DEF ToSet
    <3>2. CASE i # n
      <4>1. i \in 1 .. n - 1
        BY <1>1, <3>2
      <4> HIDE DEF Was
      <4> QED
        BY <1>1, <1>11, <4>1 DEF ToSet
    <3> QED
      BY <3>1, <3>2
  <2>2. ASSUME NEW i \in 1 .. n
        PROVE  order[i] \in ToSet(new)
    <3>1. CASE i = at0
      BY <1>1, <1>2, <1>10, <3>1 DEF ToSet
    <3>2. CASE i < at0
      <4>1. i \in 1 .. n - 1 /\ new[i] = order[i] /\ i \in 1 .. n
        BY <1>1, <1>2, <1>7, <1>10, <3>2
      <4> QED
        BY <1>10, <4>1 DEF ToSet
    <3>3. CASE i > at0
      <4>1. i - 1 \in 1 .. n - 1 /\ new[i - 1] = order[i] /\ i - 1 \in 1 .. n
        BY <1>1, <1>2, <1>7, <1>10, <3>3
      <4> QED
        BY <1>10, <4>1 DEF ToSet
    <3> QED
      BY <1>2, <3>1, <3>2, <3>3
  <2> QED
    <3>1. ToSet(new) = {new[i] : i \in 1 .. n} /\ ToSet(order) = {order[i] : i \in 1 .. n}
      BY <1>1, <1>10 DEF ToSet
    <3> QED
      BY <2>1, <2>2, <3>1
<1>13. ASSUME NEW i \in 1 .. n, NEW j \in 1 .. n, i < j
       PROVE  LastUse(longer, new[i]) < LastUse(longer, new[j])
  <2>1. i \in 1 .. n - 1
    BY <1>1, <1>13
  <2>2. CASE j = n
    BY <1>9, <1>10, <1>11, <2>1, <2>2
  <2>3. CASE j # n
    <3>1. j \in 1 .. n - 1 /\ Was(i) < Was(j)
      BY <1>1, <1>2, <1>13, <2>3
    <3> HIDE DEF Was
    <3>2. LastUse(uses, order[Was(i)]) < LastUse(uses, order[Was(j)])
      BY <1>1, <1>11, <2>1, <3>1
    <3>3. LastUse(uses, new[i]) < LastUse(uses, new[j])
      BY <1>11, <2>1, <3>1, <3>2
    <3> QED
      BY <1>9, <1>11, <2>1, <3>1, <3>3
  <2> QED
    BY <2>2, <2>3
<1>14. ASSUME NEW r \in ToSet(longer) \ DOMAIN cache.map
       PROVE  Len(new) = QueryCap /\ \A t \in DOMAIN cache.map : LastUse(longer, r) < LastUse(longer, t)
  <2>1. r \in ToSet(uses) /\ r # q
    BY <1>9, <1>14
  <2>2. n = QueryCap /\ \A t \in DOMAIN cache.map : LastUse(uses, r) < LastUse(uses, t)
    BY <1>14, <2>1 DEF LatestFirst, order, n
  <2> QED
    BY <1>1, <1>9, <1>10, <2>1, <2>2
<1> QED
  BY <1>1, <1>6, <1>10, <1>12, <1>13, <1>14 DEF LatestFirst, longer

(* A query that was not in memory is put there, in the place of the one    *)
(* that was used before all others if there is no other place.             *)
LEMMA PutIsLatest ==
  ASSUME NEW uses \in Seq(Texts), NEW cache, LatestFirst(cache, uses), NEW q \in Texts \ DOMAIN cache.map, NEW v
  PROVE  LatestFirst(Put(cache, q, v), Append(uses, q))
<1> DEFINE order  == cache.order
           n      == Len(order)
           longer == Append(uses, q)
           full   == Cardinality(DOMAIN cache.map) >= QueryCap /\ q \notin DOMAIN cache.map
           held   == IF full THEN Restrict(cache.map, DOMAIN cache.map \ {Head(order)}) ELSE cache.map
           rest   == IF full THEN Tail(order) ELSE order
           m      == Len(rest)
           new    == IF q \in DOMAIN held THEN rest ELSE Append(rest, q)
           map    == [k \in DOMAIN held \cup {q} |-> IF k = q THEN v ELSE held[k]]
<1>1. Put(cache, q, v) = [map |-> map, order |-> new]
  BY DEF Put
<1>2. /\ order \in Seq(ToSet(uses)) /\ DOMAIN order = 1 .. n /\ n \in Nat /\ n <= QueryCap
      /\ DOMAIN cache.map = ToSet(order) /\ DOMAIN cache.map \subseteq ToSet(uses)
      /\ Cardinality(DOMAIN cache.map) = n
      /\ \A i, j \in DOMAIN order : i < j => LastUse(uses, order[i]) < LastUse(uses, order[j])
      /\ \A i, j \in DOMAIN order : order[i] = order[j] => i = j
      /\ \A i \in DOMAIN order : order[i] \in DOMAIN cache.map
      /\ QueryCap \in Nat \ {0}
  BY OrderIs, EncoderAssumption DEF LatestFirst
<1>3. /\ ToSet(longer) = ToSet(uses) \cup {q} /\ longer \in Seq(Texts)
      /\ \A r \in ToSet(uses) \ {q} : LastUse(longer, r) = LastUse(uses, r)
      /\ \A r \in ToSet(uses) \ {q} : LastUse(longer, r) < LastUse(longer, q)
  BY NextUse
<1>4. \A r \in ToSet(uses) \ DOMAIN cache.map :
        n = QueryCap /\ \A t \in DOMAIN cache.map : LastUse(uses, r) < LastUse(uses, t)
  BY DEF LatestFirst
<1>5. full <=> n >= QueryCap
  BY <1>2
<1> HIDE DEF order, n, longer
(* What stays is in the order it was in, and was used after all that is not. *)
<1>6. /\ rest \in Seq(ToSet(uses)) /\ m \in Nat /\ DOMAIN rest = 1 .. m /\ m < QueryCap
      /\ DOMAIN held = ToSet(rest) /\ DOMAIN held \subseteq DOMAIN cache.map
      /\ \A i \in 1 .. m : rest[i] \in DOMAIN cache.map
      /\ \A i, j \in 1 .. m : i < j => LastUse(uses, rest[i]) < LastUse(uses, rest[j])
      /\ \A r \in ToSet(uses) \ DOMAIN held :
           m + 1 = QueryCap /\ \A t \in DOMAIN held : LastUse(uses, r) < LastUse(uses, t)
  <2>1. CASE ~full
    <3>1. rest = order /\ held = cache.map
      BY <2>1
    <3>2. m = n
      BY <3>1 DEF n
    <3> HIDE DEF rest, held, m, full
    <3>3. n < QueryCap
      BY <1>2, <1>5, <2>1
    <3> QED
      BY <1>2, <1>4, <3>1, <3>2, <3>3
  <2>2. CASE full
    <3>1. n = QueryCap /\ order # <<>> /\ n \in Nat \ {0}
      <4> HIDE DEF full
      <4>1. n = QueryCap /\ n \in Nat \ {0}
        BY <1>2, <1>5, <2>2
      <4> QED
        BY <4>1 DEF n
    <3>2. rest = Tail(order) /\ DOMAIN held = DOMAIN cache.map \ {Head(order)}
      BY <2>2 DEF Restrict
    <3>3. Head(order) = order[1]
      BY <1>2, <3>1
    <3> HIDE DEF rest, held, full
    <3>4. /\ rest \in Seq(ToSet(uses)) /\ m = n - 1 /\ DOMAIN rest = 1 .. n - 1
          /\ \A i \in 1 .. n - 1 : rest[i] = order[i + 1]
      BY <1>2, <3>1, <3>2 DEF n
    <3> HIDE DEF m
    <3>5. \A i \in 1 .. n - 1 : /\ i + 1 \in 1 .. n /\ rest[i] = order[i + 1] /\ order[i + 1] # order[1]
                                /\ rest[i] \in DOMAIN cache.map
      BY <1>2, <3>1, <3>4
    <3>6. DOMAIN held = ToSet(rest)
      <4>1. ToSet(rest) = {rest[i] : i \in 1 .. n - 1} /\ ToSet(order) = {order[i] : i \in 1 .. n}
        BY <1>2, <3>4 DEF ToSet
      <4>2. \A i \in 1 .. n : i = 1 \/ (i - 1 \in 1 .. n - 1 /\ rest[i - 1] = order[i])
        BY <1>2, <3>4
      <4>3. ASSUME NEW t \in DOMAIN held
            PROVE  t \in ToSet(rest)
        <5>1. PICK i \in 1 .. n : t = order[i]
          BY <1>2, <3>2, <4>1
        <5>2. i # 1
          BY <3>2, <3>3, <5>1
        <5> QED
          BY <4>1, <4>2, <5>1, <5>2
      <4>4. ASSUME NEW i \in 1 .. n - 1
            PROVE  rest[i] \in DOMAIN held
        BY <3>2, <3>3, <3>5
      <4> QED
        BY <4>1, <4>3, <4>4
    <3>7. \A i, j \in 1 .. n - 1 : i < j => LastUse(uses, rest[i]) < LastUse(uses, rest[j])
      <4> SUFFICES ASSUME NEW i \in 1 .. n - 1, NEW j \in 1 .. n - 1, i < j
                   PROVE  LastUse(uses, rest[i]) < LastUse(uses, rest[j])
        OBVIOUS
      <4>1. i + 1 < j + 1 /\ i + 1 \in DOMAIN order /\ j + 1 \in DOMAIN order
        BY <1>2
      <4>2. LastUse(uses, order[i + 1]) < LastUse(uses, order[j + 1])
        BY <1>2, <4>1
      <4> QED
        BY <3>5, <4>2
    <3>8. ASSUME NEW t \in DOMAIN held
          PROVE  LastUse(uses, order[1]) < LastUse(uses, t)
      <4>1. PICK i \in 1 .. n - 1 : rest[i] = t
        BY <3>4, <3>6 DEF ToSet
      <4>2. 1 \in DOMAIN order /\ i + 1 \in DOMAIN order /\ 1 < i + 1
        BY <1>2, <3>1
      <4>3. LastUse(uses, order[1]) < LastUse(uses, order[i + 1])
        BY <1>2, <4>2
      <4> QED
        BY <3>5, <4>1, <4>3
    <3>9. \A r \in ToSet(uses) \ DOMAIN held : r = order[1] \/ r \notin DOMAIN cache.map
      BY <3>2, <3>3
    <3> QED
      BY <1>2, <1>4, <3>1, <3>2, <3>4, <3>5, <3>6, <3>7, <3>8, <3>9
  <2> QED
    BY <2>1, <2>2
<1> HIDE DEF full, held, rest, m
<1>7. q \notin DOMAIN held /\ new = Append(rest, q) /\ DOMAIN map = DOMAIN held \cup {q}
  BY <1>6
<1> HIDE DEF new, map
<1>8. /\ new \in Seq(ToSet(longer)) /\ Len(new) = m + 1 /\ DOMAIN new = 1 .. m + 1 /\ new[m + 1] = q
      /\ \A i \in 1 .. m : new[i] = rest[i]
  <2>1. rest \in Seq(ToSet(longer)) /\ q \in ToSet(longer) /\ Len(rest) = m
    BY <1>3, <1>6 DEF m
  <2> QED
    BY <1>6, <1>7, <2>1
<1>9. ToSet(new) = DOMAIN map
  <2>1. ToSet(new) = {new[i] : i \in 1 .. m + 1} /\ DOMAIN held = {rest[i] : i \in 1 .. m}
    BY <1>6, <1>8 DEF ToSet
  <2>2. \A i \in 1 .. m + 1 : i = m + 1 \/ i \in 1 .. m
    BY <1>6
  <2>3. m + 1 \in 1 .. m + 1 /\ \A i \in 1 .. m : i \in 1 .. m + 1
    BY <1>6
  <2> QED
    BY <1>7, <1>8, <2>1, <2>2, <2>3
<1>10. \A i \in 1 .. m : rest[i] \in ToSet(uses) \ {q}
  BY <1>2, <1>6
<1>11. ASSUME NEW i \in 1 .. m + 1, NEW j \in 1 .. m + 1, i < j
       PROVE  LastUse(longer, new[i]) < LastUse(longer, new[j])
  <2>1. i \in 1 .. m
    BY <1>6, <1>11
  <2>2. CASE j = m + 1
    BY <1>3, <1>8, <1>10, <2>1, <2>2
  <2>3. CASE j # m + 1
    <3>1. j \in 1 .. m
      BY <1>6, <2>3
    <3> QED
      BY <1>3, <1>6, <1>8, <1>10, <1>11, <2>1, <3>1
  <2> QED
    BY <2>2, <2>3
<1>12. ASSUME NEW r \in ToSet(longer) \ DOMAIN map
       PROVE  Len(new) = QueryCap /\ \A t \in DOMAIN map : LastUse(longer, r) < LastUse(longer, t)
  <2>1. r \in ToSet(uses) \ DOMAIN held /\ r # q
    BY <1>3, <1>7, <1>12
  <2>2. \A t \in DOMAIN held : t \in ToSet(uses) \ {q}
    BY <1>2, <1>6
  <2> QED
    BY <1>3, <1>6, <1>7, <1>8, <2>1, <2>2
<1> QED
  BY <1>1, <1>2, <1>6, <1>8, <1>9, <1>11, <1>12 DEF LatestFirst, longer

(* Memory in that order, and as full as it can be, is the latest queries.  *)
LEMMA LatestFirstIsLatest ==
  ASSUME NEW uses \in Seq(Texts), NEW cache, LatestFirst(cache, uses)
  PROVE  /\ DOMAIN cache.map = LatestOf(uses) /\ ToSet(cache.order) = LatestOf(uses)
         /\ \A i, j \in DOMAIN cache.order : i < j => cache.order[j] \in UsedAfter(uses, cache.order[i])
<1> DEFINE order == cache.order
           D     == DOMAIN cache.map
           n     == Len(order)
<1>1. /\ DOMAIN order = 1 .. n /\ n \in Nat /\ n <= QueryCap /\ QueryCap \in Nat
      /\ D = ToSet(order) /\ D \subseteq ToSet(uses) /\ IsFiniteSet(D) /\ Cardinality(D) = n
      /\ \A i, j \in DOMAIN order : i < j => LastUse(uses, order[i]) < LastUse(uses, order[j])
      /\ \A i \in DOMAIN order : order[i] \in D
      /\ \A q \in ToSet(uses) \ D : n = QueryCap /\ \A r \in D : LastUse(uses, q) < LastUse(uses, r)
  BY OrderIs, EncoderAssumption DEF LatestFirst
<1>2. \A q \in ToSet(uses) : LastUse(uses, q) \in Nat
  BY LastUseIs
<1>3. IsFiniteSet(ToSet(uses))
  <2> DEFINE Last1 == [q \in ToSet(uses) |-> LastUse(uses, q)]
  <2>1. Last1 \in [ToSet(uses) -> 1 .. Len(uses)] /\ \A q, r \in ToSet(uses) : Last1[q] = Last1[r] => q = r
    BY LastUseIs
  <2> HIDE DEF Last1
  <2>2. Last1 \in Injection(ToSet(uses), 1 .. Len(uses))
    BY <2>1 DEF Injection, IsInjective
  <2>3. Len(uses) \in Int /\ 1 \in Int
    OBVIOUS
  <2>4. IsFiniteSet(1 .. Len(uses))
    BY <2>3, FS_Interval
  <2> QED
    BY <2>2, <2>4, FS_Injection
<1> HIDE DEF order, n, D
<1>4. ASSUME NEW q \in D
      PROVE  q \in LatestOf(uses)
  <2>1. UsedAfter(uses, q) \subseteq D \ {q}
    <3> SUFFICES ASSUME NEW r \in UsedAfter(uses, q) PROVE r \in D \ {q}
      OBVIOUS
    <3>1. r \in ToSet(uses) /\ LastUse(uses, q) < LastUse(uses, r) /\ q \in ToSet(uses)
      BY <1>1 DEF UsedAfter
    <3> QED
      BY <1>1, <1>2, <3>1
  <2>2. IsFiniteSet(D \ {q}) /\ Cardinality(D \ {q}) = n - 1
    BY <1>1, FS_RemoveElement
  <2>3. Cardinality(UsedAfter(uses, q)) <= n - 1 /\ IsFiniteSet(UsedAfter(uses, q))
    BY <2>1, <2>2, FS_Subset
  <2>4. Cardinality(UsedAfter(uses, q)) \in Nat
    BY <2>3, FS_CardinalityType
  <2>5. Cardinality(UsedAfter(uses, q)) < QueryCap
    BY <1>1, <2>3, <2>4
  <2> QED
    BY <1>1, <2>5 DEF LatestOf
<1>5. ASSUME NEW q \in ToSet(uses) \ D
      PROVE  q \notin LatestOf(uses)
  <2>1. D \subseteq UsedAfter(uses, q) /\ UsedAfter(uses, q) \subseteq ToSet(uses)
    BY <1>1, <1>2 DEF UsedAfter
  <2>2. IsFiniteSet(UsedAfter(uses, q))
    BY <1>3, <2>1, FS_Subset
  <2>3. Cardinality(D) <= Cardinality(UsedAfter(uses, q)) /\ Cardinality(UsedAfter(uses, q)) \in Nat
    BY <2>1, <2>2, FS_Subset, FS_CardinalityType
  <2>4. ~(Cardinality(UsedAfter(uses, q)) < QueryCap)
    BY <1>1, <2>3
  <2> QED
    BY <2>4 DEF LatestOf
<1>6. LatestOf(uses) \subseteq ToSet(uses)
  BY DEF LatestOf
<1>7. D = LatestOf(uses)
  BY <1>1, <1>4, <1>5, <1>6
<1>8. ASSUME NEW i \in DOMAIN order, NEW j \in DOMAIN order, i < j
      PROVE  order[j] \in UsedAfter(uses, order[i])
  <2>1. order[i] \in ToSet(uses) /\ order[j] \in ToSet(uses)
    BY <1>1
  <2>2. LastUse(uses, order[i]) < LastUse(uses, order[j])
    BY <1>1, <1>8
  <2> QED
    BY <1>2, <2>1, <2>2 DEF UsedAfter
<1> QED
  BY <1>1, <1>7, <1>8 DEF order, D

LatestInv ==
  \A p \in Processes :
    /\ LatestFirst(memory[p], asked[p])
    /\ at[p] \in {"disk", "model"} => wanted[p] \notin DOMAIN memory[p].map

LEMMA LoadedIsLatest ==
  ASSUME NEW p \in Processes PROVE LatestFirst(Loaded(p), <<Warmup>>)
<1> DEFINE none == [map |-> <<>>, order |-> <<>>]
<1>1. LatestFirst(none, <<>>)
  BY EncoderAssumption DEF LatestFirst, ToSet
<1>2. <<>> \in Seq(Texts) /\ Append(<<>>, Warmup) = <<Warmup>> /\ Warmup \in Texts \ DOMAIN none.map
  BY DEF Texts
<1> HIDE DEF none
<1>3. LatestFirst(Put(none, Warmup, Vector(Recipe[p], Warmup)), <<Warmup>>)
  BY <1>1, <1>2, PutIsLatest
<1> QED
  BY <1>3 DEF Loaded, none

(* A step of one process: the others keep what they have.                  *)
LEMMA OneLatest ==
  ASSUME LatestInv, NEW p \in Processes,
         \A r \in Processes \ {p} : /\ memory'[r] = memory[r] /\ asked'[r] = asked[r]
                                   /\ at'[r] = at[r] /\ wanted'[r] = wanted[r],
         LatestFirst(memory'[p], asked'[p]),
         at'[p] \in {"disk", "model"} => wanted'[p] \notin DOMAIN memory'[p].map
  PROVE  LatestInv'
<1> SUFFICES ASSUME NEW r \in Processes
             PROVE  /\ LatestFirst(memory'[r], asked'[r])
                    /\ at'[r] \in {"disk", "model"} => wanted'[r] \notin DOMAIN memory'[r].map
  BY DEF LatestInv, LatestFirst, LastUse
<1>1. CASE r = p
  BY <1>1
<1>2. CASE r # p
  BY <1>2 DEF LatestInv
<1> QED
  BY <1>1, <1>2

(* An answer after which the asked query is the latest in memory.          *)
LEMMA AnswerIsLatest ==
  ASSUME EncoderInv, LatestInv, NEW p \in Processes, NEW q, NEW v, Answered(p, q, v),
         NEW cache, memory' = [memory EXCEPT ![p] = cache], LatestFirst(cache, Append(asked[p], q)),
         \A r \in Processes \ {p} : wanted'[r] = wanted[r]
  PROVE  LatestInv'
<1>1. /\ memory'[p] = cache /\ asked'[p] = Append(asked[p], q) /\ at'[p] = "ready"
      /\ \A r \in Processes \ {p} : memory'[r] = memory[r] /\ asked'[r] = asked[r] /\ at'[r] = at[r]
  BY DEF EncoderInv, EncoderTypes, Answered
<1> QED
  BY <1>1, OneLatest

LEMMA AskIsLatest ==
  ASSUME EncoderInv, LatestInv, NEW p \in Processes, NEW q \in Texts, AskVector(p, q)
  PROVE  LatestInv'
<1>1. EncoderTypes /\ asked[p] \in Seq(Texts) /\ LatestFirst(memory[p], asked[p])
  BY DEF EncoderInv, EncoderTypes, LatestInv
<1>2. wanted'[p] = q /\ \A r \in Processes \ {p} : wanted'[r] = wanted[r]
  BY <1>1 DEF AskVector, EncoderTypes
<1>3. CASE q \in DOMAIN memory[p].map
  <2>1. memory[p] = [map |-> memory[p].map, order |-> memory[p].order]
    BY DEF EncoderInv, MemoryInv, OwnCache
  <2>2. LatestFirst(Used(memory[p], q), Append(asked[p], q))
    BY <1>1, <1>3, <2>1, UsedIsLatest
  <2>3. Answered(p, q, memory[p].map[q]) /\ memory' = [memory EXCEPT ![p] = Used(memory[p], q)]
    BY <1>3 DEF AskVector
  <2> QED
    BY <1>2, <2>2, <2>3, AnswerIsLatest
<1>4. CASE q \notin DOMAIN memory[p].map
  <2>1. at' = [at EXCEPT ![p] = "disk"] /\ UNCHANGED <<memory, asked>>
    BY <1>4 DEF AskVector
  <2>2. \A r \in Processes \ {p} : at'[r] = at[r]
    BY <1>1, <2>1 DEF EncoderTypes
  <2> QED
    BY <1>1, <1>2, <1>4, <2>1, <2>2, OneLatest
<1> QED
  BY <1>3, <1>4

(* What is looked for on disk, or encoded, still is not in memory.         *)
LEMMA PutStepIsLatest ==
  ASSUME EncoderInv, LatestInv, NEW p \in Processes, ReadDisk(p) \/ Predict(p)
  PROVE  LatestInv'
<1>1. /\ EncoderTypes /\ asked[p] \in Seq(Texts) /\ LatestFirst(memory[p], asked[p])
      /\ wanted[p] \in Texts \ DOMAIN memory[p].map /\ UNCHANGED wanted
  BY DEF EncoderInv, EncoderTypes, LatestInv, ReadDisk, Predict
<1>2. ASSUME NEW v, Answered(p, wanted[p], v), memory' = [memory EXCEPT ![p] = Put(memory[p], wanted[p], v)]
      PROVE  LatestInv'
  <2>1. LatestFirst(Put(memory[p], wanted[p], v), Append(asked[p], wanted[p]))
    BY <1>1, PutIsLatest
  <2> QED
    BY <1>1, <1>2, <2>1, AnswerIsLatest
<1>3. CASE Predict(p)
  BY <1>2, <1>3 DEF Predict
<1>4. CASE ReadDisk(p)
  <2> DEFINE key == <<EncoderOf(p), wanted[p]>>
  <2>1. CASE key \in DOMAIN disk /\ disk[key].whole
    BY <1>2, <1>4, <2>1 DEF ReadDisk
  <2>2. CASE ~(key \in DOMAIN disk /\ disk[key].whole)
    <3>1. at' = [at EXCEPT ![p] = "model"] /\ UNCHANGED <<memory, asked, wanted>>
      BY <1>4, <2>2 DEF ReadDisk
    <3>2. \A r \in Processes \ {p} : at'[r] = at[r]
      BY <1>1, <3>1 DEF EncoderTypes
    <3> QED
      BY <1>1, <3>1, <3>2, OneLatest
  <2> QED
    BY <2>1, <2>2
<1> QED
  BY <1>3, <1>4

LEMMA RestartIsLatest ==
  ASSUME EncoderInv, LatestInv, NEW p \in Processes, Restart(p)
  PROVE  LatestInv'
<1>1. /\ memory'[p] = Loaded(p) /\ asked'[p] = <<Warmup>> /\ at'[p] = "ready"
      /\ \A r \in Processes \ {p} : /\ memory'[r] = memory[r] /\ asked'[r] = asked[r]
                                    /\ at'[r] = at[r] /\ wanted'[r] = wanted[r]
  BY DEF EncoderInv, EncoderTypes, Restart
<1> QED
  BY <1>1, LoadedIsLatest, OneLatest

(* Steps that answer nobody.                                               *)
LEMMA RestIsLatest ==
  ASSUME EncoderInv, LatestInv, UNCHANGED <<memory, asked, wanted>>,
         \A p \in Processes : at'[p] \in {"disk", "model"} => at'[p] = at[p]
  PROVE  LatestInv'
BY DEF LatestInv, LatestFirst, LastUse

(* In every behaviour: memory lists queries in the order of their last     *)
(* uses, evicts none before one used longer ago, and what is looked for on *)
(* disk or encoded is not in memory yet.                                   *)
THEOREM LatestInvariance == EncoderSpec => []LatestInv
<1>1. EncoderInit => LatestInv
  BY LoadedIsLatest DEF EncoderInit, LatestInv
<1>2. ASSUME EncoderInv, LatestInv, [EncoderNext]_encoderVars PROVE LatestInv'
  <2>1. CASE UNCHANGED encoderVars
    BY <1>2, <2>1, RestIsLatest DEF encoderVars
  <2>2. CASE \E key \in DOMAIN disk : Damage(key)
    BY <1>2, <2>2, RestIsLatest DEF Damage
  <2>3. CASE \E p \in Processes : \E q \in Questions \cup {Warmup} : AskVector(p, q)
    BY <1>2, <2>3, AskIsLatest DEF Texts
  <2>4. CASE \E p \in Processes : PredictFails(p) \/ Save(p) \/ SaveFails(p) \/ Flush(p) \/ Flushed(p)
    <3>1. PICK p \in Processes : PredictFails(p) \/ Save(p) \/ SaveFails(p) \/ Flush(p) \/ Flushed(p)
      BY <2>4
    <3>2. /\ UNCHANGED <<memory, asked, wanted>>
          /\ UNCHANGED at \/ \E next \in {"ready", "flushing", "flushed"} : at' = [at EXCEPT ![p] = next]
      BY <3>1 DEF PredictFails, Save, SaveFails, Flush, Flushed
    <3>3. at \in [Processes -> EncoderSteps]
      BY <1>2 DEF EncoderInv, EncoderTypes
    <3> QED
      BY <1>2, <3>2, <3>3, RestIsLatest
  <2>5. CASE \E p \in Processes : ReadDisk(p) \/ Predict(p) \/ Restart(p)
    BY <1>2, <2>5, PutStepIsLatest, RestartIsLatest
  <2> QED
    BY <1>2, <2>1, <2>2, <2>3, <2>4, <2>5 DEF EncoderNext
<1> QED
  BY <1>1, <1>2, EncoderInvariance, PTL DEF EncoderSpec

(* QueryCache: in memory are exactly the queries used last, as many as     *)
(* there is room for, in the order of their last uses.                     *)
THEOREM LatestStay == EncoderSpec => []KeepsTheLatest
<1>1. EncoderInv /\ LatestInv => KeepsTheLatest
  <2> SUFFICES ASSUME EncoderInv, LatestInv, NEW p \in Processes
               PROVE  /\ DOMAIN memory[p].map = LatestOf(asked[p]) /\ ToSet(memory[p].order) = LatestOf(asked[p])
                      /\ \A i, j \in DOMAIN memory[p].order :
                           i < j => memory[p].order[j] \in UsedAfter(asked[p], memory[p].order[i])
    BY DEF KeepsTheLatest
  <2>1. asked[p] \in Seq(Texts) /\ LatestFirst(memory[p], asked[p])
    BY DEF EncoderInv, EncoderTypes, LatestInv
  <2> QED
    BY <2>1, LatestFirstIsLatest
<1> QED
  BY <1>1, EncoderInvariance, LatestInvariance, PTL

-----------------------------------------------------------------------------
(* Words that are learned. *)

(* The file is a table that opens, and so is the one that is to replace it.*)
TablesInv ==
  /\ base \in Bases
  /\ kept # NoWords => IsTable(kept) /\ Usable(kept.rows)
  /\ draft # NoWords => step = "learned" /\ IsTable(draft) /\ Usable(draft.rows)

(* What memory knows is the base vocabulary and what was learned, which is *)
(* what the file has.                                                      *)
RowsKept == IF kept = NoWords THEN Empty ELSE kept.rows
ResidentInv ==
  /\ step \in {"off", "idle", "learned", "persisted"}
  /\ step \in {"idle", "learned"} => learned = RowsKept
  /\ step # "off" => known = With(base.rows, learned)

(* A lookup under way: the missing words are what a table in the making    *)
(* adds to those learned before.                                           *)
Additions == [w \in lookedUp.missing |-> Coarse127(RowOf[w])]
LookupInv ==
  /\ lookedUp = [words |-> lookedUp.words, missing |-> lookedUp.missing] /\ lookedUp.words \subseteq Words
  /\ step \in {"learned", "persisted"} => lookedUp.missing = lookedUp.words \ DOMAIN known /\ lookedUp.missing # {}
  /\ draft # NoWords => draft.rows = With(learned, Additions)
  /\ step = "persisted" => kept # NoWords /\ kept.rows = With(learned, Additions)

WordsInv == TablesInv /\ ResidentInv /\ LookupInv /\ LookedUpIsKnown

LEMMA RowsAreInteger ==
  ASSUME NEW w \in Words
  PROVE  Coarse127(RowOf[w]) \in Int /\ (RowOf[w] > 0 => Coarse127(RowOf[w]) > 0)
<1>1. RowOf[w] \in Nat /\ Coarseness \in Nat \ {0}
  BY GrowingAssumption
<1>2. \A n \in Int : n \div Coarseness \in Int /\ Coarseness \div 2 \in Int
  BY <1>1
<1>3. \A n \in Int : n * Coarseness \in Int
  BY <1>1
<1> QED  BY <1>1, <1>2, <1>3, GrowingAssumption DEF Coarse127

(* What is learned after what was learned before.                          *)
LEMMA WithAssociates ==
  ASSUME NEW f, NEW g, NEW h
  PROVE  With(f, With(g, h)) = With(With(f, g), h)
<1>1. DOMAIN With(f, With(g, h)) = DOMAIN With(With(f, g), h)
  BY DEF With
<1>2. \A w \in DOMAIN With(f, With(g, h)) : With(f, With(g, h))[w] = With(With(f, g), h)[w]
  BY DEF With
<1> QED  BY <1>1, <1>2 DEF With

LEMMA WordsInit == GrowingInit => WordsInv
  BY GrowingAssumption DEF GrowingInit, GrowingRests, WordsInv, TablesInv, ResidentInv, LookupInv, LookedUpIsKnown, Silent

(* Learned and new rows make up a table that can be opened.                *)
LEMMA WrittenOpens ==
  ASSUME WordsInv, Write
  PROVE  IsTable(draft') /\ Usable(draft'.rows) /\ draft' # NoWords
<1> DEFINE rows == With(learned, Additions)
<1>1. draft' = [prefix |-> base.prefix, rows |-> rows]
  BY DEF Write, Additions
<1>2. PICK B \in SUBSET AllWords : base \in [prefix : BOOLEAN, rows : [B -> Int]]
  BY GrowingAssumption DEF WordsInv, TablesInv, IsTable
<1>3. PICK W \in SUBSET AllWords : learned \in [W -> Int] /\ \A w \in W : learned[w] > 0
  <2>1. CASE kept = NoWords
    <3>1. learned = Empty
      BY <2>1 DEF Write, WordsInv, ResidentInv, RowsKept
    <3>2. Empty \in [{} -> Int] /\ DOMAIN Empty = {}
      BY DEF Empty
    <3> QED  BY <3>1, <3>2
  <2>2. CASE kept # NoWords
    <3>1. learned = kept.rows /\ IsTable(kept) /\ Usable(learned)
      BY <2>2 DEF Write, WordsInv, ResidentInv, RowsKept, TablesInv
    <3>2. PICK W \in SUBSET AllWords : learned \in [W -> Int]
      BY <3>1 DEF IsTable
    <3> QED  BY <3>1, <3>2 DEF Usable
  <2> QED  BY <2>1, <2>2
<1>4. lookedUp.missing \subseteq Words /\ lookedUp.missing # {} /\ \A w \in lookedUp.missing : RowOf[w] > 0
  BY DEF Write, WordsInv, LookupInv
<1>5. Additions \in [lookedUp.missing -> Int] /\ \A w \in lookedUp.missing : Additions[w] > 0
  BY <1>4, RowsAreInteger DEF Additions
<1>6. rows \in [W \cup lookedUp.missing -> Int] /\ DOMAIN rows # {} /\ \A w \in DOMAIN rows : rows[w] > 0
  BY <1>3, <1>4, <1>5 DEF With
<1>7. W \cup lookedUp.missing \in SUBSET AllWords
  BY <1>3, <1>4 DEF AllWords
<1> HIDE DEF rows
<1>8. IsTable(draft')
  BY <1>1, <1>2, <1>6, <1>7 DEF IsTable
<1> QED  BY <1>1, <1>6, <1>8, GrowingAssumption DEF Usable

LEMMA StartKeeps == ASSUME WordsInv, NEW b \in Bases, Start(b) PROVE WordsInv'
<1>1. CASE kept # NoWords /\ (kept.prefix # b.prefix \/ ~Usable(kept.rows))
  BY <1>1 DEF Start, WordsInv, TablesInv, ResidentInv, RowsKept, LookupInv, LookedUpIsKnown
<1>2. CASE ~(kept # NoWords /\ (kept.prefix # b.prefix \/ ~Usable(kept.rows)))
  BY <1>2 DEF Start, WordsInv, TablesInv, ResidentInv, RowsKept, LookupInv, LookedUpIsKnown, Silent
<1> QED  BY <1>1, <1>2

LEMMA LookUpKeeps == ASSUME WordsInv, NEW words \in SUBSET Words, LookUp(words) PROVE WordsInv'
<1>1. /\ step = "idle" /\ lookedUp' = [words |-> words, missing |-> words \ DOMAIN known]
      /\ UNCHANGED <<kept, draft, base, known, learned>> /\ step' \in {"idle", "learned"}
  BY DEF LookUp
<1>2. TablesInv' /\ ResidentInv'
  BY <1>1 DEF WordsInv, TablesInv, ResidentInv, RowsKept
<1>3. step' = "learned" => words \ DOMAIN known # {}
  BY <1>1 DEF LookUp
<1>4. LookupInv'
  BY <1>1, <1>3 DEF WordsInv, TablesInv, LookupInv
<1>5. LookedUpIsKnown'
  <2> SUFFICES ASSUME step' = "idle", told'.outcome = "answered"
               PROVE  LookedUpIsKnown'
    BY DEF LookedUpIsKnown
  <2>1. words # {} /\ words \subseteq DOMAIN known /\ told' = Approximate(words, 0)
    BY <1>1 DEF LookUp, Unanswered
  <2>2. words \cap DOMAIN known = words
    BY <2>1
  <2>3. told' = [outcome |-> "answered", row |-> SumFunctionOnSet(known, words), known |-> Cardinality(words),
                 total |-> Cardinality(words), missing |-> 0]
    BY <2>1, <2>2 DEF Approximate, SumOf
  <2> QED  BY <1>1, <2>1, <2>2, <2>3 DEF LookedUpIsKnown, Approximate, SumOf
<1> QED  BY <1>2, <1>4, <1>5 DEF WordsInv

LEMMA WriteKeeps == WordsInv /\ Write => WordsInv'
<1> SUFFICES ASSUME WordsInv, Write PROVE WordsInv'
  OBVIOUS
<1>1. IsTable(draft') /\ Usable(draft'.rows) /\ draft' # NoWords
  BY WrittenOpens
<1>2. draft'.rows = With(learned, Additions) /\ Additions' = Additions
  BY DEF Write, Additions
<1> QED
  BY <1>1, <1>2 DEF Write, WordsInv, TablesInv, ResidentInv, RowsKept, LookupInv, LookedUpIsKnown

LEMMA PersistKeeps == WordsInv /\ Persist => WordsInv'
<1> SUFFICES ASSUME WordsInv, Persist PROVE WordsInv'
  OBVIOUS
<1>1. Additions' = Additions
  BY DEF Persist, Additions
<1> QED
  BY <1>1 DEF Persist, WordsInv, TablesInv, ResidentInv, LookupInv, LookedUpIsKnown

LEMMA LearnKeeps == WordsInv /\ Learn => WordsInv'
<1> SUFFICES ASSUME WordsInv, Learn PROVE WordsInv'
  OBVIOUS
<1>1. /\ step = "persisted" /\ step' = "idle" /\ learned' = kept.rows
      /\ known' = With(known, Additions)
      /\ UNCHANGED <<kept, draft, base, lookedUp, misses>>
  BY DEF Learn, Additions, Resident
<1>2. kept # NoWords /\ kept.rows = With(learned, Additions) /\ known = With(base.rows, learned) /\ draft = NoWords
  BY <1>1 DEF WordsInv, LookupInv, ResidentInv, TablesInv
<1>3. known' = With(base.rows, learned')
  BY <1>1, <1>2, WithAssociates
<1>4. TablesInv' /\ ResidentInv' /\ LookupInv'
  BY <1>1, <1>2, <1>3 DEF WordsInv, TablesInv, ResidentInv, RowsKept, LookupInv
<1>5. lookedUp.words \cap DOMAIN known' = lookedUp.words /\ lookedUp.words # {}
  BY <1>1 DEF WordsInv, LookupInv, With, Additions
<1>6. told' = [outcome |-> "answered", row |-> SumFunctionOnSet(known', lookedUp.words), known |-> Cardinality(lookedUp.words),
               total |-> Cardinality(lookedUp.words), missing |-> Cardinality(lookedUp.missing)]
  BY DEF Learn
<1>7. LookedUpIsKnown'
  BY <1>1, <1>5, <1>6 DEF LookedUpIsKnown, Approximate, SumOf
<1> QED  BY <1>4, <1>7 DEF WordsInv

LEMMA WordsStep == WordsInv /\ [GrowingNext]_growingVars => WordsInv'
<1> SUFFICES ASSUME WordsInv, [GrowingNext]_growingVars PROVE WordsInv'
  OBVIOUS
<1>1. CASE ModelRefuses
  BY <1>1 DEF ModelRefuses, WordsInv, TablesInv, ResidentInv, RowsKept, LookupInv, LookedUpIsKnown, Unanswered
<1>2. CASE WriteFails
  BY <1>2 DEF WriteFails, WordsInv, TablesInv, ResidentInv, RowsKept, LookupInv, LookedUpIsKnown, Unanswered
<1>3. CASE Stop
  BY <1>3 DEF Stop, WordsInv, TablesInv, ResidentInv, LookupInv, LookedUpIsKnown
<1>4. CASE UNCHANGED growingVars
  BY <1>4 DEF growingVars, WordsInv, TablesInv, ResidentInv, RowsKept, LookupInv, Additions, LookedUpIsKnown, Approximate,
     SumOf
<1> QED  BY <1>1, <1>2, <1>3, <1>4, StartKeeps, LookUpKeeps, WriteKeeps, PersistKeeps, LearnKeeps DEF GrowingNext

(* The inductive invariant of the words that are learned.                  *)
THEOREM WordsInvariance == GrowingSpec => []WordsInv
  BY WordsInit, WordsStep, PTL DEF GrowingSpec

(* No learned word is lost and the file can be opened, whatever fails.     *)
THEOREM LearnedWordsStay == GrowingSpec => []LearnedStays
<1>1. WordsInv => LearnedStays
  <2>1. DOMAIN Empty = {}
    BY DEF Empty
  <2> QED  BY <2>1 DEF WordsInv, TablesInv, ResidentInv, RowsKept, LearnedStays
<1> QED  BY <1>1, WordsInvariance, PTL

(* Between lookups a restart would find what memory has.                   *)
THEOREM RestartsKnowTheSame == GrowingSpec => []RestartKnowsTheSame
<1>1. WordsInv => RestartKnowsTheSame
  BY DEF WordsInv, ResidentInv, RowsKept, RestartKnowsTheSame
<1> QED  BY <1>1, WordsInvariance, PTL

(* An answer knows every word that was asked, and is given again.          *)
THEOREM LookupsAreKnown == GrowingSpec => []LookedUpIsKnown
<1>1. WordsInv => LookedUpIsKnown
  BY DEF WordsInv
<1> QED  BY <1>1, WordsInvariance, PTL

-----------------------------------------------------------------------------
(* The top of some hits.                                                   *)
Hits == Nat \X Nat \X Int

(* Hits are in a strict total order.                                       *)
LEMMA BeforeOrders ==
  /\ \A h \in Hits : ~Before(h, h)
  /\ \A h, i, j \in Hits : Before(h, i) /\ Before(i, j) => Before(h, j)
  /\ \A h, i \in Hits : h = i \/ Before(h, i) \/ Before(i, h)
<1>1. \A h \in Hits : h = <<h[1], h[2], h[3]>> /\ h[1] \in Nat /\ h[2] \in Nat /\ h[3] \in Int
  BY DEF Hits
<1>2. \A h \in Hits : ~Before(h, h)
  BY <1>1 DEF Before
<1>3. \A h, i, j \in Hits : Before(h, i) /\ Before(i, j) => Before(h, j)
  BY <1>1 DEF Before
<1>4. ASSUME NEW h \in Hits, NEW i \in Hits, ~Before(h, i), ~Before(i, h)
      PROVE  h = i
  <2>1. h[1] = i[1] /\ h[2] = i[2] /\ h[3] = i[3]
    BY <1>1, <1>4 DEF Before
  <2> QED
    BY <1>1, <2>1
<1> QED
  BY <1>2, <1>3, <1>4

(* Every place up to the number of hits is that of one hit.                *)
LEMMA PlacesAre ==
  ASSUME NEW S \in SUBSET Hits, IsFiniteSet(S)
  PROVE  /\ Cardinality(S) \in Nat
         /\ \A h \in Hits : PlaceIn(S, h) \in Nat
         /\ \A h \in S : PlaceIn(S, h) < Cardinality(S)
         /\ \A h, i \in S : PlaceIn(S, h) = PlaceIn(S, i) => h = i
         /\ \A r \in 0 .. Cardinality(S) - 1 : \E h \in S : PlaceIn(S, h) = r
<1> DEFINE P(h) == {i \in S : Before(i, h)}
<1>1. \A h : IsFiniteSet(P(h)) /\ PlaceIn(S, h) = Cardinality(P(h)) /\ PlaceIn(S, h) \in Nat
  <2> TAKE h
  <2>1. P(h) \subseteq S
    OBVIOUS
  <2>2. IsFiniteSet(P(h))
    <3> HIDE DEF P
    <3> QED
      BY <2>1, FS_Subset
  <2>3. PlaceIn(S, h) = Cardinality(P(h))
    BY DEF PlaceIn
  <2> QED
    BY <2>2, <2>3, FS_CardinalityType
<1>2. \A h, i \in S : Before(h, i) => PlaceIn(S, h) < PlaceIn(S, i)
  <2> SUFFICES ASSUME NEW h \in S, NEW i \in S, Before(h, i) PROVE PlaceIn(S, h) < PlaceIn(S, i)
    OBVIOUS
  <2>1. P(h) \subseteq P(i) /\ h \in P(i) /\ h \notin P(h)
    BY BeforeOrders
  <2> HIDE DEF P
  <2>2. P(h) \subseteq P(i) \ {h}
    BY <2>1
  <2>3. IsFiniteSet(P(i) \ {h}) /\ Cardinality(P(i) \ {h}) = Cardinality(P(i)) - 1
    BY <1>1, <2>1, FS_RemoveElement
  <2>4. Cardinality(P(h)) <= Cardinality(P(i) \ {h})
    BY <2>2, <2>3, FS_Subset
  <2> QED
    BY <1>1, <2>3, <2>4
<1>3. \A h \in S : PlaceIn(S, h) < Cardinality(S)
  <2> TAKE h \in S
  <2>1. P(h) \subseteq S \ {h}
    BY BeforeOrders
  <2> HIDE DEF P
  <2>2. IsFiniteSet(S \ {h}) /\ Cardinality(S \ {h}) = Cardinality(S) - 1
    BY FS_RemoveElement
  <2>3. Cardinality(P(h)) <= Cardinality(S \ {h})
    BY <2>1, <2>2, FS_Subset
  <2>4. Cardinality(S) \in Nat
    BY FS_CardinalityType
  <2> QED
    BY <1>1, <2>2, <2>3, <2>4
<1>4. \A h, i \in S : PlaceIn(S, h) = PlaceIn(S, i) => h = i
  <2> SUFFICES ASSUME NEW h \in S, NEW i \in S, PlaceIn(S, h) = PlaceIn(S, i), h # i PROVE FALSE
    OBVIOUS
  <2>1. Before(h, i) \/ Before(i, h)
    BY BeforeOrders
  <2>2. PlaceIn(S, h) \in Nat /\ PlaceIn(S, i) \in Nat
    BY <1>1
  <2>3. PlaceIn(S, h) < PlaceIn(S, i) \/ PlaceIn(S, i) < PlaceIn(S, h)
    BY <1>2, <2>1
  <2> HIDE DEF P
  <2> QED
    BY <2>2, <2>3
<1>5. Cardinality(S) \in Nat
  BY FS_CardinalityType
<1>6. ASSUME NEW r \in 0 .. Cardinality(S) - 1
      PROVE  \E h \in S : PlaceIn(S, h) = r
  <2> DEFINE f == [h \in S |-> PlaceIn(S, h)]
             c == Cardinality(S) - 1
             N == 0 .. c
  <2>1. \A h \in S : PlaceIn(S, h) \in N
    <3> TAKE h \in S
    <3>1. PlaceIn(S, h) \in Nat /\ PlaceIn(S, h) < Cardinality(S)
      BY <1>1, <1>3
    <3> HIDE DEF P
    <3> QED
      BY <1>5, <3>1
  <2>2. IsFiniteSet(N) /\ Cardinality(N) = Cardinality(S)
    <3>1. c \in Int /\ 0 \in Int /\ ~(0 > c /\ Cardinality(S) # 0) /\ c - 0 + 1 = Cardinality(S)
      BY <1>5
    <3> HIDE DEF c
    <3>2. IsFiniteSet(0 .. c) /\ Cardinality(0 .. c) = IF 0 > c THEN 0 ELSE c - 0 + 1
      BY <3>1, FS_Interval
    <3> QED
      BY <3>1, <3>2
  <2>3. f \in Injection(S, N)
    <3>1. f \in [S -> N]
      BY <2>1
    <3>2. \A h, i \in S : f[h] = f[i] => h = i
      BY <1>4
    <3> HIDE DEF f, N
    <3> QED
      BY <3>1, <3>2 DEF Injection, IsInjective
  <2>4. f \in Surjection(S, N)
    <3> HIDE DEF f, N
    <3> QED
      BY <2>2, <2>3, FS_Injection
  <2>5. PICK h \in S : f[h] = r
    <3>1. r \in N
      OBVIOUS
    <3> HIDE DEF f, N
    <3> QED
      BY <2>4, <3>1 DEF Surjection
  <2> QED
    BY <2>5
<1> QED
  BY <1>1, <1>3, <1>4, <1>5, <1>6

(* The top has the hits of the first places, each in its own.              *)
LEMMA TopIs ==
  ASSUME NEW S \in SUBSET Hits, IsFiniteSet(S), NEW n \in Nat
  PROVE  LET T == TopOf(S, n)
             m == IF Cardinality(S) <= n THEN Cardinality(S) ELSE n
         IN  /\ m \in Nat /\ m <= n /\ m <= Cardinality(S)
             /\ T \in Seq(S) /\ Len(T) = m /\ DOMAIN T = 1 .. m
             /\ \A r \in 1 .. m : T[r] \in S /\ PlaceIn(S, T[r]) = r - 1
             /\ T = [r \in 1 .. m |-> CHOOSE h \in S : PlaceIn(S, h) = r - 1]
             /\ \A h : (\E r \in 1 .. m : T[r] = h) <=> h \in S /\ PlaceIn(S, h) < n
             /\ \A h : h \in ToSet(T) <=> h \in S /\ PlaceIn(S, h) < n
<1> DEFINE T == TopOf(S, n)
           m == IF Cardinality(S) <= n THEN Cardinality(S) ELSE n
<1>1. Cardinality(S) \in Nat
  BY FS_CardinalityType
<1>2. m \in Nat /\ m <= n /\ m <= Cardinality(S) /\ (m = n \/ m = Cardinality(S))
  BY <1>1
<1>3. Min({Cardinality(S), n}) = m
  <2>1. \E x \in {Cardinality(S), n} : \A y \in {Cardinality(S), n} : x <= y
    BY <1>1
  <2>2. /\ Min({Cardinality(S), n}) \in {Cardinality(S), n}
        /\ \A y \in {Cardinality(S), n} : Min({Cardinality(S), n}) <= y
    BY <2>1 DEF Min
  <2> QED
    BY <1>1, <2>2
<1>4. T = [r \in 1 .. m |-> CHOOSE h \in S : PlaceIn(S, h) = r - 1]
  BY <1>3 DEF TopOf
<1>5. \A r \in 1 .. m : T[r] \in S /\ PlaceIn(S, T[r]) = r - 1
  <2> SUFFICES ASSUME NEW r \in 1 .. m PROVE T[r] \in S /\ PlaceIn(S, T[r]) = r - 1
    OBVIOUS
  <2>1. r - 1 \in 0 .. Cardinality(S) - 1
    BY <1>1, <1>2
  <2>2. \E h \in S : PlaceIn(S, h) = r - 1
    BY <2>1, PlacesAre
  <2>3. T[r] = CHOOSE h \in S : PlaceIn(S, h) = r - 1
    BY <1>4
  <2> HIDE DEF T
  <2> QED
    BY <2>2, <2>3
<1>6. DOMAIN T = 1 .. m
  BY <1>4
<1>7. T \in [1 .. m -> S]
  BY <1>4, <1>5
<1> HIDE DEF T, m
<1>8. T \in Seq(S) /\ Len(T) = m
  BY <1>2, <1>6, <1>7
<1>9. \A h : (\E r \in 1 .. m : T[r] = h) <=> h \in S /\ PlaceIn(S, h) < n
  <2> TAKE h
  <2>1. ASSUME NEW r \in 1 .. m, T[r] = h PROVE h \in S /\ PlaceIn(S, h) < n
    <3>1. h \in S /\ PlaceIn(S, h) = r - 1
      BY <1>5, <2>1
    <3> QED
      BY <1>2, <3>1
  <2>2. ASSUME h \in S, PlaceIn(S, h) < n PROVE \E r \in 1 .. m : T[r] = h
    <3>1. PlaceIn(S, h) \in Nat /\ PlaceIn(S, h) < Cardinality(S)
      BY <2>2, PlacesAre
    <3>2. PlaceIn(S, h) + 1 \in 1 .. m
      BY <1>1, <1>2, <2>2, <3>1
    <3>3. T[PlaceIn(S, h) + 1] \in S /\ PlaceIn(S, T[PlaceIn(S, h) + 1]) = PlaceIn(S, h)
      BY <1>5, <3>1, <3>2
    <3>4. T[PlaceIn(S, h) + 1] = h
      BY <2>2, <3>3, PlacesAre
    <3> QED
      BY <3>2, <3>4
  <2> QED
    BY <2>1, <2>2
<1>10. \A h : h \in ToSet(T) <=> \E r \in 1 .. m : T[r] = h
  BY <1>6 DEF ToSet
<1> QED
  BY <1>2, <1>4, <1>5, <1>6, <1>8, <1>9, <1>10 DEF T, m

(* Nothing makes an empty list.                                            *)
LEMMA NothingOnTop ==
  ASSUME NEW n \in Nat
  PROVE  TopOf({}, n) = <<>>
<1>1. {} \in SUBSET Hits /\ IsFiniteSet({}) /\ Cardinality({}) = 0
  BY FS_EmptySet
<1>2. TopOf({}, n) \in Seq({}) /\ Len(TopOf({}, n)) = 0
  BY <1>1, TopIs
<1> QED
  BY <1>2

(* What has all the first hits has the same top.                           *)
LEMMA TopsAgree ==
  ASSUME NEW S \in SUBSET Hits, IsFiniteSet(S), NEW A \in SUBSET S, NEW n \in Nat,
         \A h \in S : PlaceIn(S, h) < n => h \in A
  PROVE  TopOf(A, n) = TopOf(S, n)
<1> DEFINE k == IF Cardinality(A) <= n THEN Cardinality(A) ELSE n
           m == IF Cardinality(S) <= n THEN Cardinality(S) ELSE n
           T == TopOf(S, n)
           U == TopOf(A, n)
<1>1. IsFiniteSet(A) /\ A \in SUBSET Hits
  BY FS_Subset
<1>2. /\ Cardinality(A) \in Nat /\ Cardinality(S) \in Nat /\ Cardinality(A) <= Cardinality(S)
  BY <1>1, FS_Subset, FS_CardinalityType
<1>3. ASSUME NEW h \in A
      PROVE  /\ PlaceIn(S, h) < n => PlaceIn(A, h) = PlaceIn(S, h)
             /\ PlaceIn(A, h) < n => PlaceIn(S, h) < n
  <2> DEFINE P == {i \in S : Before(i, h)}
             Q == {i \in A : Before(i, h)}
  <2>1. PlaceIn(S, h) = Cardinality(P) /\ PlaceIn(A, h) = Cardinality(Q) /\ PlaceIn(S, h) \in Nat
    BY PlacesAre DEF PlaceIn
  <2>2. ASSUME PlaceIn(S, h) < n PROVE P = Q
    <3> SUFFICES ASSUME NEW i \in S, Before(i, h) PROVE i \in A
      OBVIOUS
    <3>1. {j \in S : Before(j, i)} \subseteq P
      BY BeforeOrders
    <3>2. IsFiniteSet(P)
      BY FS_Subset
    <3>3. PlaceIn(S, i) <= Cardinality(P)
      BY <3>1, <3>2, FS_Subset DEF PlaceIn
    <3>4. PlaceIn(S, i) \in Nat
      BY PlacesAre
    <3> HIDE DEF P
    <3> QED
      BY <2>1, <2>2, <3>3, <3>4
  <2>3. ASSUME PlaceIn(A, h) < n, ~(PlaceIn(S, h) < n) PROVE FALSE
    (* The hits of the first n places of S are before h, and in A.           *)
    <3> DEFINE B == {i \in S : PlaceIn(S, i) < n}
    <3>1. n <= PlaceIn(S, h) /\ PlaceIn(S, h) < Cardinality(S)
      BY <2>1, <2>3, PlacesAre
    <3>2. B \subseteq Q
      <4> SUFFICES ASSUME NEW i \in S, PlaceIn(S, i) < n PROVE Before(i, h)
        OBVIOUS
      <4>1. i # h
        BY <3>1, <2>1
      <4>2. ASSUME Before(h, i) PROVE FALSE
        <5>1. {j \in S : Before(j, h)} \subseteq {j \in S : Before(j, i)}
          BY <4>2, BeforeOrders
        <5>2. IsFiniteSet({j \in S : Before(j, i)})
          BY FS_Subset
        <5>3. PlaceIn(S, h) <= PlaceIn(S, i)
          BY <5>1, <5>2, FS_Subset DEF PlaceIn
        <5>4. PlaceIn(S, i) \in Nat
          BY PlacesAre
        <5> QED
          BY <2>1, <3>1, <5>3, <5>4
      <4> QED
        BY <4>1, <4>2, BeforeOrders
    <3>3. ToSet(T) = B /\ Len(T) = n /\ DOMAIN T = 1 .. n
          /\ \A r, q \in 1 .. n : T[r] = T[q] => r = q
      <4>1. /\ m = n
        BY <1>2, <2>1, <3>1
      <4>2. /\ \A h1 : h1 \in ToSet(T) <=> h1 \in S /\ PlaceIn(S, h1) < n
            /\ Len(T) = m /\ DOMAIN T = 1 .. m /\ \A r \in 1 .. m : PlaceIn(S, T[r]) = r - 1
        BY TopIs
      <4> HIDE DEF T, m
      <4>3. \A r, q \in 1 .. n : T[r] = T[q] => r = q
        BY <4>1, <4>2
      <4> QED
        BY <4>1, <4>2, <4>3
    <3>4. IsFiniteSet(B) /\ Cardinality(B) = n
      <4>1. IsFiniteSet(1 .. n) /\ Cardinality(1 .. n) = n
        <5>1. IsFiniteSet(1 .. n) /\ Cardinality(1 .. n) = IF 1 > n THEN 0 ELSE n - 1 + 1
          BY FS_Interval
        <5> QED
          BY <5>1
      <4>2. T \in [1 .. n -> B] /\ \A b \in B : \E r \in 1 .. n : T[r] = b
        <5>1. T = [r \in 1 .. n |-> T[r]]
          <6>1. DOMAIN TopOf(S, n) = 1 .. n
            BY <3>3
          <6> QED
            BY <6>1 DEF TopOf
        <5> HIDE DEF T, B
        <5> QED
          BY <3>3, <5>1 DEF ToSet
      <4> HIDE DEF T, B
      <4>3. T \in Bijection(1 .. n, B)
        BY <3>3, <4>2 DEF Bijection, Injection, Surjection, IsInjective
      <4>4. ExistsBijection(1 .. n, B)
        BY <4>3 DEF ExistsBijection
      <4>5. IsFiniteSet(B) /\ Cardinality(B) = Cardinality(1 .. n)
        BY <4>1, <4>4, FS_Bijection
      <4> QED
        BY <4>1, <4>5
    <3>5. IsFiniteSet(Q)
      BY <1>1, FS_Subset
    <3> HIDE DEF B, Q
    <3>6. n <= Cardinality(Q)
      BY <3>2, <3>4, <3>5, FS_Subset
    <3>7. Cardinality(Q) \in Nat
      BY <3>5, FS_CardinalityType
    <3> QED
      BY <2>1, <2>3, <3>6, <3>7
  <2> QED
    BY <2>1, <2>2, <2>3
<1>4. /\ DOMAIN U = 1 .. k /\ U = [r \in 1 .. k |-> CHOOSE h \in A : PlaceIn(A, h) = r - 1]
      /\ \A r \in 1 .. k : U[r] \in A /\ PlaceIn(A, U[r]) = r - 1
      /\ k \in Nat /\ k <= n
  BY <1>1, TopIs
<1>5. /\ DOMAIN T = 1 .. m /\ T = [r \in 1 .. m |-> CHOOSE h \in S : PlaceIn(S, h) = r - 1]
      /\ \A r \in 1 .. m : T[r] \in S /\ PlaceIn(S, T[r]) = r - 1
      /\ m \in Nat /\ m <= n
  BY TopIs
<1>6. k <= m
  BY <1>2
<1>7. m <= k
  <2> SUFFICES ASSUME m # 0, k < m PROVE FALSE
    BY <1>4, <1>5
  <2>0. m \in 1 .. m
    BY <1>5
  <2>1. m \in 1 .. m /\ T[m] \in S /\ PlaceIn(S, T[m]) = m - 1
    <3> HIDE DEF m, T
    <3> QED
      BY <1>5, <2>0
  <2>2. T[m] \in A
    BY <1>5, <2>1
  <2>3. PlaceIn(A, T[m]) = m - 1
    BY <1>3, <1>5, <2>1, <2>2
  <2>4. PlaceIn(A, T[m]) < Cardinality(A)
    BY <1>1, <2>2, PlacesAre
  <2> QED
    BY <1>2, <1>4, <1>5, <2>3, <2>4
<1> HIDE DEF k, m
<1>8. k = m
  BY <1>4, <1>5, <1>6, <1>7
<1>9. \A r \in 1 .. m : U[r] = T[r]
  <2> SUFFICES ASSUME NEW r \in 1 .. m PROVE U[r] = T[r]
    OBVIOUS
  <2>1. U[r] \in A /\ PlaceIn(A, U[r]) = r - 1 /\ T[r] \in S /\ PlaceIn(S, T[r]) = r - 1 /\ r - 1 < n /\ r - 1 \in Nat
    BY <1>4, <1>5, <1>8
  <2>2. PlaceIn(S, U[r]) = r - 1
    BY <1>3, <2>1
  <2> HIDE DEF U, T
  <2> QED
    BY <2>1, <2>2, PlacesAre
<1> QED
  <2>1. U = [r \in 1 .. m |-> U[r]] /\ T = [r \in 1 .. m |-> T[r]]
    BY <1>4, <1>5, <1>8
  <2> HIDE DEF U, T
  <2>2. U = T
    BY <1>9, <2>1
  <2> QED
    BY <2>2 DEF U, T

(* The top of the tops is the top of all.                                  *)
MadeOf(S, I, part)    == (\A i \in I : part[i] \subseteq S) /\ \A h \in S : \E i \in I : h \in part[i]
TopsOf(A, I, part, n) == \A h : h \in A <=> \E i \in I : h \in ToSet(TopOf(part[i], n))

(* The top of the tops of the parts is the top of the whole.               *)
LEMMA TopOfTops ==
  ASSUME NEW S \in SUBSET Hits, IsFiniteSet(S), NEW n \in Nat, NEW I, NEW part, NEW A,
         MadeOf(S, I, part), TopsOf(A, I, part, n)
  PROVE  TopOf(A, n) = TopOf(S, n)
<1>0. (\A i \in I : part[i] \subseteq S) /\ \A h \in S : \E i \in I : h \in part[i]
  BY DEF MadeOf
<1>1. \A i \in I : part[i] \in SUBSET S /\ part[i] \in SUBSET Hits /\ IsFiniteSet(part[i])
  <2>1. \A i \in I : part[i] \in SUBSET S
    BY <1>0
  <2> QED
    BY <2>1, FS_Subset
<1>2. \A i \in I : \A h : h \in ToSet(TopOf(part[i], n)) <=> h \in part[i] /\ PlaceIn(part[i], h) < n
  BY <1>1, TopIs
<1>3. A \in SUBSET S
  BY <1>1, <1>2 DEF TopsOf
<1>4. ASSUME NEW h \in S, PlaceIn(S, h) < n
      PROVE  h \in A
  <2>1. PICK i \in I : h \in part[i]
    BY <1>0
  <2>2. {g \in part[i] : Before(g, h)} \subseteq {g \in S : Before(g, h)}
    BY <1>1
  <2>3. IsFiniteSet({g \in S : Before(g, h)})
    BY FS_Subset
  <2>4. PlaceIn(part[i], h) <= PlaceIn(S, h)
    BY <2>2, <2>3, FS_Subset DEF PlaceIn
  <2>5. PlaceIn(part[i], h) \in Nat /\ PlaceIn(S, h) \in Nat
    BY <1>1, PlacesAre
  <2>6. PlaceIn(part[i], h) < n
    BY <1>4, <2>4, <2>5
  <2> QED
    BY <1>2, <2>1, <2>6 DEF TopsOf
<1> QED
  BY <1>3, <1>4, TopsAgree

(* A sequence of sequences, one after the other.                           *)
LEMMA FlattenIs ==
  ASSUME NEW V, NEW seqs \in Seq(Seq(V))
  PROVE  /\ FlattenSeq(seqs) \in Seq(V)
         /\ ToSet(FlattenSeq(seqs)) = UNION {ToSet(seqs[i]) : i \in 1 .. Len(seqs)}
<1> DEFINE n == Len(seqs)
           StepTo(m, h) == [i \in 1 .. m |-> IF i = 1 THEN seqs[i] ELSE h[i - 1] \o seqs[i]]
           c == CHOOSE h : h = StepTo(n, h)
           All(m) == UNION {ToSet(seqs[i]) : i \in 1 .. m}
<1>1. n \in Nat /\ \A i \in 1 .. n : seqs[i] \in Seq(V)
  OBVIOUS
<1>2. CASE n = 0
  <2>1. FlattenSeq(seqs) = <<>>
    BY <1>2 DEF FlattenSeq
  <2>2. ToSet(<<>>) = {} /\ All(0) = {} /\ <<>> \in Seq(V)
    BY DEF ToSet
  <2> QED
    BY <1>2, <2>1, <2>2
<1>3. CASE n # 0
  <2>1. FlattenSeq(seqs) = c[n]
    BY <1>3 DEF FlattenSeq
  <2> HIDE DEF n
  <2>2. c = StepTo(n, c)
    <3> DEFINE G == {m \in 0 .. n : \E f \in [1 .. m -> Seq(V)] : f = StepTo(m, f)}
    <3>1. 0 \in G
      <4> DEFINE f == [i \in 1 .. 0 |-> <<>>]
      <4>1. f \in [1 .. 0 -> Seq(V)] /\ f = StepTo(0, f) /\ 0 \in 0 .. n
        BY <1>1
      <4> HIDE DEF f, StepTo
      <4> QED
        BY <4>1
    <3>2. ASSUME NEW m \in 0 .. n - 1, m \in G
          PROVE  m + 1 \in G
      <4>1. PICK f \in [1 .. m -> Seq(V)] : f = StepTo(m, f)
        BY <3>2
      <4> DEFINE k == m + 1
                 g == [i \in 1 .. k |-> IF i = 1 THEN seqs[i] ELSE f[i - 1] \o seqs[i]]
      <4>2. /\ k \in 0 .. n /\ k \in 1 .. n /\ 1 .. k \subseteq 1 .. n
            /\ \A i \in 1 .. k : i # 1 => i - 1 \in 1 .. m /\ i - 1 \in 1 .. k
            /\ 1 .. m \subseteq 1 .. k
        BY <1>1
      <4> HIDE DEF k, StepTo
      <4>3. \A i \in 1 .. m : f[i] = IF i = 1 THEN seqs[i] ELSE f[i - 1] \o seqs[i]
        BY <4>1 DEF StepTo
      <4>4. \A i \in 1 .. k : g[i] \in Seq(V)
        <5> SUFFICES ASSUME NEW i \in 1 .. k PROVE g[i] \in Seq(V)
          OBVIOUS
        <5>1. seqs[i] \in Seq(V)
          BY <1>1, <4>2
        <5>2. i # 1 => f[i - 1] \in Seq(V)
          BY <4>2
        <5>3. i # 1 => f[i - 1] \o seqs[i] \in Seq(V)
          BY <5>1, <5>2
        <5> QED
          BY <5>1, <5>3
      <4>5. \A i \in 1 .. k : g[i] = IF i = 1 THEN seqs[i] ELSE g[i - 1] \o seqs[i]
        <5>1. \A i \in 1 .. m : g[i] = f[i]
          BY <4>2, <4>3
        <5> SUFFICES ASSUME NEW i \in 1 .. k PROVE g[i] = IF i = 1 THEN seqs[i] ELSE g[i - 1] \o seqs[i]
          OBVIOUS
        <5>2. i # 1 => g[i - 1] = f[i - 1]
          BY <4>2, <5>1
        <5> QED
          BY <5>2
      <4>6. g \in [1 .. k -> Seq(V)] /\ g = StepTo(k, g)
        <5>1. g = [i \in 1 .. k |-> g[i]]
          OBVIOUS
        <5> HIDE DEF g
        <5> QED
          BY <4>4, <4>5, <5>1 DEF StepTo
      <4> HIDE DEF g
      <4>7. k \in G
        BY <4>2, <4>6
      <4> QED
        BY <4>7 DEF k
    <3> HIDE DEF G
    <3>3. n \in G
      <4>1. \A m \in 0 .. n : m \in G
        BY <1>1, <3>1, <3>2, CountedUp
      <4> QED
        BY <1>1, <4>1
    <3>4. PICK f \in [1 .. n -> Seq(V)] : f = StepTo(n, f)
      BY <3>3 DEF G
    <3> HIDE DEF StepTo
    <3> QED
      BY <3>4
  <2> HIDE DEF c
  <2>3. \A i \in 1 .. n : c[i] = IF i = 1 THEN seqs[i] ELSE c[i - 1] \o seqs[i]
    BY <2>2
  <2> HIDE DEF StepTo
  <2> DEFINE G == {m \in 0 .. n : m # 0 => c[m] \in Seq(V) /\ ToSet(c[m]) = All(m)}
  <2>4. 0 \in G
    BY <1>1
  <2>5. ASSUME NEW m \in 0 .. n - 1, m \in G
        PROVE  m + 1 \in G
    <3>1. m + 1 \in 1 .. n /\ m + 1 \in 0 .. n /\ (m + 1) - 1 = m /\ m \in Nat
      BY <1>1
    <3>2. seqs[m + 1] \in Seq(V)
      BY <1>1, <3>1
    <3>3. CASE m = 0
      <4>1. c[m + 1] = seqs[m + 1] /\ All(m + 1) = ToSet(seqs[m + 1])
        <5>1. m + 1 = 1 /\ 1 .. 1 = {1} /\ c[1] = seqs[1]
          BY <2>3, <3>1, <3>3
        <5> QED
          BY <5>1
      <4> HIDE DEF All
      <4> QED
        BY <3>1, <3>2, <4>1
    <3>4. CASE m # 0
      <4>1. c[m + 1] = c[m] \o seqs[m + 1] /\ c[m] \in Seq(V) /\ ToSet(c[m]) = All(m)
        <5>1. m + 1 # 1
          BY <3>1, <3>4
        <5>2. c[m + 1] = c[(m + 1) - 1] \o seqs[m + 1]
          BY <2>3, <3>1, <5>1
        <5>3. c[m] \in Seq(V) /\ ToSet(c[m]) = All(m)
          BY <2>5, <3>4
        <5> QED
          BY <3>1, <5>2, <5>3
      <4>2. All(m + 1) = All(m) \cup ToSet(seqs[m + 1])
        <5>1. 1 .. (m + 1) = (1 .. m) \cup {m + 1}
          BY <3>1
        <5> QED
          BY <5>1
      <4> DEFINE s == c[m]
                 t == seqs[m + 1]
      <4>3. ToSet(s \o t) = ToSet(s) \cup ToSet(t) /\ s \o t \in Seq(V)
        <5>1. s \in Seq(V) /\ t \in Seq(V)
          BY <3>2, <4>1
        <5> HIDE DEF s, t
        <5>2. s \o t \in Seq(V) /\ Len(s \o t) = Len(s) + Len(t) /\ Len(s) \in Nat /\ Len(t) \in Nat
          BY <5>1
        <5>3. \A i \in 1 .. Len(s) + Len(t) : (s \o t)[i] = IF i <= Len(s) THEN s[i] ELSE t[i - Len(s)]
          BY <5>1
        <5>4. ToSet(s \o t) \subseteq ToSet(s) \cup ToSet(t)
          <6> SUFFICES ASSUME NEW i \in 1 .. Len(s) + Len(t) PROVE (s \o t)[i] \in ToSet(s) \cup ToSet(t)
            BY <5>2 DEF ToSet
          <6>1. CASE i <= Len(s)
            <7>1. i \in 1 .. Len(s)
              BY <5>2, <6>1
            <7> QED
              BY <5>1, <5>3, <6>1, <7>1 DEF ToSet
          <6>2. CASE ~(i <= Len(s))
            <7>1. i - Len(s) \in 1 .. Len(t)
              BY <5>2, <6>2
            <7> QED
              BY <5>1, <5>3, <6>2, <7>1 DEF ToSet
          <6> QED
            BY <6>1, <6>2
        <5>5. \A i \in 1 .. Len(s) : s[i] \in ToSet(s \o t)
          <6> SUFFICES ASSUME NEW i \in 1 .. Len(s) PROVE s[i] \in ToSet(s \o t)
            OBVIOUS
          <6>1. i \in 1 .. Len(s) + Len(t) /\ i <= Len(s)
            BY <5>2
          <6> QED
            BY <5>2, <5>3, <6>1 DEF ToSet
        <5>6. \A i \in 1 .. Len(t) : t[i] \in ToSet(s \o t)
          <6> SUFFICES ASSUME NEW i \in 1 .. Len(t) PROVE t[i] \in ToSet(s \o t)
            OBVIOUS
          <6>1. Len(s) + i \in 1 .. Len(s) + Len(t) /\ ~(Len(s) + i <= Len(s)) /\ (Len(s) + i) - Len(s) = i
            BY <5>2
          <6>2. (s \o t)[Len(s) + i] = t[i]
            BY <5>3, <6>1
          <6>3. Len(s) + i \in DOMAIN (s \o t)
            BY <5>2, <6>1
          <6> QED
            BY <6>2, <6>3 DEF ToSet
        <5>7. ToSet(s) \subseteq ToSet(s \o t) /\ ToSet(t) \subseteq ToSet(s \o t)
          <6>1. ToSet(s) = {s[i] : i \in 1 .. Len(s)} /\ ToSet(t) = {t[i] : i \in 1 .. Len(t)}
            BY <5>1 DEF ToSet
          <6> QED
            BY <5>5, <5>6, <6>1
        <5> QED
          BY <5>2, <5>4, <5>7
      <4> HIDE DEF All
      <4> QED
        BY <3>1, <4>1, <4>2, <4>3
    <3> QED
      BY <3>3, <3>4
  <2> HIDE DEF G
  <2>6. n \in G
    <3>1. \A m \in 0 .. n : m \in G
      BY <1>1, <2>4, <2>5, CountedUp
    <3> QED
      BY <1>1, <3>1
  <2>7. c[n] \in Seq(V) /\ ToSet(c[n]) = All(n)
    BY <1>3, <2>6 DEF G
  <2> QED
    BY <2>1, <2>7 DEF n
<1> QED
  BY <1>2, <1>3

(* A finite set in some order.                                             *)
LEMMA SetToSeqIs ==
  ASSUME NEW S, IsFiniteSet(S)
  PROVE  SetToSeq(S) \in Seq(S) /\ ToSet(SetToSeq(S)) = S
<1> DEFINE n == Cardinality(S)
           f == SetToSeq(S)
<1>1. n \in Nat /\ IsFiniteSet(1 .. n) /\ Cardinality(1 .. n) = n
  <2>1. n \in Nat
    BY FS_CardinalityType
  <2> HIDE DEF n
  <2>2. 1 \in Int /\ n \in Int
    BY <2>1
  <2>3. IsFiniteSet(1 .. n) /\ Cardinality(1 .. n) = IF 1 > n THEN 0 ELSE n - 1 + 1
    BY <2>2, FS_Interval
  <2> QED
    BY <2>1, <2>3
<1>2. \E g \in [1 .. n -> S] : IsInjective(g)
  <2>1. ExistsBijection(1 .. n, S)
    BY FS_CardinalityType
  <2>2. PICK g \in Bijection(1 .. n, S) : TRUE
    BY <2>1 DEF ExistsBijection
  <2> QED
    BY <2>2 DEF Bijection, Injection, IsInjective
<1>3. f \in [1 .. n -> S] /\ IsInjective(f)
  <2> HIDE DEF n
  <2> QED
    BY <1>2 DEF SetToSeq, n
<1>4. f \in Surjection(1 .. n, S)
  <2> HIDE DEF f
  <2>1. f \in Injection(1 .. n, S)
    BY <1>3 DEF Injection, IsInjective
  <2>2. IsFiniteSet(1 .. n) /\ IsFiniteSet(S) /\ Cardinality(1 .. n) = Cardinality(S)
    BY <1>1
  <2> HIDE DEF n
  <2> QED
    BY <2>1, <2>2, FS_Injection
<1> HIDE DEF n, f
<1>5. f \in Seq(S) /\ DOMAIN f = 1 .. n
  BY <1>1, <1>3
<1>6. ToSet(f) = S
  BY <1>3, <1>4, <1>5 DEF ToSet, Surjection
<1> QED
  BY <1>5, <1>6 DEF f

-----------------------------------------------------------------------------
(* Bitmaps: a document is a word and a bit of it.                          *)

(* Rounded up, a quotient is enough for all, and no more than needed.      *)
LEMMA CeilDivBy ==
  ASSUME NEW w \in Nat \ {0}, NEW n \in Nat
  PROVE  /\ CeilDiv(n, w) \in Nat
         /\ \A d \in Nat : d < n => d \div w < CeilDiv(n, w)
         /\ \A q \in Nat : q < CeilDiv(n, w) => q * w < n
         /\ n <= CeilDiv(n, w) * w
<1>1. w \in Nat /\ w > 0 /\ n + w - 1 \in Nat
  OBVIOUS
<1> DEFINE e == n + w - 1
           c == CeilDiv(n, w)
<1>2. c = e \div w /\ c \in Nat
  BY <1>1, DividedBy DEF CeilDiv
<1>3. e \in Nat /\ e = n + w - 1
  BY <1>1
<1> HIDE DEF c, e
<1>4. n <= c * w
  <2>1. ~(e \div w < c) /\ e \div w < c + 1
    BY <1>2
  <2>2. e < (c + 1) * w
    BY <1>2, <1>3, <2>1, DividedByBelow
  <2>3. (c + 1) * w = c * w + w /\ c * w \in Nat
    BY <1>1, <1>2
  <2> QED
    BY <1>1, <1>3, <2>2, <2>3
<1>5. ASSUME NEW d \in Nat, d < n
      PROVE  d \div w < c
  <2>1. c * w \in Nat /\ d < c * w
    BY <1>2, <1>4, <1>5, DividedByBelow
  <2> QED
    BY <1>2, <2>1, DividedByBelow
<1>6. ASSUME NEW q \in Nat, q < c
      PROVE  q * w < n
  <2>1. q + 1 \in Nat /\ ~(e \div w < q + 1)
    BY <1>2, <1>6
  <2>2. ~(e < (q + 1) * w)
    BY <1>3, <2>1, DividedByBelow
  <2>3. (q + 1) * w = q * w + w /\ q * w \in Nat
    BY <1>1
  <2> QED
    BY <1>1, <1>3, <2>2, <2>3
<1> QED
  BY <1>2, <1>4, <1>5, <1>6 DEF c

(* A document has a word and a bit there,                                  *)
LEMMA Divided ==
  ASSUME NEW d \in Nat
  PROVE  /\ d \div Width \in Nat /\ d % Width \in Bits
         /\ d = ((d \div Width) * Width) + (d % Width)
<1>1. Width \in Nat \ {0} /\ Bits = 0 .. Width - 1
  BY ScopeAssumption DEF Bits
<1> QED
  BY <1>1, DividedBy

(* and is the only one that has them.                                      *)
LEMMA DividedOnce ==
  ASSUME NEW q \in Nat, NEW b \in Bits
  PROVE  /\ q * Width + b \in Nat
         /\ (q * Width + b) \div Width = q /\ (q * Width + b) % Width = b
<1>1. Width \in Nat \ {0} /\ Bits = 0 .. Width - 1
  BY ScopeAssumption DEF Bits
<1> QED
  BY <1>1, DividedByOnce

(* The words of the documents before a word begins.                        *)
LEMMA DividedBelow ==
  ASSUME NEW d \in Nat, NEW q \in Nat
  PROVE  /\ d \div Width < q <=> d < q * Width
         /\ q * Width \in Nat
<1>1. Width \in Nat \ {0} /\ Bits = 0 .. Width - 1
  BY ScopeAssumption DEF Bits
<1> QED
  BY <1>1, DividedByBelow

(* The words that so many documents need.                                  *)
LEMMA CeilDivIs ==
  ASSUME NEW n \in Nat
  PROVE  /\ CeilDiv(n, Width) \in Nat
         /\ \A d \in Nat : d < n => d \div Width < CeilDiv(n, Width)
         /\ \A q \in Nat : q < CeilDiv(n, Width) => q * Width < n
         /\ n <= CeilDiv(n, Width) * Width
<1>1. Width \in Nat \ {0} /\ Bits = 0 .. Width - 1
  BY ScopeAssumption DEF Bits
<1> QED
  BY <1>1, CeilDivBy

(* The bits of a bitmap.                                                   *)
LEMMA BitsAre ==
  ASSUME NEW words \in Seq(SUBSET Bits)
  PROVE  /\ \A d \in Nat : BitIsSet(words, d) <=> d \div Width < Len(words) /\ d % Width \in words[d \div Width + 1]
         /\ BitsOf(words) = {d \in Nat : BitIsSet(words, d)}
<1>1. \A d \in Nat : BitIsSet(words, d) <=> d \div Width < Len(words) /\ d % Width \in words[d \div Width + 1]
  BY DEF BitIsSet, WordAt
<1>2. Len(words) \in Nat /\ Len(words) * Width \in Nat
  BY DividedBelow
<1>3. \A d \in Nat : BitIsSet(words, d) => d \in 0 .. Len(words) * Width - 1
  <2> SUFFICES ASSUME NEW d \in Nat, BitIsSet(words, d) PROVE d \in 0 .. Len(words) * Width - 1
    OBVIOUS
  <2>1. d < Len(words) * Width
    BY <1>1, <1>2, DividedBelow
  <2> QED
    BY <1>2, <2>1
<1>4. 0 .. Len(words) * Width - 1 \subseteq Nat
  BY <1>2
<1> QED
  BY <1>1, <1>3, <1>4 DEF BitsOf

-----------------------------------------------------------------------------
(* Scopes.                                                                 *)

Shapes == [allowed : {words \in [Segs -> Seq(SUBSET Bits)] : \A s \in Segs : Len(words[s]) = CeilDiv(Len(files[s]), Width)},
           matched : Int]
ScopeKeys(sc) == {key \in Segs \X Nat : BitIsSet(sc.allowed[key[1]], key[2])}
Scopes == {sc \in Shapes : ScopeKeys(sc) \subseteq Keys /\ sc.matched = Cardinality(ScopeKeys(sc))}
In(s, ds) == {<<s, d>> : d \in ds}

(* The documents of an index are finitely many, a segment and a place      *)
(* there.                                                                  *)
LEMMA KeysAre ==
  ASSUME IndexOK
  PROVE  /\ Len(files) \in Nat /\ \A s \in Segs : Len(files[s]) \in Nat
         /\ Keys = {key \in Segs \X Nat : key[2] < Len(files[key[1]])}
         /\ IsFiniteSet(Keys) /\ Cardinality(Keys) \in Nat
<1>1. Len(files) \in Nat /\ DOMAIN files = Segs /\ \A s \in Segs : files[s] \in Seq(Paths)
  BY DEF IndexOK, Segs
<1>2. \A s \in Segs : Len(files[s]) \in Nat
  BY <1>1
<1>3. Keys = {key \in Segs \X Nat : key[2] < Len(files[key[1]])}
  <2>1. \A s \in Segs : Local(s) = {d \in Nat : d < Len(files[s])}
    BY <1>2 DEF Local
  <2> QED
    BY <2>1 DEF Keys
<1>4. IsFiniteSet(Keys)
  <2> DEFINE f == [s \in Segs |-> {<<s, d>> : d \in Local(s)}]
  <2>1. IsFiniteSet(Segs)
    BY <1>1, FS_Interval DEF Segs
  <2>2. ASSUME NEW s \in Segs PROVE IsFiniteSet(f[s])
    <3> DEFINE g == [d \in Local(s) |-> <<s, d>>]
    <3>1. IsFiniteSet(Local(s))
      BY <1>2, FS_Interval DEF Local
    <3>2. IsFiniteSet({g[d] : d \in Local(s)})
      BY <3>1, ImageFinite
    <3>3. {g[d] : d \in Local(s)} = f[s]
      OBVIOUS
    <3> QED
      BY <3>2, <3>3
  <2>3. IsFiniteSet({f[s] : s \in Segs}) /\ Keys = UNION {f[s] : s \in Segs}
    <3>1. IsFiniteSet({f[s] : s \in Segs})
      BY <2>1, ImageFinite
    <3> QED
      BY <3>1 DEF Keys
  <2> HIDE DEF f
  <2> QED
    BY <2>2, <2>3, FS_UNION
<1>5. Cardinality(Keys) \in Nat
  BY <1>4, FS_CardinalityType
<1> QED
  BY <1>1, <1>2, <1>3, <1>4, <1>5

(* An injective image has as many elements.                                *)
LEMMA ImageCardinality ==
  ASSUME NEW S, IsFiniteSet(S), NEW f, \A x, y \in S : f[x] = f[y] => x = y
  PROVE  IsFiniteSet({f[x] : x \in S}) /\ Cardinality({f[x] : x \in S}) = Cardinality(S)
<1> DEFINE T == {f[x] : x \in S}
           g == [x \in S |-> f[x]]
<1>1. IsFiniteSet(T)
  BY ImageFinite
<1>2. g \in Bijection(S, T)
  <2>1. g \in [S -> T] /\ \A x, y \in S : g[x] = g[y] => x = y
    OBVIOUS
  <2>2. \A t \in T : \E x \in S : g[x] = t
    OBVIOUS
  <2> HIDE DEF g, T
  <2> QED
    BY <2>1, <2>2, Fun_IsBij
<1>3. ExistsBijection(S, T)
  BY <1>2 DEF ExistsBijection
<1> HIDE DEF T
<1>4. Cardinality(T) = Cardinality(S)
  BY <1>3, FS_Bijection
<1> QED
  BY <1>1, <1>4 DEF T

(* What has the shape of a scope has a bitmap for every segment, of its    *)
(* size.                                                                   *)
LEMMA ShapeIs ==
  ASSUME IndexOK, NEW sc \in Shapes
  PROVE  /\ sc = [allowed |-> sc.allowed, matched |-> sc.matched] /\ sc.matched \in Int
         /\ DOMAIN sc.allowed = Segs /\ sc.allowed \in [Segs -> Seq(SUBSET Bits)]
         /\ \A s \in Segs : /\ sc.allowed[s] \in Seq(SUBSET Bits) /\ Len(sc.allowed[s]) = CeilDiv(Len(files[s]), Width)
                            /\ Len(sc.allowed[s]) \in Nat /\ SegmentBits(sc, s) = sc.allowed[s]
                            /\ \A d \in Nat : <<s, d>> \in ScopeKeys(sc) <=> BitIsSet(sc.allowed[s], d)
                            /\ \A d \in Nat : d < Len(files[s]) => d \div Width < Len(sc.allowed[s])
<1>1. /\ sc = [allowed |-> sc.allowed, matched |-> sc.matched] /\ sc.matched \in Int
      /\ DOMAIN sc.allowed = Segs /\ sc.allowed \in [Segs -> Seq(SUBSET Bits)]
  BY DEF Shapes
<1>2. \A s \in Segs : sc.allowed[s] \in Seq(SUBSET Bits) /\ Len(sc.allowed[s]) = CeilDiv(Len(files[s]), Width)
                      /\ Len(sc.allowed[s]) \in Nat /\ SegmentBits(sc, s) = sc.allowed[s]
  BY <1>1 DEF Shapes, SegmentBits
<1>3. \A s \in Segs, d \in Nat : <<s, d>> \in ScopeKeys(sc) <=> BitIsSet(sc.allowed[s], d)
  BY DEF ScopeKeys
<1>4. \A s \in Segs : Len(files[s]) \in Nat
  BY KeysAre
<1>5. \A s \in Segs : \A d \in Nat : d < Len(files[s]) => d \div Width < CeilDiv(Len(files[s]), Width)
  BY <1>4, CeilDivIs
<1> QED
  BY <1>1, <1>2, <1>3, <1>5

(* A word of a bitmap is replaced.                                         *)
LEMMA WordChanges ==
  ASSUME IndexOK, NEW sc \in Shapes, NEW s \in Segs, NEW w \in Nat, w < Len(sc.allowed[s]),
         NEW new \in SUBSET Bits, NEW n \in Int
  PROVE  LET next == [allowed |-> [sc.allowed EXCEPT ![s][w + 1] = new], matched |-> n]
         IN  /\ next \in Shapes
             /\ \A key \in Segs \X Nat :
                  key \in ScopeKeys(next) <=> IF key[1] = s /\ key[2] \div Width = w THEN key[2] % Width \in new
                                              ELSE key \in ScopeKeys(sc)
<1> DEFINE a == [sc.allowed EXCEPT ![s][w + 1] = new]
           next == [allowed |-> a, matched |-> n]
<1>1. /\ DOMAIN sc.allowed = Segs /\ sc.allowed \in [Segs -> Seq(SUBSET Bits)]
      /\ \A r \in Segs : sc.allowed[r] \in Seq(SUBSET Bits) /\ Len(sc.allowed[r]) = CeilDiv(Len(files[r]), Width)
                         /\ Len(sc.allowed[r]) \in Nat
  BY ShapeIs
<1>2. w + 1 \in 1 .. Len(sc.allowed[s]) /\ w + 1 \in DOMAIN sc.allowed[s]
  BY <1>1
<1>3. a[s] = [sc.allowed[s] EXCEPT ![w + 1] = new] /\ DOMAIN a = Segs /\ \A r \in Segs : r # s => a[r] = sc.allowed[r]
  BY <1>1
<1>4. a[s] \in Seq(SUBSET Bits) /\ Len(a[s]) = Len(sc.allowed[s])
      /\ \A i \in 1 .. Len(sc.allowed[s]) : a[s][i] = IF i = w + 1 THEN new ELSE sc.allowed[s][i]
  <2> HIDE DEF a
  <2>1. [sc.allowed[s] EXCEPT ![w + 1] = new] \in [1 .. Len(sc.allowed[s]) -> SUBSET Bits]
    BY <1>1, <1>2
  <2> QED
    BY <1>1, <1>2, <1>3, <2>1
<1>5. a \in [Segs -> Seq(SUBSET Bits)] /\ \A r \in Segs : Len(a[r]) = CeilDiv(Len(files[r]), Width)
  <2>1. a = [r \in Segs |-> a[r]]
    BY <1>1
  <2> HIDE DEF a
  <2> QED
    BY <1>1, <1>3, <1>4, <2>1
<1>6. next \in Shapes
  <2> HIDE DEF a
  <2> QED
    BY <1>5 DEF Shapes
<1>7. ASSUME NEW key \in Segs \X Nat
      PROVE  key \in ScopeKeys(next) <=> IF key[1] = s /\ key[2] \div Width = w THEN key[2] % Width \in new
                                         ELSE key \in ScopeKeys(sc)
  <2>1. PICK r \in Segs, d \in Nat : key = <<r, d>>
    OBVIOUS
  <2> DEFINE q == d \div Width
  <2>2. q \in Nat /\ d % Width \in Bits
    BY Divided
  <2>3. next.allowed = a
    OBVIOUS
  <2> HIDE DEF a, next
  <2>4. key \in ScopeKeys(next) <=> q < Len(a[r]) /\ d % Width \in a[r][q + 1]
    BY <1>5, <2>1, <2>3, BitsAre DEF ScopeKeys
  <2>5. key \in ScopeKeys(sc) <=> q < Len(sc.allowed[r]) /\ d % Width \in sc.allowed[r][q + 1]
    BY <1>1, <2>1, BitsAre DEF ScopeKeys
  <2>6. key[1] = r /\ key[2] = d
    BY <2>1
  <2> HIDE DEF q
  <2>7. CASE r = s
    <3>1. q < Len(sc.allowed[s]) => a[s][q + 1] = IF q = w THEN new ELSE sc.allowed[s][q + 1]
      <4>1. Len(sc.allowed[s]) \in Nat
        BY <1>1
      <4>2. q < Len(sc.allowed[s]) => q + 1 \in 1 .. Len(sc.allowed[s]) /\ (q + 1 = w + 1 <=> q = w)
        BY <2>2, <4>1
      <4> QED
        BY <1>4, <4>2
    <3> QED
      BY <1>4, <2>4, <2>5, <2>6, <2>7, <3>1 DEF q
  <2>8. CASE r # s
    BY <1>3, <2>4, <2>5, <2>6, <2>8
  <2> QED
    BY <2>7, <2>8
<1> QED
  BY <1>6, <1>7

(* The documents of the bits of a word.                                    *)
InWord(s, w, bits) == {<<s, w * Width + b>> : b \in bits}

(* They are as many as the bits.                                           *)
LEMMA DocumentsOfWord ==
  ASSUME NEW s, NEW w \in Nat, NEW M \in SUBSET Bits
  PROVE  /\ IsFiniteSet(M) /\ Cardinality(M) \in Nat
         /\ IsFiniteSet(InWord(s, w, M)) /\ Cardinality(InWord(s, w, M)) = Cardinality(M)
         /\ \A d \in Nat : <<s, d>> \in InWord(s, w, M) <=> d \div Width = w /\ d % Width \in M
<1>1. Width \in Nat /\ Width > 0
  BY ScopeAssumption
<1>2. IsFiniteSet(M)
  <2>1. IsFiniteSet(Bits)
    BY <1>1, FS_Interval DEF Bits
  <2> QED
    BY <2>1, FS_Subset
<1>3. Cardinality(M) \in Nat
  BY <1>2, FS_CardinalityType
<1> DEFINE f == [b \in M |-> <<s, w * Width + b>>]
<1>4. \A b, c \in M : f[b] = f[c] => b = c
  <2> SUFFICES ASSUME NEW b \in M, NEW c \in M, f[b] = f[c] PROVE b = c
    OBVIOUS
  <2>1. w * Width + b = w * Width + c
    OBVIOUS
  <2>2. (w * Width + b) % Width = b /\ (w * Width + c) % Width = c
    BY DividedOnce
  <2> QED
    BY <2>1, <2>2
<1>5. IsFiniteSet({f[b] : b \in M}) /\ Cardinality({f[b] : b \in M}) = Cardinality(M)
  <2> HIDE DEF f
  <2> QED
    BY <1>2, <1>4, ImageCardinality
<1>6. {f[b] : b \in M} = InWord(s, w, M)
  BY DEF InWord
<1>7. ASSUME NEW d \in Nat
      PROVE  <<s, d>> \in InWord(s, w, M) <=> d \div Width = w /\ d % Width \in M
  <2>0. InWord(s, w, M) = {<<s, w * Width + b>> : b \in M}
    BY DEF InWord
  <2>1. ASSUME NEW b \in M, d = w * Width + b PROVE d \div Width = w /\ d % Width \in M
    BY <2>1, DividedOnce
  <2>2. ASSUME d \div Width = w, d % Width \in M PROVE \E b \in M : d = w * Width + b
    BY <2>2, Divided
  <2> QED
    BY <2>0, <2>1, <2>2
<1> QED
  BY <1>2, <1>3, <1>5, <1>6, <1>7 DEF InWord

(* AllowInWord adds the documents of a word and counts the new ones.       *)
LEMMA WordAllows ==
  ASSUME IndexOK, NEW sc \in Scopes, NEW s \in Segs, NEW w \in Nat, w < Len(sc.allowed[s]),
         NEW M \in SUBSET Bits, \A b \in M : <<s, w * Width + b>> \in Keys
  PROVE  /\ AllowInWord(sc, s, w, M) \in Scopes
         /\ ScopeKeys(AllowInWord(sc, s, w, M)) = ScopeKeys(sc) \cup InWord(s, w, M)
<1>1. sc \in Shapes /\ ScopeKeys(sc) \subseteq Keys /\ sc.matched = Cardinality(ScopeKeys(sc))
  BY DEF Scopes
<1> DEFINE old == sc.allowed[s][w + 1]
           new == old \cup M
           n == sc.matched + Cardinality(M \ old)
           next == AllowInWord(sc, s, w, M)
           mine == InWord(s, w, M)
<1>2. old \in SUBSET Bits /\ new \in SUBSET Bits /\ M \ old \in SUBSET Bits
  <2>1. sc.allowed[s] \in Seq(SUBSET Bits) /\ Len(sc.allowed[s]) \in Nat
    BY <1>1, ShapeIs
  <2>2. w + 1 \in 1 .. Len(sc.allowed[s])
    BY <2>1
  <2> QED
    BY <2>1, <2>2
<1>3. next = [allowed |-> [sc.allowed EXCEPT ![s][w + 1] = new], matched |-> n]
  BY DEF AllowInWord, WordAt
<1>4. n \in Int /\ sc.matched \in Int /\ Cardinality(M \ old) \in Nat
  <2>1. sc.matched \in Int
    BY <1>1, ShapeIs
  <2>2. Cardinality(M \ old) \in Nat
    BY <1>2, DocumentsOfWord
  <2> QED
    BY <2>1, <2>2
<1> HIDE DEF n, new, old
<1>5. next \in Shapes
      /\ \A key \in Segs \X Nat : key \in ScopeKeys(next) <=> IF key[1] = s /\ key[2] \div Width = w THEN key[2] % Width \in new
                                                              ELSE key \in ScopeKeys(sc)
  <2> DEFINE it == [allowed |-> [sc.allowed EXCEPT ![s][w + 1] = new], matched |-> n]
  <2>1. it \in Shapes
        /\ \A key \in Segs \X Nat : key \in ScopeKeys(it) <=> IF key[1] = s /\ key[2] \div Width = w THEN key[2] % Width \in new
                                                              ELSE key \in ScopeKeys(sc)
    BY <1>1, <1>2, <1>4, WordChanges
  <2>2. it = next
    BY <1>3
  <2> HIDE DEF it, next
  <2> QED
    BY <2>1, <2>2
<1>6. \A d \in Nat : /\ <<s, d>> \in ScopeKeys(sc) /\ d \div Width = w => d % Width \in old
                     /\ d \div Width = w /\ d % Width \in old => <<s, d>> \in ScopeKeys(sc)
  <2>1. sc.allowed[s] \in Seq(SUBSET Bits)
    BY <1>1, ShapeIs
  <2> QED
    BY <1>1, <2>1, ShapeIs, BitsAre DEF old
<1>7. ScopeKeys(next) \subseteq Segs \X Nat /\ ScopeKeys(sc) \subseteq Segs \X Nat
  BY DEF ScopeKeys
<1>8. \A d \in Nat : <<s, d>> \in mine <=> d \div Width = w /\ d % Width \in M
  BY DocumentsOfWord
<1>9. mine \subseteq Keys /\ mine \subseteq Segs \X Nat
  BY <1>1, KeysAre DEF InWord
<1>10. ASSUME NEW key \in Segs \X Nat
       PROVE  key \in ScopeKeys(next) <=> key \in ScopeKeys(sc) \cup mine
  <2>1. PICK r \in Segs, d \in Nat : key = <<r, d>>
    OBVIOUS
  <2>2. key[1] = r /\ key[2] = d /\ (r # s => key \notin mine)
    BY <2>1 DEF InWord
  <2> HIDE DEF next, mine
  <2> QED
    BY <1>5, <1>6, <1>8, <2>1, <2>2 DEF new
<1>11. ScopeKeys(next) = ScopeKeys(sc) \cup mine
  <2> HIDE DEF next, mine
  <2> QED
    BY <1>7, <1>9, <1>10
<1>12. n = Cardinality(ScopeKeys(sc) \cup mine)
  <2> DEFINE added == InWord(s, w, M \ old)
  <2>1. IsFiniteSet(added) /\ Cardinality(added) = Cardinality(M \ old)
        /\ \A d \in Nat : <<s, d>> \in added <=> d \div Width = w /\ d % Width \in M \ old
    <3> DEFINE D == M \ old
    <3>1. D \in SUBSET Bits
      BY <1>2
    <3> HIDE DEF D
    <3>2. IsFiniteSet(InWord(s, w, D)) /\ Cardinality(InWord(s, w, D)) = Cardinality(D)
          /\ \A d \in Nat : <<s, d>> \in InWord(s, w, D) <=> d \div Width = w /\ d % Width \in D
      BY <3>1, DocumentsOfWord
    <3> QED
      BY <3>2 DEF D
  <2>2. added \cap ScopeKeys(sc) = {}
    <3>1. \A key \in added : \E d \in Nat : key = <<s, d>>
      BY <1>9, KeysAre DEF InWord
    <3> HIDE DEF added
    <3> QED
      BY <1>6, <2>1, <3>1
  <2>3. ScopeKeys(sc) \cup mine = ScopeKeys(sc) \cup added
    <3>1. added \subseteq mine
      BY DEF InWord
    <3>2. ASSUME NEW key \in mine, key \notin added PROVE key \in ScopeKeys(sc)
      <4>1. PICK d \in Nat : key = <<s, d>>
        BY <1>9, KeysAre DEF InWord
      <4> HIDE DEF added, mine
      <4> QED
        BY <1>6, <1>8, <2>1, <3>2, <4>1
    <3> HIDE DEF added, mine
    <3> QED
      BY <3>1, <3>2
  <2>4. IsFiniteSet(ScopeKeys(sc))
    BY <1>1, KeysAre, FS_Subset
  <2> HIDE DEF added, mine
  <2>5. ScopeKeys(sc) \cap added = {}
    BY <2>2
  <2>6. Cardinality(ScopeKeys(sc) \cup added) = Cardinality(ScopeKeys(sc)) + Cardinality(added)
    <3>1. Cardinality(ScopeKeys(sc) \cup added)
            = Cardinality(ScopeKeys(sc)) + Cardinality(added) - Cardinality(ScopeKeys(sc) \cap added)
      <4>1. IsFiniteSet(added) /\ IsFiniteSet(ScopeKeys(sc))
        BY <2>1, <2>4
      <4> QED
        BY <4>1, FS_Union
    <3>2. Cardinality(ScopeKeys(sc) \cap added) = 0
      BY <2>5, FS_EmptySet
    <3>3. Cardinality(ScopeKeys(sc)) \in Nat /\ Cardinality(added) \in Nat
      BY <2>1, <2>4, FS_CardinalityType
    <3> QED
      BY <3>1, <3>2, <3>3
  <2> QED
    BY <1>1, <2>1, <2>3, <2>6 DEF n
<1>13. next.matched = n
  BY <1>3
<1> HIDE DEF next, mine
<1>14. next \in Scopes
  BY <1>1, <1>5, <1>9, <1>11, <1>12, <1>13 DEF Scopes
<1> QED
  BY <1>11, <1>14 DEF next, mine

(* ExcludeInWord takes the documents of a word and counts them off.        *)
LEMMA WordExcludes ==
  ASSUME IndexOK, NEW sc \in Scopes, NEW s \in Segs, NEW w \in Nat, w < Len(sc.allowed[s]), NEW gone \in SUBSET Bits
  PROVE  /\ ExcludeInWord(sc, s, w, gone) \in Scopes
         /\ ScopeKeys(ExcludeInWord(sc, s, w, gone)) = ScopeKeys(sc) \ InWord(s, w, gone)
<1>1. sc \in Shapes /\ ScopeKeys(sc) \subseteq Keys /\ sc.matched = Cardinality(ScopeKeys(sc))
  BY DEF Scopes
<1> DEFINE old == sc.allowed[s][w + 1]
           dropped == old \cap gone
           new == old \ dropped
           n == sc.matched - Cardinality(dropped)
           next == ExcludeInWord(sc, s, w, gone)
           theirs == InWord(s, w, gone)
           less == InWord(s, w, dropped)
<1>2. old \in SUBSET Bits /\ new \in SUBSET Bits /\ dropped \in SUBSET Bits
  <2>1. sc.allowed[s] \in Seq(SUBSET Bits) /\ Len(sc.allowed[s]) \in Nat
    BY <1>1, ShapeIs
  <2>2. w + 1 \in 1 .. Len(sc.allowed[s])
    BY <2>1
  <2> QED
    BY <2>1, <2>2
<1>3. next = [allowed |-> [sc.allowed EXCEPT ![s][w + 1] = new], matched |-> n]
  BY DEF ExcludeInWord, WordAt
<1>4. n \in Int /\ sc.matched \in Int /\ Cardinality(dropped) \in Nat
  <2>1. sc.matched \in Int
    BY <1>1, ShapeIs
  <2>2. Cardinality(dropped) \in Nat
    BY <1>2, DocumentsOfWord
  <2> QED
    BY <2>1, <2>2
<1>x. \A b : /\ b \in dropped <=> b \in old /\ b \in gone
             /\ b \in new <=> b \in old /\ b \notin gone
  OBVIOUS
<1> HIDE DEF n, new, old, dropped
<1>5. next \in Shapes
      /\ \A key \in Segs \X Nat : key \in ScopeKeys(next) <=> IF key[1] = s /\ key[2] \div Width = w THEN key[2] % Width \in new
                                                              ELSE key \in ScopeKeys(sc)
  <2> DEFINE it == [allowed |-> [sc.allowed EXCEPT ![s][w + 1] = new], matched |-> n]
  <2>1. it \in Shapes
        /\ \A key \in Segs \X Nat : key \in ScopeKeys(it) <=> IF key[1] = s /\ key[2] \div Width = w THEN key[2] % Width \in new
                                                              ELSE key \in ScopeKeys(sc)
    BY <1>1, <1>2, <1>4, WordChanges
  <2>2. it = next
    BY <1>3
  <2> HIDE DEF it, next
  <2> QED
    BY <2>1, <2>2
<1>6. \A d \in Nat : /\ <<s, d>> \in ScopeKeys(sc) /\ d \div Width = w => d % Width \in old
                     /\ d \div Width = w /\ d % Width \in old => <<s, d>> \in ScopeKeys(sc)
  <2>1. sc.allowed[s] \in Seq(SUBSET Bits)
    BY <1>1, ShapeIs
  <2> QED
    BY <1>1, <2>1, ShapeIs, BitsAre DEF old
<1>7. ScopeKeys(next) \subseteq Segs \X Nat /\ ScopeKeys(sc) \subseteq Segs \X Nat
  BY DEF ScopeKeys
<1>8. \A d \in Nat : <<s, d>> \in theirs <=> d \div Width = w /\ d % Width \in gone
  BY DocumentsOfWord
<1>9. \A d \in Nat : <<s, d>> \in less <=> d \div Width = w /\ d % Width \in dropped
  BY <1>2, DocumentsOfWord
<1>10. ASSUME NEW key \in Segs \X Nat
       PROVE  /\ key \in ScopeKeys(next) <=> key \in ScopeKeys(sc) /\ key \notin theirs
              /\ key \in less <=> key \in ScopeKeys(sc) /\ key \in theirs
  <2>1. PICK r \in Segs, d \in Nat : key = <<r, d>>
    OBVIOUS
  <2>2. key[1] = r /\ key[2] = d /\ (r # s => key \notin theirs /\ key \notin less)
    BY <2>1 DEF InWord
  <2> HIDE DEF next, theirs, less
  <2>3. key \in ScopeKeys(next) <=> key \in ScopeKeys(sc) /\ key \notin theirs
    BY <1>5, <1>6, <1>8, <1>x, <2>1, <2>2
  <2>4. key \in less <=> key \in ScopeKeys(sc) /\ key \in theirs
    BY <1>6, <1>8, <1>9, <1>x, <2>1, <2>2
  <2> QED
    BY <2>3, <2>4
<1>11. ScopeKeys(next) = ScopeKeys(sc) \ theirs
  <2> HIDE DEF next, theirs, less
  <2> QED
    BY <1>7, <1>10
<1>12. less = ScopeKeys(sc) \cap theirs
  <2>1. less \subseteq Segs \X Nat
    <3>1. \A b \in dropped : w * Width + b \in Nat
      BY <1>2, DividedOnce
    <3> QED
      BY <3>1 DEF InWord
  <2> HIDE DEF next, theirs, less
  <2> QED
    BY <1>7, <1>10, <2>1
<1>13. n = Cardinality(ScopeKeys(sc) \ theirs)
  <2>1. IsFiniteSet(ScopeKeys(sc))
    BY <1>1, KeysAre, FS_Subset
  <2>2. Cardinality(less) = Cardinality(dropped)
    <3>1. IsFiniteSet(InWord(s, w, dropped))
          /\ Cardinality(InWord(s, w, dropped)) = Cardinality(dropped)
      BY <1>2, DocumentsOfWord
    <3> QED
      BY <3>1
  <2> HIDE DEF theirs, less
  <2>3. Cardinality(ScopeKeys(sc) \ theirs) = Cardinality(ScopeKeys(sc)) - Cardinality(ScopeKeys(sc) \cap theirs)
    BY <2>1, FS_Difference
  <2> QED
    BY <1>1, <1>12, <2>2, <2>3 DEF n
<1>14. next.matched = n
  BY <1>3
<1> HIDE DEF next, theirs, less
<1>15. next \in Scopes
  BY <1>1, <1>5, <1>11, <1>13, <1>14 DEF Scopes
<1> QED
  BY <1>11, <1>15 DEF next, theirs

(* The mask of a word holds its bits within the range, of first and last   *)
(* words too.                                                              *)
LEMMA MaskIs ==
  ASSUME NEW start \in Nat, NEW end \in Nat, start < end,
         NEW w \in Nat, start \div Width <= w, w < CeilDiv(end, Width)
  PROVE  /\ MaskIn(w, start, end) \in SUBSET Bits
         /\ \A b \in Bits : b \in MaskIn(w, start, end) <=> start <= w * Width + b /\ w * Width + b < end
<1> DEFINE lo == IF w = start \div Width THEN start % Width ELSE 0
           place == w * Width
           take == Min({Width - lo, end - (place + lo)})
           first == start \div Width
<1>1. Width \in Nat /\ Width > 0
  BY ScopeAssumption
<1>2. place \in Nat /\ place < end
  <2>1. place < end
    BY CeilDivIs
  <2> QED
    BY <1>1, <2>1
<1>3. first \in Nat /\ start % Width \in Bits /\ start = first * Width + (start % Width)
  BY Divided
<1>4. lo \in Nat /\ lo < Width
  BY <1>1, <1>3 DEF Bits
<1>5. w = first => place + lo = start
  BY <1>3
<1>6. w # first => lo = 0 /\ place >= start
  <2>1. ASSUME w # first PROVE lo = 0 /\ place >= start
    <3>1. first + 1 <= w
      BY <1>3, <2>1
    <3>2. (first + 1) * Width = first * Width + Width /\ first * Width \in Nat
      BY <1>1, <1>3
    <3>3. (first + 1) * Width <= w * Width
      BY <1>1, <1>3, <3>1
    <3>4. start < first * Width + Width
      BY <1>1, <1>3, <3>2 DEF Bits
    <3>5. lo = 0 /\ place = w * Width
      BY <2>1
    <3> HIDE DEF place, lo, first
    <3> QED
      BY <1>1, <1>2, <1>3, <3>2, <3>3, <3>4, <3>5
  <2> QED
    BY <2>1
<1>7. MaskIn(w, start, end) = lo .. lo + take - 1
  BY DEF MaskIn
<1> HIDE DEF lo, place, first
<1>8. take = IF Width - lo <= end - (place + lo) THEN Width - lo ELSE end - (place + lo)
  <2>1. Width - lo \in Int /\ end - (place + lo) \in Int
    BY <1>1, <1>2, <1>4
  <2> QED
    BY <2>1, MinOfTwo
<1> HIDE DEF take
<1>9. take \in Int /\ lo + take <= Width
  BY <1>1, <1>2, <1>4, <1>8
<1>10. lo .. lo + take - 1 \in SUBSET Bits
  BY <1>1, <1>4, <1>9 DEF Bits
<1>11. ASSUME NEW b \in Bits
       PROVE  b \in lo .. lo + take - 1 <=> start <= place + b /\ place + b < end
  <2>1. b \in Nat /\ b < Width
    BY <1>1, <1>11 DEF Bits
  <2>2. b >= lo <=> start <= place + b
    BY <1>2, <1>4, <1>5, <1>6, <2>1
  <2>3. b <= lo + take - 1 <=> place + b < end
    BY <1>1, <1>2, <1>4, <1>8, <2>1
  <2> QED
    BY <1>4, <1>9, <2>1, <2>2, <2>3
<1> QED
  BY <1>7, <1>10, <1>11 DEF place

(* AllowRange adds a run of documents, word by word, and counts the new    *)
(* ones.                                                                   *)
LEMMA RangeAllows ==
  ASSUME IndexOK, NEW sc \in Scopes, NEW s \in Segs, NEW start \in Nat, NEW len \in Nat \ {0},
         start + len <= Len(files[s])
  PROVE  /\ AllowRange(sc, s, start, len) \in Scopes
         /\ ScopeKeys(AllowRange(sc, s, start, len)) = ScopeKeys(sc) \cup In(s, start .. start + len - 1)
<1> DEFINE end == start + len
           first == start \div Width
           n == CeilDiv(end, Width) - first
           Mask(i) == MaskIn(first + i - 1, start, end)
           Mine(i) == InWord(s, first + i - 1, Mask(i))
           move == [x \in Scopes \X (1 .. n) |-> AllowInWord(x[1], s, first + x[2] - 1, Mask(x[2]))]
           Step(h) == [T \in SUBSET (1 .. n) |-> IF T = {} THEN sc
                         ELSE LET i == Max(T)
                              IN  AllowInWord(h[T \ {i}], s, first + Count(n)[i] - 1, MaskIn(first + Count(n)[i] - 1, start, end))]
           c == CHOOSE h : h = Step(h)
<1>1. end \in Nat /\ start < end /\ end - 1 \in Nat /\ len \in Nat /\ end <= Len(files[s]) /\ Len(files[s]) \in Nat
  BY KeysAre
<1>2. first \in Nat /\ CeilDiv(end, Width) \in Nat /\ first < CeilDiv(end, Width) /\ n \in Nat /\ n # 0
  <2>1. first \in Nat
    BY Divided
  <2>2. CeilDiv(end, Width) \in Nat /\ first < CeilDiv(end, Width)
    <3> HIDE DEF end, first
    <3>1. \A d \in Nat : d < end => d \div Width < CeilDiv(end, Width)
      BY <1>1, CeilDivIs
    <3>2. start \div Width < CeilDiv(end, Width)
      BY <1>1, <3>1
    <3> QED
      BY <1>1, <3>2, CeilDivIs DEF first
  <2> HIDE DEF end, first
  <2> QED
    BY <2>1, <2>2
<1>3. DOMAIN Count(n) = 1 .. n /\ \A i \in 1 .. n : Count(n)[i] = i
  BY DEF Count
<1>4. AllowRange(sc, s, start, len) = c[1 .. n]
  BY <1>3 DEF AllowRange, FoldLeft, MapThenFoldSet
<1> HIDE DEF end, first, n
<1>5. ASSUME NEW i \in 1 .. n
      PROVE  /\ first + i - 1 \in Nat /\ first <= first + i - 1 /\ first + i - 1 < CeilDiv(end, Width)
             /\ Mask(i) \in SUBSET Bits
             /\ \A d \in Nat : <<s, d>> \in Mine(i) <=> start <= d /\ d < end /\ d \div Width = first + i - 1
             /\ Mine(i) \subseteq Keys /\ \A key \in Mine(i) : \E d \in Nat : key = <<s, d>>
  <2>1. first + i - 1 \in Nat /\ first <= first + i - 1 /\ first + i - 1 < CeilDiv(end, Width)
    BY <1>2 DEF n
  <2> DEFINE w == first + i - 1
  <2>2. /\ MaskIn(w, start, end) \in SUBSET Bits
        /\ \A b \in Bits : b \in MaskIn(w, start, end) <=> start <= w * Width + b /\ w * Width + b < end
    <3>1. w \in Nat /\ start \div Width <= w /\ w < CeilDiv(end, Width)
      BY <2>1 DEF first
    <3> HIDE DEF w
    <3> QED
      BY <1>1, <3>1, MaskIs
  <2>3. w \in Nat
    BY <2>1
  <2> HIDE DEF w
  <2>4. \A d \in Nat : <<s, d>> \in InWord(s, w, MaskIn(w, start, end)) <=> d \div Width = w /\ d % Width \in MaskIn(w, start, end)
    BY <2>2, <2>3, DocumentsOfWord
  <2>5. ASSUME NEW d \in Nat
        PROVE  <<s, d>> \in InWord(s, w, MaskIn(w, start, end)) <=> start <= d /\ d < end /\ d \div Width = w
    <3>1. d % Width \in Bits /\ d = ((d \div Width) * Width) + (d % Width)
      BY Divided
    <3>2. d \div Width = w => (d % Width \in MaskIn(w, start, end) <=> start <= d /\ d < end)
      BY <2>2, <3>1
    <3> QED
      BY <2>4, <3>2
  <2>6. InWord(s, w, MaskIn(w, start, end)) \subseteq Keys /\ \A key \in InWord(s, w, MaskIn(w, start, end)) : \E d \in Nat : key = <<s, d>>
    <3>1. \A key \in InWord(s, w, MaskIn(w, start, end)) : \E d \in Nat : key = <<s, d>>
      <4>1. \A b \in Bits : w * Width + b \in Nat
        BY <2>3, DividedOnce
      <4> QED
        BY <2>2, <4>1 DEF InWord
    <3>2. \A d \in Nat : d < end => <<s, d>> \in Keys
      BY <1>1, KeysAre
    <3> QED
      BY <2>5, <3>1, <3>2
  <2> QED
    BY <2>1, <2>2, <2>5, <2>6 DEF w
<1>6. ASSUME NEW g \in Scopes, NEW i \in 1 .. n
      PROVE  /\ AllowInWord(g, s, first + i - 1, Mask(i)) \in Scopes
             /\ ScopeKeys(AllowInWord(g, s, first + i - 1, Mask(i))) = ScopeKeys(g) \cup Mine(i)
  <2> DEFINE w == first + i - 1
             M == Mask(i)
  <2>1. w \in Nat /\ w < CeilDiv(end, Width) /\ M \in SUBSET Bits /\ InWord(s, w, M) \subseteq Keys
    BY <1>5
  <2>2. w < Len(g.allowed[s])
    <3>1. Len(g.allowed[s]) = CeilDiv(Len(files[s]), Width) /\ Len(g.allowed[s]) \in Nat
      BY ShapeIs DEF Scopes
    <3>2. w * Width < end
      <4> HIDE DEF w
      <4> QED
        BY <1>1, <2>1, CeilDivIs
    <3>3. Width \in Nat /\ Width > 0
      BY ScopeAssumption
    <3> HIDE DEF w
    <3>4. w * Width \in Nat /\ w * Width < Len(files[s])
      BY <1>1, <2>1, <3>2, <3>3
    <3>5. (w * Width + 0) \div Width = w /\ 0 \in Bits
      <4>1. 0 \in Bits
        BY <3>3 DEF Bits
      <4> QED
        BY <2>1, <4>1, DividedOnce
    <3>6. w * Width + 0 = w * Width
      BY <3>4
    <3>7. (w * Width) \div Width < CeilDiv(Len(files[s]), Width)
      BY <1>1, <3>4, CeilDivIs
    <3> QED
      BY <3>1, <3>5, <3>6, <3>7
  <2>3. \A b \in M : <<s, w * Width + b>> \in Keys
    BY <2>1 DEF InWord
  <2> HIDE DEF w, M
  <2>4. AllowInWord(g, s, w, M) \in Scopes /\ ScopeKeys(AllowInWord(g, s, w, M)) = ScopeKeys(g) \cup InWord(s, w, M)
    BY <2>1, <2>2, <2>3, WordAllows
  <2> QED
    BY <2>4 DEF w, M
<1>7. move \in FoldSteps(Scopes, n) /\ \A g \in Scopes, i \in 1 .. n : move[<<g, i>>] = AllowInWord(g, s, first + i - 1, Mask(i))
  <2> HIDE DEF Mask
  <2> QED
    BY <1>6 DEF FoldSteps
<1> HIDE DEF move, Mask
<1>8. c = Step(c)
  <2>1. PICK f \in [SUBSET (1 .. n) -> Scopes] : FoldOf(f, n, sc, move)
    BY <1>2, <1>7, FoldExists
  <2>2. \A T \in SUBSET (1 .. n) : T # {} => Max(T) \in 1 .. n
    BY <1>2, GreatestUpTo
  <2>3. ASSUME NEW T \in SUBSET (1 .. n)
        PROVE  f[T] = IF T = {} THEN sc
                      ELSE AllowInWord(f[T \ {Max(T)}], s, first + Count(n)[Max(T)] - 1,
                                       MaskIn(first + Count(n)[Max(T)] - 1, start, end))
    <3>1. f[T] = IF T = {} THEN sc ELSE move[<<f[T \ {Max(T)}], Max(T)>>]
      BY <2>1 DEF FoldOf
    <3>2. T # {} => f[T \ {Max(T)}] \in Scopes /\ Max(T) \in 1 .. n /\ Count(n)[Max(T)] = Max(T)
      BY <1>3, <2>2
    <3> QED
      BY <1>7, <3>1, <3>2 DEF Mask
  <2>4. f = Step(f)
    BY <2>3
  <2> HIDE DEF Step
  <2> QED
    BY <2>4
<1> HIDE DEF c
<1>9. FoldsAs(c, n, Scopes, sc, move)
  <2>1. c[{}] = sc
    BY <1>8
  <2>2. ASSUME NEW T \in SUBSET (1 .. n), T # {}, c[T \ {Max(T)}] \in Scopes
        PROVE  c[T] = move[<<c[T \ {Max(T)}], Max(T)>>]
    <3>1. Max(T) \in 1 .. n /\ Count(n)[Max(T)] = Max(T)
      BY <1>2, <1>3, <2>2, GreatestUpTo
    <3>2. c[T] = AllowInWord(c[T \ {Max(T)}], s, first + Count(n)[Max(T)] - 1, MaskIn(first + Count(n)[Max(T)] - 1, start, end))
      BY <1>8, <2>2
    <3> QED
      BY <1>7, <2>2, <3>1, <3>2 DEF Mask
  <2> HIDE DEF Step
  <2> QED
    BY <2>1, <2>2 DEF FoldsAs
<1> HIDE DEF Step, c
<1>10. PICK g : GoesUp(g, n, Scopes, sc, move) /\ g[n] = c[1 .. n]
  BY <1>2, <1>7, <1>9, FoldGoesUp
<1>a. g \in [0 .. n -> Scopes] /\ g[0] = sc /\ \A i \in 1 .. n : g[i - 1] \in Scopes /\ g[i] = move[<<g[i - 1], i>>]
  BY <1>10 DEF GoesUp
<1> DEFINE Mines(m) == {<<s, d>> : d \in {e \in start .. end - 1 : e \div Width < first + m}}
           G == {m \in 0 .. n : ScopeKeys(g[m]) = ScopeKeys(sc) \cup Mines(m)}
<1>11. \A e \in start .. end - 1 : e \in Nat /\ e \div Width \in Nat /\ first <= e \div Width /\ e \div Width < CeilDiv(end, Width)
  <2> SUFFICES ASSUME NEW e \in start .. end - 1
               PROVE  e \in Nat /\ e \div Width \in Nat /\ first <= e \div Width /\ e \div Width < CeilDiv(end, Width)
    OBVIOUS
  <2>1. e \in Nat /\ e < end /\ start <= e
    BY <1>1
  <2>2. e \div Width \in Nat /\ e \div Width < CeilDiv(end, Width)
    BY <1>1, <2>1, CeilDivIs, Divided
  <2>3. first <= e \div Width
    <3>1. CASE e \div Width < first
      <4>1. e < first * Width /\ first * Width \in Nat
        BY <1>2, <2>1, <3>1, DividedBelow
      <4>2. ~(start < first * Width)
        <5>1. ~(start \div Width < first)
          BY <1>2 DEF first
        <5> QED
          BY <1>2, <5>1, DividedBelow
      <4> QED
        BY <1>1, <2>1, <4>1, <4>2
    <3> QED
      BY <1>2, <2>2, <3>1
  <2> QED
    BY <2>1, <2>2, <2>3
<1>12. 0 \in G
  <2>1. Mines(0) = {}
    BY <1>2, <1>11
  <2> QED
    BY <1>2, <1>a, <2>1
<1>13. ASSUME NEW m \in 0 .. n - 1, m \in G
       PROVE  m + 1 \in G
  <2>1. m + 1 \in 1 .. n /\ m + 1 \in 0 .. n /\ (m + 1) - 1 = m /\ m \in Nat /\ m \in 0 .. n
    BY <1>2
  <2>2. g[m] \in Scopes /\ g[m + 1] = AllowInWord(g[m], s, first + (m + 1) - 1, Mask(m + 1))
    BY <1>7, <1>a, <2>1
  <2>3. ScopeKeys(g[m + 1]) = ScopeKeys(g[m]) \cup Mine(m + 1)
    BY <1>6, <2>1, <2>2
  <2>4. Mines(m + 1) = Mines(m) \cup Mine(m + 1)
    <3>1. first + (m + 1) - 1 = first + m
      BY <1>2, <2>1
    <3>2. \A d \in Nat : <<s, d>> \in Mine(m + 1) <=> d \in start .. end - 1 /\ d \div Width = first + m
      BY <1>1, <1>5, <2>1, <3>1
    <3>3. \A key \in Mine(m + 1) : \E d \in Nat : key = <<s, d>>
      BY <1>5, <2>1
    <3>4. \A d \in start .. end - 1 : d \div Width < first + (m + 1) <=> d \div Width < first + m \/ d \div Width = first + m
      BY <1>2, <1>11, <2>1
    <3> HIDE DEF Mine
    <3> QED
      BY <1>11, <3>2, <3>3, <3>4
  <2> HIDE DEF Mines, Mine
  <2>5. ScopeKeys(g[m]) = ScopeKeys(sc) \cup Mines(m)
    BY <1>13
  <2> QED
    BY <2>1, <2>3, <2>4, <2>5
<1> HIDE DEF G
<1>14. n \in G
  <2>1. n \in Nat
    BY <1>2
  <2>2. \A m \in 0 .. n : m \in G
    BY <1>12, <1>13, <2>1, CountedUp
  <2> QED
    BY <2>1, <2>2
<1>15. ScopeKeys(g[n]) = ScopeKeys(sc) \cup Mines(n)
  BY <1>14 DEF G
<1>16. Mines(n) = In(s, start .. end - 1)
  <2>1. \A e \in start .. end - 1 : e \div Width < first + n
    BY <1>2, <1>11 DEF n
  <2> QED
    BY <2>1 DEF In
<1>17. g[n] \in Scopes /\ g[n] = AllowRange(sc, s, start, len)
  BY <1>2, <1>4, <1>10, <1>a
<1> QED
  BY <1>15, <1>16, <1>17 DEF end

(* Exclude takes what is tombstoned from one segment, and nothing else.    *)
LEMMA TombstonesExclude ==
  ASSUME IndexOK, NEW sc \in Scopes, NEW s \in Segs, NEW dead \in Seq(SUBSET Bits)
  PROVE  /\ Exclude(sc, s, dead) \in Scopes
         /\ ScopeKeys(Exclude(sc, s, dead)) = {key \in ScopeKeys(sc) : ~(key[1] = s /\ BitIsSet(dead, key[2]))}
<1> DEFINE n == Min({Len(sc.allowed[s]), Len(dead)})
           V == {x \in Scopes : Len(x.allowed[s]) = Len(sc.allowed[s])}
           move == [x \in V \X (1 .. n) |-> ExcludeInWord(x[1], s, x[2] - 1, dead[x[2]])]
           Step(h) == [T \in SUBSET (1 .. n) |-> IF T = {} THEN sc
                         ELSE LET i == Max(T)
                              IN  ExcludeInWord(h[T \ {i}], s, Count(n)[i] - 1, dead[Count(n)[i]])]
           c == CHOOSE h : h = Step(h)
<1>1. Len(sc.allowed[s]) \in Nat /\ Len(dead) \in Nat /\ sc \in V /\ sc \in Shapes
  BY ShapeIs DEF Scopes
<1>2. n \in Nat /\ n <= Len(sc.allowed[s]) /\ n <= Len(dead) /\ (n = Len(sc.allowed[s]) \/ n = Len(dead))
  <2>1. n = IF Len(sc.allowed[s]) <= Len(dead) THEN Len(sc.allowed[s]) ELSE Len(dead)
    BY <1>1, MinOfTwo
  <2> HIDE DEF n
  <2> QED
    BY <1>1, <2>1
<1>3. DOMAIN Count(n) = 1 .. n /\ \A i \in 1 .. n : Count(n)[i] = i
  BY DEF Count
<1>4. Exclude(sc, s, dead) = c[1 .. n]
  BY <1>3 DEF Exclude, FoldLeft, MapThenFoldSet
<1> HIDE DEF n
<1>5. \A i \in 1 .. n : i - 1 \in Nat /\ i - 1 < Len(sc.allowed[s]) /\ dead[i] \in SUBSET Bits
  <2>1. \A i \in 1 .. n : i - 1 \in Nat /\ i - 1 < Len(sc.allowed[s]) /\ i \in 1 .. Len(dead)
    BY <1>1, <1>2
  <2> QED
    BY <2>1
<1>6. ASSUME NEW g \in V, NEW i \in 1 .. n
      PROVE  /\ ExcludeInWord(g, s, i - 1, dead[i]) \in V
             /\ ScopeKeys(ExcludeInWord(g, s, i - 1, dead[i])) = ScopeKeys(g) \ InWord(s, i - 1, dead[i])
  <2>1. g \in Scopes /\ Len(g.allowed[s]) = Len(sc.allowed[s]) /\ g \in Shapes
    BY DEF Scopes
  <2>2. i - 1 \in Nat /\ i - 1 < Len(g.allowed[s]) /\ dead[i] \in SUBSET Bits
    BY <1>5, <2>1
  <2> DEFINE w == i - 1
             gone == dead[i]
  <2>3. w \in Nat /\ w < Len(g.allowed[s]) /\ gone \in SUBSET Bits
    BY <2>2
  <2> HIDE DEF w, gone
  <2>4. /\ ExcludeInWord(g, s, w, gone) \in Scopes
        /\ ScopeKeys(ExcludeInWord(g, s, w, gone)) = ScopeKeys(g) \ InWord(s, w, gone)
    BY <2>1, <2>3, WordExcludes
  <2>5. Len(ExcludeInWord(g, s, w, gone).allowed[s]) = CeilDiv(Len(files[s]), Width)
        /\ Len(sc.allowed[s]) = CeilDiv(Len(files[s]), Width)
    BY <1>1, <2>4, ShapeIs DEF Scopes
  <2> QED
    BY <2>4, <2>5 DEF w, gone
<1>7. move \in FoldSteps(V, n) /\ \A g \in V, i \in 1 .. n : move[<<g, i>>] = ExcludeInWord(g, s, i - 1, dead[i])
  <2> HIDE DEF V
  <2> QED
    BY <1>6 DEF FoldSteps
<1> HIDE DEF move
<1>8. c = Step(c)
  <2> HIDE DEF V
  <2>1. PICK f \in [SUBSET (1 .. n) -> V] : FoldOf(f, n, sc, move)
    BY <1>1, <1>2, <1>7, FoldExists
  <2>2. \A T \in SUBSET (1 .. n) : T # {} => Max(T) \in 1 .. n
    BY <1>2, GreatestUpTo
  <2>3. ASSUME NEW T \in SUBSET (1 .. n)
        PROVE  f[T] = IF T = {} THEN sc
                      ELSE ExcludeInWord(f[T \ {Max(T)}], s, Count(n)[Max(T)] - 1, dead[Count(n)[Max(T)]])
    <3>1. f[T] = IF T = {} THEN sc ELSE move[<<f[T \ {Max(T)}], Max(T)>>]
      BY <2>1 DEF FoldOf
    <3>2. T # {} => f[T \ {Max(T)}] \in V /\ Max(T) \in 1 .. n /\ Count(n)[Max(T)] = Max(T)
      BY <1>3, <2>2
    <3> QED
      BY <1>7, <3>1, <3>2
  <2>4. f = Step(f)
    BY <2>3
  <2> HIDE DEF Step
  <2> QED
    BY <2>4
<1> HIDE DEF c
<1>9. FoldsAs(c, n, V, sc, move)
  <2> HIDE DEF V
  <2>1. c[{}] = sc
    BY <1>8
  <2>2. ASSUME NEW T \in SUBSET (1 .. n), T # {}, c[T \ {Max(T)}] \in V
        PROVE  c[T] = move[<<c[T \ {Max(T)}], Max(T)>>]
    <3>1. Max(T) \in 1 .. n /\ Count(n)[Max(T)] = Max(T)
      BY <1>2, <1>3, <2>2, GreatestUpTo
    <3>2. c[T] = ExcludeInWord(c[T \ {Max(T)}], s, Count(n)[Max(T)] - 1, dead[Count(n)[Max(T)]])
      BY <1>8, <2>2
    <3> QED
      BY <1>7, <2>2, <3>1, <3>2
  <2> HIDE DEF Step
  <2> QED
    BY <2>1, <2>2 DEF FoldsAs
<1> HIDE DEF Step
<1>10. PICK g : GoesUp(g, n, V, sc, move) /\ g[n] = c[1 .. n]
  <2> HIDE DEF V
  <2> QED
    BY <1>1, <1>2, <1>7, <1>9, FoldGoesUp
<1>11. g \in [0 .. n -> V] /\ g[0] = sc /\ \A i \in 1 .. n : g[i - 1] \in V /\ g[i] = move[<<g[i - 1], i>>]
  BY <1>10 DEF GoesUp
<1> DEFINE Less(m) == {key \in ScopeKeys(sc) : ~(key[1] = s /\ key[2] \div Width < m /\ BitIsSet(dead, key[2]))}
           G == {m \in 0 .. n : ScopeKeys(g[m]) = Less(m)}
<1>12. ScopeKeys(sc) \subseteq Segs \X Nat
  BY DEF ScopeKeys
<1>13. 0 \in G
  <2>1. \A d \in Nat : ~(d \div Width < 0)
    BY Divided
  <2>2. Less(0) = ScopeKeys(sc)
    BY <1>12, <2>1
  <2> QED
    BY <1>2, <1>11, <2>2
<1>14. ASSUME NEW m \in 0 .. n - 1, m \in G
       PROVE  m + 1 \in G
  <2>1. m + 1 \in 1 .. n /\ m + 1 \in 0 .. n /\ (m + 1) - 1 = m /\ m \in Nat /\ m \in 0 .. n /\ m < Len(dead)
    BY <1>1, <1>2
  <2>2. g[m] \in V /\ g[m + 1] = ExcludeInWord(g[m], s, (m + 1) - 1, dead[m + 1])
    BY <1>7, <1>11, <2>1
  <2>3. ScopeKeys(g[m + 1]) = ScopeKeys(g[m]) \ InWord(s, (m + 1) - 1, dead[m + 1])
    BY <1>6, <2>1, <2>2
  <2>4. ScopeKeys(g[m + 1]) = ScopeKeys(g[m]) \ InWord(s, m, dead[m + 1])
    BY <2>1, <2>3
  <2>5. \A d \in Nat : <<s, d>> \in InWord(s, m, dead[m + 1]) <=> d \div Width = m /\ d % Width \in dead[m + 1]
    BY <1>5, <2>1, DocumentsOfWord
  <2>6. \A d \in Nat : d \div Width = m => (BitIsSet(dead, d) <=> d % Width \in dead[m + 1])
    BY <2>1, BitsAre
  <2>7. \A d \in Nat : d \div Width < m + 1 <=> d \div Width < m \/ d \div Width = m
    <3>1. \A q \in Nat : q < m + 1 <=> q < m \/ q = m
      BY <2>1
    <3>2. \A d \in Nat : d \div Width \in Nat
      BY Divided
    <3> QED
      BY <3>1, <3>2
  <2>8. Less(m + 1) = Less(m) \ InWord(s, m, dead[m + 1])
    <3> SUFFICES ASSUME NEW key \in ScopeKeys(sc) PROVE key \in Less(m + 1) <=> key \in Less(m) /\ key \notin InWord(s, m, dead[m + 1])
      OBVIOUS
    <3>1. PICK r \in Segs, d \in Nat : key = <<r, d>>
      BY <1>12
    <3>2. key[1] = r /\ key[2] = d /\ (r # s => key \notin InWord(s, m, dead[m + 1]))
      BY <3>1 DEF InWord
    <3>3. key \in InWord(s, m, dead[m + 1]) <=> r = s /\ d \div Width = m /\ BitIsSet(dead, d)
      BY <2>5, <2>6, <3>1, <3>2
    <3> QED
      BY <2>7, <3>1, <3>2, <3>3
  <2>9. ScopeKeys(g[m]) = Less(m)
    BY <1>14
  <2> HIDE DEF Less
  <2> QED
    BY <2>1, <2>4, <2>8, <2>9
<1> HIDE DEF G
<1>15. n \in G
  <2>1. n \in Nat
    BY <1>2
  <2>2. \A m \in 0 .. n : m \in G
    BY <1>13, <1>14, <2>1, CountedUp
  <2> QED
    BY <2>1, <2>2
<1>16. ScopeKeys(g[n]) = Less(n)
  BY <1>15 DEF G
<1>17. Less(n) = {key \in ScopeKeys(sc) : ~(key[1] = s /\ BitIsSet(dead, key[2]))}
  <2> SUFFICES ASSUME NEW key \in ScopeKeys(sc), key[1] = s, BitIsSet(dead, key[2]) PROVE key[2] \div Width < n
    OBVIOUS
  <2>1. PICK d \in Nat : key = <<s, d>> /\ key[2] = d
    BY <1>12
  <2>2. d \div Width < Len(dead)
    BY <2>1, BitsAre
  <2>3. BitIsSet(sc.allowed[s], d)
    BY <1>1, <2>1, ShapeIs
  <2>4. d \div Width < Len(sc.allowed[s])
    <3>1. sc.allowed[s] \in Seq(SUBSET Bits)
      BY <1>1, ShapeIs
    <3> QED
      BY <2>3, <3>1, BitsAre
  <2> QED
    BY <1>2, <2>1, <2>2, <2>4
<1>18. g[n] \in Scopes /\ g[n] = Exclude(sc, s, dead)
  BY <1>2, <1>4, <1>10, <1>11
<1> QED
  BY <1>16, <1>17, <1>18

-----------------------------------------------------------------------------
(* Runs.                                                                   *)

Runs == {r \in [seg : Segs, file : Paths, first : Nat, len : Nat \ {0}] : r.first + r.len <= Len(files[r.seg])}
RunKeys(r) == In(r.seg, r.first .. r.first + r.len - 1)
Covered(runs) == UNION {RunKeys(runs[i]) : i \in 1 .. Len(runs)}

(* A run is of documents.                                                  *)
LEMMA RunsAreKeys ==
  ASSUME IndexOK, NEW r \in Runs
  PROVE  RunKeys(r) \subseteq Keys
<1>1. r.seg \in Segs /\ r.first \in Nat /\ r.len \in Nat \ {0} /\ r.first + r.len <= Len(files[r.seg]) /\ Len(files[r.seg]) \in Nat
  BY KeysAre DEF Runs
<1>2. \A d \in r.first .. r.first + r.len - 1 : d \in Nat /\ d < Len(files[r.seg])
  BY <1>1
<1> QED
  BY <1>1, <1>2, KeysAre DEF RunKeys, In

(* A range and the one that follows it.                                    *)
LEMMA RangeGrows ==
  ASSUME NEW a \in Nat, NEW l \in Nat, NEW m \in Nat \ {0}
  PROVE  a .. a + (l + m) - 1 = (a .. a + l - 1) \cup (a + l .. a + l + m - 1)
OBVIOUS

(* A sequence with another last element.                                   *)
LEMMA LastPut ==
  ASSUME NEW V, NEW runs \in Seq(V), runs # <<>>, NEW r \in V, NEW new, new = [runs EXCEPT ![Len(runs)] = r]
  PROVE  /\ new \in Seq(V) /\ Len(new) = Len(runs) /\ new[Len(runs)] = r
         /\ \A i \in 1 .. Len(runs) : i # Len(runs) => new[i] = runs[i]
<1> DEFINE n == Len(runs)
           put == [runs EXCEPT ![n] = r]
<1>1. n \in Nat \ {0} /\ runs \in [1 .. n -> V]
  BY EmptySeq
<1>2. new = put
  OBVIOUS
<1> HIDE DEF n
<1>3. n \in 1 .. n
  BY <1>1
<1>4. put \in [1 .. n -> V] /\ put[n] = r /\ \A i \in 1 .. n : i # n => put[i] = runs[i]
  BY <1>1, <1>3
<1> HIDE DEF put
<1>5. put \in Seq(V) /\ Len(put) = n
  BY <1>1, <1>4
<1> QED
  BY <1>2, <1>4, <1>5 DEF n

(* The last run grows by what follows it.                                  *)
LEMMA LastGrows ==
  ASSUME NEW V, V \subseteq Runs, NEW runs \in Seq(V), runs # <<>>, NEW m \in Nat \ {0},
         NEW new \in Seq(V), Len(new) = Len(runs), \A i \in 1 .. Len(runs) : i # Len(runs) => new[i] = runs[i],
         NEW last, last = runs[Len(runs)], NEW grown, grown = new[Len(runs)],
         grown.seg = last.seg, grown.first = last.first, grown.len = last.len + m
  PROVE  Covered(new) = Covered(runs) \cup In(last.seg, last.first + last.len .. last.first + last.len + m - 1)
<1> DEFINE n == Len(runs)
           end == last.first + last.len
<1>1. n \in Nat \ {0} /\ n \in 1 .. n /\ last = runs[n] /\ last \in V
  <2>1. n \in Nat \ {0} /\ DOMAIN runs = 1 .. n
    BY EmptySeq
  <2> HIDE DEF n
  <2>2. n \in 1 .. n
    BY <2>1
  <2> QED
    BY <2>1, <2>2 DEF n
<1>2. last \in Runs /\ last.first \in Nat /\ last.len \in Nat \ {0}
  BY <1>1 DEF Runs
<1>3. new[n] = grown /\ \A i \in 1 .. n : i # n => new[i] = runs[i]
  OBVIOUS
<1>4. Len(new) = n
  OBVIOUS
<1> HIDE DEF n
<1>5. RunKeys(grown) = RunKeys(last) \cup In(last.seg, end .. end + m - 1)
  <2> DEFINE a == last.first
             l == last.len
  <2>1. a \in Nat /\ l \in Nat
    BY <1>2
  <2>2. grown.first .. grown.first + grown.len - 1 = a .. a + (l + m) - 1 /\ grown.seg = last.seg
    OBVIOUS
  <2> HIDE DEF a, l
  <2>3. a .. a + (l + m) - 1 = (a .. a + l - 1) \cup (a + l .. a + l + m - 1)
    BY <2>1, RangeGrows
  <2> QED
    BY <2>2, <2>3 DEF RunKeys, In, a, l
<1>6. Covered(new) = UNION {RunKeys(new[i]) : i \in 1 .. n} /\ Covered(runs) = UNION {RunKeys(runs[i]) : i \in 1 .. n}
  BY <1>4 DEF Covered, n
<1> HIDE DEF end
<1>7. \A i \in 1 .. n : RunKeys(new[i]) \subseteq Covered(runs) \cup In(last.seg, end .. end + m - 1)
  <2> SUFFICES ASSUME NEW i \in 1 .. n PROVE RunKeys(new[i]) \subseteq Covered(runs) \cup In(last.seg, end .. end + m - 1)
    OBVIOUS
  <2>1. RunKeys(runs[i]) \subseteq Covered(runs)
    BY <1>6
  <2> QED
    BY <1>1, <1>3, <1>5, <2>1
<1>8. \A i \in 1 .. n : RunKeys(runs[i]) \subseteq Covered(new)
  <2> SUFFICES ASSUME NEW i \in 1 .. n PROVE RunKeys(runs[i]) \subseteq Covered(new)
    OBVIOUS
  <2>1. RunKeys(new[i]) \subseteq Covered(new)
    BY <1>6
  <2> QED
    BY <1>1, <1>3, <1>5, <2>1
<1>9. In(last.seg, end .. end + m - 1) \subseteq Covered(new)
  BY <1>1, <1>3, <1>5, <1>6
<1>10. Covered(new) = Covered(runs) \cup In(last.seg, end .. end + m - 1)
  <2>1. ASSUME NEW key \in Covered(new)
        PROVE  key \in Covered(runs) \cup In(last.seg, end .. end + m - 1)
    <3>1. PICK i \in 1 .. n : key \in RunKeys(new[i])
      BY <1>6
    <3> QED
      BY <1>7, <3>1
  <2>2. ASSUME NEW key \in Covered(runs)
        PROVE  key \in Covered(new)
    <3>1. PICK i \in 1 .. n : key \in RunKeys(runs[i])
      BY <1>6
    <3> QED
      BY <1>8, <3>1
  <2> QED
    BY <1>9, <2>1, <2>2
<1> QED
  BY <1>10, Zenon DEF end

(* A run is put behind the others.                                         *)
LEMMA RunAppends ==
  ASSUME NEW V, NEW runs \in Seq(V), NEW r \in V
  PROVE  Append(runs, r) \in Seq(V) /\ Covered(Append(runs, r)) = Covered(runs) \cup RunKeys(r)
<1> DEFINE n == Len(runs)
           new == Append(runs, r)
<1>1. new \in Seq(V) /\ Len(new) = n + 1 /\ n \in Nat /\ new[n + 1] = r /\ \A i \in 1 .. n : new[i] = runs[i]
  OBVIOUS
<1>2. Covered(new) = UNION {RunKeys(new[i]) : i \in 1 .. n + 1} /\ Covered(runs) = UNION {RunKeys(runs[i]) : i \in 1 .. n}
  BY <1>1 DEF Covered
<1> HIDE DEF n, new
<1>3. 1 .. n + 1 = (1 .. n) \cup {n + 1}
  BY <1>1
<1>4. Covered(new) = (UNION {RunKeys(new[i]) : i \in 1 .. n}) \cup RunKeys(r)
  BY <1>1, <1>2, <1>3
<1>5. UNION {RunKeys(new[i]) : i \in 1 .. n} = UNION {RunKeys(runs[i]) : i \in 1 .. n}
  BY <1>1
<1> QED
  BY <1>1, <1>2, <1>4, <1>5 DEF new

(* Runs whose documents are of their file.                                 *)
OwnRuns == {r \in Runs : \A key \in RunKeys(r) : FileOf(key) = r.file}

(* Extend adds one document, to the last run or as a run of its own.       *)
LEMMA ExtendKeeps ==
  ASSUME IndexOK, NEW s \in Segs, NEW d \in Local(s), NEW runs \in Seq({r \in OwnRuns : r.seg = s})
  PROVE  /\ Extend(runs, s, files[s][d + 1], d) \in Seq({r \in OwnRuns : r.seg = s})
         /\ Covered(Extend(runs, s, files[s][d + 1], d)) = Covered(runs) \cup {<<s, d>>}
<1> DEFINE V == {r \in OwnRuns : r.seg = s}
           f == files[s][d + 1]
           one == Run(s, f, d, 1)
           last == Last(runs)
           grown == [last EXCEPT !.len = @ + 1]
<1>1. d \in Nat /\ d < Len(files[s]) /\ Len(files[s]) \in Nat /\ f \in Paths /\ FileOf(<<s, d>>) = f
  <2>1. Len(files[s]) \in Nat
    BY KeysAre
  <2>2. d \in Nat /\ d < Len(files[s])
    BY <2>1 DEF Local
  <2>3. files[s] \in Seq(Paths)
    BY DEF IndexOK, Segs
  <2>4. d + 1 \in 1 .. Len(files[s])
    BY <2>1, <2>2
  <2> QED
    BY <2>1, <2>2, <2>3, <2>4 DEF FileOf
<1>2. V \subseteq Runs /\ runs \in Seq(V)
  BY DEF OwnRuns
<1>3. CASE runs # <<>> /\ last.file = f /\ last.first + last.len = d
  <2>1. last \in V
    <3>1. Len(runs) \in 1 .. Len(runs)
      BY <1>3, EmptySeq
    <3> QED
      BY <1>2, <3>1 DEF Last
  <2>2. /\ last = [seg |-> s, file |-> f, first |-> last.first, len |-> last.len] /\ last.first \in Nat /\ last.len \in Nat \ {0}
        /\ \A key \in RunKeys(last) : FileOf(key) = f
    BY <1>3, <2>1 DEF OwnRuns, Runs
  <2>3. grown = [seg |-> s, file |-> f, first |-> last.first, len |-> last.len + 1]
    <3> HIDE DEF last
    <3> QED
      BY <2>2
  <2>4. grown \in Runs
    <3>1. last.len + 1 \in Nat \ {0} /\ last.first + (last.len + 1) <= Len(files[s])
      BY <1>1, <1>3, <2>2
    <3> HIDE DEF last, grown, f
    <3> QED
      BY <1>1, <2>2, <2>3, <3>1 DEF Runs
  <2>5. ASSUME NEW key \in RunKeys(grown) PROVE FileOf(key) = f
    <3>1. PICK e \in last.first .. last.first + (last.len + 1) - 1 : key = <<s, e>>
      BY <2>3 DEF RunKeys, In
    <3>2. CASE e = d
      BY <1>1, <3>1, <3>2
    <3>3. CASE e # d
      <4>1. e \in last.first .. last.first + last.len - 1
        <5>1. last.first + last.len = d /\ last.first \in Nat /\ last.len \in Nat
          BY <1>3, <2>2
        <5> HIDE DEF last
        <5> QED
          BY <1>1, <3>3, <5>1
      <4>2. key \in RunKeys(last)
        BY <2>2, <3>1, <4>1 DEF RunKeys, In
      <4> QED
        BY <2>2, <4>2
    <3> QED
      BY <3>2, <3>3
  <2>6. grown \in V
    BY <2>3, <2>4, <2>5 DEF OwnRuns
  <2>7. Extend(runs, s, f, d) = [runs EXCEPT ![Len(runs)].len = @ + 1]
    BY <1>3 DEF Extend
  <2> DEFINE end == last.first + last.len
             new == [runs EXCEPT ![Len(runs)].len = @ + 1]
  <2>8. new \in Seq(V) /\ Covered(new) = Covered(runs) \cup In(last.seg, end .. end + 1 - 1)
    <3>1. grown.seg = last.seg /\ grown.first = last.first /\ grown.len = last.len + 1
      <4> HIDE DEF last
      <4> QED
        BY <2>2, <2>3
    <3>2. new = [runs EXCEPT ![Len(runs)] = grown]
      BY DEF Last
    <3>3. last = runs[Len(runs)] /\ runs # <<>> /\ 1 \in Nat \ {0}
      BY <1>3 DEF Last
    <3> HIDE DEF V, last, grown, new
    <3>4. /\ new \in Seq(V) /\ Len(new) = Len(runs) /\ new[Len(runs)] = grown
          /\ \A i \in 1 .. Len(runs) : i # Len(runs) => new[i] = runs[i]
      BY <1>2, <2>6, <3>2, <3>3, LastPut
    <3>5. Covered(new) = Covered(runs) \cup In(last.seg, last.first + last.len .. last.first + last.len + 1 - 1)
      BY <1>2, <3>1, <3>3, <3>4, LastGrows
    <3> QED
      BY <3>4, <3>5
  <2>9. In(last.seg, end .. end + 1 - 1) = {<<s, d>>}
    <3>1. end = d /\ last.seg = s
      BY <1>3, <2>1
    <3>2. end .. end + 1 - 1 = {d}
      <4>1. end + 1 - 1 = d
        BY <1>1, <3>1
      <4> QED
        BY <1>1, <3>1, <4>1
    <3> HIDE DEF end, last
    <3> QED
      BY <3>1, <3>2 DEF In
  <2> QED
    BY <2>7, <2>8, <2>9
<1>4. CASE ~(runs # <<>> /\ last.file = f /\ last.first + last.len = d)
  <2>1. Extend(runs, s, f, d) = Append(runs, one)
    BY <1>4 DEF Extend
  <2>2. one.seg = s /\ one.file = f /\ one \in Runs
    BY <1>1 DEF Run, Runs
  <2>3. RunKeys(one) = {<<s, d>>}
    <3>1. d .. d + 1 - 1 = {d}
      BY <1>1
    <3> QED
      BY <3>1 DEF RunKeys, In, Run
  <2>4. one \in V
    BY <1>1, <2>2, <2>3 DEF OwnRuns
  <2>5. Append(runs, one) \in Seq(V) /\ Covered(Append(runs, one)) = Covered(runs) \cup RunKeys(one)
    <3> HIDE DEF V, one
    <3> QED
      BY <1>2, <2>4, RunAppends
  <2> QED
    BY <2>1, <2>3, <2>5
<1> QED
  BY <1>3, <1>4

(* ScanRange finds every document of its range, in runs of their files.    *)
LEMMA RangeIsScanned ==
  ASSUME IndexOK, NEW s \in Segs, NEW start \in Local(s)
  PROVE  LET R == ScanRange(files, s, start)
             end == IF RangeSize <= Len(files[s]) - start THEN start + RangeSize ELSE Len(files[s])
         IN  R \in Seq(OwnRuns) /\ Covered(R) = In(s, start .. end - 1)
<1> DEFINE n == Min({RangeSize, Len(files[s]) - start})
           V == Seq({r \in OwnRuns : r.seg = s})
           move == [x \in V \X (1 .. n) |-> Extend(x[1], s, files[s][start + x[2]], start + x[2] - 1)]
           Step(h) == [T \in SUBSET (1 .. n) |-> IF T = {} THEN <<>>
                         ELSE LET i == Max(T)
                              IN  Extend(h[T \ {i}], s, files[s][start + Count(n)[i]], start + Count(n)[i] - 1)]
           c == CHOOSE h : h = Step(h)
<1>1. start \in Nat /\ start < Len(files[s]) /\ Len(files[s]) \in Nat /\ RangeSize \in Nat \ {0}
  <2>1. Len(files[s]) \in Nat
    BY KeysAre
  <2> QED
    BY <2>1, ScopeAssumption DEF Local
<1>2. n \in Nat /\ start + n <= Len(files[s])
      /\ start + n = IF RangeSize <= Len(files[s]) - start THEN start + RangeSize ELSE Len(files[s])
  <2>1. n = IF RangeSize <= Len(files[s]) - start THEN RangeSize ELSE Len(files[s]) - start
    <3>1. RangeSize \in Int /\ Len(files[s]) - start \in Int
      BY <1>1
    <3> QED
      BY <3>1, MinOfTwo
  <2> HIDE DEF n
  <2> QED
    BY <1>1, <2>1
<1>3. DOMAIN Count(n) = 1 .. n /\ \A i \in 1 .. n : Count(n)[i] = i
  BY DEF Count
<1>4. ScanRange(files, s, start) = c[1 .. n]
  BY <1>3 DEF ScanRange, FoldLeft, MapThenFoldSet
<1> HIDE DEF n
<1>5. \A i \in 1 .. n : start + i - 1 \in Local(s) /\ start + i - 1 \in Nat /\ (start + i - 1) + 1 = start + i
  BY <1>1, <1>2 DEF Local
<1>6. ASSUME NEW g \in V, NEW i \in 1 .. n
      PROVE  /\ Extend(g, s, files[s][start + i], start + i - 1) \in V
             /\ Covered(Extend(g, s, files[s][start + i], start + i - 1)) = Covered(g) \cup {<<s, start + i - 1>>}
  <2> DEFINE d == start + i - 1
  <2>1. d \in Local(s) /\ d + 1 = start + i
    BY <1>5
  <2> HIDE DEF d
  <2>2. /\ Extend(g, s, files[s][d + 1], d) \in V
        /\ Covered(Extend(g, s, files[s][d + 1], d)) = Covered(g) \cup {<<s, d>>}
    BY <2>1, ExtendKeeps
  <2> QED
    BY <2>1, <2>2 DEF d
<1>7. move \in FoldSteps(V, n) /\ \A g \in V, i \in 1 .. n : move[<<g, i>>] = Extend(g, s, files[s][start + i], start + i - 1)
  <2> HIDE DEF V
  <2> QED
    BY <1>6 DEF FoldSteps
<1>b. <<>> \in V
  OBVIOUS
<1> HIDE DEF move, V
<1>8. c = Step(c)
  <2>1. PICK f \in [SUBSET (1 .. n) -> V] : FoldOf(f, n, <<>>, move)
    BY <1>2, <1>7, <1>b, FoldExists
  <2>2. \A T \in SUBSET (1 .. n) : T # {} => Max(T) \in 1 .. n
    BY <1>2, GreatestUpTo
  <2>3. ASSUME NEW T \in SUBSET (1 .. n)
        PROVE  f[T] = IF T = {} THEN <<>>
                      ELSE Extend(f[T \ {Max(T)}], s, files[s][start + Count(n)[Max(T)]], start + Count(n)[Max(T)] - 1)
    <3>1. f[T] = IF T = {} THEN <<>> ELSE move[<<f[T \ {Max(T)}], Max(T)>>]
      BY <2>1 DEF FoldOf
    <3>2. T # {} => f[T \ {Max(T)}] \in V /\ Max(T) \in 1 .. n /\ Count(n)[Max(T)] = Max(T)
      BY <1>3, <2>2
    <3> QED
      BY <1>7, <3>1, <3>2
  <2>4. f = Step(f)
    BY <2>3
  <2> HIDE DEF Step
  <2> QED
    BY <2>4
<1> HIDE DEF c
<1>9. FoldsAs(c, n, V, <<>>, move)
  <2>1. c[{}] = <<>>
    BY <1>8
  <2>2. ASSUME NEW T \in SUBSET (1 .. n), T # {}, c[T \ {Max(T)}] \in V
        PROVE  c[T] = move[<<c[T \ {Max(T)}], Max(T)>>]
    <3>1. Max(T) \in 1 .. n /\ Count(n)[Max(T)] = Max(T)
      BY <1>2, <1>3, <2>2, GreatestUpTo
    <3>2. c[T] = Extend(c[T \ {Max(T)}], s, files[s][start + Count(n)[Max(T)]], start + Count(n)[Max(T)] - 1)
      BY <1>8, <2>2
    <3> QED
      BY <1>7, <2>2, <3>1, <3>2
  <2> HIDE DEF Step
  <2> QED
    BY <2>1, <2>2 DEF FoldsAs
<1> HIDE DEF Step
<1>10. PICK g : GoesUp(g, n, V, <<>>, move) /\ g[n] = c[1 .. n]
  BY <1>2, <1>7, <1>9, <1>b, FoldGoesUp
<1>11. g \in [0 .. n -> V] /\ g[0] = <<>> /\ \A i \in 1 .. n : g[i - 1] \in V /\ g[i] = move[<<g[i - 1], i>>]
  BY <1>10 DEF GoesUp
<1> DEFINE So(m) == In(s, start .. start + m - 1)
           G == {m \in 0 .. n : Covered(g[m]) = So(m)}
<1>12. 0 \in G
  <2>1. So(0) = {} /\ Covered(<<>>) = {}
    <3>1. start .. start + 0 - 1 = {}
      BY <1>1
    <3>2. 1 .. Len(<<>>) = {}
      OBVIOUS
    <3> QED
      BY <3>1, <3>2 DEF In, Covered
  <2> HIDE DEF So
  <2>2. Covered(g[0]) = So(0)
    BY <1>11, <2>1
  <2> QED
    BY <1>2, <2>2
<1>13. ASSUME NEW m \in 0 .. n - 1, m \in G
       PROVE  m + 1 \in G
  <2>1. m + 1 \in 1 .. n /\ m + 1 \in 0 .. n /\ (m + 1) - 1 = m /\ m \in Nat /\ m \in 0 .. n
    BY <1>2
  <2>2. g[m] \in V /\ g[m + 1] = Extend(g[m], s, files[s][start + (m + 1)], start + (m + 1) - 1)
    BY <1>7, <1>11, <2>1
  <2>3. Covered(g[m + 1]) = Covered(g[m]) \cup {<<s, start + (m + 1) - 1>>}
    BY <1>6, <2>1, <2>2
  <2>4. So(m + 1) = So(m) \cup {<<s, start + (m + 1) - 1>>}
    <3>1. start .. start + (m + 1) - 1 = (start .. start + m - 1) \cup {start + (m + 1) - 1}
      BY <1>1, <2>1
    <3> QED
      BY <3>1 DEF In
  <2>5. Covered(g[m]) = So(m)
    BY <1>13
  <2> HIDE DEF So
  <2> QED
    BY <2>1, <2>3, <2>4, <2>5
<1> HIDE DEF G
<1>15. n \in G
  <2>1. n \in Nat
    BY <1>2
  <2>2. \A m \in 0 .. n : m \in G
    BY <1>12, <1>13, <2>1, CountedUp
  <2> QED
    BY <2>1, <2>2
<1>16. Covered(g[n]) = So(n)
  BY <1>15 DEF G
<1>17. g[n] \in V /\ g[n] = ScanRange(files, s, start)
  BY <1>2, <1>4, <1>10, <1>11
<1>18. g[n] \in Seq(OwnRuns)
  BY <1>17 DEF V
<1> DEFINE end == IF RangeSize <= Len(files[s]) - start THEN start + RangeSize ELSE Len(files[s])
<1>19. start + n = end
  BY <1>2
<1>20. Covered(g[n]) = In(s, start .. end - 1)
  <2> HIDE DEF end
  <2> QED
    <3>0. start + n - 1 = end - 1
      BY <1>1, <1>2, <1>19
    <3>1. start .. start + n - 1 = start .. end - 1
      BY <3>0
    <3> QED
      BY <1>16, <3>1
<1> QED
  BY <1>17, <1>18, <1>20

(* The ranges of all segments cover every document, by runs of its file.   *)
LEMMA PartialCovers ==
  ASSUME IndexOK
  PROVE  Partial(files) \in Seq(OwnRuns) /\ Covered(Partial(files)) = Keys
<1> DEFINE of == [s \in 1 .. Len(files) |-> RangesOf(s, Len(files[s]))]
           ranges == FlattenSeq(of)
           scans == [i \in DOMAIN ranges |-> ScanRange(files, ranges[i][1], ranges[i][2])]
           Ranges == {x \in Segs \X Nat : x[2] < Len(files[x[1]])}
<1>1. Len(files) \in Nat /\ RangeSize \in Nat \ {0} /\ \A s \in Segs : Len(files[s]) \in Nat
  BY KeysAre, ScopeAssumption
<1>2. ASSUME NEW s \in Segs
      PROVE  RangesOf(s, Len(files[s])) \in Seq(Ranges)
             /\ \A q \in Nat : q * RangeSize < Len(files[s]) => <<s, q * RangeSize>> \in ToSet(RangesOf(s, Len(files[s])))
  <2> DEFINE n == Len(files[s])
             m == CeilDiv(n, RangeSize)
             R == RangesOf(s, n)
  <2>1. n \in Nat
    BY <1>1
  <2> HIDE DEF n
  <2>2. m \in Nat /\ \A q \in Nat : q < m => q * RangeSize < n
    BY <1>1, <2>1, CeilDivBy
  <2>3. \A d \in Nat : d < n => d \div RangeSize < m
    BY <1>1, <2>1, CeilDivBy
  <2>4. R = [i \in 1 .. m |-> <<s, (i - 1) * RangeSize>>]
    BY DEF RangesOf
  <2> HIDE DEF m, R
  <2>5. \A i \in 1 .. m : i - 1 \in Nat /\ i - 1 < m /\ (i - 1) * RangeSize \in Nat
    <3>1. \A i \in 1 .. m : i - 1 \in Nat /\ i - 1 < m
      BY <2>2
    <3>2. \A q \in Nat : q * RangeSize \in Nat
      BY <1>1
    <3> QED
      BY <3>1, <3>2
  <2>6. \A i \in 1 .. m : <<s, (i - 1) * RangeSize>> \in Ranges
    BY <2>2, <2>5 DEF n
  <2>7. R \in Seq(Ranges) /\ DOMAIN R = 1 .. m
    <3> HIDE DEF Ranges
    <3> QED
      BY <2>2, <2>4, <2>6
  <2>8. ASSUME NEW q \in Nat, q * RangeSize < n
        PROVE  <<s, q * RangeSize>> \in ToSet(R)
    <3>1. q * RangeSize \in Nat /\ (q * RangeSize) \div RangeSize = q
      <4>1. 0 \in 0 .. RangeSize - 1 /\ RangeSize \in Nat \ {0}
        BY <1>1
      <4>2. q * RangeSize + 0 \in Nat /\ (q * RangeSize + 0) \div RangeSize = q
        BY <4>1, DividedByOnce
      <4>3. q * RangeSize \in Nat
        BY <1>1
      <4>4. q * RangeSize + 0 = q * RangeSize
        BY <4>3
      <4> QED
        BY <4>2, <4>4
    <3>2. q < m
      BY <2>3, <2>8, <3>1
    <3>3. q + 1 \in 1 .. m /\ (q + 1) - 1 = q
      BY <2>2, <3>2
    <3>4. R[q + 1] = <<s, q * RangeSize>>
      BY <2>4, <3>3
    <3> QED
      BY <2>7, <3>3, <3>4 DEF ToSet
  <2> QED
    BY <2>7, <2>8 DEF R, n
<1>3. of \in Seq(Seq(Ranges)) /\ Len(of) = Len(files)
  <2> HIDE DEF Ranges
  <2> QED
    BY <1>1, <1>2 DEF Segs
<1>4. ranges \in Seq(Ranges) /\ ToSet(ranges) = UNION {ToSet(of[s]) : s \in 1 .. Len(of)}
  <2> HIDE DEF of, Ranges
  <2> QED
    BY <1>3, FlattenIs
<1>5. ASSUME NEW s \in Segs, NEW q \in Nat, q * RangeSize < Len(files[s])
      PROVE  \E i \in 1 .. Len(ranges) : ranges[i] = <<s, q * RangeSize>>
  <2>1. s \in 1 .. Len(of) /\ of[s] = RangesOf(s, Len(files[s]))
    BY <1>3 DEF Segs
  <2>2. <<s, q * RangeSize>> \in ToSet(of[s])
    BY <1>2, <1>5, <2>1
  <2> HIDE DEF of, ranges
  <2>3. <<s, q * RangeSize>> \in ToSet(ranges)
    BY <1>4, <2>1, <2>2
  <2>4. DOMAIN ranges = 1 .. Len(ranges)
    BY <1>4
  <2> QED
    BY <2>3, <2>4 DEF ToSet
<1> HIDE DEF of, ranges
<1>6. ASSUME NEW i \in 1 .. Len(ranges)
      PROVE  /\ ranges[i][1] \in Segs /\ ranges[i][2] \in Local(ranges[i][1])
  <2>1. ranges[i] \in Ranges
    BY <1>4
  <2>2. PICK s \in Segs, b \in Nat : ranges[i] = <<s, b>> /\ b < Len(files[s])
    BY <2>1
  <2>3. b \in Local(s)
    BY <1>1, <2>2 DEF Local
  <2> QED
    BY <2>2, <2>3
<1>7. DOMAIN ranges = 1 .. Len(ranges) /\ Len(ranges) \in Nat
  BY <1>4
<1>8. ASSUME NEW i \in 1 .. Len(ranges)
      PROVE  scans[i] \in Seq(OwnRuns) /\ Covered(scans[i]) \subseteq Keys
  <2> DEFINE s == ranges[i][1]
             b == ranges[i][2]
             end == IF RangeSize <= Len(files[s]) - b THEN b + RangeSize ELSE Len(files[s])
  <2>1. s \in Segs /\ b \in Local(s)
    BY <1>6
  <2>2. scans[i] = ScanRange(files, s, b)
    BY <1>7
  <2> HIDE DEF s, b
  <2>3. scans[i] \in Seq(OwnRuns)
    BY <2>1, <2>2, RangeIsScanned
  <2> HIDE DEF scans
  <2>4. Covered(scans[i]) \subseteq Keys
    <3>1. \A j \in 1 .. Len(scans[i]) : scans[i][j] \in Runs
      BY <2>3 DEF OwnRuns
    <3> QED
      BY <3>1, RunsAreKeys DEF Covered
  <2> QED
    BY <2>3, <2>4
<1>9. scans \in Seq(Seq(OwnRuns)) /\ Len(scans) = Len(ranges) /\ Partial(files) = FlattenSeq(scans)
  <2>1. Partial(files) = FlattenSeq(scans)
    BY DEF Partial, scans, ranges, of
  <2>2. scans = [i \in 1 .. Len(ranges) |-> scans[i]]
    BY <1>7
  <2> HIDE DEF scans
  <2> QED
    BY <1>7, <1>8, <2>1, <2>2
<1>10. ASSUME NEW key \in Keys
       PROVE  \E i \in 1 .. Len(ranges) : key \in Covered(scans[i])
  <2>1. PICK s \in Segs, d \in Nat : key = <<s, d>> /\ d < Len(files[s])
    BY KeysAre
  <2> DEFINE q == d \div RangeSize
             b == q * RangeSize
             end == IF RangeSize <= Len(files[s]) - b THEN b + RangeSize ELSE Len(files[s])
  <2>2. q \in Nat /\ b \in Nat /\ b <= d /\ d < b + RangeSize
    <3>1. q \in Nat /\ d % RangeSize \in 0 .. RangeSize - 1 /\ d = (q * RangeSize) + (d % RangeSize)
      BY <1>1, DividedBy
    <3> HIDE DEF q
    <3>2. q * RangeSize \in Nat
      BY <1>1, <3>1
    <3> QED
      BY <1>1, <3>1, <3>2
  <2> HIDE DEF q
  <2>3. b < Len(files[s])
    BY <1>1, <2>1, <2>2
  <2>4. PICK i \in 1 .. Len(ranges) : ranges[i] = <<s, b>>
    BY <1>5, <2>2, <2>3
  <2>5. scans[i] = ScanRange(files, s, b)
    BY <1>7, <2>4
  <2> HIDE DEF b
  <2>6. b \in Local(s)
    BY <1>1, <2>2, <2>3 DEF Local
  <2>7. Covered(ScanRange(files, s, b)) = In(s, b .. end - 1)
    BY <2>6, RangeIsScanned
  <2>8. d \in b .. end - 1
    BY <1>1, <2>1, <2>2
  <2> HIDE DEF end, scans
  <2> QED
    BY <2>1, <2>5, <2>7, <2>8 DEF In
<1> HIDE DEF scans, Ranges
<1> DEFINE P == FlattenSeq(scans)
<1>11. P \in Seq(OwnRuns) /\ ToSet(P) = UNION {ToSet(scans[i]) : i \in 1 .. Len(scans)}
  BY <1>9, FlattenIs
<1> HIDE DEF P
<1>12. Covered(P) = UNION {RunKeys(r) : r \in ToSet(P)}
  <2>1. DOMAIN P = 1 .. Len(P)
    BY <1>11
  <2> QED
    BY <2>1 DEF Covered, ToSet
<1>13. \A i \in 1 .. Len(scans) : Covered(scans[i]) = UNION {RunKeys(r) : r \in ToSet(scans[i])}
  <2> SUFFICES ASSUME NEW i \in 1 .. Len(scans) PROVE Covered(scans[i]) = UNION {RunKeys(r) : r \in ToSet(scans[i])}
    OBVIOUS
  <2>1. DOMAIN scans[i] = 1 .. Len(scans[i])
    BY <1>8, <1>9
  <2> QED
    BY <2>1 DEF Covered, ToSet
<1>14. Covered(P) = UNION {Covered(scans[i]) : i \in 1 .. Len(scans)}
  <2>1. \A key : key \in Covered(P) <=> \E r \in ToSet(P) : key \in RunKeys(r)
    BY <1>12
  <2>2. \A r : r \in ToSet(P) <=> \E i \in 1 .. Len(scans) : r \in ToSet(scans[i])
    BY <1>11
  <2>3. \A i \in 1 .. Len(scans) : \A key : key \in Covered(scans[i]) <=> \E r \in ToSet(scans[i]) : key \in RunKeys(r)
    BY <1>13
  <2> QED
    BY <2>1, <2>2, <2>3
<1>15. Covered(P) = Keys
  BY <1>8, <1>9, <1>10, <1>14
<1> QED
  BY <1>9, <1>11, <1>15 DEF P

(* Rejoin adds the documents of a run.                                     *)
LEMMA RejoinKeeps ==
  ASSUME IndexOK, NEW runs \in Seq(Runs), NEW run \in Runs
  PROVE  Rejoin(runs, run) \in Seq(Runs) /\ Covered(Rejoin(runs, run)) = Covered(runs) \cup RunKeys(run)
<1> DEFINE last == Last(runs)
           grown == [last EXCEPT !.len = @ + run.len]
<1>1. run.seg \in Segs /\ run.first \in Nat /\ run.len \in Nat \ {0} /\ run.first + run.len <= Len(files[run.seg])
  BY DEF Runs
<1>2. CASE runs # <<>> /\ last.seg = run.seg /\ last.first + last.len = run.first
  <2>1. last \in Runs
    <3>1. Len(runs) \in 1 .. Len(runs)
      BY <1>2, EmptySeq
    <3> QED
      BY <3>1 DEF Last
  <2>2. last = [seg |-> run.seg, file |-> last.file, first |-> last.first, len |-> last.len] /\ last.first \in Nat /\ last.len \in Nat \ {0}
        /\ last.file \in Paths
    BY <1>2, <2>1 DEF Runs
  <2>3. grown = [seg |-> run.seg, file |-> last.file, first |-> last.first, len |-> last.len + run.len]
    <3> HIDE DEF last
    <3> QED
      BY <2>2
  <2>4. Len(files[run.seg]) \in Nat
    BY <1>1, KeysAre
  <2>5. last.len + run.len \in Nat \ {0} /\ last.first + (last.len + run.len) = run.first + run.len
    <3>1. last.first + last.len = run.first
      BY <1>2
    <3> HIDE DEF last
    <3> QED
      BY <1>1, <2>2, <3>1
  <2>6. grown \in Runs
    <3> HIDE DEF last, grown
    <3> QED
      BY <1>1, <2>2, <2>3, <2>5 DEF Runs
  <2>7. Rejoin(runs, run) = [runs EXCEPT ![Len(runs)].len = @ + run.len]
    BY <1>2 DEF Rejoin
  <2> DEFINE end == last.first + last.len
             m == run.len
             new == [runs EXCEPT ![Len(runs)].len = @ + m]
  <2>8. new \in Seq(Runs) /\ Covered(new) = Covered(runs) \cup In(last.seg, end .. end + m - 1)
    <3>1. grown.seg = last.seg /\ grown.first = last.first /\ grown.len = last.len + m
      <4> HIDE DEF last
      <4> QED
        BY <1>2, <2>2, <2>3
    <3>2. new = [runs EXCEPT ![Len(runs)] = grown]
      BY DEF Last
    <3>3. last = runs[Len(runs)] /\ runs # <<>> /\ m \in Nat \ {0} /\ Runs \subseteq Runs
      BY <1>1, <1>2 DEF Last
    <3> HIDE DEF last, grown, new, m
    <3>4. /\ new \in Seq(Runs) /\ Len(new) = Len(runs) /\ new[Len(runs)] = grown
          /\ \A i \in 1 .. Len(runs) : i # Len(runs) => new[i] = runs[i]
      BY <2>6, <3>2, <3>3, LastPut
    <3>5. Covered(new) = Covered(runs) \cup In(last.seg, last.first + last.len .. last.first + last.len + m - 1)
      BY <3>1, <3>3, <3>4, LastGrows
    <3> QED
      BY <3>4, <3>5
  <2>9. In(last.seg, end .. end + m - 1) = RunKeys(run)
    BY <1>2 DEF RunKeys
  <2> QED
    BY <2>7, <2>8, <2>9
<1>3. CASE ~(runs # <<>> /\ last.seg = run.seg /\ last.first + last.len = run.first)
  <2>1. Rejoin(runs, run) = Append(runs, run)
    BY <1>3 DEF Rejoin
  <2>2. Append(runs, run) \in Seq(Runs) /\ Covered(Append(runs, run)) = Covered(runs) \cup RunKeys(run)
    BY RunAppends
  <2> QED
    BY <2>1, <2>2
<1> QED
  BY <1>2, <1>3

(* The runs of a file cover its documents.                                 *)
LEMMA RunsOfAre ==
  ASSUME IndexOK, NEW f
  PROVE  RunsOf(files, f) \in Seq(Runs) /\ Covered(RunsOf(files, f)) = {key \in Keys : FileOf(key) = f}
<1> DEFINE P == Partial(files)
           n == Len(P)
           V == Seq(Runs)
           Next(g, i) == IF P[i].file = f THEN Rejoin(g, P[i]) ELSE g
           move == [x \in V \X (1 .. n) |-> Next(x[1], x[2])]
           Step(h) == [T \in SUBSET (1 .. n) |-> IF T = {} THEN <<>>
                         ELSE LET i == Max(T)
                              IN  IF P[i].file = f THEN Rejoin(h[T \ {i}], P[i]) ELSE h[T \ {i}]]
           c == CHOOSE h : h = Step(h)
<1>1. P \in Seq(OwnRuns) /\ Covered(P) = Keys
  BY PartialCovers
<1>2. n \in Nat /\ DOMAIN P = 1 .. n /\ \A i \in 1 .. n : P[i] \in OwnRuns /\ P[i] \in Runs
  <2> HIDE DEF P
  <2>1. OwnRuns \subseteq Runs
    BY DEF OwnRuns
  <2> QED
    BY <1>1, <2>1
<1>4. RunsOf(files, f) = c[1 .. n]
  BY <1>2 DEF RunsOf, FoldLeft, MapThenFoldSet
<1> HIDE DEF n, P
<1>6. ASSUME NEW g \in V, NEW i \in 1 .. n
      PROVE  /\ Next(g, i) \in V
             /\ Covered(Next(g, i)) = Covered(g) \cup {key \in RunKeys(P[i]) : P[i].file = f}
  <2>1. Rejoin(g, P[i]) \in V /\ Covered(Rejoin(g, P[i])) = Covered(g) \cup RunKeys(P[i])
    BY <1>2, RejoinKeeps
  <2> HIDE DEF V
  <2> QED
    BY <2>1
<1>7. move \in FoldSteps(V, n) /\ \A g \in V, i \in 1 .. n : move[<<g, i>>] = Next(g, i)
  <2> HIDE DEF V, Next
  <2> QED
    BY <1>6 DEF FoldSteps
<1>b. <<>> \in V
  OBVIOUS
<1> HIDE DEF move, V
<1>8. c = Step(c)
  <2>1. PICK h \in [SUBSET (1 .. n) -> V] : FoldOf(h, n, <<>>, move)
    BY <1>2, <1>7, <1>b, FoldExists
  <2>2. \A T \in SUBSET (1 .. n) : T # {} => Max(T) \in 1 .. n
    BY <1>2, GreatestUpTo
  <2>3. ASSUME NEW T \in SUBSET (1 .. n)
        PROVE  h[T] = IF T = {} THEN <<>> ELSE Next(h[T \ {Max(T)}], Max(T))
    <3>1. h[T] = IF T = {} THEN <<>> ELSE move[<<h[T \ {Max(T)}], Max(T)>>]
      BY <2>1 DEF FoldOf
    <3>2. T # {} => h[T \ {Max(T)}] \in V /\ Max(T) \in 1 .. n
      BY <2>2
    <3> HIDE DEF Next
    <3> QED
      BY <1>7, <3>1, <3>2
  <2>4. h = Step(h)
    BY <2>3
  <2> HIDE DEF Step
  <2> QED
    BY <2>4
<1> HIDE DEF c
<1>9. FoldsAs(c, n, V, <<>>, move)
  <2>1. c[{}] = <<>>
    BY <1>8
  <2>2. ASSUME NEW T \in SUBSET (1 .. n), T # {}, c[T \ {Max(T)}] \in V
        PROVE  c[T] = move[<<c[T \ {Max(T)}], Max(T)>>]
    <3>1. Max(T) \in 1 .. n
      BY <1>2, <2>2, GreatestUpTo
    <3>2. c[T] = Next(c[T \ {Max(T)}], Max(T))
      BY <1>8, <2>2
    <3> HIDE DEF Next
    <3> QED
      BY <1>7, <2>2, <3>1, <3>2
  <2> HIDE DEF Step
  <2> QED
    BY <2>1, <2>2 DEF FoldsAs
<1> HIDE DEF Step
<1>10. PICK g : GoesUp(g, n, V, <<>>, move) /\ g[n] = c[1 .. n]
  BY <1>2, <1>7, <1>9, <1>b, FoldGoesUp
<1>11. g \in [0 .. n -> V] /\ g[0] = <<>> /\ \A i \in 1 .. n : g[i - 1] \in V /\ g[i] = move[<<g[i - 1], i>>]
  BY <1>10 DEF GoesUp
<1> DEFINE So(m) == UNION {{key \in RunKeys(P[i]) : P[i].file = f} : i \in 1 .. m}
           G == {m \in 0 .. n : Covered(g[m]) = So(m)}
<1>12. 0 \in G
  <2>1. So(0) = {} /\ Covered(<<>>) = {}
    <3>1. 1 .. 0 = {} /\ 1 .. Len(<<>>) = {}
      OBVIOUS
    <3> QED
      BY <3>1 DEF Covered
  <2> HIDE DEF So
  <2>2. Covered(g[0]) = So(0)
    BY <1>11, <2>1
  <2> QED
    BY <1>2, <2>2
<1>13. ASSUME NEW m \in 0 .. n - 1, m \in G
       PROVE  m + 1 \in G
  <2>1. m + 1 \in 1 .. n /\ m + 1 \in 0 .. n /\ (m + 1) - 1 = m /\ m \in Nat /\ m \in 0 .. n
    BY <1>2
  <2>2. g[m] \in V /\ g[m + 1] = Next(g[m], m + 1)
    <3> HIDE DEF Next
    <3> QED
      BY <1>7, <1>11, <2>1
  <2> HIDE DEF Next
  <2>3. Covered(g[m + 1]) = Covered(g[m]) \cup {key \in RunKeys(P[m + 1]) : P[m + 1].file = f}
    BY <1>6, <2>1, <2>2
  <2>4. So(m + 1) = So(m) \cup {key \in RunKeys(P[m + 1]) : P[m + 1].file = f}
    <3>1. 1 .. m + 1 = (1 .. m) \cup {m + 1}
      BY <2>1
    <3> QED
      BY <3>1
  <2>5. Covered(g[m]) = So(m)
    BY <1>13
  <2> HIDE DEF So
  <2>6. Covered(g[m + 1]) = So(m + 1)
    BY <2>3, <2>4, <2>5
  <2> QED
    BY <2>1, <2>6
<1> HIDE DEF G
<1>15. n \in G
  <2>1. n \in Nat
    BY <1>2
  <2>2. \A m \in 0 .. n : m \in G
    BY <1>12, <1>13, <2>1, CountedUp
  <2> QED
    BY <2>1, <2>2
<1>16. Covered(g[n]) = So(n)
  BY <1>15 DEF G
<1>17. g[n] \in V /\ g[n] = RunsOf(files, f)
  BY <1>2, <1>4, <1>10, <1>11
<1>18. g[n] \in Seq(Runs)
  BY <1>17 DEF V
<1>19. So(n) = {key \in Keys : FileOf(key) = f}
  <2>1. Keys = UNION {RunKeys(P[i]) : i \in 1 .. n}
    BY <1>1 DEF Covered, n
  <2>2. \A i \in 1 .. n : \A key \in RunKeys(P[i]) : FileOf(key) = P[i].file
    BY <1>2 DEF OwnRuns
  <2> QED
    BY <2>1, <2>2
<1> QED
  BY <1>16, <1>17, <1>18, <1>19

(* A new scope holds nothing.                                              *)
LEMMA NothingAllowed ==
  ASSUME IndexOK
  PROVE  LET none == NewScope([s \in DOMAIN files |-> Len(files[s])])
         IN  none \in Scopes /\ ScopeKeys(none) = {}
<1> DEFINE none == NewScope([s \in DOMAIN files |-> Len(files[s])])
<1>1. DOMAIN files = Segs /\ \A s \in Segs : Len(files[s]) \in Nat
  BY KeysAre DEF IndexOK, Segs
<1>2. none = [allowed |-> [s \in Segs |-> BitmapOf({}, Len(files[s]))], matched |-> 0]
  BY <1>1 DEF NewScope
<1>3. ASSUME NEW s \in Segs
      PROVE  /\ BitmapOf({}, Len(files[s])) \in Seq(SUBSET Bits) /\ Len(BitmapOf({}, Len(files[s]))) = CeilDiv(Len(files[s]), Width)
             /\ \A d \in Nat : ~BitIsSet(BitmapOf({}, Len(files[s])), d)
  <2> DEFINE words == BitmapOf({}, Len(files[s]))
             m == CeilDiv(Len(files[s]), Width)
  <2>1. m \in Nat
    BY <1>1, CeilDivIs
  <2>2. words = [i \in 1 .. m |-> {}]
    BY DEF BitmapOf
  <2> HIDE DEF words, m
  <2>3. words \in Seq(SUBSET Bits) /\ Len(words) = m /\ \A i \in 1 .. m : words[i] = {}
    BY <2>1, <2>2
  <2>4. ASSUME NEW d \in Nat, BitIsSet(words, d) PROVE FALSE
    <3>1. d \div Width < Len(words) /\ d % Width \in words[d \div Width + 1]
      BY <2>3, <2>4, BitsAre
    <3>2. d \div Width \in Nat
      BY Divided
    <3> DEFINE q == d \div Width
    <3> HIDE DEF q
    <3>3. q < m /\ q \in Nat /\ d % Width \in words[q + 1]
      BY <2>3, <3>1, <3>2 DEF q
    <3>4. q + 1 \in 1 .. m
      BY <2>1, <3>3
    <3> QED
      BY <2>3, <3>3, <3>4
  <2> QED
    BY <2>3, <2>4 DEF words, m
<1> HIDE DEF none
<1>4. none.allowed = [s \in Segs |-> BitmapOf({}, Len(files[s]))] /\ none.matched = 0
  BY <1>2
<1>5. none \in Shapes
  BY <1>2, <1>3 DEF Shapes
<1>6. ScopeKeys(none) = {}
  BY <1>3, <1>4 DEF ScopeKeys
<1>7. Cardinality({}) = 0
  BY FS_EmptySet
<1>8. none \in Scopes
  BY <1>4, <1>5, <1>6, <1>7 DEF Scopes
<1> QED
  BY <1>6, <1>8 DEF none

(* The documents of runs are allowed.                                      *)
AllowAll(none, runs) == FoldLeft(LAMBDA sc, r : AllowRange(sc, r.seg, r.first, r.len), none, runs)

(* Runs, overlapping or not, are allowed and counted once.                 *)
LEMMA RunsAllow ==
  ASSUME IndexOK, NEW none \in Scopes, NEW P \in Seq(Runs)
  PROVE  AllowAll(none, P) \in Scopes /\ ScopeKeys(AllowAll(none, P)) = ScopeKeys(none) \cup Covered(P)
<1> DEFINE n == Len(P)
           V == Scopes
           Next(g, i) == AllowRange(g, P[i].seg, P[i].first, P[i].len)
           move == [x \in V \X (1 .. n) |-> Next(x[1], x[2])]
           Step(h) == [T \in SUBSET (1 .. n) |-> IF T = {} THEN none
                         ELSE LET i == Max(T)
                              IN  AllowRange(h[T \ {i}], P[i].seg, P[i].first, P[i].len)]
           c == CHOOSE h : h = Step(h)
<1>2. n \in Nat /\ DOMAIN P = 1 .. n /\ \A i \in 1 .. n : P[i] \in Runs
  OBVIOUS
<1>4. AllowAll(none, P) = c[1 .. n]
  BY <1>2 DEF AllowAll, FoldLeft, MapThenFoldSet
<1> HIDE DEF n
<1>6. ASSUME NEW g \in V, NEW i \in 1 .. n
      PROVE  /\ Next(g, i) \in V
             /\ ScopeKeys(Next(g, i)) = ScopeKeys(g) \cup RunKeys(P[i])
  <2>1. P[i].seg \in Segs /\ P[i].first \in Nat /\ P[i].len \in Nat \ {0} /\ P[i].first + P[i].len <= Len(files[P[i].seg])
    BY <1>2 DEF Runs
  <2> DEFINE s == P[i].seg
             start == P[i].first
             len == P[i].len
  <2>2. s \in Segs /\ start \in Nat /\ len \in Nat \ {0} /\ start + len <= Len(files[s]) /\ g \in Scopes
    BY <2>1
  <2> HIDE DEF s, start, len
  <2>3. AllowRange(g, s, start, len) \in Scopes
        /\ ScopeKeys(AllowRange(g, s, start, len)) = ScopeKeys(g) \cup In(s, start .. start + len - 1)
    BY <2>2, RangeAllows
  <2> QED
    BY <2>3 DEF RunKeys, s, start, len
<1>7. move \in FoldSteps(V, n) /\ \A g \in V, i \in 1 .. n : move[<<g, i>>] = Next(g, i)
  <2> HIDE DEF V, Next
  <2> QED
    BY <1>6 DEF FoldSteps
<1>b. none \in V
  OBVIOUS
<1> HIDE DEF move, V
<1>8. c = Step(c)
  <2>1. PICK h \in [SUBSET (1 .. n) -> V] : FoldOf(h, n, none, move)
    BY <1>2, <1>7, <1>b, FoldExists
  <2>2. \A T \in SUBSET (1 .. n) : T # {} => Max(T) \in 1 .. n
    BY <1>2, GreatestUpTo
  <2>3. ASSUME NEW T \in SUBSET (1 .. n)
        PROVE  h[T] = IF T = {} THEN none ELSE Next(h[T \ {Max(T)}], Max(T))
    <3>1. h[T] = IF T = {} THEN none ELSE move[<<h[T \ {Max(T)}], Max(T)>>]
      BY <2>1 DEF FoldOf
    <3>2. T # {} => h[T \ {Max(T)}] \in V /\ Max(T) \in 1 .. n
      BY <2>2
    <3> HIDE DEF Next
    <3> QED
      BY <1>7, <3>1, <3>2
  <2>4. h = Step(h)
    BY <2>3
  <2> HIDE DEF Step
  <2> QED
    BY <2>4
<1> HIDE DEF c
<1>9. FoldsAs(c, n, V, none, move)
  <2>1. c[{}] = none
    BY <1>8
  <2>2. ASSUME NEW T \in SUBSET (1 .. n), T # {}, c[T \ {Max(T)}] \in V
        PROVE  c[T] = move[<<c[T \ {Max(T)}], Max(T)>>]
    <3>1. Max(T) \in 1 .. n
      BY <1>2, <2>2, GreatestUpTo
    <3>2. c[T] = Next(c[T \ {Max(T)}], Max(T))
      BY <1>8, <2>2
    <3> HIDE DEF Next
    <3> QED
      BY <1>7, <2>2, <3>1, <3>2
  <2> HIDE DEF Step
  <2> QED
    BY <2>1, <2>2 DEF FoldsAs
<1> HIDE DEF Step
<1>10. PICK g : GoesUp(g, n, V, none, move) /\ g[n] = c[1 .. n]
  BY <1>2, <1>7, <1>9, <1>b, FoldGoesUp
<1>11. g \in [0 .. n -> V] /\ g[0] = none /\ \A i \in 1 .. n : g[i - 1] \in V /\ g[i] = move[<<g[i - 1], i>>]
  BY <1>10 DEF GoesUp
<1> DEFINE So(m) == ScopeKeys(none) \cup UNION {RunKeys(P[i]) : i \in 1 .. m}
           G == {m \in 0 .. n : ScopeKeys(g[m]) = So(m)}
<1>12. 0 \in G
  <2>1. So(0) = ScopeKeys(none)
    <3>1. 1 .. 0 = {}
      OBVIOUS
    <3> QED
      BY <3>1
  <2> HIDE DEF So
  <2>2. ScopeKeys(g[0]) = So(0)
    BY <1>11, <2>1
  <2> QED
    BY <1>2, <2>2
<1>13. ASSUME NEW m \in 0 .. n - 1, m \in G
       PROVE  m + 1 \in G
  <2>1. m + 1 \in 1 .. n /\ m + 1 \in 0 .. n /\ (m + 1) - 1 = m /\ m \in Nat /\ m \in 0 .. n
    BY <1>2
  <2>2. g[m] \in V /\ g[m + 1] = Next(g[m], m + 1)
    <3> HIDE DEF Next
    <3> QED
      BY <1>7, <1>11, <2>1
  <2> HIDE DEF Next
  <2>3. ScopeKeys(g[m + 1]) = ScopeKeys(g[m]) \cup RunKeys(P[m + 1])
    BY <1>6, <2>1, <2>2
  <2>4. So(m + 1) = So(m) \cup RunKeys(P[m + 1])
    <3>1. 1 .. m + 1 = (1 .. m) \cup {m + 1}
      BY <2>1
    <3> QED
      BY <3>1
  <2>5. ScopeKeys(g[m]) = So(m)
    BY <1>13
  <2> HIDE DEF So
  <2>6. ScopeKeys(g[m + 1]) = So(m + 1)
    BY <2>3, <2>4, <2>5
  <2> QED
    BY <2>1, <2>6
<1> HIDE DEF G
<1>15. n \in G
  <2>1. n \in Nat
    BY <1>2
  <2>2. \A m \in 0 .. n : m \in G
    BY <1>12, <1>13, <2>1, CountedUp
  <2> QED
    BY <2>1, <2>2
<1>16. ScopeKeys(g[n]) = So(n)
  BY <1>15 DEF G
<1>17. g[n] \in V /\ g[n] = AllowAll(none, P)
  BY <1>2, <1>4, <1>10, <1>11
<1>18. g[n] \in Scopes /\ So(n) = ScopeKeys(none) \cup Covered(P)
  BY <1>17 DEF V, Covered, n
<1> QED
  BY <1>16, <1>17, <1>18

(* Those that the tombstones have are excluded.                            *)
ExcludeAll(all, dead, m) == FoldLeft(LAMBDA sc, s : Exclude(sc, s, dead[s]), all, Count(m))

(* Every segment loses its own tombstones.                                 *)
LEMMA AllExclude ==
  ASSUME IndexOK, NEW all \in Scopes
  PROVE  /\ ExcludeAll(all, deleted, Len(files)) \in Scopes
         /\ ScopeKeys(ExcludeAll(all, deleted, Len(files))) = {key \in ScopeKeys(all) : ~IsDead(key)}
<1> DEFINE n == Len(files)
           V == Scopes
           Next(g, i) == Exclude(g, i, deleted[i])
           move == [x \in V \X (1 .. n) |-> Next(x[1], x[2])]
           Step(h) == [T \in SUBSET (1 .. n) |-> IF T = {} THEN all
                         ELSE LET i == Max(T)
                              IN  Exclude(h[T \ {i}], Count(n)[i], deleted[Count(n)[i]])]
           c == CHOOSE h : h = Step(h)
<1>2. n \in Nat /\ Segs = 1 .. n /\ \A i \in 1 .. n : deleted[i] \in Seq(SUBSET Bits)
  BY DEF IndexOK, Segs
<1>3. DOMAIN Count(n) = 1 .. n /\ \A i \in 1 .. n : Count(n)[i] = i
  BY DEF Count
<1>4. ExcludeAll(all, deleted, n) = c[1 .. n]
  BY <1>3 DEF ExcludeAll, FoldLeft, MapThenFoldSet
<1> HIDE DEF n
<1>6. ASSUME NEW g \in V, NEW i \in 1 .. n
      PROVE  /\ Next(g, i) \in V
             /\ ScopeKeys(Next(g, i)) = {key \in ScopeKeys(g) : ~(key[1] = i /\ BitIsSet(deleted[i], key[2]))}
  BY <1>2, TombstonesExclude
<1>7. move \in FoldSteps(V, n) /\ \A g \in V, i \in 1 .. n : move[<<g, i>>] = Next(g, i)
  <2> HIDE DEF V, Next
  <2> QED
    BY <1>6 DEF FoldSteps
<1>b. all \in V
  OBVIOUS
<1> HIDE DEF move, V
<1>8. c = Step(c)
  <2>1. PICK h \in [SUBSET (1 .. n) -> V] : FoldOf(h, n, all, move)
    BY <1>2, <1>7, <1>b, FoldExists
  <2>2. \A T \in SUBSET (1 .. n) : T # {} => Max(T) \in 1 .. n
    BY <1>2, GreatestUpTo
  <2>3. ASSUME NEW T \in SUBSET (1 .. n)
        PROVE  h[T] = IF T = {} THEN all ELSE Exclude(h[T \ {Max(T)}], Count(n)[Max(T)], deleted[Count(n)[Max(T)]])
    <3>1. h[T] = IF T = {} THEN all ELSE move[<<h[T \ {Max(T)}], Max(T)>>]
      BY <2>1 DEF FoldOf
    <3>2. T # {} => h[T \ {Max(T)}] \in V /\ Max(T) \in 1 .. n /\ Count(n)[Max(T)] = Max(T)
      BY <1>3, <2>2
    <3> QED
      BY <1>7, <3>1, <3>2
  <2>4. h = Step(h)
    BY <2>3
  <2> HIDE DEF Step
  <2> QED
    BY <2>4
<1> HIDE DEF c
<1>9. FoldsAs(c, n, V, all, move)
  <2>1. c[{}] = all
    BY <1>8
  <2>2. ASSUME NEW T \in SUBSET (1 .. n), T # {}, c[T \ {Max(T)}] \in V
        PROVE  c[T] = move[<<c[T \ {Max(T)}], Max(T)>>]
    <3>1. Max(T) \in 1 .. n /\ Count(n)[Max(T)] = Max(T)
      BY <1>2, <1>3, <2>2, GreatestUpTo
    <3>2. c[T] = Exclude(c[T \ {Max(T)}], Count(n)[Max(T)], deleted[Count(n)[Max(T)]])
      BY <1>8, <2>2
    <3> QED
      BY <1>7, <2>2, <3>1, <3>2
  <2> HIDE DEF Step
  <2> QED
    BY <2>1, <2>2 DEF FoldsAs
<1> HIDE DEF Step
<1>10. PICK g : GoesUp(g, n, V, all, move) /\ g[n] = c[1 .. n]
  BY <1>2, <1>7, <1>9, <1>b, FoldGoesUp
<1>11. g \in [0 .. n -> V] /\ g[0] = all /\ \A i \in 1 .. n : g[i - 1] \in V /\ g[i] = move[<<g[i - 1], i>>]
  BY <1>10 DEF GoesUp
<1>k. ScopeKeys(all) \subseteq Segs \X Nat
  BY DEF ScopeKeys
<1> DEFINE So(m) == {key \in ScopeKeys(all) : ~(key[1] <= m /\ IsDead(key))}
           G == {m \in 0 .. n : ScopeKeys(g[m]) = So(m)}
<1>12. 0 \in G
  <2>1. So(0) = ScopeKeys(all)
    <3>1. \A key \in ScopeKeys(all) : ~(key[1] <= 0)
      BY <1>2, <1>k
    <3> QED
      BY <3>1
  <2> HIDE DEF So
  <2>2. ScopeKeys(g[0]) = So(0)
    BY <1>11, <2>1
  <2> QED
    BY <1>2, <2>2
<1>13. ASSUME NEW m \in 0 .. n - 1, m \in G
       PROVE  m + 1 \in G
  <2>1. m + 1 \in 1 .. n /\ m + 1 \in 0 .. n /\ (m + 1) - 1 = m /\ m \in Nat /\ m \in 0 .. n
    BY <1>2
  <2>2. g[m] \in V /\ g[m + 1] = Next(g[m], m + 1)
    <3> HIDE DEF Next
    <3> QED
      BY <1>7, <1>11, <2>1
  <2> HIDE DEF Next
  <2>3. ScopeKeys(g[m + 1]) = {key \in ScopeKeys(g[m]) : ~(key[1] = m + 1 /\ BitIsSet(deleted[m + 1], key[2]))}
    BY <1>6, <2>1, <2>2
  <2>5. ScopeKeys(g[m]) = So(m)
    BY <1>13
  <2>4. \A key \in ScopeKeys(all) : key[1] <= m + 1 <=> key[1] <= m \/ key[1] = m + 1
    <3>1. \A key \in ScopeKeys(all) : key[1] \in Nat
      BY <1>2, <1>k
    <3>2. \A k \in Nat : k <= m + 1 <=> k <= m \/ k = m + 1
      BY <2>1
    <3> QED
      BY <3>1, <3>2
  <2>6. ScopeKeys(g[m + 1]) = So(m + 1)
    <3>1. \A key \in ScopeKeys(all) : key[1] = m + 1 => (IsDead(key) <=> BitIsSet(deleted[m + 1], key[2]))
      BY DEF IsDead
    <3> QED
      BY <2>3, <2>4, <2>5, <3>1
  <2> HIDE DEF So
  <2> QED
    BY <2>1, <2>6
<1> HIDE DEF G
<1>15. n \in G
  <2>1. n \in Nat
    BY <1>2
  <2>2. \A m \in 0 .. n : m \in G
    BY <1>12, <1>13, <2>1, CountedUp
  <2> QED
    BY <2>1, <2>2
<1>16. ScopeKeys(g[n]) = So(n)
  BY <1>15 DEF G
<1>17. g[n] \in V /\ g[n] = ExcludeAll(all, deleted, n)
  BY <1>2, <1>4, <1>10, <1>11
<1>18. g[n] \in Scopes
  BY <1>17 DEF V
<1>19. So(n) = {key \in ScopeKeys(all) : ~IsDead(key)}
  <2>1. \A key \in ScopeKeys(all) : key[1] <= n
    BY <1>2, <1>k
  <2> QED
    BY <2>1
<1> QED
  BY <1>16, <1>17, <1>18, <1>19 DEF n

(* The next bit that is set, from any number on.                           *)
LEMMA NextBitIs ==
  ASSUME NEW words \in Seq(SUBSET Bits), NEW d \in Nat
  PROVE  LET next == {e \in BitsOf(words) : e >= d}
         IN  NextSetBit(words, d) = IF next = {} THEN NoBit ELSE Min(next)
<1> DEFINE n == Len(words)
           from == d \div Width
           Left(i) == IF i = from THEN {b \in WordAt(words, i) : b >= d % Width} ELSE WordAt(words, i)
           rest == {i \in from .. n - 1 : Left(i) # {}}
           next == {e \in BitsOf(words) : e >= d}
           w == Min(rest)
           first == w * Width + Min(Left(w))
<1>1. Width \in Nat /\ Width > 0 /\ n \in Nat
  BY ScopeAssumption
<1>2. from \in Nat /\ d % Width \in Bits /\ d % Width \in Nat /\ d = (from * Width) + (d % Width)
  <2>1. from \in Nat /\ d % Width \in Bits /\ d = (from * Width) + (d % Width)
    BY Divided
  <2>2. \A b \in Bits : b \in Nat
    BY <1>1 DEF Bits
  <2> QED
    BY <2>1, <2>2
<1>3. NextSetBit(words, d) = IF rest = {} THEN NoBit ELSE first
  BY DEF NextSetBit
<1>4. \A e \in Nat : e \in next <=> e >= d /\ e \div Width < n /\ e % Width \in WordAt(words, e \div Width)
  BY BitsAre DEF WordAt
<1>5. next \subseteq Nat
  BY BitsAre
<1> HIDE DEF n, from
<1>6. \A i \in Nat : i < n => WordAt(words, i) \in SUBSET Bits
  <2> SUFFICES ASSUME NEW i \in Nat, i < n PROVE WordAt(words, i) \in SUBSET Bits
    OBVIOUS
  <2>1. i + 1 \in 1 .. Len(words)
    BY <1>1 DEF n
  <2> QED
    BY <2>1 DEF WordAt
<1>7. \A i \in rest : i \in Nat /\ i < n /\ from <= i /\ Left(i) \in SUBSET Bits /\ Left(i) # {}
  <2> SUFFICES ASSUME NEW i \in rest PROVE i \in Nat /\ i < n /\ from <= i /\ Left(i) \in SUBSET Bits /\ Left(i) # {}
    OBVIOUS
  <2>1. i \in Nat /\ i < n /\ from <= i
    BY <1>1, <1>2
  <2> QED
    BY <1>6, <2>1
<1>8. ASSUME NEW i \in rest, NEW b \in Left(i)
      PROVE  /\ i * Width + b \in next /\ b \in Bits
  <2>1. i \in Nat /\ i < n /\ from <= i /\ b \in Bits /\ b \in WordAt(words, i)
    BY <1>7
  <2>2. i * Width + b \in Nat /\ (i * Width + b) \div Width = i /\ (i * Width + b) % Width = b
    BY <2>1, DividedOnce
  <2>3. i * Width + b >= d
    <3>1. CASE i = from
      <4>1. b >= d % Width /\ b \in Nat
        BY <2>1, <3>1 DEF Bits
      <4>2. from * Width \in Nat
        BY <1>1, <1>2
      <4> HIDE DEF Left, rest
      <4> QED
        BY <1>2, <3>1, <4>1, <4>2
    <3>2. CASE i # from
      <4>1. ~(i * Width + b < d)
        <5>1. ~(d \div Width > i) /\ d \div Width < i
          BY <1>2, <2>1, <3>2 DEF from
        <5>2. d < i * Width /\ i * Width \in Nat
          BY <2>1, <5>1, DividedBelow
        <5>3. b \in Nat
          BY <2>1 DEF Bits
        <5> QED
          BY <5>2, <5>3
      <4> QED
        BY <2>2, <4>1
    <3> QED
      BY <3>1, <3>2
  <2> QED
    BY <1>4, <2>1, <2>2, <2>3
<1>9. ASSUME NEW e \in next
      PROVE  e \div Width \in rest /\ e % Width \in Left(e \div Width)
  <2> DEFINE i == e \div Width
             b == e % Width
  <2>1. e \in Nat /\ e >= d /\ i < n /\ b \in WordAt(words, i)
    BY <1>4, <1>5
  <2>2. i \in Nat /\ b \in Bits /\ e = (i * Width) + b
    BY <2>1, Divided
  <2>3. from <= i
    <3>1. CASE i < from
      <4>1. e < from * Width /\ from * Width \in Nat
        BY <1>2, <2>1, <3>1, DividedBelow
      <4> QED
        BY <1>2, <2>1, <4>1
    <3> HIDE DEF i
    <3> QED
      BY <1>2, <2>2, <3>1
  <2>4. i = from => b >= d % Width
    <3>1. ASSUME i = from PROVE b >= d % Width
      <4>1. from * Width \in Nat /\ b \in Nat
        BY <1>1, <1>2, <2>2 DEF Bits
      <4> HIDE DEF i, b
      <4> QED
        BY <1>2, <2>1, <2>2, <3>1, <4>1
    <3> QED
      BY <3>1
  <2> HIDE DEF i, b
  <2>5. b \in Left(i)
    BY <2>1, <2>4
  <2>6. i \in from .. n - 1
    BY <1>1, <1>2, <2>1, <2>2, <2>3
  <2> HIDE DEF Left
  <2>7. i \in rest
    BY <2>5, <2>6
  <2> QED
    BY <2>5, <2>7 DEF i, b
<1>10. CASE rest = {}
  <2>1. next = {}
    BY <1>9, <1>10
  <2> QED
    BY <1>3, <1>10, <2>1
<1>11. CASE rest # {}
  <2> HIDE DEF next
  <2>1. w \in rest /\ \A i \in rest : w <= i
    <3>1. IsFiniteSet(rest) /\ rest \in SUBSET Int
      <4>1. n - 1 \in Int /\ from \in Int
        BY <1>1, <1>2
      <4>2. IsFiniteSet(from .. n - 1)
        BY <4>1, FS_Interval
      <4>3. rest \subseteq from .. n - 1
        OBVIOUS
      <4> HIDE DEF rest
      <4>4. IsFiniteSet(rest)
        BY <4>2, <4>3, FS_Subset
      <4> QED
        BY <1>1, <1>2, <4>3, <4>4
    <3> HIDE DEF rest
    <3> QED
      BY <1>11, <3>1, MinOfFinite
  <2>2. w \in Nat /\ Left(w) \in SUBSET Bits /\ Left(w) # {}
    BY <1>7, <2>1
  <2>3. Min(Left(w)) \in Left(w) /\ \A b \in Left(w) : Min(Left(w)) <= b
    <3> DEFINE L == Left(w)
    <3>1. L \in SUBSET Bits /\ L # {}
      BY <2>2
    <3> HIDE DEF L
    <3>2. IsFiniteSet(L) /\ L \in SUBSET Int
      <4>1. IsFiniteSet(L)
        BY <3>1, DocumentsOfWord
      <4> QED
        BY <3>1, <4>1 DEF Bits
    <3>3. Min(L) \in L /\ \A b \in L : Min(L) <= b
      BY <3>1, <3>2, MinOfFinite
    <3> QED
      BY <3>3 DEF L
  <2>4. first \in next
    BY <1>8, <2>1, <2>3
  <2>5. ASSUME NEW e \in next
        PROVE  first <= e
    <3> DEFINE i == e \div Width
               b == e % Width
               m == Min(Left(w))
    <3>1. e \in Nat /\ i \in rest /\ b \in Left(i)
      BY <1>5, <1>9 DEF next
    <3>2. i \in Nat /\ b \in Nat /\ e = (i * Width) + b
      <4>1. e \in Nat
        BY <3>1
      <4> QED
        BY <4>1, Divided DEF Bits
    <3>3. m \in Nat /\ m < Width /\ w \in Nat /\ w <= i
      <4>1. m \in Bits
        BY <2>2, <2>3
      <4> HIDE DEF m, w, i
      <4> QED
        BY <1>1, <2>1, <2>2, <3>1, <4>1 DEF Bits
    <3>4. w = i => m <= b
      BY <2>3, <3>1
    <3>5. first = (w * Width) + m
      OBVIOUS
    <3> HIDE DEF w, m, i, b, first
    <3>6. w * Width \in Nat /\ i * Width \in Nat
      BY <1>1, <3>2, <3>3
    <3>7. CASE w = i
      BY <3>2, <3>3, <3>4, <3>5, <3>6, <3>7
    <3>8. CASE w # i
      <4>1. w + 1 <= i
        BY <3>2, <3>3, <3>8
      <4>2. (w + 1) * Width <= i * Width
        BY <1>1, <3>2, <3>3, <4>1
      <4>3. (w + 1) * Width = (w * Width) + Width
        BY <1>1, <3>3
      <4> QED
        BY <1>1, <3>2, <3>3, <3>5, <3>6, <4>2, <4>3
    <3> QED
      BY <3>7, <3>8
  <2>6. Min(next) = first
    <3> HIDE DEF first
    <3>1. IsFiniteSet(next) /\ next \in SUBSET Int
      <4>1. Len(words) * Width \in Nat
        BY DividedBelow
      <4>2. 0 .. Len(words) * Width - 1 \subseteq Nat /\ IsFiniteSet(0 .. Len(words) * Width - 1)
        <5> DEFINE k == Len(words) * Width
        <5>1. k \in Nat
          BY <4>1
        <5> HIDE DEF k
        <5>2. 0 \in Int /\ k - 1 \in Int
          BY <5>1
        <5>3. IsFiniteSet(0 .. k - 1)
          BY <5>2, FS_Interval
        <5> QED
          BY <5>1, <5>3 DEF k
      <4>3. next \subseteq 0 .. Len(words) * Width - 1
        BY DEF next, BitsOf
      <4> QED
        <5>1. IsFiniteSet(next)
          BY <4>2, <4>3, FS_Subset
        <5>2. next \in SUBSET Int
          BY <1>5
        <5> QED
          BY <5>1, <5>2
    <3>2. Min(next) \in next /\ \A e \in next : Min(next) <= e
      BY <2>4, <3>1, MinOfFinite
    <3>3. first <= Min(next) /\ Min(next) <= first /\ first \in Int /\ Min(next) \in Int
      BY <2>4, <2>5, <3>1, <3>2
    <3> QED
      BY <3>3
  <2>7. next # {}
    BY <2>4
  <2>8. NextSetBit(words, d) = first
    BY <1>3, <1>11
  <2> HIDE DEF first, rest
  <2> QED
    BY <2>6, <2>7, <2>8 DEF next
<1> QED
  BY <1>10, <1>11

(* Few of the files a glob accepts are there.                              *)
LEMMA AcceptedAreFinite ==
  ASSUME IndexOK, NEW A
  PROVE  IsFiniteSet(A \cap UNION {ToSet(files[s]) : s \in Segs})
<1> DEFINE f == [key \in Keys |-> FileOf(key)]
<1>1. IsFiniteSet({f[key] : key \in Keys})
  BY KeysAre, ImageFinite
<1>2. A \cap UNION {ToSet(files[s]) : s \in Segs} \subseteq {f[key] : key \in Keys}
  <2> SUFFICES ASSUME NEW s \in Segs, NEW i \in DOMAIN files[s] PROVE files[s][i] \in {f[key] : key \in Keys}
    BY DEF ToSet
  <2>1. i \in Nat \ {0} /\ i - 1 \in Nat /\ i - 1 < Len(files[s]) /\ (i - 1) + 1 = i
    <3>1. files[s] \in Seq(Paths)
      BY DEF IndexOK, Segs
    <3>2. i \in 1 .. Len(files[s]) /\ Len(files[s]) \in Nat
      BY <3>1
    <3> QED
      BY <3>2
  <2>2. <<s, i - 1>> \in Keys
    BY <2>1, KeysAre
  <2>3. f[<<s, i - 1>>] = files[s][i]
    BY <2>1, <2>2 DEF FileOf
  <2> QED
    BY <2>2, <2>3
<1> QED
  BY <1>1, <1>2, FS_Subset

(* ScopeOf, runs and tombstones together, is the live documents of the     *)
(* files.                                                                  *)
LEMMA ScopeKeysAre ==
  ASSUME IndexOK, NEW taken, IsFiniteSet(taken)
  PROVE  /\ ScopeOf(files, taken, deleted) \in Scopes
         /\ ScopeKeys(ScopeOf(files, taken, deleted)) = {key \in LiveKeys : FileOf(key) \in taken}
<1> DEFINE sizes == [s \in DOMAIN files |-> Len(files[s])]
           each == {RunsOf(files, f) : f \in taken}
           runs == FlattenSeq(SetToSeq(each))
           allowed == AllowAll(NewScope(sizes), runs)
<1>1. ScopeOf(files, taken, deleted) = ExcludeAll(allowed, deleted, Len(files))
  BY DEF ScopeOf, ExcludeAll, AllowAll
<1>2. IsFiniteSet(each) /\ each \subseteq Seq(Runs)
  <2> DEFINE h == [f \in taken |-> RunsOf(files, f)]
  <2>1. IsFiniteSet({h[f] : f \in taken})
    BY ImageFinite
  <2>2. {h[f] : f \in taken} = each
    OBVIOUS
  <2>3. each \subseteq Seq(Runs)
    BY RunsOfAre
  <2> QED
    BY <2>1, <2>2, <2>3
<1>3. runs \in Seq(Runs) /\ Covered(runs) = {key \in Keys : FileOf(key) \in taken}
  <2> DEFINE seqs == SetToSeq(each)
  <2>1. seqs \in Seq(each) /\ ToSet(seqs) = each
    <3> HIDE DEF each
    <3> QED
      BY <1>2, SetToSeqIs
  <2> HIDE DEF seqs
  <2>2. seqs \in Seq(Seq(Runs))
    <3> HIDE DEF each
    <3> QED
      BY <1>2, <2>1
  <2>3. runs \in Seq(Runs) /\ ToSet(runs) = UNION {ToSet(seqs[i]) : i \in 1 .. Len(seqs)}
    BY <2>2, FlattenIs DEF seqs
  <2> HIDE DEF runs
  <2>4. \A key : key \in Covered(runs) <=> \E r \in ToSet(runs) : key \in RunKeys(r)
    <3>1. DOMAIN runs = 1 .. Len(runs)
      BY <2>3
    <3> QED
      BY <3>1 DEF Covered, ToSet
  <2>5. \A r : r \in ToSet(runs) <=> \E f \in taken : r \in ToSet(RunsOf(files, f))
    <3>1. \A r : r \in ToSet(runs) <=> \E i \in 1 .. Len(seqs) : r \in ToSet(seqs[i])
      BY <2>3
    <3>2. DOMAIN seqs = 1 .. Len(seqs)
      BY <2>1
    <3>3. \A g : g \in each <=> \E i \in 1 .. Len(seqs) : g = seqs[i]
      BY <2>1, <3>2 DEF ToSet
    <3>4. \A r : r \in ToSet(runs) <=> \E g \in each : r \in ToSet(g)
      BY <3>1, <3>3
    <3> QED
      BY <3>4
  <2>6. \A f \in taken : \A key : (\E r \in ToSet(RunsOf(files, f)) : key \in RunKeys(r)) <=> key \in Keys /\ FileOf(key) = f
    <3> SUFFICES ASSUME NEW f \in taken
                 PROVE  \A key : (\E r \in ToSet(RunsOf(files, f)) : key \in RunKeys(r)) <=> key \in Keys /\ FileOf(key) = f
      OBVIOUS
    <3> DEFINE g == RunsOf(files, f)
    <3>1. g \in Seq(Runs) /\ Covered(g) = {key \in Keys : FileOf(key) = f}
      BY RunsOfAre
    <3> HIDE DEF g
    <3>2. DOMAIN g = 1 .. Len(g)
      BY <3>1
    <3>3. \A key : key \in Covered(g) <=> \E r \in ToSet(g) : key \in RunKeys(r)
      BY <3>2 DEF Covered, ToSet
    <3> QED
      BY <3>1, <3>3 DEF g
  <2>7. \A key : key \in Covered(runs) <=> \E f \in taken : key \in Keys /\ FileOf(key) = f
    <3> HIDE DEF each
    <3> QED
      BY <2>4, <2>5, <2>6
  <2> QED
    BY <2>3, <2>7
<1>4. NewScope(sizes) \in Scopes /\ ScopeKeys(NewScope(sizes)) = {}
  BY NothingAllowed
<1> HIDE DEF sizes, runs
<1>5. allowed \in Scopes /\ ScopeKeys(allowed) = Covered(runs)
  <2> DEFINE none == NewScope(sizes)
  <2>1. none \in Scopes /\ ScopeKeys(none) = {}
    BY <1>4
  <2> HIDE DEF none
  <2>2. AllowAll(none, runs) \in Scopes /\ ScopeKeys(AllowAll(none, runs)) = ScopeKeys(none) \cup Covered(runs)
    BY <1>3, <2>1, RunsAllow
  <2> QED
    BY <2>1, <2>2 DEF none
<1> HIDE DEF allowed
<1>6. /\ ExcludeAll(allowed, deleted, Len(files)) \in Scopes
      /\ ScopeKeys(ExcludeAll(allowed, deleted, Len(files))) = {key \in ScopeKeys(allowed) : ~IsDead(key)}
  BY <1>5, AllExclude
<1>7. {key \in ScopeKeys(allowed) : ~IsDead(key)} = {key \in LiveKeys : FileOf(key) \in taken}
  BY <1>3, <1>5 DEF LiveKeys
<1> QED
  BY <1>1, <1>6, <1>7

(* A scope of what a glob accepts, to whoever reads it.                    *)
LEMMA ScopeIsExact ==
  ASSUME IndexOK, NEW sc \in Scopes, NEW g, ScopeKeys(sc) = {key \in LiveKeys : FileOf(key) \in Accepts[g]}
  PROVE  IsScopeOf(sc, g)
<1> DEFINE in == {key \in LiveKeys : FileOf(key) \in Accepts[g]}
<1>1. sc.matched = Cardinality(in) /\ sc \in Shapes
  BY DEF Scopes
<1>2. ASSUME NEW s \in Segs
      PROVE  LET here == {key[2] : key \in {k \in in : k[1] = s}}
                 words == SegmentBits(sc, s)
             IN  /\ BitsOf(words) = here
                 /\ \A d \in 0 .. (Len(words) + 1) * Width :
                      LET next == {e \in here : e >= d}
                      IN  NextSetBit(words, d) = IF next = {} THEN NoBit ELSE Min(next)
  <2> DEFINE here == {key[2] : key \in {k \in in : k[1] = s}}
             words == SegmentBits(sc, s)
  <2>1. words \in Seq(SUBSET Bits) /\ words = sc.allowed[s]
        /\ \A d \in Nat : <<s, d>> \in ScopeKeys(sc) <=> BitIsSet(words, d)
    <3>1. sc.allowed[s] \in Seq(SUBSET Bits) /\ SegmentBits(sc, s) = sc.allowed[s]
          /\ \A d \in Nat : <<s, d>> \in ScopeKeys(sc) <=> BitIsSet(sc.allowed[s], d)
      BY <1>1, ShapeIs
    <3> QED
      BY <3>1
  <2>2. here = {d \in Nat : <<s, d>> \in in}
    <3>1. in \subseteq Segs \X Nat
      BY KeysAre DEF LiveKeys
    <3> HIDE DEF in
    <3> QED
      BY <3>1
  <2> HIDE DEF words
  <2>3. BitsOf(words) = {d \in Nat : BitIsSet(words, d)}
    BY <2>1, BitsAre
  <2>4. BitsOf(words) = here
    BY <2>1, <2>2, <2>3
  <2> HIDE DEF here
  <2>5. ASSUME NEW d \in 0 .. (Len(words) + 1) * Width
        PROVE  NextSetBit(words, d) = IF {e \in here : e >= d} = {} THEN NoBit ELSE Min({e \in here : e >= d})
    <3>1. Len(words) \in Nat /\ Width \in Nat
      BY <2>1, ScopeAssumption
    <3>2. d \in Nat
      OBVIOUS
    <3>3. NextSetBit(words, d) = IF {e \in BitsOf(words) : e >= d} = {} THEN NoBit ELSE Min({e \in BitsOf(words) : e >= d})
      BY <2>1, <3>2, NextBitIs
    <3> QED
      BY <2>4, <3>3
  <2> QED
    BY <2>4, <2>5 DEF words, here
<1> QED
  BY <1>1, <1>2 DEF IsScopeOf

(* What scope_for_glob resolves is the scope of its glob.                  *)
LEMMA ResolvedIsExact ==
  ASSUME IndexOK, NEW g
  PROVE  LET sc == ScopeOf(files, Accepts[g] \cap UNION {ToSet(files[s]) : s \in Segs}, deleted)
         IN  /\ sc \in Scopes /\ ScopeKeys(sc) = {key \in LiveKeys : FileOf(key) \in Accepts[g]}
             /\ IsScopeOf(sc, g)
<1> DEFINE A == Accepts[g] \cap UNION {ToSet(files[s]) : s \in Segs}
           sc == ScopeOf(files, A, deleted)
<1>1. IsFiniteSet(A)
  BY AcceptedAreFinite
<1>2. \A key \in LiveKeys : FileOf(key) \in A <=> FileOf(key) \in Accepts[g]
  <2> SUFFICES ASSUME NEW key \in LiveKeys PROVE FileOf(key) \in UNION {ToSet(files[s]) : s \in Segs}
    OBVIOUS
  <2>1. PICK s \in Segs, d \in Nat : key = <<s, d>> /\ d < Len(files[s])
    BY KeysAre DEF LiveKeys
  <2>2. files[s] \in Seq(Paths) /\ Len(files[s]) \in Nat
    BY DEF IndexOK, Segs
  <2>3. d + 1 \in DOMAIN files[s]
    BY <2>1, <2>2
  <2> QED
    BY <2>1, <2>3 DEF FileOf, ToSet
<1> HIDE DEF A
<1>3. sc \in Scopes /\ ScopeKeys(sc) = {key \in LiveKeys : FileOf(key) \in A}
  BY <1>1, ScopeKeysAre
<1> HIDE DEF sc
<1>4. ScopeKeys(sc) = {key \in LiveKeys : FileOf(key) \in Accepts[g]}
  BY <1>2, <1>3
<1>5. IsScopeOf(sc, g)
  BY <1>3, <1>4, ScopeIsExact
<1> QED
  BY <1>3, <1>4, <1>5 DEF sc, A

-----------------------------------------------------------------------------
(* What a query finds: the live documents of its scope, of these those     *)
(* that hold one of its terms, with their weights, and those with a        *)
(* vector, with their closeness.                                           *)
Found(g)        == {key \in LiveKeys : g # NoGlob => FileOf(key) \in Accepts[g]}
Holding(ts, g)  == {key \in Found(g) : \E t \in ts : TextOf(key)[t] > 0}
WordHits(ts, g) == {<<key[1], key[2], Weight(ts, key)>> : key \in Holding(ts, g)}
NearOnes(g)     == {<<key[1], key[2], Close(key)>> : key \in {i \in Found(g) : Has(i[1])}}
OfSegment(hits, s) == {h \in hits : h[1] = s}

Most == Max({AskedFor, PoolSize})

(* The scopes remembered, and the one in use, are those of their globs.    *)
ScopesInv ==
  /\ Len(scopes) <= ScopesKept /\ scopes \in Seq([glob : Globs, scope : Scopes])
  /\ \A i \in DOMAIN scopes : ScopeKeys(scopes[i].scope) = Found(scopes[i].glob)
  /\ glob \in Globs \cup {NoGlob}
  /\ glob # NoGlob => scope \in Scopes /\ ScopeKeys(scope) = Found(glob) /\ Position(glob) # 0

(* A segment answers with the best of its own hits.                        *)
AnswersInv ==
  /\ query \in Seq(Terms) /\ depth \in Nat /\ left \in Nat
  /\ DOMAIN answers \subseteq Segs
  /\ \A s \in DOMAIN answers : answers[s] = TopOf(OfSegment(WordHits(ToSet(query), glob), s), depth)

RankingInv ==
  /\ ranking.done \in BOOLEAN
  /\ ranking.done => /\ query = NoQuery /\ ranking.glob = glob /\ ranking.terms \subseteq Terms
                     /\ ranking.hits = TopOf(WordHits(ranking.terms, glob), depth)

(* While a query ranks by meaning, and when it has: no vector is damaged,  *)
(* it has asked for enough words to fuse, and a pool holds near documents  *)
(* of its segment, the nearest of them if it was scanned.                  *)
DepthInv == mode.rank # "semantic" => depth = Most
PoolsInv ==
  /\ DOMAIN pools \subseteq Segs
  /\ \A s \in DOMAIN pools :
       /\ ToSet(pools[s]) \subseteq OfSegment(NearOnes(glob), s)
       /\ mode.exact \/ graphs = {} => pools[s] = TopOf(OfSegment(NearOnes(glob), s), depth)
FusionInv ==
  /\ mode \in Modes \cup {Lexical} /\ fused.state \in {"open", "failed", "done"}
  /\ mode # Lexical /\ fused # Failed => ~Damaged /\ DepthInv /\ PoolsInv

(* What has been made of the two lists.                                    *)
Fusing(words, near) ==
  CASE mode.rank = "semantic" -> SubSeq(near, 1, Min({Len(near), AskedFor}))
    [] mode.rank = "rerank"   -> FusedTop(mode, words, <<>>)
    [] OTHER                  -> FusedTop(mode, words, near)
ResultInv ==
  mode # Lexical /\ fused.state = "done" =>
    /\ ranking.done /\ KeysOf(fused.hits) \subseteq Found(glob)
    /\ \A key \in KeysOf(fused.hits) : Close(key) # Invalid
    /\ mode.exact \/ graphs = {} =>
         fused.hits = Fusing(TopOf(WordHits(ranking.terms, glob), depth), TopOf(NearOnes(glob), depth))

HandleInv == IndexOK /\ VectorsOK /\ ScopesInv /\ AnswersInv /\ RankingInv /\ FusionInv /\ ResultInv

-----------------------------------------------------------------------------
(* Weights *)

(* The documents, live ones among them, and their texts.                   *)
LEMMA TextsAre ==
  ASSUME IndexOK
  PROVE  /\ \A key \in Keys : /\ key[1] \in Segs /\ key[2] \in Local(key[1]) /\ key[2] \in Nat /\ key = <<key[1], key[2]>>
                              /\ TextOf(key) \in [Terms -> {0} \cup DOMAIN Gain]
                              /\ \A t \in Terms : TextOf(key)[t] \in Nat
                              /\ LengthOf(key) \in Nat
         /\ \A s \in Segs : \A d \in Local(s) : <<s, d>> \in Keys
         /\ IsFiniteSet(LiveKeys) /\ LiveKeys \subseteq Keys
         /\ NumLive \in Nat /\ NumLive <= Cardinality(Keys) /\ Cardinality(Keys) \in Nat /\ LiveLen \in Nat
<1>1. /\ Len(files) \in Nat /\ \A s \in Segs : Len(files[s]) \in Nat
      /\ Keys = {key \in Segs \X Nat : key[2] < Len(files[key[1]])}
      /\ IsFiniteSet(Keys) /\ Cardinality(Keys) \in Nat
  BY KeysAre
<1>2. ASSUME NEW key \in Keys
      PROVE  /\ key[1] \in Segs /\ key[2] \in Local(key[1]) /\ key[2] \in Nat /\ key = <<key[1], key[2]>>
             /\ TextOf(key) \in [Terms -> {0} \cup DOMAIN Gain]
             /\ \A t \in Terms : TextOf(key)[t] \in Nat
             /\ LengthOf(key) \in Nat
  <2>1. key[1] \in Segs /\ key[2] \in Nat /\ key[2] < Len(files[key[1]]) /\ Len(files[key[1]]) \in Nat /\ key = <<key[1], key[2]>>
    BY <1>1
  <2>2. key[2] \in Local(key[1])
    BY <2>1 DEF Local
  <2>3. texts[key[1]] \in Seq([Terms -> {0} \cup DOMAIN Gain]) /\ Len(texts[key[1]]) = Len(files[key[1]])
    BY <1>1, <2>1 DEF IndexOK, Segs
  <2>4. TextOf(key) \in [Terms -> {0} \cup DOMAIN Gain]
    BY <2>1, <2>3 DEF TextOf
  <2>5. \A t \in Terms : TextOf(key)[t] \in Nat
    BY <2>4, SearchAssumption
  <2>6. LengthOf(key) \in Nat
    <3>1. LengthOf(key) = SumFunctionOnSet(TextOf(key), Terms)
      BY <2>4 DEF LengthOf, SumFunction, SumFunctionOnSet, FoldFunction
    <3>2. IsFiniteSet(Terms)
      BY SearchAssumption
    <3> QED
      BY <2>5, <3>1, <3>2, SumRemove
  <2> QED
    BY <2>1, <2>2, <2>4, <2>5, <2>6
<1>3. ASSUME NEW s \in Segs, NEW d \in Local(s) PROVE <<s, d>> \in Keys
  BY <1>1 DEF Local
<1>4. LiveKeys \subseteq Keys
  BY DEF LiveKeys
<1>5. IsFiniteSet(LiveKeys) /\ NumLive \in Nat /\ NumLive <= Cardinality(Keys)
  BY <1>1, <1>4, FS_Subset, FS_CardinalityType DEF NumLive
<1>6. LiveLen \in Nat
  <2> DEFINE f == [key \in LiveKeys |-> LengthOf(key)]
  <2>1. LiveLen = SumFunctionOnSet(f, LiveKeys)
    BY DEF LiveLen, SumFunction, SumFunctionOnSet, FoldFunction
  <2>2. \A key \in LiveKeys : f[key] \in Nat
    BY <1>2, <1>4
  <2> HIDE DEF f
  <2> QED
    BY <1>5, <2>1, <2>2, SumRemove
<1> QED
  BY <1>1, <1>2, <1>3, <1>4, <1>5, <1>6

(* A term that a live document holds counts for something.                 *)
LEMMA IdfIs ==
  ASSUME IndexOK, NEW key \in LiveKeys, NEW t \in Terms, TextOf(key)[t] > 0
  PROVE  Idf(t) \in Nat \ {0}
<1> DEFINE D == {k \in Keys : TextOf(k)[t] > 0}
<1>1. key \in Keys /\ IsFiniteSet(LiveKeys) /\ NumLive \in Nat /\ NumLive <= Cardinality(Keys) /\ Cardinality(Keys) \in Nat
  BY TextsAre
<1>2. IsFiniteSet(Keys)
  BY KeysAre
<1>3. IsFiniteSet(D) /\ key \in D /\ Df(t) = Cardinality(D)
  BY <1>1, <1>2, FS_Subset DEF Df
<1> HIDE DEF D
<1>4. Df(t) \in Nat /\ Df(t) # 0
  BY <1>3, FS_CardinalityType, FS_EmptySet
<1>5. NumLive # 0
  BY <1>1, FS_EmptySet DEF NumLive
<1> DEFINE m == Min({Df(t), NumLive})
<1>6. m = IF Df(t) <= NumLive THEN Df(t) ELSE NumLive
  BY <1>1, <1>4, MinOfTwo
<1> HIDE DEF m
<1>7. m \in 1 .. NumLive
  BY <1>1, <1>4, <1>5, <1>6
<1>8. NumLive \in DOMAIN Rarity
  BY <1>1 DEF IndexOK
<1>9. Rarity[NumLive][m] \in Nat \ {0}
  BY <1>7, <1>8, SearchAssumption
<1> QED
  BY <1>9 DEF Idf, m

(* A live document weighs something exactly when it holds a term.          *)
LEMMA WeightIs ==
  ASSUME IndexOK, NEW ts \in SUBSET Terms, NEW key \in LiveKeys
  PROVE  /\ Weight(ts, key) \in Nat
         /\ Weight(ts, key) > 0 <=> \E t \in ts : TextOf(key)[t] > 0
<1> DEFINE f == [t \in ts |-> IF TextOf(key)[t] = 0 THEN 0 ELSE Idf(t) * Gain[TextOf(key)[t]][IsLong(key)]]
<1>1. /\ key \in Keys /\ LengthOf(key) \in Nat /\ NumLive \in Nat /\ LiveLen \in Nat
      /\ TextOf(key) \in [Terms -> {0} \cup DOMAIN Gain] /\ \A t \in Terms : TextOf(key)[t] \in Nat
  BY TextsAre
<1>2. IsLong(key) \in BOOLEAN
  <2>1. CASE NumLive = 0
    <3>1. IsLong(key) = (LengthOf(key) > 1)
      BY <2>1 DEF IsLong
    <3>2. (LengthOf(key) > 1) \in BOOLEAN
      OBVIOUS
    <3> QED
      BY <3>1, <3>2
  <2>2. CASE NumLive # 0
    <3>1. IsLong(key) = (LengthOf(key) * NumLive > LiveLen)
      BY <2>2 DEF IsLong
    <3>2. (LengthOf(key) * NumLive > LiveLen) \in BOOLEAN
      OBVIOUS
    <3> QED
      BY <3>1, <3>2
  <2> QED
    BY <2>1, <2>2
<1>3. ASSUME NEW t \in ts PROVE f[t] \in Nat /\ (f[t] > 0 <=> TextOf(key)[t] > 0)
  <2>1. CASE TextOf(key)[t] = 0
    BY <2>1
  <2>2. CASE TextOf(key)[t] # 0
    <3>1. TextOf(key)[t] > 0 /\ TextOf(key)[t] \in DOMAIN Gain
      BY <1>1, <2>2
    <3>2. Gain[TextOf(key)[t]][IsLong(key)] \in Nat \ {0}
      BY <1>2, <3>1, SearchAssumption
    <3>3. Idf(t) \in Nat \ {0}
      BY <3>1, IdfIs
    <3>4. f[t] = Idf(t) * Gain[TextOf(key)[t]][IsLong(key)]
      BY <2>2
    <3>5. \A x, y \in Nat \ {0} : x * y \in Nat \ {0}
      OBVIOUS
    <3> QED
      BY <3>1, <3>2, <3>3, <3>4, <3>5
  <2> QED
    BY <2>1, <2>2
<1>4. IsFiniteSet(ts) /\ \A t \in ts : f[t] \in Nat
  BY <1>3, SearchAssumption, FS_Subset
<1>5. Weight(ts, key) = SumFunctionOnSet(f, ts)
  BY DEF Weight, SumFunction, SumFunctionOnSet, FoldFunction
<1>6. \A t \in ts : f[t] > 0 <=> TextOf(key)[t] > 0
  BY <1>3
<1> HIDE DEF f
<1>7. SumFunctionOnSet(f, ts) \in Nat /\ (SumFunctionOnSet(f, ts) > 0 <=> \E t \in ts : f[t] > 0)
  BY <1>4, SumPositive
<1> QED
  BY <1>5, <1>6, <1>7

-----------------------------------------------------------------------------
(* What a query finds *)

(* What is found is live, and there.                                       *)
LEMMA FoundAre ==
  ASSUME IndexOK, NEW g
  PROVE  /\ IsFiniteSet(Found(g)) /\ Found(g) \subseteq LiveKeys /\ Found(g) \subseteq Keys
         /\ g # NoGlob => Found(g) = {key \in LiveKeys : FileOf(key) \in Accepts[g]}
         /\ g = NoGlob => Found(g) = LiveKeys
<1>1. Found(g) \subseteq LiveKeys /\ IsFiniteSet(LiveKeys) /\ LiveKeys \subseteq Keys
  BY TextsAre DEF Found
<1>2. g # NoGlob => Found(g) = {key \in LiveKeys : FileOf(key) \in Accepts[g]}
  BY DEF Found
<1>3. g = NoGlob => Found(g) = LiveKeys
  BY DEF Found
<1> QED
  BY <1>1, <1>2, <1>3, FS_Subset

(* Who looks at a segment through the scope sees what the query finds.     *)
LEMMA VisibleIs ==
  ASSUME IndexOK, ScopesInv, NEW s \in Segs
  PROVE  /\ Visible(s) \subseteq Local(s)
         /\ \A d \in Local(s) : d \in Visible(s) <=> <<s, d>> \in Found(glob)
<1>1. Visible(s) \subseteq Local(s)
  BY DEF Visible
<1>2. ASSUME NEW d \in Local(s) PROVE d \in Visible(s) <=> <<s, d>> \in Found(glob)
  <2>1. <<s, d>> \in Keys /\ d \in Nat
    <3>1. <<s, d>> \in Keys
      BY TextsAre
    <3>2. <<s, d>>[2] \in Nat
      BY <3>1, TextsAre
    <3> QED
      BY <3>1, <3>2
  <2>2. <<s, d>> \in LiveKeys <=> ~IsDead(<<s, d>>)
    BY <2>1 DEF LiveKeys
  <2>3. CASE glob = NoGlob
    BY <2>2, <2>3, FoundAre DEF Visible
  <2>4. CASE glob # NoGlob
    <3>1. scope \in Scopes /\ ScopeKeys(scope) = Found(glob)
      BY <2>4 DEF ScopesInv
    <3>2. scope \in Shapes
      BY <3>1 DEF Scopes
    <3>3. SegmentBits(scope, s) = scope.allowed[s] /\ (<<s, d>> \in ScopeKeys(scope) <=> BitIsSet(scope.allowed[s], d))
      BY <2>1, <3>2, ShapeIs
    <3>4. Found(glob) \subseteq LiveKeys
      BY FoundAre
    <3> QED
      BY <2>2, <2>4, <3>1, <3>3, <3>4 DEF Visible
  <2> QED
    BY <2>3, <2>4
<1> QED
  BY <1>1, <1>2

(* The hits by words are hits, finitely many.                              *)
LEMMA HoldingAre ==
  ASSUME IndexOK, NEW ts \in SUBSET Terms, NEW g
  PROVE  /\ IsFiniteSet(Holding(ts, g)) /\ Holding(ts, g) \subseteq Found(g)
         /\ WordHits(ts, g) \in SUBSET Hits /\ IsFiniteSet(WordHits(ts, g))
         /\ \A h \in WordHits(ts, g) : <<h[1], h[2]>> \in Found(g) /\ h[1] \in Segs /\ h[3] \in Nat
<1>1. IsFiniteSet(Holding(ts, g)) /\ Holding(ts, g) \subseteq Found(g) /\ Found(g) \subseteq LiveKeys /\ Found(g) \subseteq Keys
  <2>1. Holding(ts, g) \subseteq Found(g)
    BY DEF Holding
  <2>2. IsFiniteSet(Found(g)) /\ Found(g) \subseteq LiveKeys /\ Found(g) \subseteq Keys
    BY FoundAre
  <2> QED
    BY <2>1, <2>2, FS_Subset
<1>2. IsFiniteSet(WordHits(ts, g))
  <2> DEFINE f == [key \in Holding(ts, g) |-> <<key[1], key[2], Weight(ts, key)>>]
  <2>1. WordHits(ts, g) = {f[key] : key \in Holding(ts, g)}
    BY DEF WordHits
  <2> HIDE DEF f
  <2> QED
    BY <1>1, <2>1, ImageFinite
<1>3. ASSUME NEW h \in WordHits(ts, g)
      PROVE  h \in Hits /\ <<h[1], h[2]>> \in Found(g) /\ h[1] \in Segs /\ h[3] \in Nat
  <2>1. PICK key \in Holding(ts, g) : h = <<key[1], key[2], Weight(ts, key)>>
    BY DEF WordHits
  <2>2. key \in Found(g) /\ key[1] \in Segs /\ key[2] \in Nat /\ key = <<key[1], key[2]>>
    BY <1>1, TextsAre
  <2>3. Weight(ts, key) \in Nat
    BY <1>1, WeightIs
  <2> DEFINE w == Weight(ts, key)
  <2>4. h = <<key[1], key[2], w>> /\ w \in Nat
    BY <2>1, <2>3
  <2> HIDE DEF w
  <2>5. key[1] \in Nat
    BY <2>2, KeysAre DEF Segs
  <2> QED
    BY <2>2, <2>4, <2>5 DEF Hits
<1> QED
  BY <1>1, <1>2, <1>3

(* What a segment ranks before it cuts: its hits of all that are found.    *)
LEMMA SegmentHitsAre ==
  ASSUME IndexOK, ScopesInv, NEW s \in Segs, ToSet(query) \in SUBSET Terms
  PROVE  {h \in {Hit(<<s, d>>) : d \in Visible(s)} : h[3] > 0} = OfSegment(WordHits(ToSet(query), glob), s)
<1> DEFINE ts == ToSet(query)
           L == {h \in {Hit(<<s, d>>) : d \in Visible(s)} : h[3] > 0}
           R == OfSegment(WordHits(ts, glob), s)
<1>1. \A d \in Local(s) : <<s, d>>[1] = s /\ <<s, d>>[2] = d /\ Hit(<<s, d>>) = <<s, d, Weight(ts, <<s, d>>)>>
  BY DEF Hit
<1>2. Found(glob) \subseteq LiveKeys /\ Found(glob) \subseteq Keys
  BY FoundAre
<1>3. Visible(s) \subseteq Local(s) /\ \A d \in Local(s) : d \in Visible(s) <=> <<s, d>> \in Found(glob)
  BY VisibleIs
<1>4. \A d \in Visible(s) : /\ <<s, d>> \in LiveKeys
                            /\ Weight(ts, <<s, d>>) > 0 <=> \E t \in ts : TextOf(<<s, d>>)[t] > 0
  <2> SUFFICES ASSUME NEW d \in Visible(s)
               PROVE  /\ <<s, d>> \in LiveKeys
                      /\ Weight(ts, <<s, d>>) > 0 <=> \E t \in ts : TextOf(<<s, d>>)[t] > 0
    OBVIOUS
  <2>1. <<s, d>> \in LiveKeys
    BY <1>2, <1>3
  <2> QED
    BY <2>1, WeightIs
<1>5. \A d \in Visible(s) : Weight(ts, <<s, d>>) > 0 <=> <<s, d>> \in Holding(ts, glob)
  BY <1>3, <1>4 DEF Holding
<1>6. ASSUME NEW h \in L PROVE h \in R
  <2>1. PICK d \in Visible(s) : h = Hit(<<s, d>>)
    OBVIOUS
  <2>2. h = <<s, d, Weight(ts, <<s, d>>)>> /\ h[3] > 0
    BY <1>1, <1>3, <2>1
  <2>3. Weight(ts, <<s, d>>) > 0
    BY <2>2
  <2>4. <<s, d>> \in Holding(ts, glob)
    BY <1>5, <2>3
  <2>5. h \in WordHits(ts, glob)
    BY <2>2, <2>4 DEF WordHits
  <2> QED
    BY <2>2, <2>5 DEF OfSegment
<1>7. ASSUME NEW h \in R PROVE h \in L
  <2>1. h \in WordHits(ts, glob) /\ h[1] = s
    BY DEF OfSegment
  <2>2. PICK key \in Holding(ts, glob) : h = <<key[1], key[2], Weight(ts, key)>>
    BY <2>1 DEF WordHits
  <2>3. key \in Found(glob) /\ key = <<key[1], key[2]>> /\ key[2] \in Local(key[1])
    BY <1>2, TextsAre DEF Holding
  <2>4. key[1] = s
    BY <2>1, <2>2
  <2>5. key = <<s, key[2]>> /\ key[2] \in Local(s)
    BY <2>3, <2>4
  <2>6. key[2] \in Visible(s)
    BY <1>3, <2>3, <2>5
  <2>7. h = Hit(<<s, key[2]>>)
    BY <1>1, <2>2, <2>4, <2>5
  <2>8. Weight(ts, <<s, key[2]>>) > 0
    BY <1>5, <2>2, <2>5, <2>6
  <2>9. h[3] > 0
    BY <1>1, <2>5, <2>7, <2>8
  <2> QED
    BY <2>6, <2>7, <2>9
<1> QED
  BY <1>6, <1>7

(* The tops of the segments, merged, are the top of all.                   *)
LEMMA SegmentsMerge ==
  ASSUME NEW S \in SUBSET Hits, IsFiniteSet(S), \A h \in S : h[1] \in Segs, NEW n \in Nat, NEW parts,
         \A s \in Segs : parts[s] = TopOf(OfSegment(S, s), n)
  PROVE  TopOf(UNION {ToSet(parts[s]) : s \in Segs}, n) = TopOf(S, n)
<1> DEFINE part == [s \in Segs |-> OfSegment(S, s)]
           A == UNION {ToSet(parts[s]) : s \in Segs}
<1>1. MadeOf(S, Segs, part)
  BY DEF OfSegment, MadeOf
<1>2. TopsOf(A, Segs, part, n)
  BY DEF TopsOf
<1> HIDE DEF part, A
<1>3. TopOf(A, n) = TopOf(S, n)
  BY <1>1, <1>2, TopOfTops
<1> QED
  BY <1>3 DEF A

-----------------------------------------------------------------------------
(* The terms of a query, and the scopes remembered. *)

(* What is left of a query without its duplicates is a query.              *)
LEMMA DedupIs ==
  ASSUME NEW seq \in Seq(Terms)
  PROVE  Dedup(seq) \in Seq(Terms)
<1> DEFINE n == Len(seq)
           V == Seq(Terms)
           Added(ts, t) == IF Contains(ts, t) THEN ts ELSE Append(ts, t)
           move == [x \in V \X (1 .. n) |-> Added(x[1], seq[x[2]])]
           Step(h) == [T \in SUBSET (1 .. n) |-> IF T = {} THEN <<>>
                         ELSE LET i == Max(T) IN Added(h[T \ {i}], seq[i])]
           c == CHOOSE h : h = Step(h)
<1>1. n \in Nat /\ DOMAIN seq = 1 .. n /\ \A i \in 1 .. n : seq[i] \in Terms
  OBVIOUS
<1>2. Dedup(seq) = c[1 .. n]
  BY <1>1 DEF Dedup, FoldLeft, MapThenFoldSet
<1> HIDE DEF n
<1>3. \A g \in V, i \in 1 .. n : Added(g, seq[i]) \in V
  BY <1>1
<1>4. move \in FoldSteps(V, n) /\ \A g \in V, i \in 1 .. n : move[<<g, i>>] = Added(g, seq[i])
  <2> HIDE DEF V, Added
  <2> QED
    BY <1>3 DEF FoldSteps
<1>5. <<>> \in V
  OBVIOUS
<1> HIDE DEF move, V, Added
<1>6. c = Step(c)
  <2>1. PICK f \in [SUBSET (1 .. n) -> V] : FoldOf(f, n, <<>>, move)
    BY <1>1, <1>4, <1>5, FoldExists
  <2>2. \A T \in SUBSET (1 .. n) : T # {} => Max(T) \in 1 .. n
    BY <1>1, GreatestUpTo
  <2>3. ASSUME NEW T \in SUBSET (1 .. n)
        PROVE  f[T] = IF T = {} THEN <<>> ELSE Added(f[T \ {Max(T)}], seq[Max(T)])
    <3>1. f[T] = IF T = {} THEN <<>> ELSE move[<<f[T \ {Max(T)}], Max(T)>>]
      BY <2>1 DEF FoldOf
    <3>2. T # {} => f[T \ {Max(T)}] \in V /\ Max(T) \in 1 .. n
      BY <2>2
    <3> QED
      BY <1>4, <3>1, <3>2
  <2>4. f = Step(f)
    BY <2>3
  <2> HIDE DEF Step
  <2> QED
    BY <2>4
<1> HIDE DEF c
<1>7. FoldsAs(c, n, V, <<>>, move)
  <2>1. c[{}] = <<>>
    BY <1>6
  <2>2. ASSUME NEW T \in SUBSET (1 .. n), T # {}, c[T \ {Max(T)}] \in V
        PROVE  c[T] = move[<<c[T \ {Max(T)}], Max(T)>>]
    <3>1. Max(T) \in 1 .. n
      BY <1>1, <2>2, GreatestUpTo
    <3>2. c[T] = Added(c[T \ {Max(T)}], seq[Max(T)])
      BY <1>6, <2>2
    <3> QED
      BY <1>4, <2>2, <3>1, <3>2
  <2> HIDE DEF Step
  <2> QED
    BY <2>1, <2>2 DEF FoldsAs
<1> HIDE DEF Step
<1>8. PICK g : GoesUp(g, n, V, <<>>, move) /\ g[n] = c[1 .. n]
  BY <1>1, <1>4, <1>5, <1>7, FoldGoesUp
<1>9. g[n] \in V
  BY <1>1, <1>8 DEF GoesUp
<1> QED
  BY <1>2, <1>8, <1>9 DEF V

(* What the handle finds among the scopes it remembers.                    *)
LEMMA PositionIs ==
  ASSUME NEW g, NEW E, scopes \in Seq(E)
  PROVE  /\ Position(g) \in 0 .. Len(scopes) /\ Len(scopes) \in Nat
         /\ Position(g) # 0 => scopes[Position(g)].glob = g
         /\ (\E i \in 1 .. Len(scopes) : scopes[i].glob = g) => Position(g) # 0
<1> DEFINE I == {i \in 1 .. Len(scopes) : scopes[i].glob = g}
<1>1. Position(g) = IF I # {} THEN Min(I) ELSE 0
  BY DEF Position, SelectInSeq
<1>2. Len(scopes) \in Nat
  OBVIOUS
<1>3. IsFiniteSet(1 .. Len(scopes))
  BY <1>2, FS_Interval
<1>4. I \in SUBSET Int /\ IsFiniteSet(I)
  BY <1>3, FS_Subset
<1>5. I # {} => Min(I) \in I
  BY <1>4, MinOfFinite
<1> QED
  BY <1>1, <1>2, <1>5

Entries == [glob : Globs, scope : Scopes]
Exactly(e) == ScopeKeys(e.scope) = Found(e.glob)

(* A remembered scope is moved, a new one takes the place of the oldest.   *)
LEMMA ResolveKeeps ==
  ASSUME IndexOK, ScopesInv, NEW g \in Globs, Resolve(g), UNCHANGED indexVars
  PROVE  /\ Len(scopes') <= ScopesKept /\ scopes' \in Seq(Entries)
         /\ \A i \in DOMAIN scopes' : Exactly(scopes'[i])
         /\ scope' \in Scopes /\ ScopeKeys(scope') = Found(g)
         /\ \E i \in 1 .. Len(scopes') : scopes'[i].glob = g
<1> DEFINE n == Len(scopes)
           place == Position(g)
<1>1. /\ scopes \in Seq(Entries) /\ n \in Nat /\ n <= ScopesKept /\ ScopesKept \in Nat \ {0}
      /\ \A i \in 1 .. n : scopes[i] \in Entries /\ Exactly(scopes[i])
  <2>1. scopes \in Seq(Entries) /\ Len(scopes) <= ScopesKept /\ ScopesKept \in Nat \ {0}
    BY SearchAssumption DEF ScopesInv, Entries
  <2>2. \A i \in DOMAIN scopes : Exactly(scopes[i])
    BY DEF ScopesInv, Exactly
  <2> QED
    BY <2>1, <2>2
<1>2. /\ place \in 0 .. n /\ (place # 0 => scopes[place].glob = g)
      /\ ((\E i \in 1 .. n : scopes[i].glob = g) => place # 0)
  BY <1>1, PositionIs
<1>3. Found(g) = {key \in LiveKeys : FileOf(key) \in Accepts[g]}
  <2>1. g # NoGlob
    BY SearchAssumption
  <2> QED
    BY <2>1, FoundAre
<1>4. CASE place # 0
  <2> DEFINE e == scopes[place]
             rest == RemoveAt(scopes, place)
  <2>1. place \in 1 .. n
    BY <1>2, <1>4
  <2>2. e \in Entries /\ Exactly(e) /\ e.glob = g
    BY <1>1, <1>2, <1>4, <2>1
  <2>3. scope' = e.scope /\ scopes' = Append(rest, e)
    BY <1>4 DEF Resolve
  <2>4. /\ rest \in Seq(Entries) /\ Len(rest) = n - 1
        /\ \A i \in 1 .. n - 1 : rest[i] = IF i < place THEN scopes[i] ELSE scopes[i + 1]
    BY <1>1, <2>1, RemoveAtIs
  <2>5. \A i \in 1 .. n - 1 : Exactly(rest[i])
    BY <1>1, <2>1, <2>4
  <2>6. e.scope \in Scopes /\ ScopeKeys(e.scope) = Found(g)
    BY <2>2 DEF Entries, Exactly
  <2> HIDE DEF rest, e, place, n
  <2>7. n - 1 \in Nat
    BY <1>1, <2>1
  <2>8. Append(rest, e) \in Seq(Entries) /\ Len(Append(rest, e)) = n /\ Append(rest, e)[n] = e
        /\ \A i \in 1 .. n - 1 : Append(rest, e)[i] = rest[i]
    BY <1>1, <2>2, <2>4, <2>7
  <2>9. \A i \in DOMAIN Append(rest, e) : Exactly(Append(rest, e)[i])
    <3>1. DOMAIN Append(rest, e) = 1 .. n
      BY <2>8
    <3>2. \A i \in 1 .. n : i = n \/ i \in 1 .. n - 1
      BY <1>1
    <3> QED
      BY <2>2, <2>5, <2>8, <3>1, <3>2
  <2>10. n \in 1 .. Len(Append(rest, e)) /\ Append(rest, e)[n].glob = g
    BY <1>1, <2>1, <2>2, <2>8
  <2> QED
    BY <1>1, <2>3, <2>6, <2>8, <2>9, <2>10 DEF n
<1>5. CASE place = 0
  <2> DEFINE sc == ScopeOf(files, Accepts[g] \cap UNION {ToSet(files[s]) : s \in Segs}, deleted)
             room == IF n >= ScopesKept THEN Tail(scopes) ELSE scopes
             e == [glob |-> g, scope |-> sc]
  <2>1. scope' = sc /\ scopes' = Append(room, e)
    BY <1>5 DEF Resolve, Remembered
  <2>2. sc \in Scopes /\ ScopeKeys(sc) = {key \in LiveKeys : FileOf(key) \in Accepts[g]}
    BY ResolvedIsExact
  <2> HIDE DEF sc
  <2>3. e \in Entries /\ Exactly(e) /\ e.glob = g
    BY <1>3, <2>2 DEF Entries, Exactly
  <2>4. /\ room \in Seq(Entries) /\ Len(room) < ScopesKept /\ Len(room) \in Nat
        /\ \A i \in 1 .. Len(room) : Exactly(room[i])
    <3>1. CASE n >= ScopesKept
      <4>1. room = Tail(scopes) /\ n # 0 /\ scopes # <<>>
        BY <1>1, <3>1
      <4>2. Tail(scopes) \in Seq(Entries) /\ Len(Tail(scopes)) = n - 1 /\ \A i \in 1 .. n - 1 : Tail(scopes)[i] = scopes[i + 1]
        BY <1>1, <4>1, TailFacts
      <4>3. \A i \in 1 .. n - 1 : i + 1 \in 1 .. n /\ Exactly(Tail(scopes)[i])
        BY <1>1, <4>2
      <4> HIDE DEF n, room
      <4>4. n - 1 \in Nat /\ n - 1 < ScopesKept
        BY <1>1, <4>1
      <4> QED
        BY <4>1, <4>2, <4>3, <4>4
    <3>2. CASE ~(n >= ScopesKept)
      <4>1. room = scopes
        BY <3>2
      <4> HIDE DEF room
      <4> QED
        BY <1>1, <3>2, <4>1
    <3> QED
      BY <3>1, <3>2
  <2> HIDE DEF room, e
  <2> DEFINE m == Len(room)
  <2>5. /\ Append(room, e) \in Seq(Entries) /\ Len(Append(room, e)) = m + 1 /\ Append(room, e)[m + 1] = e
        /\ \A i \in 1 .. m : Append(room, e)[i] = room[i]
    BY <2>3, <2>4, AppendFacts
  <2> HIDE DEF m
  <2>6. m \in Nat /\ m < ScopesKept
    BY <2>4 DEF m
  <2>7. \A i \in DOMAIN Append(room, e) : Exactly(Append(room, e)[i])
    <3>1. DOMAIN Append(room, e) = 1 .. m + 1
      BY <2>5
    <3>2. \A i \in 1 .. m + 1 : i = m + 1 \/ i \in 1 .. m
      BY <2>6
    <3> QED
      BY <2>3, <2>4, <2>5, <3>1, <3>2 DEF m
  <2>8. m + 1 \in 1 .. Len(Append(room, e)) /\ Append(room, e)[m + 1].glob = g
    BY <2>3, <2>5, <2>6
  <2>9. Len(Append(room, e)) <= ScopesKept
    BY <1>1, <2>5, <2>6
  <2> QED
    BY <1>3, <2>1, <2>2, <2>5, <2>7, <2>8, <2>9
<1> QED
  BY <1>4, <1>5

-----------------------------------------------------------------------------
(* Near documents *)

(* Closeness is a number, and a natural one unless a vector is damaged.    *)
LEMMA CloseIs ==
  ASSUME IndexOK, VectorsOK
  PROVE  /\ \A key \in Keys : Close(key) \in Int
         /\ ~Damaged => \A key \in LiveKeys : Close(key) \in Nat
<1>1. \A key \in Keys : key[1] \in Segs /\ key[2] \in Local(key[1])
  BY TextsAre
<1>2. ASSUME NEW key \in Keys, Has(key[1]) PROVE Close(key) \in Nat \cup {Invalid}
  <2>1. vectors[key[1]] \in Seq(Nat \cup {Invalid}) /\ Len(vectors[key[1]]) = Len(files[key[1]])
    BY <1>1, <1>2 DEF VectorsOK, Segs, Has
  <2>2. Len(files[key[1]]) \in Nat
    BY <1>1, KeysAre
  <2>3. key[2] + 1 \in 1 .. Len(vectors[key[1]])
    BY <1>1, <2>1, <2>2 DEF Local
  <2>4. vectors[key[1]][key[2] + 1] \in Nat \cup {Invalid}
    BY <2>1, <2>3
  <2> QED
    BY <1>2, <2>4 DEF Close
<1>3. \A key \in Keys : ~Has(key[1]) => Close(key) = 0
  BY DEF Close
<1>4. \A key \in Keys : Close(key) \in Nat \cup {Invalid}
  BY <1>2, <1>3
<1>5. Invalid \in Int /\ Invalid \notin Nat
  BY DEF Invalid
<1>6. \A key \in Keys : Close(key) \in Int
  BY <1>4, <1>5
<1>7. ASSUME ~Damaged, NEW key \in LiveKeys PROVE Close(key) \in Nat
  <2>1. key \in Keys
    BY TextsAre
  <2>2. Has(key[1]) => Close(key) # Invalid
    BY <1>7 DEF Damaged
  <2> QED
    BY <1>3, <1>4, <2>1, <2>2
<1> QED
  BY <1>6, <1>7

(* The hits by meaning are hits, finitely many.                            *)
LEMMA NearOnesAre ==
  ASSUME IndexOK, VectorsOK, NEW g
  PROVE  /\ NearOnes(g) \in SUBSET Hits /\ IsFiniteSet(NearOnes(g))
         /\ \A h \in NearOnes(g) : h[1] \in Segs /\ Has(h[1]) /\ <<h[1], h[2]>> \in Found(g) /\ h[3] = Close(<<h[1], h[2]>>)
<1> DEFINE K == {i \in Found(g) : Has(i[1])}
           f == [key \in K |-> <<key[1], key[2], Close(key)>>]
<1>1. IsFiniteSet(Found(g)) /\ Found(g) \subseteq Keys
  BY FoundAre
<1>2. IsFiniteSet(K)
  BY <1>1, FS_Subset
<1>3. NearOnes(g) = {f[key] : key \in K}
  BY DEF NearOnes
<1>4. IsFiniteSet(NearOnes(g))
  <2> HIDE DEF f, K
  <2> QED
    BY <1>2, <1>3, ImageFinite
<1>5. ASSUME NEW h \in NearOnes(g)
      PROVE  h \in Hits /\ h[1] \in Segs /\ Has(h[1]) /\ <<h[1], h[2]>> \in Found(g) /\ h[3] = Close(<<h[1], h[2]>>)
  <2>1. PICK key \in K : h = <<key[1], key[2], Close(key)>>
    BY DEF NearOnes
  <2>2. key \in Keys /\ key \in Found(g) /\ Has(key[1])
    BY <1>1
  <2>3. key[1] \in Segs /\ key[2] \in Nat /\ key = <<key[1], key[2]>>
    BY <2>2, TextsAre
  <2>4. key[1] \in Nat
    BY <2>3, KeysAre DEF Segs
  <2>5. Close(key) \in Int
    BY <2>2, CloseIs
  <2> DEFINE c == Close(key)
  <2>6. h = <<key[1], key[2], c>> /\ c \in Int
    BY <2>1, <2>5
  <2> HIDE DEF c, K
  <2>7. h[1] = key[1] /\ h[2] = key[2] /\ h[3] = c /\ h \in Hits
    BY <2>3, <2>4, <2>6 DEF Hits
  <2>8. <<h[1], h[2]>> = key
    BY <2>3, <2>7
  <2> QED
    BY <2>2, <2>3, <2>7, <2>8 DEF c
<1> QED
  BY <1>4, <1>5

(* The eligible documents of a segment are those found there.              *)
LEMMA EligibleAre ==
  ASSUME IndexOK, VectorsOK, ScopesInv, NEW s \in Segs, Has(s)
  PROVE  /\ NearHits(s, Eligible(s)) = OfSegment(NearOnes(glob), s)
         /\ OfSegment(NearOnes(glob), s) \in SUBSET Hits /\ IsFiniteSet(OfSegment(NearOnes(glob), s))
         /\ \A h \in OfSegment(NearOnes(glob), s) : h[1] = s /\ h[2] \in Eligible(s)
<1>1. Eligible(s) \subseteq Local(s) /\ \A d \in Local(s) : d \in Eligible(s) <=> <<s, d>> \in Found(glob)
  BY VisibleIs DEF Eligible
<1>2. Found(glob) \subseteq Keys
  BY FoundAre
<1>3. \A d \in Local(s) : <<s, d>>[1] = s /\ <<s, d>>[2] = d
  OBVIOUS
<1>4. ASSUME NEW h \in NearHits(s, Eligible(s)) PROVE h \in OfSegment(NearOnes(glob), s)
  <2>1. PICK d \in Eligible(s) : h = <<s, d, Close(<<s, d>>)>>
    BY DEF NearHits
  <2>2. <<s, d>> \in {i \in Found(glob) : Has(i[1])}
    BY <1>1, <1>3, <2>1
  <2>3. h \in NearOnes(glob) /\ h[1] = s
    BY <2>1, <2>2 DEF NearOnes
  <2> QED
    BY <2>3 DEF OfSegment
<1>5. ASSUME NEW h \in OfSegment(NearOnes(glob), s) PROVE h \in NearHits(s, Eligible(s)) /\ h[1] = s /\ h[2] \in Eligible(s)
  <2>1. h \in NearOnes(glob) /\ h[1] = s
    BY DEF OfSegment
  <2>2. PICK key \in {i \in Found(glob) : Has(i[1])} : h = <<key[1], key[2], Close(key)>>
    BY <2>1 DEF NearOnes
  <2>3. key = <<key[1], key[2]>> /\ key[2] \in Local(key[1]) /\ key \in Found(glob)
    BY <1>2, TextsAre
  <2>4. key[1] = s
    BY <2>1, <2>2
  <2>5. key = <<s, key[2]>> /\ key[2] \in Eligible(s)
    BY <1>1, <2>3, <2>4
  <2>6. h = <<s, key[2], Close(<<s, key[2]>>)>>
    BY <2>2, <2>4, <2>5
  <2>7. h \in NearHits(s, Eligible(s))
    BY <2>5, <2>6 DEF NearHits
  <2> QED
    BY <2>1, <2>2, <2>5, <2>7
<1>6. OfSegment(NearOnes(glob), s) \subseteq NearOnes(glob)
  BY DEF OfSegment
<1>7. OfSegment(NearOnes(glob), s) \in SUBSET Hits /\ IsFiniteSet(OfSegment(NearOnes(glob), s))
  BY <1>6, NearOnesAre, FS_Subset
<1> QED
  BY <1>4, <1>5, <1>7

(* The best of the best of the ranges are the best of all.                 *)
LEMMA ScanIs ==
  ASSUME IndexOK, VectorsOK, ScopesInv, NEW s \in Segs, Has(s), depth \in Nat
  PROVE  ScanRanges(s) = TopOf(OfSegment(NearOnes(glob), s), depth)
<1> DEFINE S == OfSegment(NearOnes(glob), s)
           I == 0 .. Len(files[s]) \div RangeSize
           InRange(i) == {d \in Eligible(s) : d \div RangeSize = i}
           part == [i \in I |-> NearHits(s, InRange(i))]
           A == UNION {ToSet(TopOf(NearHits(s, InRange(i)), depth)) : i \in I}
<1>1. /\ NearHits(s, Eligible(s)) = S /\ S \in SUBSET Hits /\ IsFiniteSet(S)
      /\ \A h \in S : h[2] \in Eligible(s)
  BY EligibleAre
<1>2. ScanRanges(s) = TopOf(A, depth)
  BY DEF ScanRanges
<1>3. \A d \in Local(s) : d \div RangeSize \in I
  <2> SUFFICES ASSUME NEW d \in Local(s) PROVE d \div RangeSize \in I
    OBVIOUS
  <2> DEFINE n == Len(files[s])
             q == n \div RangeSize
             k == q + 1
             m == d \div RangeSize
  <2>1. n \in Nat
    BY KeysAre
  <2>2. d \in Nat /\ d < n
    BY <2>1 DEF Local
  <2>3. RangeSize \in Nat \ {0}
    BY ScopeAssumption
  <2> HIDE DEF n
  <2>4. q \in Nat /\ m \in Nat
    BY <2>1, <2>2, <2>3, DividedBy
  <2> HIDE DEF q
  <2>5. k \in Nat /\ q < k
    BY <2>4
  <2> HIDE DEF k, m
  <2>6. n \div RangeSize < k <=> n < k * RangeSize
    BY <2>1, <2>3, <2>5, DividedByBelow
  <2>7. (d \div RangeSize < k <=> d < k * RangeSize) /\ k * RangeSize \in Nat
    BY <2>2, <2>3, <2>5, DividedByBelow
  <2>8. n < k * RangeSize
    BY <2>5, <2>6 DEF q
  <2>9. m < k
    BY <2>1, <2>2, <2>7, <2>8 DEF m
  <2>10. m \in 0 .. q
    BY <2>4, <2>9 DEF k
  <2> QED
    BY <2>10 DEF m, q, n
<1>4. Eligible(s) \subseteq Local(s)
  BY VisibleIs DEF Eligible
<1>5. \A i \in I : part[i] = NearHits(s, InRange(i)) /\ part[i] \subseteq NearHits(s, Eligible(s))
  BY DEF NearHits
<1>6. ASSUME NEW h \in NearHits(s, Eligible(s)) PROVE \E i \in I : h \in part[i]
  <2>1. PICK d \in Eligible(s) : h = <<s, d, Close(<<s, d>>)>>
    BY DEF NearHits
  <2>2. d \div RangeSize \in I /\ d \in InRange(d \div RangeSize)
    BY <1>3, <1>4
  <2>3. h \in NearHits(s, InRange(d \div RangeSize))
    BY <2>1, <2>2 DEF NearHits
  <2> QED
    BY <1>5, <2>2, <2>3
<1>7. TopsOf(A, I, part, depth)
  <2> HIDE DEF I, InRange, part
  <2> QED
    BY <1>5 DEF TopsOf
<1> HIDE DEF S, I, part, A, InRange
<1>8. MadeOf(S, I, part)
  BY <1>1, <1>5, <1>6 DEF MadeOf
<1>9. TopOf(A, depth) = TopOf(S, depth)
  BY <1>1, <1>7, <1>8, TopOfTops
<1> QED
  BY <1>2, <1>9 DEF S

(* A graph gives some of the eligible.                                     *)
LEMMA RoutedAre ==
  ASSUME IndexOK, VectorsOK, ScopesInv, NEW s \in Segs, Has(s), depth \in Nat, NEW ds \in Routed(s)
  PROVE  ToSet(TopOf(NearHits(s, ds), depth)) \subseteq OfSegment(NearOnes(glob), s)
<1> DEFINE R == NearHits(s, ds)
           S == OfSegment(NearOnes(glob), s)
<1>1. NearHits(s, Eligible(s)) = S /\ S \in SUBSET Hits /\ IsFiniteSet(S)
  BY EligibleAre
<1>2. R \subseteq NearHits(s, Eligible(s))
  BY DEF Routed, NearHits
<1> HIDE DEF R, S
<1>3. R \in SUBSET Hits /\ IsFiniteSet(R)
  BY <1>1, <1>2, FS_Subset
<1>4. \A h : h \in ToSet(TopOf(R, depth)) <=> h \in R /\ PlaceIn(R, h) < depth
  BY <1>3, TopIs
<1> QED
  BY <1>1, <1>2, <1>4 DEF R, S

-----------------------------------------------------------------------------
(* Fusion *)

(* The rank of a document on a list.                                       *)
LEMMA RankIs ==
  ASSUME NEW list \in Seq(Hits), NEW key
  PROVE  RankIn(list, key) \in 0 .. Len(list) /\ Len(list) \in Nat
<1> DEFINE I == {i \in 1 .. Len(list) : <<list[i][1], list[i][2]>> = key}
<1>1. RankIn(list, key) = IF I # {} THEN Min(I) ELSE 0
  BY DEF RankIn, SelectInSeq
<1>2. Len(list) \in Nat
  OBVIOUS
<1>3. IsFiniteSet(1 .. Len(list))
  BY <1>2, FS_Interval
<1>4. I \in SUBSET Int /\ IsFiniteSet(I)
  BY <1>3, FS_Subset
<1>5. I # {} => Min(I) \in I
  BY <1>4, MinOfFinite
<1> QED
  BY <1>1, <1>2, <1>5

(* A list has finitely many members.                                       *)
LEMMA ListsAreFinite ==
  ASSUME NEW V, NEW list \in Seq(V)
  PROVE  IsFiniteSet(ToSet(list)) /\ ToSet(list) \subseteq V /\ \A i \in 1 .. Len(list) : list[i] \in ToSet(list)
<1>1. Len(list) \in Nat /\ DOMAIN list = 1 .. Len(list) /\ \A i \in 1 .. Len(list) : list[i] \in V
  OBVIOUS
<1>2. IsFiniteSet(1 .. Len(list))
  BY <1>1, FS_Interval
<1>3. ToSet(list) = {list[i] : i \in 1 .. Len(list)}
  BY <1>1 DEF ToSet
<1>4. IsFiniteSet({list[i] : i \in 1 .. Len(list)})
  BY <1>2, ImageFinite
<1> QED
  BY <1>1, <1>3, <1>4

(* The scores of a list, from the lowest to the highest.                   *)
LEMMA ScoresAre ==
  ASSUME NEW list \in Seq(Hits)
  PROVE  LET scores == {h[3] : h \in ToSet(list)}
         IN  /\ scores \subseteq Int /\ (list # <<>> => Max(scores) \in Int /\ Min(scores) \in Int /\ Min(scores) <= Max(scores))
             /\ \A i \in 1 .. Len(list) : list[i][3] \in Int
             /\ Span(list) \in Nat \ {0}
<1> DEFINE L == ToSet(list)
           f == [h \in L |-> h[3]]
           scores == {h[3] : h \in ToSet(list)}
<1>1. IsFiniteSet(L) /\ L \subseteq Hits /\ \A i \in 1 .. Len(list) : list[i] \in L
  BY ListsAreFinite
<1>2. \A h \in Hits : h[3] \in Int
  BY DEF Hits
<1>3. IsFiniteSet(scores)
  <2>1. scores = {f[h] : h \in L}
    OBVIOUS
  <2> HIDE DEF L, f, scores
  <2> QED
    BY <1>1, <2>1, ImageFinite
<1>4. scores \in SUBSET Int
  BY <1>1, <1>2
<1>5. list # <<>> => scores # {}
  <2> SUFFICES ASSUME list # <<>> PROVE scores # {}
    OBVIOUS
  <2>1. 1 \in 1 .. Len(list)
    OBVIOUS
  <2>2. list[1] \in ToSet(list)
    BY <1>1, <2>1
  <2>3. list[1][3] \in scores
    BY <2>2
  <2> QED
    BY <2>3
<1>6. Span(list) = IF list = <<>> \/ Max(scores) = Min(scores) THEN 1 ELSE Max(scores) - Min(scores)
  BY DEF Span
<1>7. \A i \in 1 .. Len(list) : list[i][3] \in Int
  BY <1>1, <1>2
<1> HIDE DEF scores
<1>8. list # <<>> => Max(scores) \in Int /\ Min(scores) \in Int /\ Min(scores) <= Max(scores)
  <2> SUFFICES ASSUME list # <<>> PROVE Max(scores) \in Int /\ Min(scores) \in Int /\ Min(scores) <= Max(scores)
    OBVIOUS
  <2>1. Min(scores) \in scores /\ \A x \in scores : Min(scores) <= x
    BY <1>3, <1>4, <1>5, MinOfFinite
  <2>2. Max(scores) \in scores
    BY <1>3, <1>4, <1>5, MaxOfFinite
  <2> QED
    BY <1>4, <2>1, <2>2
<1>9. Span(list) \in Nat \ {0}
  BY <1>6, <1>8
<1> QED
  BY <1>4, <1>7, <1>8, <1>9 DEF scores

(* The normal score of a document is a fraction.                           *)
LEMMA NormalIs ==
  ASSUME NEW list \in Seq(Hits), NEW key
  PROVE  Normal(list, key).n \in Int /\ Normal(list, key).over \in Nat \ {0}
<1> DEFINE scores == {h[3] : h \in ToSet(list)}
           r == RankIn(list, key)
           high == Max(scores)
           low == Min(scores)
           span == high - low
<1>1. r \in 0 .. Len(list) /\ Len(list) \in Nat
  BY RankIs
<1>2. /\ list # <<>> => high \in Int /\ low \in Int /\ low <= high
      /\ \A i \in 1 .. Len(list) : list[i][3] \in Int
  BY ScoresAre
<1>3. Normal(list, key) = IF r = 0 THEN [n |-> 0, over |-> 1]
                          ELSE IF span = 0 THEN [n |-> 1, over |-> 1]
                          ELSE [n |-> WordsOf(list, key) - low, over |-> span]
  BY DEF Normal
<1>4. r # 0 => WordsOf(list, key) = list[r][3]
  BY DEF WordsOf
<1> HIDE DEF r, high, low
<1>5. CASE r = 0
  BY <1>3, <1>5
<1>6. CASE r # 0 /\ span = 0
  BY <1>3, <1>6
<1>7. CASE r # 0 /\ span # 0
  <2>1. list # <<>> /\ r \in 1 .. Len(list)
    BY <1>1, <1>7
  <2>2. WordsOf(list, key) \in Int /\ high \in Int /\ low \in Int /\ low <= high
    BY <1>2, <1>4, <2>1
  <2>3. Normal(list, key) = [n |-> WordsOf(list, key) - low, over |-> span]
    BY <1>3, <1>7
  <2>4. span \in Nat \ {0}
    BY <1>7, <2>2
  <2> QED
    BY <2>2, <2>3, <2>4
<1> QED
  BY <1>5, <1>6, <1>7

(* A list that is fused is never longer than this.                         *)
LEMMA MostIs == Most \in Nat \ {0} /\ AskedFor <= Most /\ AskedFor \in Nat \ {0}
<1>1. AskedFor \in Nat \ {0} /\ PoolSize \in Nat
  BY SearchAssumption
<1>2. {AskedFor, PoolSize} \in SUBSET Int /\ {AskedFor, PoolSize} # {}
  BY <1>1
<1>3. IsFiniteSet({AskedFor, PoolSize})
  <2>1. IsFiniteSet({AskedFor}) /\ {AskedFor, PoolSize} = {AskedFor} \cup {PoolSize}
    BY FS_Singleton
  <2>2. IsFiniteSet({AskedFor} \cup {PoolSize})
    BY <2>1, FS_AddElement
  <2> QED
    BY <2>1, <2>2
<1>4. Most \in {AskedFor, PoolSize} /\ \A x \in {AskedFor, PoolSize} : x <= Most
  BY <1>2, <1>3, MaxOfFinite DEF Most
<1>5. Most \in Nat /\ AskedFor <= Most
  BY <1>1, <1>4
<1> QED
  BY <1>1, <1>5

(* What documents are fused by is a number, by weight or by rank.          *)
LEMMA FusedIs ==
  ASSUME NEW m, NEW words \in Seq(Hits), NEW near \in Seq(Hits), Len(words) <= Most, Len(near) <= Most,
         NEW key, Close(key) \in Int
  PROVE  Fused(m, words, near, key) \in Int
<1> DEFINE Share(r) == IF r = 0 THEN 0 ELSE RankShare[r]
           a == RankIn(words, key)
           b == RankIn(near, key)
           c == Close(key)
           span == Span(words)
           n == Normal(words, key).n
           over == Normal(words, key).over
           q == span \div over
<1>1. a \in 0 .. Len(words) /\ Len(words) \in Nat /\ b \in 0 .. Len(near) /\ Len(near) \in Nat
  BY RankIs
<1>2. WordShare \in 0 .. 100 /\ \A r \in 1 .. Most : RankShare[r] \in Nat
  BY FusionAssumption DEF Most
<1>3. span \in Nat \ {0}
  BY ScoresAre
<1>4. n \in Int /\ over \in Nat \ {0}
  BY NormalIs
<1>5. CASE m.fusion = "weighted"
  <2>1. Fused(m, words, near, key) = WordShare * n * q + (100 - WordShare) * c * span
    BY <1>5 DEF Fused
  <2> HIDE DEF span, over, n
  <2>2. q \in Nat
    <3>1. span \in Nat
      BY <1>3
    <3> QED
      BY <1>4, <3>1, DividedBy
  <2> HIDE DEF c, q
  <2>3. c \in Int
    BY DEF c
  <2>4. \A x, y \in Int : x * y \in Int /\ x + y \in Int
    OBVIOUS
  <2>5. WordShare \in Int /\ 100 - WordShare \in Int /\ q \in Int /\ span \in Int
    BY <1>2, <1>3, <2>2
  <2>6. WordShare * n \in Int /\ (100 - WordShare) * c \in Int
    BY <1>4, <2>3, <2>4, <2>5
  <2>7. WordShare * n * q \in Int /\ (100 - WordShare) * c * span \in Int
    BY <2>4, <2>5, <2>6
  <2> QED
    BY <2>1, <2>4, <2>7
<1>6. CASE m.fusion # "weighted"
  <2>1. Fused(m, words, near, key) = Share(a) + Share(b)
    BY <1>6 DEF Fused
  <2> HIDE DEF a, b
  <2>2. Most \in Nat
    BY MostIs
  <2>3. (a # 0 => a \in 1 .. Most) /\ (b # 0 => b \in 1 .. Most)
    BY <1>1, <2>2
  <2>4. Share(a) \in Nat /\ Share(b) \in Nat
    BY <1>2, <2>3
  <2> QED
    BY <2>1, <2>4
<1> QED
  BY <1>5, <1>6

(* Fusing ranks nothing but what the lists hold.                           *)
LEMMA FusedTopHolds ==
  ASSUME IndexOK, VectorsOK, NEW m, NEW words \in Seq(Hits), NEW near \in Seq(Hits),
         Len(words) <= Most, Len(near) <= Most, KeysOf(words) \subseteq Keys, KeysOf(near) \subseteq Keys
  PROVE  KeysOf(FusedTop(m, words, near)) \subseteq KeysOf(words) \cup KeysOf(near)
<1> DEFINE K == KeysOf(words) \cup KeysOf(near)
           f == [key \in K |-> <<key[1], key[2], Fused(m, words, near, key)>>]
           S == {<<key[1], key[2], Fused(m, words, near, key)>> : key \in K}
<1>1. IsFiniteSet(K)
  <2>1. ASSUME NEW list \in Seq(Hits) PROVE IsFiniteSet(KeysOf(list))
    <3> DEFINE L == ToSet(list)
               k == [h \in L |-> <<h[1], h[2]>>]
    <3>1. IsFiniteSet(L)
      BY ListsAreFinite
    <3>2. KeysOf(list) = {k[h] : h \in L}
      BY DEF KeysOf
    <3> HIDE DEF L, k
    <3> QED
      BY <3>1, <3>2, ImageFinite
  <2>2. IsFiniteSet(KeysOf(words)) /\ IsFiniteSet(KeysOf(near))
    BY <2>1
  <2> QED
    BY <2>2, FS_Union
<1>2. ASSUME NEW key \in K
      PROVE  <<key[1], key[2], Fused(m, words, near, key)>> \in Hits /\ key = <<key[1], key[2]>>
  <2>1. key \in Keys
    OBVIOUS
  <2>2. key[1] \in Segs /\ key[2] \in Nat /\ key = <<key[1], key[2]>>
    BY <2>1, TextsAre
  <2>3. key[1] \in Nat
    BY <2>2, KeysAre DEF Segs
  <2>4. Close(key) \in Int
    BY <2>1, CloseIs
  <2>5. Fused(m, words, near, key) \in Int
    BY <2>4, FusedIs
  <2> QED
    BY <2>2, <2>3, <2>5 DEF Hits
<1>3. S \in SUBSET Hits
  BY <1>2
<1>4. S = {f[key] : key \in K}
  OBVIOUS
<1>5. IsFiniteSet(S)
  <2> HIDE DEF K, f, S
  <2> QED
    BY <1>1, <1>4, ImageFinite
<1>6. FusedTop(m, words, near) = TopOf(S, AskedFor)
  BY DEF FusedTop
<1>7. ASSUME NEW h \in S PROVE <<h[1], h[2]>> \in K
  <2>1. PICK key \in K : h = <<key[1], key[2], Fused(m, words, near, key)>>
    OBVIOUS
  <2>2. key = <<key[1], key[2]>>
    BY <1>2
  <2>3. h[1] = key[1] /\ h[2] = key[2]
    BY <2>1
  <2> QED
    BY <2>2, <2>3
<1> HIDE DEF S, K, f
<1>8. AskedFor \in Nat
  BY MostIs
<1>9. \A h : h \in ToSet(TopOf(S, AskedFor)) <=> h \in S /\ PlaceIn(S, h) < AskedFor
  BY <1>3, <1>5, <1>8, TopIs
<1>10. KeysOf(TopOf(S, AskedFor)) \subseteq K
  BY <1>7, <1>9 DEF KeysOf
<1> QED
  BY <1>6, <1>10 DEF K

-----------------------------------------------------------------------------
(* No step of a query changes the index. *)

(* So the documents, the scopes and what is found stay what they are,      *)
LEMMA IndexStays ==
  ASSUME UNCHANGED indexVars
  PROVE  /\ IndexOK' = IndexOK /\ Segs' = Segs /\ Keys' = Keys /\ LiveKeys' = LiveKeys
         /\ \A key : TextOf(key)' = TextOf(key) /\ FileOf(key)' = FileOf(key)
         /\ \A g : Found(g)' = Found(g)
         /\ \A sc : ScopeKeys(sc)' = ScopeKeys(sc)
         /\ Scopes' = Scopes
<1>1. files' = files /\ texts' = texts /\ deleted' = deleted
  BY DEF indexVars
<1>2. Segs' = Segs /\ (\A s : Local(s)' = Local(s))
  BY <1>1 DEF Segs, Local
<1>3. Keys' = Keys
  BY <1>2 DEF Keys
<1>4. IndexOK' = IndexOK
  BY <1>1, <1>2, <1>3 DEF IndexOK
<1>5. \A key : TextOf(key)' = TextOf(key) /\ FileOf(key)' = FileOf(key) /\ (IsDead(key)' <=> IsDead(key))
  BY <1>1 DEF TextOf, FileOf, IsDead
<1>6. LiveKeys' = LiveKeys
  BY <1>3, <1>5 DEF LiveKeys
<1>7. \A g : Found(g)' = Found(g)
  BY <1>5, <1>6 DEF Found
<1>8. \A sc : ScopeKeys(sc)' = ScopeKeys(sc)
  BY <1>2 DEF ScopeKeys
<1>9. Scopes' = Scopes
  <2>1. Shapes' = Shapes
    BY <1>1, <1>2 DEF Shapes
  <2> QED
    BY <1>3, <1>8, <2>1 DEF Scopes
<1> QED
  BY <1>2, <1>3, <1>4, <1>5, <1>6, <1>7, <1>8, <1>9

(* the weights and the hits by words,                                      *)
LEMMA WeightStays ==
  ASSUME UNCHANGED indexVars
  PROVE  /\ \A ts, key : Weight(ts, key)' = Weight(ts, key)
         /\ \A ts, g : Holding(ts, g)' = Holding(ts, g)
         /\ \A ts, g : WordHits(ts, g)' = WordHits(ts, g)
<1>1. /\ Keys' = Keys /\ LiveKeys' = LiveKeys
      /\ \A key : TextOf(key)' = TextOf(key)
      /\ \A g : Found(g)' = Found(g)
  BY IndexStays
<1>2. \A key : LengthOf(key)' = LengthOf(key)
  BY <1>1 DEF LengthOf
<1>3. NumLive' = NumLive
  BY <1>1 DEF NumLive
<1>4. LiveLen' = LiveLen
  <2>1. [key \in LiveKeys |-> LengthOf(key)]' = [key \in LiveKeys |-> LengthOf(key)]
    BY <1>1, <1>2
  <2> QED
    BY <2>1 DEF LiveLen
<1>5. \A key : IsLong(key)' = IsLong(key)
  BY <1>2, <1>3, <1>4 DEF IsLong
<1>6. \A t : Idf(t)' = Idf(t)
  <2>1. \A t : Df(t)' = Df(t)
    BY <1>1 DEF Df
  <2> QED
    BY <1>3, <2>1 DEF Idf
<1>7. ASSUME NEW ts, NEW key PROVE Weight(ts, key)' = Weight(ts, key)
  <2> DEFINE f == [t \in ts |-> IF TextOf(key)[t] = 0 THEN 0 ELSE Idf(t) * Gain[TextOf(key)[t]][IsLong(key)]]
  <2>1. f' = f
    BY <1>1, <1>5, <1>6
  <2>2. Weight(ts, key) = SumFunction(f)
    BY DEF Weight
  <2>3. Weight(ts, key)' = SumFunction(f')
    BY DEF Weight
  <2> HIDE DEF f
  <2> QED
    BY <2>1, <2>2, <2>3
<1>8. \A ts, g : Holding(ts, g)' = Holding(ts, g)
  BY <1>1 DEF Holding
<1>9. ASSUME NEW ts, NEW g PROVE WordHits(ts, g)' = WordHits(ts, g)
  BY <1>7, <1>8 DEF WordHits
<1> QED
  BY <1>7, <1>8, <1>9

(* and the closeness and the hits by meaning.                              *)
LEMMA NearStays ==
  ASSUME UNCHANGED indexVars, UNCHANGED <<vectors, graphs>>
  PROVE  /\ VectorsOK' = VectorsOK /\ Damaged' = Damaged
         /\ \A s : Has(s)' <=> Has(s)
         /\ \A key : Close(key)' = Close(key)
         /\ \A g : NearOnes(g)' = NearOnes(g)
<1>1. files' = files /\ vectors' = vectors /\ graphs' = graphs
  BY DEF indexVars
<1>2. Segs' = Segs /\ LiveKeys' = LiveKeys /\ \A g : Found(g)' = Found(g)
  BY IndexStays
<1>3. VectorsOK' = VectorsOK
  BY <1>1, <1>2 DEF VectorsOK
<1>4. \A s : Has(s)' <=> Has(s)
  BY <1>1 DEF Has
<1>5. \A key : Close(key)' = Close(key)
  BY <1>1, <1>4 DEF Close
<1>6. Damaged' = Damaged
  BY <1>2, <1>4, <1>5 DEF Damaged
<1>7. \A g : NearOnes(g)' = NearOnes(g)
  BY <1>2, <1>4, <1>5 DEF NearOnes
<1> QED
  BY <1>3, <1>4, <1>5, <1>6, <1>7

(* Nor does what follows from the index.                                   *)
LEMMA FusionStays ==
  ASSUME UNCHANGED indexVars, UNCHANGED <<vectors, graphs>>
  PROVE  \A m, words, near : FusedTop(m, words, near)' = FusedTop(m, words, near)
<1>1. \A key : Close(key)' = Close(key)
  BY NearStays
<1>2. \A m, words, near, key : Fused(m, words, near, key)' = Fused(m, words, near, key)
  BY <1>1 DEF Fused
<1> QED
  BY <1>2 DEF FusedTop

(* An answer, an encoding: the scopes stay, and what is found by them.     *)
LEMMA ScopesStay ==
  ASSUME IndexOK, ScopesInv, UNCHANGED <<indexVars, scopes, glob, scope>>
  PROVE  ScopesInv'
<1>1. UNCHANGED indexVars /\ scopes' = scopes /\ glob' = glob /\ scope' = scope
  OBVIOUS
<1>2. Scopes' = Scopes /\ (\A g : Found(g)' = Found(g)) /\ \A sc : ScopeKeys(sc)' = ScopeKeys(sc)
  BY <1>1, IndexStays
<1>3. Position(glob)' = Position(glob)
  BY <1>1 DEF Position, SelectInSeq
<1> QED
  BY <1>1, <1>2, <1>3 DEF ScopesInv

(* The answers of the segments, while the query is the same.               *)
LEMMA AnswersStay ==
  ASSUME AnswersInv, UNCHANGED <<indexVars, query, depth, left, answers, glob>>
  PROVE  AnswersInv'
<1>1. UNCHANGED indexVars /\ query' = query /\ depth' = depth /\ left' = left /\ answers' = answers /\ glob' = glob
  OBVIOUS
<1>2. Segs' = Segs /\ \A ts, g : WordHits(ts, g)' = WordHits(ts, g)
  BY <1>1, IndexStays, WeightStays
<1> QED
  BY <1>1, <1>2 DEF AnswersInv, OfSegment

(* The ranking by words.                                                   *)
LEMMA RankingStays ==
  ASSUME RankingInv, UNCHANGED <<indexVars, query, depth, glob, ranking>>
  PROVE  RankingInv'
<1>1. UNCHANGED indexVars /\ query' = query /\ depth' = depth /\ glob' = glob /\ ranking' = ranking
  OBVIOUS
<1>2. \A ts, g : WordHits(ts, g)' = WordHits(ts, g)
  BY <1>1, WeightStays
<1> QED
  BY <1>1, <1>2 DEF RankingInv

(* What a query that ranks by meaning has asked for.                       *)
LEMMA DepthStays ==
  ASSUME DepthInv, UNCHANGED <<mode, depth>>
  PROVE  DepthInv'
BY DEF DepthInv, Most

(* The lists by meaning.                                                   *)
LEMMA PoolsStay ==
  ASSUME PoolsInv, UNCHANGED <<indexVars, vectors, graphs, mode, depth, glob, pools>>
  PROVE  PoolsInv'
<1>1. /\ UNCHANGED indexVars /\ UNCHANGED <<vectors, graphs>> /\ graphs' = graphs
      /\ mode' = mode /\ depth' = depth /\ glob' = glob /\ pools' = pools
  OBVIOUS
<1>2. Segs' = Segs /\ \A g : NearOnes(g)' = NearOnes(g)
  BY <1>1, IndexStays, NearStays
<1>3. \A s : OfSegment(NearOnes(glob), s)' = OfSegment(NearOnes(glob), s)
  BY <1>1, <1>2 DEF OfSegment
<1> QED
  BY <1>1, <1>2, <1>3 DEF PoolsInv

(* The result.                                                             *)
LEMMA ResultStays ==
  ASSUME ResultInv, UNCHANGED <<indexVars, vectors, graphs, mode, depth, glob, ranking, fused>>
  PROVE  ResultInv'
<1>1. /\ UNCHANGED indexVars /\ UNCHANGED <<vectors, graphs>> /\ graphs' = graphs
      /\ mode' = mode /\ depth' = depth /\ glob' = glob /\ ranking' = ranking /\ fused' = fused
  OBVIOUS
<1>2. /\ \A g : NearOnes(g)' = NearOnes(g) /\ Found(g)' = Found(g)
      /\ \A key : Close(key)' = Close(key)
      /\ \A ts, g : WordHits(ts, g)' = WordHits(ts, g)
      /\ \A m, words, near : FusedTop(m, words, near)' = FusedTop(m, words, near)
  BY <1>1, IndexStays, NearStays, WeightStays, FusionStays
<1>3. \A words, near : Fusing(words, near)' = Fusing(words, near)
  BY <1>1, <1>2 DEF Fusing
<1> QED
  BY <1>1, <1>2, <1>3 DEF ResultInv

(* A query is asked: its scope is resolved, and nothing is answered yet.   *)
LEMMA AskingKeeps ==
  ASSUME IndexOK, ScopesInv, AnswersInv, UNCHANGED indexVars,
         NEW g \in Globs \cup {NoGlob}, glob' = g, IF g = NoGlob THEN UNCHANGED <<scope, scopes>> ELSE Resolve(g),
         query' \in Seq(Terms), answers' = Nobody, depth' \in Nat, left' \in Nat,
         ranking' = NoRanking \/ (ranking' = Ranked({}, glob', <<>>) /\ query' = NoQuery)
  PROVE  IndexOK' /\ ScopesInv' /\ AnswersInv' /\ RankingInv'
<1>1. Scopes' = Scopes /\ IndexOK' = IndexOK /\ (\A h : Found(h)' = Found(h)) /\ \A sc : ScopeKeys(sc)' = ScopeKeys(sc)
  BY IndexStays
<1>2. ScopesInv'
  <2>1. CASE g = NoGlob
    <3>1. scopes' = scopes /\ glob' = NoGlob
      BY <2>1
    <3> QED
      BY <1>1, <3>1 DEF ScopesInv
  <2>2. CASE g # NoGlob
    <3>1. g \in Globs /\ Resolve(g)
      BY <2>2
    <3>2. /\ Len(scopes') <= ScopesKept /\ scopes' \in Seq(Entries)
          /\ \A i \in DOMAIN scopes' : Exactly(scopes'[i])
          /\ scope' \in Scopes /\ ScopeKeys(scope') = Found(g)
          /\ \E i \in 1 .. Len(scopes') : scopes'[i].glob = g
      BY <3>1, ResolveKeeps
    <3>3. Position(glob)' # 0
      <4> DEFINE I == {i \in 1 .. Len(scopes') : scopes'[i].glob = glob'}
      <4>1. Position(glob)' = IF I # {} THEN Min(I) ELSE 0
        BY DEF Position, SelectInSeq
      <4>2. Len(scopes') \in Nat
        BY <3>2
      <4>3. IsFiniteSet(1 .. Len(scopes'))
        BY <4>2, FS_Interval
      <4>4. I \in SUBSET Int /\ IsFiniteSet(I)
        BY <4>3, FS_Subset
      <4>5. I # {}
        BY <3>2
      <4>6. Min(I) \in I
        BY <4>4, <4>5, MinOfFinite
      <4> QED
        BY <4>1, <4>5, <4>6
    <3>4. Seq(Entries) = Seq([glob : Globs, scope : Scopes'])
      BY <1>1 DEF Entries
    <3>5. \A i \in DOMAIN scopes' : ScopeKeys(scopes[i].scope)' = Found(scopes[i].glob)'
      BY <1>1, <3>2 DEF Exactly
    <3>6. scope' \in Scopes' /\ ScopeKeys(scope)' = Found(glob)'
      BY <1>1, <3>2
    <3> QED
      BY <3>2, <3>3, <3>4, <3>5, <3>6 DEF ScopesInv
  <2> QED
    BY <2>1, <2>2
<1>3. AnswersInv'
  BY DEF AnswersInv, Nobody
<1>4. RankingInv'
  <2>1. CASE ranking' = NoRanking
    BY <2>1 DEF RankingInv, NoRanking
  <2>2. CASE ranking' = Ranked({}, glob', <<>>) /\ query' = NoQuery
    <3>1. /\ ranking'.done = TRUE /\ ranking'.terms = {} /\ ranking'.glob = glob' /\ ranking'.hits = <<>>
      BY <2>2 DEF Ranked
    <3>2. WordHits(ranking.terms, glob)' = {}
      BY <3>1 DEF WordHits, Holding
    <3>3. TopOf({}, depth') = <<>>
      BY NothingOnTop
    <3> QED
      BY <2>2, <3>1, <3>2, <3>3 DEF RankingInv
  <2> QED
    BY <2>1, <2>2
<1> QED
  BY <1>1, <1>2, <1>3, <1>4

-----------------------------------------------------------------------------
(* The steps *)

(* An ordinary query: whatever its terms are corrected to.                 *)
LEMMA AskLexicalKeeps ==
  ASSUME HandleInv, AskLexical
  PROVE  HandleInv'
<1>1. IndexOK /\ VectorsOK /\ ScopesInv /\ AnswersInv /\ RankingInv /\ FusionInv
  BY DEF HandleInv
<1>2. /\ Ask(AskedFor, TRUE, TRUE) /\ mode' = Lexical /\ fused' = NotYet
      /\ UNCHANGED indexVars /\ UNCHANGED <<vectors, graphs>>
  BY DEF AskLexical, Ask
<1>3. AskedFor \in Nat /\ left \in Nat /\ left > 0 /\ left' = left - 1 /\ depth' = AskedFor /\ answers' = Nobody
  BY <1>1, <1>2, MostIs DEF Ask, AnswersInv
<1>4. PICK g \in Globs \cup {NoGlob} : glob' = g /\ IF g = NoGlob THEN UNCHANGED <<scope, scopes>> ELSE Resolve(g)
  BY <1>2 DEF Ask
<1>5. query' \in Seq(Terms) /\ ranking' = NoRanking
  <2>1. PICK t \in Terms, u \in Terms :
          \E fixed \in [DOMAIN Dedup(<<t, u>>) -> Terms] : query' = Dedup(fixed) /\ ranking' = NoRanking
    BY <1>2 DEF Ask
  <2>2. Dedup(<<t, u>>) \in Seq(Terms)
    <3>1. <<t, u>> \in Seq(Terms)
      OBVIOUS
    <3> QED
      BY <3>1, DedupIs
  <2>3. PICK fixed \in [DOMAIN Dedup(<<t, u>>) -> Terms] : query' = Dedup(fixed) /\ ranking' = NoRanking
    BY <2>1
  <2>4. fixed \in Seq(Terms)
    <3>1. DOMAIN Dedup(<<t, u>>) = 1 .. Len(Dedup(<<t, u>>)) /\ Len(Dedup(<<t, u>>)) \in Nat
      BY <2>2
    <3> QED
      BY <3>1, SeqDef
  <2> QED
    BY <2>3, <2>4, DedupIs
<1>6. left' \in Nat /\ depth' \in Nat
  BY <1>3
<1>7. IndexOK' /\ ScopesInv' /\ AnswersInv' /\ RankingInv'
  <2>1. ranking' = NoRanking \/ (ranking' = Ranked({}, glob', <<>>) /\ query' = NoQuery)
    BY <1>5
  <2> QED
    BY <1>1, <1>2, <1>3, <1>4, <1>5, <1>6, <2>1, AskingKeeps
<1>8. VectorsOK'
  BY <1>1, <1>2, NearStays
<1>9. FusionInv' /\ ResultInv'
  BY <1>2 DEF FusionInv, ResultInv, NotYet
<1> QED
  BY <1>7, <1>8, <1>9 DEF HandleInv

(* A query that ranks by meaning; only one that ranks by meaning alone is  *)
(* through with its words at once.                                         *)
LEMMA AskHybridKeeps ==
  ASSUME HandleInv, AskHybrid
  PROVE  HandleInv'
<1> DEFINE n == IF mode'.rank = "semantic" THEN AskedFor ELSE Max({AskedFor, PoolSize})
<1>1. IndexOK /\ VectorsOK /\ ScopesInv /\ AnswersInv /\ RankingInv /\ FusionInv
  BY DEF HandleInv
<1>2. /\ Ask(n, mode'.rank # "semantic", FALSE) /\ mode' \in Modes /\ fused' = NotYet /\ pools' = Nobody /\ ~Damaged
      /\ UNCHANGED indexVars /\ UNCHANGED <<vectors, graphs>>
  BY DEF AskHybrid, Ask
<1>3. n \in Nat /\ (mode'.rank # "semantic" => n = Most)
  BY MostIs DEF Most
<1>4. left \in Nat /\ left > 0 /\ left' = left - 1 /\ depth' = n /\ answers' = Nobody
  <2> HIDE DEF n
  <2> QED
    BY <1>1, <1>2 DEF Ask, AnswersInv
<1>5. PICK g \in Globs \cup {NoGlob} : glob' = g /\ IF g = NoGlob THEN UNCHANGED <<scope, scopes>> ELSE Resolve(g)
  <2> HIDE DEF n
  <2> QED
    BY <1>2 DEF Ask
<1>6. /\ query' \in Seq(Terms)
      /\ IF mode'.rank # "semantic" THEN ranking' = NoRanking ELSE ranking' = Ranked({}, glob', <<>>) /\ query' = NoQuery
  <2>1. PICK t \in Terms, u \in Terms :
          \E fixed \in [DOMAIN Dedup(<<t, u>>) -> Terms] :
            IF mode'.rank # "semantic" THEN query' = Dedup(fixed) /\ ranking' = NoRanking
            ELSE query' = NoQuery /\ ranking' = Ranked({}, glob', <<>>)
    <3> HIDE DEF n
    <3> QED
      BY <1>2 DEF Ask
  <2>2. Dedup(<<t, u>>) \in Seq(Terms)
    <3>1. <<t, u>> \in Seq(Terms)
      OBVIOUS
    <3> QED
      BY <3>1, DedupIs
  <2>3. PICK fixed \in [DOMAIN Dedup(<<t, u>>) -> Terms] :
          IF mode'.rank # "semantic" THEN query' = Dedup(fixed) /\ ranking' = NoRanking
          ELSE query' = NoQuery /\ ranking' = Ranked({}, glob', <<>>)
    BY <2>1
  <2>4. fixed \in Seq(Terms)
    <3>1. DOMAIN Dedup(<<t, u>>) = 1 .. Len(Dedup(<<t, u>>)) /\ Len(Dedup(<<t, u>>)) \in Nat
      BY <2>2
    <3> QED
      BY <3>1, SeqDef
  <2>5. Dedup(fixed) \in Seq(Terms)
    BY <2>4, DedupIs
  <2>6. NoQuery \in Seq(Terms)
    BY DEF NoQuery
  <2> QED
    BY <2>3, <2>5, <2>6
<1>7. left' \in Nat /\ depth' \in Nat
  BY <1>3, <1>4
<1>8. IndexOK' /\ ScopesInv' /\ AnswersInv' /\ RankingInv'
  <2>1. ranking' = NoRanking \/ (ranking' = Ranked({}, glob', <<>>) /\ query' = NoQuery)
    BY <1>6
  <2> QED
    BY <1>1, <1>2, <1>4, <1>5, <1>6, <1>7, <2>1, AskingKeeps
<1>9. VectorsOK' /\ ~Damaged'
  BY <1>1, <1>2, NearStays
<1>10. FusionInv'
  <2>1. DepthInv'
    BY <1>3, <1>4 DEF DepthInv, Most
  <2>2. PoolsInv'
    BY <1>2 DEF PoolsInv, Nobody
  <2> QED
    BY <1>2, <1>9, <2>1, <2>2 DEF FusionInv, NotYet
<1>11. ResultInv'
  BY <1>2 DEF ResultInv, NotYet
<1> QED
  BY <1>8, <1>9, <1>10, <1>11 DEF HandleInv

(* A refused query still had its scope resolved.                           *)
LEMMA RefuseKeeps ==
  ASSUME HandleInv, Refuse
  PROVE  HandleInv'
<1>1. IndexOK /\ VectorsOK /\ ScopesInv /\ AnswersInv /\ RankingInv /\ FusionInv
  BY DEF HandleInv
<1>2. /\ Ask(0, FALSE, FALSE) /\ mode' \in Modes /\ fused' = Failed
      /\ UNCHANGED indexVars /\ UNCHANGED <<vectors, graphs>>
  BY DEF Refuse, Ask
<1>3. left \in Nat /\ left > 0 /\ left' = left - 1 /\ depth' = 0 /\ answers' = Nobody
  BY <1>1, <1>2 DEF Ask, AnswersInv
<1>4. PICK g \in Globs \cup {NoGlob} : glob' = g /\ IF g = NoGlob THEN UNCHANGED <<scope, scopes>> ELSE Resolve(g)
  BY <1>2 DEF Ask
<1>5. query' = NoQuery /\ ranking' = Ranked({}, glob', <<>>)
  BY <1>2 DEF Ask
<1>6. left' \in Nat /\ depth' \in Nat /\ query' \in Seq(Terms)
  BY <1>3, <1>5 DEF NoQuery
<1>7. IndexOK' /\ ScopesInv' /\ AnswersInv' /\ RankingInv'
  BY <1>1, <1>2, <1>3, <1>4, <1>5, <1>6, AskingKeeps
<1>8. VectorsOK'
  BY <1>1, <1>2, NearStays
<1>9. FusionInv' /\ ResultInv'
  BY <1>2 DEF FusionInv, ResultInv, Failed
<1> QED
  BY <1>7, <1>8, <1>9 DEF HandleInv

(* A segment answers with the best of what is found there.                 *)
LEMMA SegmentAnswerKeeps ==
  ASSUME HandleInv, NEW s \in Segs, Answer(s), UNCHANGED fusionVars
  PROVE  HandleInv'
<1>1. IndexOK /\ VectorsOK /\ ScopesInv /\ AnswersInv /\ RankingInv /\ FusionInv /\ ResultInv
  BY DEF HandleInv
<1>2. /\ UNCHANGED indexVars /\ UNCHANGED <<vectors, graphs>>
      /\ scopes' = scopes /\ query' = query /\ glob' = glob /\ depth' = depth /\ scope' = scope
      /\ ranking' = ranking /\ left' = left /\ mode' = mode /\ pools' = pools /\ fused' = fused
  BY DEF Answer, fusionVars
<1>3. IndexOK' /\ VectorsOK' /\ Damaged' = Damaged /\ Segs' = Segs
  BY <1>1, <1>2, IndexStays, NearStays
<1>4. ScopesInv' /\ RankingInv' /\ ResultInv'
  BY <1>1, <1>2, ScopesStay, RankingStays, ResultStays
<1>5. FusionInv'
  <2>1. DepthInv => DepthInv'
    BY <1>2, DepthStays
  <2>2. PoolsInv => PoolsInv'
    BY <1>2, PoolsStay
  <2> QED
    BY <1>1, <1>2, <1>3, <2>1, <2>2 DEF FusionInv
<1>6. AnswersInv'
  <2> DEFINE top == TopOf({h \in {Hit(<<s, d>>) : d \in Visible(s)} : h[3] > 0}, depth)
             Own(r) == TopOf(OfSegment(WordHits(ToSet(query), glob), r), depth)
  <2>1. ToSet(query) \in SUBSET Terms
    BY <1>1, ListsAreFinite DEF AnswersInv
  <2>2. top = Own(s)
    <3>1. {h \in {Hit(<<s, d>>) : d \in Visible(s)} : h[3] > 0} = OfSegment(WordHits(ToSet(query), glob), s)
      BY <1>1, <2>1, SegmentHitsAre
    <3> QED
      BY <3>1
  <2>3. answers' = [r \in DOMAIN answers \cup {s} |-> IF r = s THEN top ELSE answers[r]]
    BY DEF Answer, Contributed
  <2>4. DOMAIN answers \subseteq Segs /\ \A r \in DOMAIN answers : answers[r] = Own(r)
    BY <1>1 DEF AnswersInv
  <2> HIDE DEF top
  <2>5. DOMAIN answers' \subseteq Segs' /\ \A r \in DOMAIN answers' : answers'[r] = Own(r)
    BY <1>3, <2>2, <2>3, <2>4
  <2>6. \A r : Own(r)' = Own(r)
    <3>1. \A ts, g : WordHits(ts, g)' = WordHits(ts, g)
      BY <1>2, WeightStays
    <3> QED
      BY <1>2, <3>1 DEF OfSegment
  <2>7. \A r \in DOMAIN answers' : answers'[r] = Own(r)'
    BY <2>5, <2>6
  <2>8. query' \in Seq(Terms) /\ depth' \in Nat /\ left' \in Nat
    BY <1>1, <1>2 DEF AnswersInv
  <2> QED
    BY <2>5, <2>7, <2>8 DEF AnswersInv
<1> QED
  BY <1>3, <1>4, <1>5, <1>6 DEF HandleInv

(* The segments' tops make the top of what is found.                       *)
LEMMA MergeKeeps ==
  ASSUME HandleInv, Merge, UNCHANGED fusionVars
  PROVE  HandleInv'
<1>1. IndexOK /\ VectorsOK /\ ScopesInv /\ AnswersInv /\ RankingInv /\ FusionInv /\ ResultInv
  BY DEF HandleInv
<1>2. /\ UNCHANGED indexVars /\ UNCHANGED <<vectors, graphs>> /\ graphs' = graphs
      /\ scopes' = scopes /\ glob' = glob /\ depth' = depth /\ scope' = scope
      /\ left' = left /\ mode' = mode /\ pools' = pools /\ fused' = fused
      /\ query # NoQuery /\ query' = NoQuery /\ answers' = Nobody /\ DOMAIN answers = Segs
  BY DEF Merge, fusionVars
<1>3. IndexOK' /\ VectorsOK' /\ Damaged' = Damaged /\ ScopesInv'
  BY <1>1, <1>2, IndexStays, NearStays, ScopesStay
<1>4. AnswersInv'
  BY <1>1, <1>2 DEF AnswersInv, Nobody, NoQuery
<1> DEFINE ts == ToSet(query)
           S == WordHits(ts, glob)
           hits == TopOf(UNION {ToSet(answers[s]) : s \in Segs}, depth)
<1>5. ts \in SUBSET Terms
  BY <1>1, ListsAreFinite DEF AnswersInv
<1>6. hits = TopOf(S, depth)
  <2>1. S \in SUBSET Hits /\ IsFiniteSet(S) /\ \A h \in S : h[1] \in Segs
    BY <1>1, <1>5, HoldingAre
  <2>2. depth \in Nat /\ \A s \in Segs : answers[s] = TopOf(OfSegment(S, s), depth)
    BY <1>1, <1>2 DEF AnswersInv
  <2> HIDE DEF S
  <2> QED
    BY <2>1, <2>2, SegmentsMerge
<1>7. ranking' = Ranked(ts, glob, hits)
  BY DEF Merge
<1>8. \A us, g : WordHits(us, g)' = WordHits(us, g)
  BY <1>2, WeightStays
<1>9. /\ ranking'.done = TRUE /\ ranking'.terms = ts /\ ranking'.glob = glob /\ ranking'.hits = TopOf(S, depth)
  <2> HIDE DEF ts, hits, S
  <2> QED
    BY <1>6, <1>7 DEF Ranked
<1>10. WordHits(ranking.terms, glob)' = S
  BY <1>2, <1>8, <1>9
<1> HIDE DEF ts, hits, S
<1>11. RankingInv'
  BY <1>2, <1>5, <1>9, <1>10 DEF RankingInv
<1>12. FusionInv'
  <2>1. DepthInv => DepthInv'
    BY <1>2 DEF DepthInv, Most
  <2>2. PoolsInv => PoolsInv'
    BY <1>2, PoolsStay
  <2> QED
    BY <1>1, <1>2, <1>3, <2>1, <2>2 DEF FusionInv
<1>13. ResultInv'
  <2>1. ~ranking.done
    BY <1>1, <1>2 DEF RankingInv
  <2>2. ~(mode # Lexical /\ fused.state = "done")
    BY <1>1, <2>1 DEF ResultInv
  <2> QED
    BY <1>2, <2>2 DEF ResultInv
<1> QED
  BY <1>3, <1>4, <1>11, <1>12, <1>13 DEF HandleInv

(* The query is encoded, or not.                                           *)
LEMMA EncodeKeeps ==
  ASSUME HandleInv, Encode \/ EncodeFails
  PROVE  HandleInv'
<1>1. IndexOK /\ VectorsOK /\ ScopesInv /\ AnswersInv /\ RankingInv /\ FusionInv /\ ResultInv
  BY DEF HandleInv
<1>2. /\ UNCHANGED indexVars /\ UNCHANGED <<vectors, graphs>> /\ graphs' = graphs
      /\ scopes' = scopes /\ query' = query /\ glob' = glob /\ depth' = depth /\ scope' = scope
      /\ answers' = answers /\ ranking' = ranking /\ left' = left /\ mode' = mode /\ pools' = pools
      /\ fused' = fused \/ fused' = Failed
  BY DEF Encode, EncodeFails, handleVars
<1>3. IndexOK' /\ VectorsOK' /\ Damaged' = Damaged /\ ScopesInv' /\ AnswersInv' /\ RankingInv'
  BY <1>1, <1>2, IndexStays, NearStays, ScopesStay, AnswersStay, RankingStays
<1>4. FusionInv'
  <2>1. DepthInv => DepthInv'
    BY <1>2, DepthStays
  <2>2. PoolsInv => PoolsInv'
    BY <1>2, PoolsStay
  <2> QED
    BY <1>1, <1>2, <1>3, <2>1, <2>2 DEF FusionInv, Failed
<1>5. ResultInv'
  <2>1. CASE fused' = fused
    BY <1>1, <1>2, <2>1, ResultStays
  <2>2. CASE fused' = Failed
    BY <2>2 DEF ResultInv, Failed
  <2> QED
    BY <1>2, <2>1, <2>2
<1> QED
  BY <1>3, <1>4, <1>5 DEF HandleInv

(* A segment's vectors are scanned, or its graph is walked.                *)
LEMMA PoolKeeps ==
  ASSUME HandleInv, NEW s \in Segs, Pool(s)
  PROVE  HandleInv'
<1>1. IndexOK /\ VectorsOK /\ ScopesInv /\ AnswersInv /\ RankingInv /\ FusionInv /\ ResultInv
  BY DEF HandleInv
<1>2. /\ UNCHANGED indexVars /\ UNCHANGED <<vectors, graphs>> /\ graphs' = graphs
      /\ scopes' = scopes /\ query' = query /\ glob' = glob /\ depth' = depth /\ scope' = scope
      /\ answers' = answers /\ ranking' = ranking /\ left' = left /\ mode' = mode /\ fused' = fused
      /\ Ranking
  BY DEF Pool, handleVars, indexVars, Joined
<1>3. IndexOK' /\ VectorsOK' /\ Damaged' = Damaged /\ ScopesInv' /\ AnswersInv' /\ RankingInv' /\ Segs' = Segs
  BY <1>1, <1>2, IndexStays, NearStays, ScopesStay, AnswersStay, RankingStays
<1>4. ResultInv'
  BY <1>1, <1>2, ResultStays
<1>5. mode # Lexical /\ fused = NotYet /\ fused # Failed
  BY <1>2 DEF Ranking, NotYet, Failed
<1>6. ~Damaged /\ DepthInv /\ PoolsInv
  BY <1>1, <1>5 DEF FusionInv
<1>7. DepthInv'
  BY <1>2, <1>6, DepthStays
<1> DEFINE Own(r) == OfSegment(NearOnes(glob), r)
<1>8. \E part : /\ pools' = Contributed(pools, s, part) /\ ToSet(part) \subseteq Own(s)
                /\ mode.exact \/ graphs = {} => part = TopOf(Own(s), depth)
  <2>1. depth \in Nat
    BY <1>1 DEF AnswersInv
  <2>2. CASE ~Has(s)
    <3>1. pools' = Contributed(pools, s, <<>>)
      BY <2>2 DEF Pool
    <3>2. ToSet(<<>>) = {}
      BY DEF ToSet
    <3>3. Own(s) = {}
      BY <1>1, <2>2, NearOnesAre DEF OfSegment
    <3>4. TopOf({}, depth) = <<>>
      BY <2>1, NothingOnTop
    <3> QED
      BY <3>1, <3>2, <3>3, <3>4
  <2>3. CASE Has(s) /\ pools' = Contributed(pools, s, ScanRanges(s))
    <3>1. ScanRanges(s) = TopOf(Own(s), depth)
      BY <1>1, <2>1, <2>3, ScanIs
    <3>2. Own(s) \in SUBSET Hits /\ IsFiniteSet(Own(s))
      BY <1>1, <2>3, EligibleAre
    <3>3. \A h : h \in ToSet(TopOf(Own(s), depth)) <=> h \in Own(s) /\ PlaceIn(Own(s), h) < depth
      BY <2>1, <3>2, TopIs
    <3> QED
      BY <2>3, <3>1, <3>3
  <2>4. CASE Has(s) /\ ~mode.exact /\ s \in graphs /\ \E ds \in Routed(s) : pools' = Contributed(pools, s, TopOf(NearHits(s, ds), depth))
    <3>1. PICK ds \in Routed(s) : pools' = Contributed(pools, s, TopOf(NearHits(s, ds), depth))
      BY <2>4
    <3>2. ToSet(TopOf(NearHits(s, ds), depth)) \subseteq Own(s)
      BY <1>1, <2>1, <2>4, RoutedAre
    <3>3. ~(mode.exact \/ graphs = {})
      BY <2>4
    <3> QED
      BY <3>1, <3>2, <3>3
  <2>5. \/ ~Has(s)
        \/ Has(s) /\ pools' = Contributed(pools, s, ScanRanges(s))
        \/ Has(s) /\ ~mode.exact /\ s \in graphs /\ \E ds \in Routed(s) : pools' = Contributed(pools, s, TopOf(NearHits(s, ds), depth))
    BY DEF Pool
  <2> QED
    BY <2>2, <2>3, <2>4, <2>5
<1>9. PoolsInv'
  <2>1. PICK part : /\ pools' = Contributed(pools, s, part) /\ ToSet(part) \subseteq Own(s)
                    /\ mode.exact \/ graphs = {} => part = TopOf(Own(s), depth)
    BY <1>8
  <2>2. pools' = [r \in DOMAIN pools \cup {s} |-> IF r = s THEN part ELSE pools[r]]
    BY <2>1 DEF Contributed
  <2>3. /\ DOMAIN pools \subseteq Segs
        /\ \A r \in DOMAIN pools : /\ ToSet(pools[r]) \subseteq Own(r)
                                   /\ mode.exact \/ graphs = {} => pools[r] = TopOf(Own(r), depth)
    BY <1>6 DEF PoolsInv
  <2>4. \A g : NearOnes(g)' = NearOnes(g)
    BY <1>2, NearStays
  <2>5. \A r : Own(r)' = Own(r)
    BY <1>2, <2>4 DEF OfSegment
  <2> HIDE DEF Own
  <2>6. /\ DOMAIN pools' \subseteq Segs
        /\ \A r \in DOMAIN pools' : /\ ToSet(pools'[r]) \subseteq Own(r)
                                    /\ mode.exact \/ graphs = {} => pools'[r] = TopOf(Own(r), depth)
    BY <2>1, <2>2, <2>3
  <2>7. /\ DOMAIN pools' \subseteq Segs'
        /\ \A r \in DOMAIN pools' : /\ ToSet(pools'[r]) \subseteq Own(r)'
                                    /\ mode'.exact \/ graphs' = {} => pools'[r] = TopOf(Own(r)', depth')
    BY <1>2, <1>3, <2>5, <2>6
  <2> USE DEF Own
  <2> QED
    BY <2>7 DEF PoolsInv
<1>10. FusionInv'
  BY <1>1, <1>2, <1>3, <1>6, <1>7, <1>9 DEF FusionInv
<1> QED
  BY <1>3, <1>4, <1>10 DEF HandleInv

(* The lists that are fused hold what is found, the one by meaning all of  *)
(* the nearest if nothing was routed.                                      *)
LEMMA NearListIs ==
  ASSUME IndexOK, VectorsOK, PoolsInv, depth \in Nat, DOMAIN pools = Segs
  PROVE  /\ NearList \in Seq(Hits) /\ Len(NearList) <= depth /\ ToSet(NearList) \subseteq NearOnes(glob)
         /\ mode.exact \/ graphs = {} => NearList = TopOf(NearOnes(glob), depth)
<1> DEFINE S == NearOnes(glob)
           U == UNION {ToSet(pools[s]) : s \in Segs}
<1>1. S \in SUBSET Hits /\ IsFiniteSet(S) /\ \A h \in S : h[1] \in Segs
  BY NearOnesAre
<1>2. \A s \in Segs : /\ ToSet(pools[s]) \subseteq OfSegment(S, s)
                      /\ mode.exact \/ graphs = {} => pools[s] = TopOf(OfSegment(S, s), depth)
  BY DEF PoolsInv
<1>3. NearList = TopOf(U, depth)
  BY DEF NearList
<1>4. U \subseteq S
  BY <1>2 DEF OfSegment
<1> HIDE DEF S
<1>5. mode.exact \/ graphs = {} => TopOf(U, depth) = TopOf(S, depth)
  <2> SUFFICES ASSUME mode.exact \/ graphs = {} PROVE TopOf(U, depth) = TopOf(S, depth)
    OBVIOUS
  <2>1. \A s \in Segs : pools[s] = TopOf(OfSegment(S, s), depth)
    BY <1>2
  <2> QED
    BY <1>1, <2>1, SegmentsMerge
<1> HIDE DEF U
<1>6. U \in SUBSET Hits /\ IsFiniteSet(U)
  BY <1>1, <1>4, FS_Subset
<1> DEFINE m == IF Cardinality(U) <= depth THEN Cardinality(U) ELSE depth
<1>7. /\ TopOf(U, depth) \in Seq(U) /\ Len(TopOf(U, depth)) = m /\ m <= depth
      /\ \A h : h \in ToSet(TopOf(U, depth)) <=> h \in U /\ PlaceIn(U, h) < depth
  BY <1>6, TopIs
<1> HIDE DEF m
<1>8. TopOf(U, depth) \in Seq(Hits)
  BY <1>6, <1>7, SeqMonotonic
<1> QED
  BY <1>3, <1>4, <1>5, <1>7, <1>8 DEF S

(* The list by words.                                                      *)
LEMMA WordListIs ==
  ASSUME IndexOK, NEW ts \in SUBSET Terms, NEW g, NEW n \in Nat
  PROVE  /\ TopOf(WordHits(ts, g), n) \in Seq(Hits) /\ Len(TopOf(WordHits(ts, g), n)) <= n
         /\ KeysOf(TopOf(WordHits(ts, g), n)) \subseteq Found(g)
<1> DEFINE U == WordHits(ts, g)
           m == IF Cardinality(U) <= n THEN Cardinality(U) ELSE n
<1>1. U \in SUBSET Hits /\ IsFiniteSet(U) /\ \A h \in U : <<h[1], h[2]>> \in Found(g)
  BY HoldingAre
<1> HIDE DEF U
<1>2. /\ TopOf(U, n) \in Seq(U) /\ Len(TopOf(U, n)) = m /\ m <= n
      /\ \A h : h \in ToSet(TopOf(U, n)) <=> h \in U /\ PlaceIn(U, h) < n
  BY <1>1, TopIs
<1> HIDE DEF m
<1>3. TopOf(U, n) \in Seq(Hits)
  BY <1>1, <1>2, SeqMonotonic
<1>4. KeysOf(TopOf(U, n)) \subseteq Found(g)
  BY <1>1, <1>2 DEF KeysOf
<1> QED
  BY <1>2, <1>3, <1>4 DEF U

(* What a list of hits by meaning holds.                                   *)
LEMMA NearKeysAre ==
  ASSUME IndexOK, VectorsOK, NEW g, NEW list, ToSet(list) \subseteq NearOnes(g)
  PROVE  KeysOf(list) \subseteq Found(g)
BY NearOnesAre DEF KeysOf

(* The front of a list holds nothing else.                                 *)
LEMMA FrontIs ==
  ASSUME NEW list \in Seq(Hits)
  PROVE  ToSet(SubSeq(list, 1, Min({Len(list), AskedFor}))) \subseteq ToSet(list)
<1> DEFINE m == Min({Len(list), AskedFor})
<1>1. Len(list) \in Nat /\ AskedFor \in Nat
  BY MostIs
<1>2. m = IF Len(list) <= AskedFor THEN Len(list) ELSE AskedFor
  <2>1. Len(list) \in Int /\ AskedFor \in Int
    BY <1>1
  <2> QED
    BY <2>1, MinOfTwo
<1> HIDE DEF m
<1>3. m \in 0 .. Len(list)
  BY <1>1, <1>2
<1>4. DOMAIN SubSeq(list, 1, m) = 1 .. m /\ \A i \in 1 .. m : SubSeq(list, 1, m)[i] = list[i] /\ i \in 1 .. Len(list)
  BY <1>1, <1>3
<1>5. ToSet(SubSeq(list, 1, m)) \subseteq ToSet(list)
  <2>1. DOMAIN list = 1 .. Len(list)
    OBVIOUS
  <2> DEFINE front == SubSeq(list, 1, m)
  <2>2. \A i \in DOMAIN front : front[i] = list[i] /\ i \in DOMAIN list
    BY <1>4, <2>1
  <2> HIDE DEF front
  <2>3. ToSet(front) \subseteq ToSet(list)
    BY <2>2 DEF ToSet
  <2> QED
    BY <2>3 DEF front
<1> QED
  BY <1>5 DEF m

(* The result.                                                             *)
LEMMA FuseKeeps ==
  ASSUME HandleInv, Fuse
  PROVE  HandleInv'
<1>1. IndexOK /\ VectorsOK /\ ScopesInv /\ AnswersInv /\ RankingInv /\ FusionInv /\ ResultInv
  BY DEF HandleInv
<1> DEFINE hits == Fusing(ranking.hits, NearList)
<1>2. /\ UNCHANGED indexVars /\ UNCHANGED <<vectors, graphs>> /\ graphs' = graphs
      /\ scopes' = scopes /\ query' = query /\ glob' = glob /\ depth' = depth /\ scope' = scope
      /\ answers' = answers /\ ranking' = ranking /\ left' = left /\ mode' = mode /\ pools' = pools
      /\ Ranking /\ ranking.done /\ (mode.rank = "rerank" \/ DOMAIN pools = Segs)
  BY DEF Fuse, handleVars, indexVars, Joined
<1>3. fused' = Result(hits)
  BY DEF Fuse, Fusing
<1>4. IndexOK' /\ VectorsOK' /\ Damaged' = Damaged /\ ScopesInv' /\ AnswersInv' /\ RankingInv'
  BY <1>1, <1>2, IndexStays, NearStays, ScopesStay, AnswersStay, RankingStays
<1>5. mode # Lexical /\ fused # Failed /\ mode \in Modes
  BY <1>1, <1>2 DEF Ranking, NotYet, Failed, FusionInv
<1>6. ~Damaged /\ DepthInv /\ PoolsInv
  BY <1>1, <1>5 DEF FusionInv
<1>7. FusionInv'
  <2>1. DepthInv' /\ PoolsInv'
    BY <1>2, <1>6, DepthStays, PoolsStay
  <2>2. fused'.state = "done"
    BY <1>3 DEF Result
  <2> QED
    BY <1>1, <1>2, <1>4, <1>6, <2>1, <2>2 DEF FusionInv
<1> DEFINE words == TopOf(WordHits(ranking.terms, glob), depth)
           near == TopOf(NearOnes(glob), depth)
<1>8. depth \in Nat /\ ranking.terms \in SUBSET Terms
  BY <1>1, <1>2 DEF AnswersInv, RankingInv
<1>9. words \in Seq(Hits) /\ Len(words) <= depth /\ KeysOf(words) \subseteq Found(glob)
  BY <1>1, <1>8, WordListIs
<1>10. ranking.hits = words /\ (mode.rank # "semantic" => depth = Most)
  BY <1>1, <1>2, <1>6 DEF RankingInv, DepthInv
<1>11. mode.rank # "rerank" => /\ NearList \in Seq(Hits) /\ Len(NearList) <= depth /\ ToSet(NearList) \subseteq NearOnes(glob)
                               /\ KeysOf(NearList) \subseteq Found(glob)
                               /\ mode.exact \/ graphs = {} => NearList = near
  <2> SUFFICES ASSUME mode.rank # "rerank"
               PROVE  /\ NearList \in Seq(Hits) /\ Len(NearList) <= depth /\ ToSet(NearList) \subseteq NearOnes(glob)
                      /\ KeysOf(NearList) \subseteq Found(glob)
                      /\ mode.exact \/ graphs = {} => NearList = near
    OBVIOUS
  <2>1. DOMAIN pools = Segs
    BY <1>2
  <2>2. /\ NearList \in Seq(Hits) /\ Len(NearList) <= depth /\ ToSet(NearList) \subseteq NearOnes(glob)
        /\ mode.exact \/ graphs = {} => NearList = near
    BY <1>1, <1>6, <1>8, <2>1, NearListIs
  <2> QED
    BY <1>1, <2>2, NearKeysAre
<1>12. KeysOf(hits) \subseteq Found(glob) /\ (mode.exact \/ graphs = {} => hits = Fusing(words, near))
  <2> HIDE DEF words, near
  <2>1. CASE mode.rank = "semantic"
    <3>1. mode.rank # "rerank"
      BY <2>1
    <3>2. hits = SubSeq(NearList, 1, Min({Len(NearList), AskedFor}))
      BY <2>1 DEF Fusing
    <3>3. ToSet(hits) \subseteq ToSet(NearList)
      BY <1>11, <3>1, <3>2, FrontIs
    <3>4. KeysOf(hits) \subseteq KeysOf(NearList)
      BY <3>3 DEF KeysOf
    <3>5. Fusing(words, near) = SubSeq(near, 1, Min({Len(near), AskedFor}))
      BY <2>1 DEF Fusing
    <3> QED
      BY <1>11, <3>1, <3>2, <3>4, <3>5
  <2>2. CASE mode.rank = "rerank"
    <3>1. hits = FusedTop(mode, words, <<>>) /\ Fusing(words, near) = FusedTop(mode, words, <<>>)
      BY <1>10, <2>2 DEF Fusing
    <3>2. <<>> \in Seq(Hits) /\ Len(<<>>) = 0 /\ KeysOf(<<>>) = {}
      BY DEF KeysOf, ToSet
    <3>3. Len(words) <= Most /\ Len(<<>>) <= Most /\ KeysOf(words) \subseteq Keys /\ KeysOf(<<>>) \subseteq Keys
      BY <1>1, <1>9, <1>10, <2>2, <3>2, MostIs, FoundAre
    <3>4. KeysOf(FusedTop(mode, words, <<>>)) \subseteq KeysOf(words) \cup KeysOf(<<>>)
      BY <1>1, <1>9, <3>2, <3>3, FusedTopHolds
    <3> QED
      BY <1>9, <3>1, <3>2, <3>4
  <2>3. CASE mode.rank # "semantic" /\ mode.rank # "rerank"
    <3>1. hits = FusedTop(mode, words, NearList) /\ Fusing(words, near) = FusedTop(mode, words, near)
      BY <1>10, <2>3 DEF Fusing
    <3>2. Len(words) <= Most /\ Len(NearList) <= Most /\ KeysOf(words) \subseteq Keys /\ KeysOf(NearList) \subseteq Keys
      BY <1>1, <1>9, <1>10, <1>11, <2>3, FoundAre
    <3>3. NearList \in Seq(Hits) /\ words \in Seq(Hits)
      BY <1>9, <1>11, <2>3
    <3>4. KeysOf(FusedTop(mode, words, NearList)) \subseteq KeysOf(words) \cup KeysOf(NearList)
      BY <1>1, <3>2, <3>3, FusedTopHolds
    <3> QED
      BY <1>9, <1>11, <2>3, <3>1, <3>4
  <2> QED
    BY <2>1, <2>2, <2>3
<1>13. \A key \in KeysOf(hits) : Close(key) # Invalid
  <2>1. Found(glob) \subseteq LiveKeys
    BY <1>1, FoundAre
  <2>2. \A key \in LiveKeys : Close(key) \in Nat
    BY <1>1, <1>6, CloseIs
  <2>3. Invalid \notin Nat
    BY DEF Invalid
  <2> QED
    BY <1>12, <2>1, <2>2, <2>3
<1>14. ResultInv'
  <2>1. /\ \A g : NearOnes(g)' = NearOnes(g) /\ Found(g)' = Found(g)
        /\ \A key : Close(key)' = Close(key)
        /\ \A ts, g : WordHits(ts, g)' = WordHits(ts, g)
        /\ \A m, us, ns : FusedTop(m, us, ns)' = FusedTop(m, us, ns)
    BY <1>2, IndexStays, NearStays, WeightStays, FusionStays
  <2>2. \A us, ns : Fusing(us, ns)' = Fusing(us, ns)
    BY <1>2, <2>1 DEF Fusing
  <2>3. fused'.hits = hits
    BY <1>3 DEF Result
  <2> HIDE DEF hits
  <2>4. KeysOf(fused'.hits) \subseteq Found(glob)' /\ \A key \in KeysOf(fused'.hits) : Close(key)' # Invalid
    BY <1>2, <1>12, <1>13, <2>1, <2>3
  <2>5. words' = words /\ near' = near
    BY <1>2, <2>1
  <2>6. mode'.exact \/ graphs' = {} => fused'.hits = Fusing(words, near)'
    BY <1>2, <1>12, <2>2, <2>3, <2>5
  <2> QED
    BY <1>2, <2>4, <2>6 DEF ResultInv
<1> QED
  BY <1>4, <1>7, <1>14 DEF HandleInv

-----------------------------------------------------------------------------
(* Before anything is asked.                                               *)
LEMMA HandleInvInit == HybridInit => HandleInv
<1> SUFFICES ASSUME HybridInit PROVE HandleInv
  OBVIOUS
<1>1. /\ IndexOK /\ VectorsOK /\ left \in Nat /\ scopes = <<>> /\ query = NoQuery /\ glob = NoGlob /\ depth = 0
      /\ answers = Nobody /\ ranking = NoRanking /\ mode = Lexical /\ fused = NotYet
  BY DEF HybridInit, HandleInit, FusionInit
<1>2. ScopesInv
  <2>1. scopes \in Seq([glob : Globs, scope : Scopes]) /\ Len(scopes) = 0 /\ DOMAIN scopes = {}
    BY <1>1
  <2>2. ScopesKept \in Nat
    BY SearchAssumption
  <2> QED
    BY <1>1, <2>1, <2>2 DEF ScopesInv
<1>3. AnswersInv
  BY <1>1 DEF AnswersInv, NoQuery, Nobody
<1>4. RankingInv
  BY <1>1 DEF RankingInv, NoRanking
<1>5. FusionInv /\ ResultInv
  BY <1>1 DEF FusionInv, ResultInv, NotYet
<1> QED
  BY <1>1, <1>2, <1>3, <1>4, <1>5 DEF HandleInv

(* Every step keeps the invariant.                                         *)
LEMMA HandleInvNext == HandleInv /\ [HybridNext]_hybridVars => HandleInv'
<1> SUFFICES ASSUME HandleInv, [HybridNext]_hybridVars PROVE HandleInv'
  OBVIOUS
<1>1. CASE AskLexical
  BY <1>1, AskLexicalKeeps
<1>2. CASE AskHybrid
  BY <1>2, AskHybridKeeps
<1>3. CASE Refuse
  BY <1>3, RefuseKeeps
<1>4. CASE Lexically /\ UNCHANGED fusionVars
  <2>1. ASSUME NEW s \in Segs, Answer(s) PROVE HandleInv'
    BY <1>4, <2>1, SegmentAnswerKeeps
  <2>2. CASE Merge
    BY <1>4, <2>2, MergeKeeps
  <2> QED
    BY <1>4, <2>1, <2>2 DEF Lexically
<1>5. CASE Encode \/ EncodeFails
  BY <1>5, EncodeKeeps
<1>6. ASSUME NEW s \in Segs, Pool(s) PROVE HandleInv'
  BY <1>6, PoolKeeps
<1>7. CASE Fuse
  BY <1>7, FuseKeeps
<1>8. CASE UNCHANGED hybridVars
  <2>1. IndexOK /\ VectorsOK /\ ScopesInv /\ AnswersInv /\ RankingInv /\ FusionInv /\ ResultInv
    BY DEF HandleInv
  <2>2. /\ UNCHANGED indexVars /\ UNCHANGED <<vectors, graphs>> /\ graphs' = graphs
        /\ scopes' = scopes /\ query' = query /\ glob' = glob /\ depth' = depth /\ scope' = scope
        /\ answers' = answers /\ ranking' = ranking /\ left' = left /\ mode' = mode /\ pools' = pools /\ fused' = fused
    BY <1>8 DEF hybridVars, handleVars, fusionVars, indexVars
  <2>3. IndexOK' /\ VectorsOK' /\ Damaged' = Damaged /\ ScopesInv' /\ AnswersInv' /\ RankingInv' /\ ResultInv'
    BY <2>1, <2>2, IndexStays, NearStays, ScopesStay, AnswersStay, RankingStays, ResultStays
  <2>4. (DepthInv => DepthInv') /\ (PoolsInv => PoolsInv')
    BY <2>2, DepthStays, PoolsStay
  <2>5. FusionInv'
    BY <2>1, <2>2, <2>3, <2>4 DEF FusionInv
  <2> QED
    BY <2>3, <2>5 DEF HandleInv
<1> QED
  BY <1>1, <1>2, <1>3, <1>4, <1>5, <1>6, <1>7, <1>8 DEF HybridNext

(* What the invariant says of scopes, of the list by words, and of results.*)
LEMMA InvariantScopes == HandleInv => ScopesAreExact
<1> SUFFICES ASSUME HandleInv PROVE ScopesAreExact
  OBVIOUS
<1>1. IndexOK /\ ScopesInv
  BY DEF HandleInv
<1>2. ASSUME NEW g, g # NoGlob, NEW sc \in Scopes, ScopeKeys(sc) = Found(g) PROVE IsScopeOf(sc, g)
  <2>1. ScopeKeys(sc) = {key \in LiveKeys : FileOf(key) \in Accepts[g]}
    BY <1>1, <1>2, FoundAre
  <2> QED
    BY <1>1, <2>1, ScopeIsExact
<1>3. Len(scopes) <= ScopesKept /\ scopes \in Seq([glob : Globs, scope : Scopes])
      /\ \A i \in DOMAIN scopes : ScopeKeys(scopes[i].scope) = Found(scopes[i].glob)
  BY <1>1 DEF ScopesInv
<1>4. \A i \in DOMAIN scopes : IsScopeOf(scopes[i].scope, scopes[i].glob)
  <2> SUFFICES ASSUME NEW i \in DOMAIN scopes PROVE IsScopeOf(scopes[i].scope, scopes[i].glob)
    OBVIOUS
  <2>1. scopes[i] \in [glob : Globs, scope : Scopes]
    <3> DEFINE E == [glob : Globs, scope : Scopes]
    <3>1. scopes \in Seq(E)
      BY <1>3
    <3> HIDE DEF E
    <3>2. scopes[i] \in E
      BY <3>1
    <3> QED
      BY <3>2 DEF E
  <2>2. scopes[i].glob \in Globs /\ scopes[i].scope \in Scopes
    BY <2>1
  <2>3. scopes[i].glob # NoGlob
    BY <2>2, SearchAssumption
  <2> QED
    BY <1>2, <1>3, <2>2, <2>3
<1>5. glob # NoGlob => IsScopeOf(scope, glob) /\ Position(glob) # 0
  BY <1>1, <1>2 DEF ScopesInv
<1> QED
  BY <1>3, <1>4, <1>5 DEF ScopesAreExact

LEMMA InvariantMerge == HandleInv => MergeIsExact
<1> SUFFICES ASSUME HandleInv, ranking.done
             PROVE  LET in == {key \in LiveKeys :
                                 /\ ranking.glob # NoGlob => FileOf(key) \in Accepts[ranking.glob]
                                 /\ \E t \in ranking.terms : TextOf(key)[t] > 0}
                    IN  ranking.hits = TopOf({<<key[1], key[2], Weight(ranking.terms, key)>> : key \in in}, depth)
  BY DEF MergeIsExact
<1>1. ranking.hits = TopOf(WordHits(ranking.terms, ranking.glob), depth)
  BY DEF HandleInv, RankingInv
<1>2. {key \in LiveKeys : /\ ranking.glob # NoGlob => FileOf(key) \in Accepts[ranking.glob]
                          /\ \E t \in ranking.terms : TextOf(key)[t] > 0}
      = Holding(ranking.terms, ranking.glob)
  BY DEF Holding, Found
<1> QED
  BY <1>1, <1>2 DEF WordHits

LEMMA InvariantFusion == HandleInv => FusionIsExact
<1> SUFFICES ASSUME HandleInv, mode # Lexical /\ fused.state = "done"
             PROVE  FusionIsExact
  BY DEF FusionIsExact
<1> DEFINE in    == {key \in LiveKeys : glob # NoGlob => FileOf(key) \in Accepts[glob]}
           said  == {key \in in : \E t \in ranking.terms : TextOf(key)[t] > 0}
           words == TopOf({<<key[1], key[2], Weight(ranking.terms, key)>> : key \in said}, depth)
           near  == TopOf({<<key[1], key[2], Close(key)>> : key \in {i \in in : Has(i[1])}}, depth)
<1>1. in = Found(glob) /\ said = Holding(ranking.terms, glob)
  BY DEF Found, Holding
<1>2. words = TopOf(WordHits(ranking.terms, glob), depth)
  BY <1>1 DEF WordHits
<1>3. near = TopOf(NearOnes(glob), depth)
  BY <1>1 DEF NearOnes
<1>4. /\ KeysOf(fused.hits) \subseteq in
      /\ \A key \in KeysOf(fused.hits) : Close(key) # Invalid
      /\ mode.exact \/ graphs = {} => fused.hits = Fusing(words, near)
  BY <1>1, <1>2, <1>3 DEF HandleInv, ResultInv
<1>5. mode.exact \/ graphs = {} =>
        fused.hits = CASE mode.rank = "semantic" -> SubSeq(near, 1, Min({Len(near), AskedFor}))
                       [] mode.rank = "rerank"   -> FusedTop(mode, words, <<>>)
                       [] OTHER                  -> FusedTop(mode, words, near)
  <2> HIDE DEF words, near
  <2> QED
    BY <1>4 DEF Fusing
<1> QED
  BY <1>4, <1>5 DEF FusionIsExact

(* At every moment every scope the handle remembers, and the one in use,   *)
(* is the live documents of what its glob accepts, bit by bit, by count    *)
(* and to whoever leaps along it: DocScope and AnyIndex::scope_for_glob,   *)
(* whatever was asked before.                                              *)
THEOREM ScopesStayExact == HybridSpec => []ScopesAreExact
BY HandleInvInit, HandleInvNext, InvariantScopes, PTL DEF HybridSpec

(* What search_core returns is the exact top of all live documents in      *)
(* scope that hold a term, under one set of statistics, in whatever order  *)
(* the segments answer.                                                    *)
THEOREM MergesStayExact == HybridSpec => []MergeIsExact
BY HandleInvInit, HandleInvNext, InvariantMerge, PTL DEF HybridSpec

(* A result of run_ranked_scoped ranks live, undamaged documents in scope  *)
(* alone, and, where nothing was routed by a graph, is what fusing the two *)
(* exact lists gives.                                                      *)
THEOREM FusionStaysExact == HybridSpec => []FusionIsExact
BY HandleInvInit, HandleInvNext, InvariantFusion, PTL DEF HybridSpec
===============================================================================
