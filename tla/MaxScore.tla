------------------------------ MODULE MaxScore ------------------------------
(***************************************************************************)
(* search of src/maxscore.rs.  The lists are sorted by bound once; those   *)
(* from essential on bring up the candidates, the others are only probed,  *)
(* from the strongest down, until the candidate is beyond hope.            *)
(***************************************************************************)
EXTENDS RankedQuery

VARIABLES
  order,      \* order[i]: the list at index i, from 1, by ascending bound
  essential,  \* the first essential list, from 1
  step,       \* what the loop does next
  candidate,  \* the document being scored
  score,      \* its score so far
  probe       \* the lists up to this one remain to be probed

maxVars == <<order, essential, step, candidate, score, probe>>

Lists == 1 .. Cardinality(Terms)

MaxTypeOK ==
  /\ CorpusTypeOK /\ SearchTypeOK
  /\ order \in [Lists -> Terms]
  /\ essential \in 1 .. Cardinality(Terms) + 1
  /\ step \in {"loop", "probe", "done"}
  /\ candidate \in 0 .. End
  /\ score \in Nat
  /\ probe \in 0 .. essential - 1

(* Equal bounds come in any order. *)
Sorted(seq) ==
  /\ {seq[i] : i \in Lists} = Terms
  /\ \A i, j \in Lists : i < j => ListBound(seq[i]) <= ListBound(seq[j])

MaxInit ==
  /\ CorpusInit
  /\ CursorsInit
  /\ heap = {}
  /\ order \in {seq \in [Lists -> Terms] : Sorted(seq)}
  /\ essential = 1 /\ step = "loop"
  /\ candidate = 0 /\ score = 0 /\ probe = 0

-----------------------------------------------------------------------------
(* The best the lists up to the i-th can add. *)
Cum(i) == SumFunctionOnSet([j \in Lists |-> ListBound(order[j])], 1 .. i)

(* The first list that, with the weaker ones, clears the threshold.        *)
Essential == Min({i \in essential .. Cardinality(Terms) : Cum(i) > Threshold}
                 \cup {Cardinality(Terms) + 1})

(* The least document of the lists from the e-th on, if any is left.       *)
Ahead(e)     == {cur[order[i]] : i \in e .. Cardinality(Terms)} \ {End}
Candidate(e) == {d \in Ahead(e) : \A o \in Ahead(e) : d <= o}

MaxFinish ==
  /\ Candidate(essential') = {}
  /\ step' = "done"
  /\ UNCHANGED <<corpus, cur, heap, order, candidate, score, probe>>

(* The candidate is out of scope: every list leaps.                        *)
MaxLeap(c) ==
  /\ NextLive(c) # c
  /\ cur' = [t \in Terms |-> Seek(t, NextLive(c))]
  /\ UNCHANGED <<corpus, heap, order, step, candidate, score, probe>>

Advanced(ts) == [t \in Terms |-> IF t \in ts THEN Next1(t) ELSE cur[t]]

(* Mutation of Gather: the cursors stay on the document they score.        *)
GatherInPlace(c) ==
  /\ NextLive(c) = c
  /\ score' = SumFunctionOnSet(Contributions(c), {t \in Terms : cur[t] = c})
  /\ candidate' = c
  /\ probe' = essential' - 1
  /\ step' = "probe"
  /\ UNCHANGED <<corpus, cur, heap, order>>

Gather(c) ==
  /\ NextLive(c) = c
  /\ LET on == {t \in Terms : cur[t] = c}
     IN  /\ score' = SumFunctionOnSet(Contributions(c), on)
         /\ cur' = Advanced(on)
  /\ candidate' = c
  /\ probe' = essential' - 1
  /\ step' = "probe"
  /\ UNCHANGED <<corpus, heap, order>>

Hopeless == score + Cum(probe) <= Threshold

ProbeList ==
  /\ step = "probe" /\ probe > 0 /\ ~Hopeless
  /\ LET t  == order[probe]
         at == Seek(t, candidate)
     IN  /\ score' = score + IF at = candidate THEN Contribution(t, candidate) ELSE 0
         /\ cur' = [cur EXCEPT ![t] = IF at = candidate THEN PostingFrom(t, candidate + 1) ELSE at]
  /\ probe' = probe - 1
  /\ UNCHANGED <<corpus, heap, order, essential, step, candidate>>

(* Given up or fully scored; in the first case the heap declines it.       *)
Offer ==
  /\ step = "probe" /\ (probe = 0 \/ Hopeless)
  /\ heap' = Inserted(candidate, score)
  /\ step' = "loop"
  /\ UNCHANGED <<corpus, cur, order, essential, candidate, score, probe>>

Turn ==
  /\ step = "loop"
  /\ essential' = Essential
  /\ MaxFinish \/ \E c \in Candidate(essential') : MaxLeap(c) \/ Gather(c)

MaxNext == Turn \/ ProbeList \/ Offer
===============================================================================
