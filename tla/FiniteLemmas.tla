----------------------------- MODULE FiniteLemmas -----------------------------
(***************************************************************************)
(* Lemmas about finite sets that the proofs of several components rest on: *)
(* induction, least and greatest elements, and sums.                       *)
(***************************************************************************)
EXTENDS Integers, FiniteSets, FiniteSetsExt, Functions, FiniteSetTheorems, WellFoundedInduction, TLAPS


-----------------------------------------------------------------------------
(* Finite sets.  The library states induction for an operator; here the    *)
(* subsets for which it holds are a set.                                   *)

(* A collection that holds every subset of a finite set all of whose       *)
(* proper subsets it holds, holds them all.                                *)
LEMMA StrongInduction ==
  ASSUME NEW S, IsFiniteSet(S), NEW G,
         \A T \in SUBSET S : (\A U \in SUBSET T : U # T => U \in G) => T \in G
  PROVE  SUBSET S \subseteq G
<1> DEFINE Bad == {T \in SUBSET S : T \notin G}
<1> SUFFICES ASSUME Bad # {} PROVE FALSE
  OBVIOUS
<1>1. IsWellFoundedOn(StrictSubsetOrdering(S), SUBSET S)
  <2>1. IsWellFoundedOn(StrictSubsetOrdering(S), FiniteSubsetsOf(S))
    BY FS_StrictSubsetOrderingWellFounded
  <2>2. FiniteSubsetsOf(S) = SUBSET S
    BY FS_FiniteSubsetsOfFinite
  <2> QED
    BY <2>1, <2>2, Zenon
<1>2. PICK T \in Bad : \A U \in Bad : <<U, T>> \notin StrictSubsetOrdering(S)
  <2>1. Bad \subseteq SUBSET S
    OBVIOUS
  <2> HIDE DEF Bad
  <2> QED
    BY <1>1, <2>1, WFMin
<1>3. \A U \in SUBSET T : U # T => U \in G
  BY <1>2 DEF StrictSubsetOrdering
<1> QED
  BY <1>2, <1>3

(* So does one that holds the empty set and, with a subset, what one more  *)
(* element makes of it.                                                    *)
LEMMA FiniteInduction ==
  ASSUME NEW S, IsFiniteSet(S), NEW G, {} \in G,
         \A T \in SUBSET S, x \in S : T \in G /\ x \notin T => T \cup {x} \in G
  PROVE  S \in G
<1>1. ASSUME NEW T \in SUBSET S, \A U \in SUBSET T : U # T => U \in G
      PROVE  T \in G
  <2>1. CASE T = {}
    BY <2>1
  <2>2. CASE T # {}
    <3>1. PICK x \in T : TRUE
      BY <2>2
    <3>2. T \ {x} \in G /\ T = (T \ {x}) \cup {x}
      BY <1>1, <3>1
    <3> QED
      BY <3>2
  <2> QED
    BY <2>1, <2>2
<1> QED
  BY <1>1, StrongInduction

LEMMA ImageFinite ==
  ASSUME NEW S, IsFiniteSet(S), NEW f
  PROVE  IsFiniteSet({f[x] : x \in S})
<1> DEFINE I == {f[x] : x \in S}
           g == [x \in S |-> f[x]]
<1>1. g \in [S -> I]
  OBVIOUS
<1>2. \A y \in I : \E x \in S : g[x] = y
  OBVIOUS
<1> HIDE DEF g
<1>3. g \in Surjection(S, I)
  BY <1>1, <1>2 DEF Surjection
<1> HIDE DEF I
<1>4. IsFiniteSet(I)
  BY <1>3, FS_Surjection
<1> QED
  BY <1>4 DEF I

LEMMA MinOfFinite ==
  ASSUME NEW S \in SUBSET Int, IsFiniteSet(S), S # {}
  PROVE  Min(S) \in S /\ \A x \in S : Min(S) <= x
<1> DEFINE G == {T \in SUBSET S : T # {} => \E x \in T : \A y \in T : x <= y}
<1>1. ASSUME NEW T \in SUBSET S, NEW x \in S, T \in G, x \notin T
      PROVE  T \cup {x} \in G
  <2>1. CASE T = {}
    BY <2>1
  <2>2. CASE T # {}
    <3>1. PICK m \in T : \A y \in T : m <= y
      BY <1>1, <2>2
    <3>2. CASE m <= x
      BY <3>1, <3>2
    <3>3. CASE ~(m <= x)
      <4>1. \A y \in T \cup {x} : x <= y
        BY <3>1, <3>3
      <4> QED
        BY <4>1
    <3> QED
      BY <3>2, <3>3
  <2> QED
    BY <2>1, <2>2
<1>2. {} \in G
  OBVIOUS
<1> HIDE DEF G
<1>3. S \in G
  BY <1>1, <1>2, FiniteInduction
<1>4. \E x \in S : \A y \in S : x <= y
  BY <1>3 DEF G
<1> QED
  BY <1>4 DEF Min

LEMMA MaxOfFinite ==
  ASSUME NEW S \in SUBSET Int, IsFiniteSet(S), S # {}
  PROVE  Max(S) \in S /\ \A x \in S : x <= Max(S)
<1> DEFINE G == {T \in SUBSET S : T # {} => \E x \in T : \A y \in T : y <= x}
<1>1. ASSUME NEW T \in SUBSET S, NEW x \in S, T \in G, x \notin T
      PROVE  T \cup {x} \in G
  <2>1. CASE T = {}
    BY <2>1
  <2>2. CASE T # {}
    <3>1. PICK m \in T : \A y \in T : y <= m
      BY <1>1, <2>2
    <3>2. CASE x <= m
      BY <3>1, <3>2
    <3>3. CASE ~(x <= m)
      <4>1. \A y \in T \cup {x} : y <= x
        BY <3>1, <3>3
      <4> QED
        BY <4>1
    <3> QED
      BY <3>2, <3>3
  <2> QED
    BY <2>1, <2>2
<1>2. {} \in G
  OBVIOUS
<1> HIDE DEF G
<1>3. S \in G
  BY <1>1, <1>2, FiniteInduction
<1>4. \E x \in S : \A y \in S : y <= x
  BY <1>3 DEF G
<1>5. \E x \in S : \A y \in S : x >= y
  BY <1>4
<1> QED
  BY <1>5 DEF Max

-----------------------------------------------------------------------------
(* Sums. *)

(* What the sum of every part of D is: nothing for the empty set, and any  *)
(* element may be the next to be taken out.                                *)
SumsOf(f, D, g) ==
  /\ g \in [SUBSET D -> Nat]
  /\ g[{}] = 0
  /\ \A T \in SUBSET D : \A x \in T : g[T] = f[x] + g[T \ {x}]

LEMMA SumsExist ==
  ASSUME NEW D, IsFiniteSet(D), NEW f, \A x \in D : f[x] \in Nat
  PROVE  \E g : SumsOf(f, D, g)
<1> DEFINE G == {E \in SUBSET D : \E g : SumsOf(f, E, g)}
<1>1. {} \in G
  <2>1. SumsOf(f, {}, [T \in SUBSET {} |-> 0])
    BY DEF SumsOf
  <2> QED
    BY <2>1
<1>2. ASSUME NEW E \in SUBSET D, NEW x \in D, E \in G, x \notin E
      PROVE  E \cup {x} \in G
  <2>1. PICK g : SumsOf(f, E, g)
    BY <1>2
  <2> DEFINE h == [T \in SUBSET (E \cup {x}) |-> IF x \in T THEN f[x] + g[T \ {x}] ELSE g[T]]
  <2>2. \A T \in SUBSET (E \cup {x}) : T \ {x} \in SUBSET E /\ (x \notin T => T \in SUBSET E)
    OBVIOUS
  <2>3. \A T \in SUBSET E : g[T] \in Nat
    BY <2>1 DEF SumsOf
  <2>4. h \in [SUBSET (E \cup {x}) -> Nat]
    BY <2>2, <2>3
  <2>5. h[{}] = 0
    BY <2>1 DEF SumsOf
  <2>6. ASSUME NEW T \in SUBSET (E \cup {x}), NEW y \in T
        PROVE  h[T] = f[y] + h[T \ {y}]
    <3>1. T \ {y} \in SUBSET (E \cup {x})
      OBVIOUS
    <3>2. CASE x \notin T
      <4>1. h[T] = g[T] /\ h[T \ {y}] = g[T \ {y}]
        BY <3>1, <3>2
      <4>2. g[T] = f[y] + g[T \ {y}]
        BY <2>1, <2>2, <3>2 DEF SumsOf
      <4> QED
        BY <4>1, <4>2
    <3>3. CASE x = y
      BY <3>1, <3>3
    <3>4. CASE x \in T /\ x # y
      <4>1. h[T] = f[x] + g[T \ {x}]
        BY <3>4
      <4>2. h[T \ {y}] = f[x] + g[(T \ {y}) \ {x}]
        BY <3>1, <3>4
      <4>3. g[T \ {x}] = f[y] + g[(T \ {x}) \ {y}]
        BY <2>1, <2>2, <3>4 DEF SumsOf
      <4>4. (T \ {y}) \ {x} = (T \ {x}) \ {y}
        OBVIOUS
      <4>5. g[(T \ {x}) \ {y}] \in Nat /\ f[x] \in Nat /\ f[y] \in Nat
        BY <1>2, <2>3
      <4> HIDE DEF h
      <4> QED
        BY <4>1, <4>2, <4>3, <4>4, <4>5
    <3> QED
      BY <3>2, <3>3, <3>4
  <2> HIDE DEF h
  <2>7. SumsOf(f, E \cup {x}, h)
    BY <2>4, <2>5, <2>6 DEF SumsOf
  <2> QED
    BY <2>7
<1> HIDE DEF G
<1>3. D \in G
  BY <1>1, <1>2, FiniteInduction
<1> QED
  BY <1>3 DEF G

(* The library's sum takes the elements out in an order of its own.        *)
LEMMA SumFunctionOnSetIs ==
  ASSUME NEW D, IsFiniteSet(D), NEW f, NEW g, SumsOf(f, D, g)
  PROVE  SumFunctionOnSet(f, D) = g[D]
<1> DEFINE Step(h) == [T \in SUBSET D |-> IF T = {} THEN 0 ELSE LET x == CHOOSE x \in T : TRUE IN f[x] + h[T \ {x}]]
           c == CHOOSE h : h = Step(h)
<1>1. SumFunctionOnSet(f, D) = c[D]
  BY DEF SumFunctionOnSet, FoldFunctionOnSet, MapThenFoldSet
<1>2. \A T \in SUBSET D : g[T] = Step(g)[T]
  <2> TAKE T \in SUBSET D
  <2>1. CASE T = {}
    BY <2>1 DEF SumsOf
  <2>2. CASE T # {}
    <3>1. (CHOOSE x \in T : TRUE) \in T
      BY <2>2
    <3> QED
      BY <2>2, <3>1 DEF SumsOf
  <2> QED
    BY <2>1, <2>2
<1>3. g = Step(g)
  <2>1. g = [T \in SUBSET D |-> g[T]]
    BY DEF SumsOf
  <2> QED
    BY <1>2, <2>1
<1>4. c = Step(c)
  <2> HIDE DEF Step
  <2> QED
    BY <1>3
<1> HIDE DEF c
<1> DEFINE G == {T \in SUBSET D : c[T] = g[T]}
<1>5. ASSUME NEW T \in SUBSET D, \A U \in SUBSET T : U # T => U \in G
      PROVE  T \in G
  <2>1. c[T] = Step(c)[T]
    BY <1>4
  <2>2. CASE T = {}
    BY <2>1, <2>2 DEF SumsOf
  <2>3. CASE T # {}
    <3>1. PICK x \in T : x = CHOOSE y \in T : TRUE
      BY <2>3
    <3>2. c[T] = f[x] + c[T \ {x}]
      BY <2>1, <2>3, <3>1
    <3>3. c[T \ {x}] = g[T \ {x}]
      BY <1>5, <3>1
    <3>4. g[T] = f[x] + g[T \ {x}]
      BY <3>1 DEF SumsOf
    <3> QED
      BY <3>2, <3>3, <3>4
  <2> QED
    BY <2>2, <2>3
<1>6. D \in SUBSET D
  OBVIOUS
<1> HIDE DEF G
<1>7. D \in G
  BY <1>5, <1>6, StrongInduction
<1> QED
  BY <1>1, <1>7 DEF G

LEMMA SumRemove ==
  ASSUME NEW D, IsFiniteSet(D), NEW f, \A x \in D : f[x] \in Nat
  PROVE  /\ SumFunctionOnSet(f, D) \in Nat
         /\ SumFunctionOnSet(f, {}) = 0
         /\ \A x \in D : SumFunctionOnSet(f, D) = f[x] + SumFunctionOnSet(f, D \ {x})
<1>1. PICK g : SumsOf(f, D, g)
  BY SumsExist
<1>2. ASSUME NEW T \in SUBSET D
      PROVE  SumFunctionOnSet(f, T) = g[T]
  <2> DEFINE h == [U \in SUBSET T |-> g[U]]
  <2>1. SumsOf(f, T, h)
    <3>1. h \in [SUBSET T -> Nat] /\ h[{}] = 0
      BY <1>1 DEF SumsOf
    <3>2. ASSUME NEW U \in SUBSET T, NEW x \in U
          PROVE  h[U] = f[x] + h[U \ {x}]
      <4>1. U \in SUBSET D /\ U \ {x} \in SUBSET T
        OBVIOUS
      <4>2. g[U] = f[x] + g[U \ {x}]
        BY <1>1, <4>1 DEF SumsOf
      <4> QED
        BY <4>1, <4>2
    <3> HIDE DEF h
    <3> QED
      BY <3>1, <3>2 DEF SumsOf
  <2>2. IsFiniteSet(T)
    BY FS_Subset
  <2>3. h[T] = g[T]
    OBVIOUS
  <2> HIDE DEF h
  <2>4. SumFunctionOnSet(f, T) = h[T]
    BY <2>1, <2>2, SumFunctionOnSetIs
  <2> QED
    BY <2>3, <2>4
<1>3. D \in SUBSET D /\ {} \in SUBSET D /\ \A x \in D : D \ {x} \in SUBSET D
  OBVIOUS
<1>4. g[D] \in Nat /\ g[{}] = 0 /\ \A x \in D : g[D] = f[x] + g[D \ {x}]
  BY <1>1, <1>3 DEF SumsOf
<1> QED
  BY <1>2, <1>3, <1>4

LEMMA SumAdd ==
  ASSUME NEW D, IsFiniteSet(D), NEW x, x \notin D, NEW f, \A y \in D \cup {x} : f[y] \in Nat
  PROVE  SumFunctionOnSet(f, D \cup {x}) = f[x] + SumFunctionOnSet(f, D)
<1>1. IsFiniteSet(D \cup {x}) /\ (D \cup {x}) \ {x} = D
  BY FS_AddElement
<1>2. SumFunctionOnSet(f, D \cup {x}) = f[x] + SumFunctionOnSet(f, (D \cup {x}) \ {x})
  BY <1>1, SumRemove
<1> QED
  BY <1>1, <1>2

(* A sum is at most another whose every term is at least as large, and     *)
(* which leaves no term out but zeros.                                     *)
LEMMA SumDominated ==
  ASSUME NEW A, IsFiniteSet(A), NEW B, IsFiniteSet(B),
         NEW f, \A x \in A : f[x] \in Nat, NEW h, \A x \in B : h[x] \in Nat,
         \A x \in A : f[x] # 0 => x \in B /\ f[x] <= h[x]
  PROVE  SumFunctionOnSet(f, A) <= SumFunctionOnSet(h, B)
<1> DEFINE G == {T \in SUBSET A : SumFunctionOnSet(f, T) <= SumFunctionOnSet(h, T \cap B)}
           H == {T \in SUBSET B : SumFunctionOnSet(h, T \cap A) <= SumFunctionOnSet(h, T)}
<1>1. {} \in G
  <2>1. {} \cap B = {}
    OBVIOUS
  <2>2. SumFunctionOnSet(f, {}) = 0 /\ SumFunctionOnSet(h, {}) = 0
    BY SumRemove
  <2> QED
    BY <2>1, <2>2
<1>2. ASSUME NEW T \in SUBSET A, NEW x \in A, T \in G, x \notin T
      PROVE  T \cup {x} \in G
  <2>1. IsFiniteSet(T) /\ IsFiniteSet(T \cap B) /\ T \cap B \subseteq B
    BY FS_Subset
  <2>2. SumFunctionOnSet(f, T \cup {x}) = f[x] + SumFunctionOnSet(f, T)
    BY <1>2, <2>1, SumAdd
  <2>3. SumFunctionOnSet(f, T) \in Nat /\ SumFunctionOnSet(h, T \cap B) \in Nat
    BY <2>1, SumRemove
  <2>4. SumFunctionOnSet(f, T) <= SumFunctionOnSet(h, T \cap B)
    BY <1>2
  <2>5. CASE x \in B
    <3>1. (T \cup {x}) \cap B = (T \cap B) \cup {x} /\ x \notin T \cap B
      BY <1>2, <2>5
    <3>2. SumFunctionOnSet(h, (T \cup {x}) \cap B) = h[x] + SumFunctionOnSet(h, T \cap B)
      BY <2>1, <2>5, <3>1, SumAdd
    <3>3. f[x] <= h[x] /\ f[x] \in Nat /\ h[x] \in Nat
      <4>1. CASE f[x] = 0
        BY <2>5, <4>1
      <4>2. CASE f[x] # 0
        BY <2>5, <4>2
      <4> QED
        BY <4>1, <4>2
    <3> QED
      BY <2>2, <2>3, <2>4, <3>2, <3>3
  <2>6. CASE x \notin B
    <3>1. (T \cup {x}) \cap B = T \cap B /\ f[x] = 0
      BY <2>6
    <3>2. SumFunctionOnSet(f, T \cup {x}) <= SumFunctionOnSet(h, T \cap B)
      BY <2>2, <2>3, <2>4, <3>1
    <3>3. SumFunctionOnSet(f, T \cup {x}) <= SumFunctionOnSet(h, (T \cup {x}) \cap B)
      BY <3>1, <3>2
    <3> QED
      BY <3>3
  <2> QED
    BY <2>5, <2>6
<1>3. A \in G
  <2> HIDE DEF G
  <2> QED
    BY <1>1, <1>2, FiniteInduction
<1>4. {} \in H
  <2>1. {} \cap A = {} /\ SumFunctionOnSet(h, {}) = 0
    BY SumRemove
  <2> QED
    BY <2>1
<1>5. ASSUME NEW T \in SUBSET B, NEW x \in B, T \in H, x \notin T
      PROVE  T \cup {x} \in H
  <2>1. IsFiniteSet(T) /\ IsFiniteSet(T \cap A) /\ T \cap A \subseteq B
    BY FS_Subset
  <2>2. SumFunctionOnSet(h, T \cup {x}) = h[x] + SumFunctionOnSet(h, T)
    BY <1>5, <2>1, SumAdd
  <2>3. SumFunctionOnSet(h, T) \in Nat /\ SumFunctionOnSet(h, T \cap A) \in Nat /\ h[x] \in Nat
    BY <2>1, SumRemove
  <2>4. SumFunctionOnSet(h, T \cap A) <= SumFunctionOnSet(h, T)
    BY <1>5
  <2>5. CASE x \in A
    <3>1. (T \cup {x}) \cap A = (T \cap A) \cup {x} /\ x \notin T \cap A
      BY <1>5, <2>5
    <3>2. SumFunctionOnSet(h, (T \cup {x}) \cap A) = h[x] + SumFunctionOnSet(h, T \cap A)
      BY <2>1, <3>1, SumAdd
    <3> QED
      BY <2>2, <2>3, <2>4, <3>2
  <2>6. CASE x \notin A
    <3>1. (T \cup {x}) \cap A = T \cap A
      BY <2>6
    <3>2. SumFunctionOnSet(h, T \cap A) <= SumFunctionOnSet(h, T \cup {x})
      BY <2>2, <2>3, <2>4
    <3>3. SumFunctionOnSet(h, (T \cup {x}) \cap A) <= SumFunctionOnSet(h, T \cup {x})
      BY <3>1, <3>2
    <3> QED
      BY <3>3
  <2> QED
    BY <2>5, <2>6
<1>6. B \in H
  <2> HIDE DEF H
  <2> QED
    BY <1>4, <1>5, FiniteInduction
<1>7. SumFunctionOnSet(f, A) <= SumFunctionOnSet(h, A \cap B) /\ SumFunctionOnSet(h, B \cap A) <= SumFunctionOnSet(h, B)
  BY <1>3, <1>6
<1>8. B \cap A = A \cap B /\ IsFiniteSet(A \cap B) /\ A \cap B \subseteq B
  BY FS_Intersection
<1>9. SumFunctionOnSet(f, A) \in Nat /\ SumFunctionOnSet(h, A \cap B) \in Nat /\ SumFunctionOnSet(h, B) \in Nat
  BY <1>8, SumRemove
<1> QED
  BY <1>7, <1>8, <1>9

(* Then two sums are equal that differ in zeros only.                      *)
LEMMA SumEqual ==
  ASSUME NEW A, IsFiniteSet(A), NEW B, IsFiniteSet(B),
         NEW f, \A x \in A \cup B : f[x] \in Nat,
         \A x \in (A \ B) \cup (B \ A) : f[x] = 0
  PROVE  SumFunctionOnSet(f, A) = SumFunctionOnSet(f, B)
<1>1. SumFunctionOnSet(f, A) \in Nat /\ SumFunctionOnSet(f, B) \in Nat
  BY SumRemove
<1>2. SumFunctionOnSet(f, A) <= SumFunctionOnSet(f, B)
  BY SumDominated
<1>3. SumFunctionOnSet(f, B) <= SumFunctionOnSet(f, A)
  BY SumDominated
<1> QED
  BY <1>1, <1>2, <1>3

LEMMA SumSplit ==
  ASSUME NEW D, IsFiniteSet(D), NEW A \in SUBSET D, NEW f, \A x \in D : f[x] \in Nat
  PROVE  SumFunctionOnSet(f, D) = SumFunctionOnSet(f, A) + SumFunctionOnSet(f, D \ A)
<1> DEFINE B == D \ A
           G == {T \in SUBSET A : SumFunctionOnSet(f, T \cup B) = SumFunctionOnSet(f, T) + SumFunctionOnSet(f, B)}
<1>1. IsFiniteSet(A) /\ IsFiniteSet(B) /\ A \cup B = D /\ A \cap B = {}
  BY FS_Subset
<1> HIDE DEF B
<1>2. SumFunctionOnSet(f, B) \in Nat
  BY <1>1, SumRemove
<1>3. {} \in G
  <2>1. {} \cup B = B /\ SumFunctionOnSet(f, {}) = 0
    BY SumRemove
  <2> QED
    BY <1>2, <2>1
<1>4. ASSUME NEW T \in SUBSET A, NEW x \in A, T \in G, x \notin T
      PROVE  T \cup {x} \in G
  <2>1. IsFiniteSet(T) /\ IsFiniteSet(T \cup B) /\ T \cup B \subseteq D
    BY <1>1, FS_Subset, FS_Union
  <2>2. (T \cup {x}) \cup B = (T \cup B) \cup {x} /\ x \notin T \cup B
    BY <1>1, <1>4
  <2>3. SumFunctionOnSet(f, (T \cup B) \cup {x}) = f[x] + SumFunctionOnSet(f, T \cup B)
    BY <2>1, <2>2, SumAdd
  <2>4. SumFunctionOnSet(f, T \cup {x}) = f[x] + SumFunctionOnSet(f, T)
    BY <1>4, <2>1, SumAdd
  <2>5. SumFunctionOnSet(f, T) \in Nat /\ f[x] \in Nat
    BY <2>1, SumRemove
  <2>6. SumFunctionOnSet(f, T \cup B) = SumFunctionOnSet(f, T) + SumFunctionOnSet(f, B)
    BY <1>4
  <2>7. SumFunctionOnSet(f, (T \cup B) \cup {x}) = SumFunctionOnSet(f, T \cup {x}) + SumFunctionOnSet(f, B)
    BY <1>2, <2>3, <2>4, <2>5, <2>6
  <2> QED
    BY <2>2, <2>7
<1>5. A \in G
  <2> HIDE DEF G
  <2> QED
    BY <1>1, <1>3, <1>4, FiniteInduction
<1> QED
  BY <1>1, <1>5 DEF B

(* Over the values of a sequence, the sum is at most that over its places. *)
LEMMA SumReindexed ==
  ASSUME NEW J, IsFiniteSet(J), NEW o, NEW f, NEW h,
         \A j \in J : f[o[j]] \in Nat /\ h[j] = f[o[j]]
  PROVE  SumFunctionOnSet(f, {o[j] : j \in J}) <= SumFunctionOnSet(h, J)
<1> DEFINE At(T) == {o[j] : j \in T}
           G == {T \in SUBSET J : IsFiniteSet(At(T)) /\ SumFunctionOnSet(f, At(T)) <= SumFunctionOnSet(h, T)}
<1>1. {} \in G
  <2>1. At({}) = {} /\ IsFiniteSet({})
    BY FS_EmptySet
  <2>2. SumFunctionOnSet(f, {}) = 0 /\ SumFunctionOnSet(h, {}) = 0
    BY FS_EmptySet, SumRemove
  <2> HIDE DEF At
  <2> QED
    BY <2>1, <2>2
<1>2. ASSUME NEW T \in SUBSET J, NEW x \in J, T \in G, x \notin T
      PROVE  T \cup {x} \in G
  <2>1. At(T \cup {x}) = At(T) \cup {o[x]} /\ \A y \in At(T) : f[y] \in Nat
    OBVIOUS
  <2> HIDE DEF At
  <2>2. IsFiniteSet(T) /\ IsFiniteSet(At(T)) /\ IsFiniteSet(At(T \cup {x}))
    <3>1. IsFiniteSet(T)
      BY FS_Subset
    <3>2. IsFiniteSet(At(T))
      BY <1>2
    <3>3. IsFiniteSet(At(T) \cup {o[x]})
      BY <3>2, FS_AddElement
    <3> QED
      BY <2>1, <3>1, <3>2, <3>3
  <2>3. SumFunctionOnSet(h, T \cup {x}) = h[x] + SumFunctionOnSet(h, T)
    BY <1>2, <2>2, SumAdd
  <2>4. SumFunctionOnSet(f, At(T)) \in Nat /\ SumFunctionOnSet(h, T) \in Nat /\ h[x] \in Nat
    <3>1. SumFunctionOnSet(f, At(T)) \in Nat
      BY <2>1, <2>2, SumRemove
    <3>2. \A y \in T : h[y] \in Nat
      OBVIOUS
    <3>3. SumFunctionOnSet(h, T) \in Nat
      BY <2>2, <3>2, SumRemove
    <3> QED
      BY <3>1, <3>3
  <2>5. SumFunctionOnSet(f, At(T)) <= SumFunctionOnSet(h, T)
    BY <1>2
  <2>6. SumFunctionOnSet(f, At(T \cup {x})) <= SumFunctionOnSet(h, T \cup {x})
    <3>1. CASE o[x] \in At(T)
      <4>1. At(T \cup {x}) = At(T)
        BY <2>1, <3>1
      <4> QED
        BY <2>3, <2>4, <2>5, <4>1
    <3>2. CASE o[x] \notin At(T)
      <4>1. SumFunctionOnSet(f, At(T) \cup {o[x]}) = f[o[x]] + SumFunctionOnSet(f, At(T))
        BY <2>1, <2>2, <3>2, SumAdd
      <4>2. f[o[x]] = h[x]
        OBVIOUS
      <4>3. SumFunctionOnSet(f, At(T) \cup {o[x]}) <= SumFunctionOnSet(h, T \cup {x})
        BY <2>3, <2>4, <2>5, <4>1, <4>2
      <4> QED
        BY <2>1, <4>3
    <3> QED
      BY <3>1, <3>2
  <2> QED
    BY <2>2, <2>6
<1>3. J \in G
  <2> HIDE DEF G
  <2> QED
    BY <1>1, <1>2, FiniteInduction
<1> QED
  BY <1>3

-----------------------------------------------------------------------------
(* Folds.                                                                  *)

(* A set that has 0 and, with every number below n, the next, has them all.*)
LEMMA CountedUp ==
  ASSUME NEW n \in Nat, NEW G, 0 \in G, \A m \in 0 .. n - 1 : m \in G => m + 1 \in G
  PROVE  \A m \in 0 .. n : m \in G
<1> DEFINE Bad == {m \in 0 .. n : m \notin G}
<1> SUFFICES ASSUME Bad # {} PROVE FALSE
  OBVIOUS
<1>1. IsFiniteSet(Bad) /\ Bad \in SUBSET Int
  <2>1. IsFiniteSet(0 .. n) /\ Bad \subseteq 0 .. n
    BY FS_Interval
  <2> QED
    BY <2>1, FS_Subset
<1>2. Min(Bad) \in Bad /\ \A x \in Bad : Min(Bad) <= x
  <2> HIDE DEF Bad
  <2> QED
    BY <1>1, MinOfFinite
<1>3. Min(Bad) \in 0 .. n /\ Min(Bad) \notin G /\ Min(Bad) - 1 \notin Bad
  BY <1>2
<1> DEFINE m == Min(Bad)
<1>4. m \in 0 .. n /\ m # 0 /\ (m - 1 \in 0 .. n => m - 1 \in G) /\ m \notin G
  BY <1>3
<1> HIDE DEF m
<1>5. m - 1 \in 0 .. n - 1 /\ m - 1 + 1 = m
  BY <1>4
<1> QED
  BY <1>4, <1>5

(* The greatest of some of the first n numbers.                            *)
LEMMA GreatestUpTo ==
  ASSUME NEW n \in Nat
  PROVE  /\ \A T \in SUBSET (1 .. n) : T # {} => Max(T) \in T /\ \A i \in T : i <= Max(T)
         /\ n # 0 => Max(1 .. n) = n
<1>1. \A T \in SUBSET (1 .. n) : IsFiniteSet(T) /\ T \in SUBSET Int
  <2>1. IsFiniteSet(1 .. n) /\ 1 .. n \subseteq Int
    BY FS_Interval
  <2> QED
    BY <2>1, FS_Subset
<1>2. \A T \in SUBSET (1 .. n) : T # {} => Max(T) \in T /\ \A i \in T : i <= Max(T)
  BY <1>1, MaxOfFinite
<1>3. ASSUME n # 0 PROVE Max(1 .. n) = n
  <2>1. 1 .. n \in SUBSET (1 .. n) /\ n \in 1 .. n
    BY <1>3
  <2>2. Max(1 .. n) \in 1 .. n /\ n <= Max(1 .. n)
    BY <1>2, <2>1
  <2> QED
    BY <2>2
<1> QED
  BY <1>2, <1>3

FoldSteps(V, n) == [V \X (1 .. n) -> V]

(* What a fold over the first n numbers makes of every part of them.       *)
FoldOf(f, n, base, step) ==
  f = [T \in SUBSET (1 .. n) |-> IF T = {} THEN base ELSE step[<<f[T \ {Max(T)}], Max(T)>>]]

(* There is a fold over the first n numbers, for any step.                 *)
LEMMA FoldExists ==
  ASSUME NEW n \in Nat, NEW V, NEW base \in V, NEW step \in FoldSteps(V, n)
  PROVE  \E f \in [SUBSET (1 .. n) -> V] : FoldOf(f, n, base, step)
<1> DEFINE G == {m \in 0 .. n : \E f \in [SUBSET (1 .. m) -> V] : FoldOf(f, m, base, step)}
<1>1. 0 \in G
  <2> DEFINE f == [T \in SUBSET (1 .. 0) |-> base]
  <2>1. f \in [SUBSET (1 .. 0) -> V] /\ 0 \in 0 .. n
    OBVIOUS
  <2>2. \A T \in SUBSET (1 .. 0) : T = {}
    OBVIOUS
  <2>3. FoldOf(f, 0, base, step)
    BY <2>2 DEF FoldOf
  <2> HIDE DEF f
  <2> QED
    BY <2>1, <2>3
<1>2. ASSUME NEW m \in 0 .. n - 1, m \in G
      PROVE  m + 1 \in G
  <2>1. PICK f \in [SUBSET (1 .. m) -> V] : FoldOf(f, m, base, step)
    BY <1>2
  <2> DEFINE k == m + 1
             g == [T \in SUBSET (1 .. k) |-> IF k \in T THEN step[<<f[T \ {k}], k>>] ELSE f[T]]
  <2>2. /\ k \in 1 .. n /\ k \in 0 .. n /\ m \in Nat /\ k \notin 1 .. m /\ m <= n
        /\ \A T \in SUBSET (1 .. k) : T \ {k} \in SUBSET (1 .. m) /\ (k \notin T => T \in SUBSET (1 .. m))
        /\ \A T \in SUBSET (1 .. m) : T \in SUBSET (1 .. k) /\ k \notin T
    OBVIOUS
  <2> HIDE DEF k
  <2>3. g \in [SUBSET (1 .. k) -> V]
    <3> SUFFICES ASSUME NEW T \in SUBSET (1 .. k) PROVE g[T] \in V
      OBVIOUS
    <3>1. CASE k \in T
      <4>1. f[T \ {k}] \in V
        BY <2>2
      <4> QED
        BY <2>2, <3>1, <4>1 DEF FoldSteps
    <3>2. CASE k \notin T
      BY <2>2, <3>2
    <3> QED
      BY <3>1, <3>2
  <2>4. ASSUME NEW T \in SUBSET (1 .. k)
        PROVE  g[T] = IF T = {} THEN base ELSE step[<<g[T \ {Max(T)}], Max(T)>>]
    <3>1. CASE k \in T
      <4>1. Max(T) = k
        <5>1. k \in Nat /\ T # {}
          BY <2>2, <3>1
        <5>2. Max(T) \in T /\ k <= Max(T)
          BY <3>1, <5>1, GreatestUpTo
        <5>3. Max(T) \in 1 .. k
          BY <5>2
        <5> QED
          BY <5>1, <5>2, <5>3
      <4>2. g[T \ {k}] = f[T \ {k}]
        BY <2>2
      <4> HIDE DEF g
      <4>3. g[T] = step[<<f[T \ {k}], k>>]
        BY <3>1 DEF g
      <4> QED
        BY <3>1, <4>1, <4>2, <4>3
    <3>2. CASE k \notin T
      <4>1. T \in SUBSET (1 .. m) /\ T \ {Max(T)} \in SUBSET (1 .. m)
        BY <2>2, <3>2
      <4>2. g[T] = f[T] /\ g[T \ {Max(T)}] = f[T \ {Max(T)}]
        BY <2>2, <3>2, <4>1
      <4>3. f[T] = IF T = {} THEN base ELSE step[<<f[T \ {Max(T)}], Max(T)>>]
        BY <2>1, <4>1 DEF FoldOf
      <4> HIDE DEF g
      <4> QED
        BY <4>2, <4>3
    <3> QED
      BY <3>1, <3>2
  <2>5. FoldOf(g, k, base, step)
    <3>1. g = [T \in SUBSET (1 .. k) |-> g[T]]
      OBVIOUS
    <3> HIDE DEF g
    <3> QED
      BY <2>4, <3>1 DEF FoldOf
  <2> HIDE DEF g
  <2>6. k \in G
    BY <2>2, <2>3, <2>5
  <2> QED
    BY <2>6 DEF k
<1> HIDE DEF G
<1>3. n \in G
  BY <1>1, <1>2, CountedUp
<1> QED
  BY <1>3 DEF G

(* It takes the numbers in their order.                                    *)
FoldsAs(c, n, V, base, step) ==
  /\ c[{}] = base
  /\ \A T \in SUBSET (1 .. n) : T # {} /\ c[T \ {Max(T)}] \in V => c[T] = step[<<c[T \ {Max(T)}], Max(T)>>]

GoesUp(g, n, V, base, step) ==
  g \in [0 .. n -> V] /\ g[0] = base /\ \A i \in 1 .. n : g[i - 1] \in V /\ g[i] = step[<<g[i - 1], i>>]

(* What a fold makes of the first n numbers, it makes of them in turn.     *)
LEMMA FoldGoesUp ==
  ASSUME NEW n \in Nat, NEW V, NEW base \in V, NEW step \in FoldSteps(V, n), NEW c, FoldsAs(c, n, V, base, step)
  PROVE  \E g : GoesUp(g, n, V, base, step) /\ g[n] = c[1 .. n]
<1> DEFINE g == [i \in 0 .. n |-> c[1 .. i]]
           G == {m \in 0 .. n : g[m] \in V}
<1>1. g[0] = base
  <2>1. 1 .. 0 = {} /\ 0 \in 0 .. n
    OBVIOUS
  <2> QED
    BY <2>1 DEF FoldsAs
<1>2. ASSUME NEW i \in 1 .. n, g[i - 1] \in V
      PROVE  g[i] = step[<<g[i - 1], i>>]
  <2>0. i \in Nat /\ i # 0 /\ i \in 0 .. n /\ i - 1 \in 0 .. n /\ i \in 1 .. i /\ 1 .. i \subseteq 1 .. n
    OBVIOUS
  <2>a. (1 .. i) \ {i} = 1 .. (i - 1)
    OBVIOUS
  <2>1. 1 .. i \in SUBSET (1 .. n) /\ 1 .. i # {} /\ (1 .. i) \ {i} = 1 .. (i - 1) /\ i \in Nat /\ i # 0
        /\ i \in 0 .. n /\ i - 1 \in 0 .. n
    BY <2>0, <2>a
  <2>2. Max(1 .. i) = i
    BY <2>1, GreatestUpTo
  <2>3. g[i] = c[1 .. i] /\ g[i - 1] = c[1 .. (i - 1)]
    BY <2>1
  <2> HIDE DEF g
  <2>4. c[(1 .. i) \ {Max(1 .. i)}] = g[i - 1]
    BY <2>1, <2>2, <2>3
  <2> QED
    BY <1>2, <2>1, <2>2, <2>3, <2>4 DEF FoldsAs
<1>3. ASSUME NEW m \in 0 .. n - 1, m \in G
      PROVE  m + 1 \in G
  <2>1. m + 1 \in 1 .. n /\ m + 1 \in 0 .. n /\ (m + 1) - 1 = m /\ g[m] \in V
    BY <1>3
  <2>2. g[m + 1] = step[<<g[m], m + 1>>]
    BY <1>2, <2>1
  <2> HIDE DEF g
  <2>3. g[m + 1] \in V
    BY <2>1, <2>2 DEF FoldSteps
  <2> QED
    BY <2>1, <2>3
<1>4. 0 \in G
  BY <1>1
<1> HIDE DEF G
<1>5. \A m \in 0 .. n : m \in G
  BY <1>3, <1>4, CountedUp
<1>6. \A m \in 0 .. n : g[m] \in V
  BY <1>5 DEF G
<1>7. g[n] = c[1 .. n] /\ g = [i \in 0 .. n |-> g[i]]
  OBVIOUS
<1> HIDE DEF g
<1>8. \A i \in 1 .. n : i - 1 \in 0 .. n
  OBVIOUS
<1> QED
  BY <1>1, <1>2, <1>6, <1>7, <1>8 DEF GoesUp

(* The least of two numbers.                                               *)
LEMMA MinOfTwo ==
  ASSUME NEW i \in Int, NEW j \in Int
  PROVE  Min({i, j}) = IF i <= j THEN i ELSE j
<1>1. IsFiniteSet({i, j}) /\ {i, j} \in SUBSET Int /\ {i, j} # {}
  <2>1. IsFiniteSet({i}) /\ {i, j} = {i} \cup {j}
    BY FS_Singleton
  <2>2. IsFiniteSet({i} \cup {j})
    BY <2>1, FS_AddElement
  <2> QED
    BY <2>1, <2>2
<1>2. Min({i, j}) \in {i, j} /\ \A x \in {i, j} : Min({i, j}) <= x
  BY <1>1, MinOfFinite
<1> QED
  BY <1>2

(* A sum of naturals is positive if one of them is.                        *)
LEMMA SumPositive ==
  ASSUME NEW D, IsFiniteSet(D), NEW f, \A x \in D : f[x] \in Nat
  PROVE  /\ SumFunctionOnSet(f, D) \in Nat
         /\ SumFunctionOnSet(f, D) > 0 <=> \E x \in D : f[x] > 0
<1>1. /\ SumFunctionOnSet(f, D) \in Nat /\ SumFunctionOnSet(f, {}) = 0
      /\ \A x \in D : SumFunctionOnSet(f, D) = f[x] + SumFunctionOnSet(f, D \ {x})
  BY SumRemove
<1>2. ASSUME NEW x \in D, f[x] > 0 PROVE SumFunctionOnSet(f, D) > 0
  <2>1. IsFiniteSet(D \ {x}) /\ \A y \in D \ {x} : f[y] \in Nat
    BY FS_RemoveElement
  <2>2. SumFunctionOnSet(f, D \ {x}) \in Nat
    BY <2>1, SumRemove
  <2>3. SumFunctionOnSet(f, D) = f[x] + SumFunctionOnSet(f, D \ {x}) /\ f[x] \in Nat
    BY <1>1
  <2> QED
    BY <1>2, <2>2, <2>3
<1>3. ASSUME \A x \in D : f[x] = 0 PROVE SumFunctionOnSet(f, D) = 0
  <2>1. IsFiniteSet({}) /\ (\A x \in D \cup {} : f[x] \in Nat) /\ \A x \in (D \ {}) \cup ({} \ D) : f[x] = 0
    BY <1>3, FS_EmptySet
  <2>2. SumFunctionOnSet(f, D) = SumFunctionOnSet(f, {})
    BY <2>1, SumEqual
  <2> QED
    BY <1>1, <2>2
<1>4. (\A x \in D : f[x] = 0) \/ \E x \in D : f[x] > 0
  OBVIOUS
<1> QED
  BY <1>1, <1>2, <1>3, <1>4

(* A number is a quotient and a remainder,                                 *)
LEMMA DividedBy ==
  ASSUME NEW w \in Nat \ {0}, NEW d \in Nat
  PROVE  /\ d \div w \in Nat /\ d % w \in 0 .. w - 1
         /\ d = ((d \div w) * w) + (d % w)
<1>1. w \in Nat /\ w > 0
  OBVIOUS
<1> QED
  BY <1>1

(* and these are the only ones;                                            *)
LEMMA DividedByOnce ==
  ASSUME NEW w \in Nat \ {0}, NEW q \in Nat, NEW b \in 0 .. w - 1
  PROVE  /\ q * w + b \in Nat
         /\ (q * w + b) \div w = q /\ (q * w + b) % w = b
<1>1. w \in Nat /\ w > 0 /\ b \in Nat /\ b < w
  OBVIOUS
<1> DEFINE d == q * w + b
           p == d \div w
           c == d % w
<1>2. q * w \in Nat /\ d \in Nat
  BY <1>1
<1>3. p \in Nat /\ c \in 0 .. w - 1 /\ d = p * w + c
  BY <1>2, DividedBy
<1>4. c \in Nat /\ c < w
  BY <1>1, <1>3
<1>5. q * w + b = p * w + c
  BY <1>3
<1> HIDE DEF p, c
<1>6. p = q
  <2>1. ASSUME p < q PROVE FALSE
    <3>1. q * w >= (p + 1) * w
      BY <1>1, <1>3, <2>1
    <3>2. (p + 1) * w = p * w + w
      BY <1>1, <1>3
    <3>3. p * w \in Nat
      BY <1>1, <1>3
    <3> QED
      BY <1>1, <1>2, <1>4, <1>5, <3>1, <3>2, <3>3
  <2>2. ASSUME q < p PROVE FALSE
    <3>1. p * w >= (q + 1) * w
      BY <1>1, <1>3, <2>2
    <3>2. (q + 1) * w = q * w + w
      BY <1>1
    <3>3. p * w \in Nat
      BY <1>1, <1>3
    <3> QED
      BY <1>1, <1>2, <1>4, <1>5, <3>1, <3>2, <3>3
  <2> QED
    BY <1>3, <2>1, <2>2
<1>7. c = b
  BY <1>1, <1>2, <1>4, <1>5, <1>6
<1> QED
  BY <1>2, <1>6, <1>7 DEF p, c

(* the quotient is below q if the number is below q times the divisor.     *)
LEMMA DividedByBelow ==
  ASSUME NEW w \in Nat \ {0}, NEW d \in Nat, NEW q \in Nat
  PROVE  /\ d \div w < q <=> d < q * w
         /\ q * w \in Nat
<1>1. w \in Nat /\ w > 0
  OBVIOUS
<1>2. d \div w \in Nat /\ d % w \in Nat /\ d % w < w /\ d = ((d \div w) * w) + (d % w)
  BY <1>1, DividedBy
<1> DEFINE p == d \div w
           c == d % w
<1>3. p \in Nat /\ c \in Nat /\ c < w /\ d = p * w + c /\ p * w \in Nat /\ q * w \in Nat
  BY <1>1, <1>2
<1> HIDE DEF p, c
<1>4. p < q => q * w >= (p + 1) * w
  BY <1>1, <1>3
<1>5. q <= p => p * w >= q * w
  BY <1>1, <1>3
<1>6. (p + 1) * w = p * w + w
  BY <1>1, <1>3
<1>7. p < q <=> d < q * w
  BY <1>1, <1>3, <1>4, <1>5, <1>6
<1> QED
  BY <1>3, <1>7 DEF p

===============================================================================
