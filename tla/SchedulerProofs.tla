-------------------------- MODULE SchedulerProofs ---------------------------
(***************************************************************************)
(* Type correctness of Scheduler, and its ready queue, for any workflow:   *)
(* any finite set of nodes, any edges and joins, any dispatches and        *)
(* iterators, any settle policies and any bounds.                          *)
(*                                                                         *)
(* The state of a run is one record, and a step changes many of its        *)
(* fields.  Every operator of Scheduler that makes a new record out of an  *)
(* old one is first reduced to an effect, an operator that says which      *)
(* activations the new record adds, what it does to those there are, and   *)
(* which of the queue, the sets, the joins and the counters it leaves      *)
(* alone (Adds, Grown, Routes, Done, OnlyCloses, OutcomeSet, Updated).     *)
(* Moves is the disjunction of the effects of the actions; the invariants, *)
(* here and in SchedulerSafetyProofs, are proved from the effects alone.   *)
(***************************************************************************)
EXTENDS Scheduler, FiniteSetTheorems, SequenceTheorems, TLAPS

-----------------------------------------------------------------------------
(* Numbers, sequences, orders *)

(* A set of numbers that is not empty has a least member: what is shown by   *)
(* induction is shown by the least counterexample.                          *)
LEMMA LeastNumber ==
  ASSUME NEW T \in SUBSET Nat, T # {}
  PROVE  \E m \in T : \A k \in T : m <= k
<1> PICK n \in T : TRUE
  OBVIOUS
<1> DEFINE S == 0..n
           C == {0..(k - 1) : k \in {k \in T : k <= n}}
<1>1. IsFiniteSet(S)
  BY FS_Interval
<1>2. C \subseteq FiniteSubsetsOf(S)
  <2>1. FiniteSubsetsOf(S) = SUBSET S
    BY <1>1, FS_FiniteSubsetsOfFinite
  <2> QED BY <2>1
<1>3. C # {}
  OBVIOUS
<1> HIDE DEF S
<1>4. \E c \in C : \A d \in C : <<d, c>> \notin StrictSubsetOrdering(S)
  <2> HIDE DEF C
  <2> QED BY <1>2, <1>3, FS_StrictSubsetOrderingWellFounded, WFMin
<1>5. PICK c \in C : \A d \in C : <<d, c>> \notin StrictSubsetOrdering(S)
  BY <1>4
<1>6. PICK m \in T : m <= n /\ c = 0..(m - 1)
  OBVIOUS
<1>7. ASSUME NEW k \in T, k < m
      PROVE  FALSE
  <2>1. 0..(k - 1) \in C
    BY <1>6, <1>7
  <2>2. 0..(k - 1) \subseteq c /\ 0..(k - 1) # c
    BY <1>6, <1>7
  <2>3. <<0..(k - 1), c>> \in StrictSubsetOrdering(S)
    BY <1>6, <1>7, <2>2 DEF StrictSubsetOrdering, S
  <2> QED BY <1>5, <2>1, <2>3
<1> QED BY <1>6, <1>7

(* Min picks the least of a set of numbers.                                 *)
LEMMA MinProperties ==
  ASSUME NEW T \in SUBSET Nat, T # {}
  PROVE  Min(T) \in T /\ \A k \in T : Min(T) <= k
BY LeastNumber DEF Min

(* A function into a set, one-to-one on the numbers up to its size, misses  *)
(* nothing.                                                                 *)
LEMMA EnumerationIsOnto ==
  ASSUME NEW S, IsFiniteSet(S), NEW q \in SetToSeqs(S)
  PROVE  /\ q \in Seq(S) /\ Len(q) = Cardinality(S) /\ DOMAIN q = 1..Cardinality(S)
         /\ \A i, j \in DOMAIN q : q[i] = q[j] => i = j
         /\ \A x \in S : \E i \in DOMAIN q : q[i] = x
<1> DEFINE n == Cardinality(S)
<1>1. n \in Nat
  BY FS_CardinalityType
<1>2. q \in [1..n -> S] /\ \A i, j \in 1..n : i # j => q[i] # q[j]
  BY DEF SetToSeqs
<1>3. q \in Injection(1..n, S)
  BY <1>2 DEF Injection, IsInjective
<1>4. Cardinality(1..n) = n
  BY <1>1, FS_Interval
<1>5. q \in Surjection(1..n, S)
  BY <1>3, <1>4, FS_Injection
<1>6. q \in Seq(S) /\ Len(q) = n
  BY <1>1, <1>2
<1> QED BY <1>2, <1>5, <1>6 DEF Surjection

LEMMA SortedExists ==
  ASSUME NEW S, IsFiniteSet(S), NEW key, \A x \in S : key[x] \in Nat
  PROVE  \E q \in SetToSeqs(S) : \A i, j \in DOMAIN q : i < j => key[q[i]] <= key[q[j]]
<1> DEFINE Sorted(R) == \E q \in SetToSeqs(R) : \A i, j \in DOMAIN q : i < j => key[q[i]] <= key[q[j]]
           T == {n \in Nat : \E R \in SUBSET S : Cardinality(R) = n /\ ~Sorted(R)}
<1>1. \A R \in SUBSET S : IsFiniteSet(R) /\ Cardinality(R) \in Nat
  BY FS_Subset, FS_CardinalityType
<1>2. SUFFICES ASSUME T # {}
               PROVE  FALSE
  <2>1. Cardinality(S) \notin T
    BY <1>2
  <2> QED BY <1>1, <2>1
<1>3. PICK n \in T : \A k \in T : n <= k
  BY <1>2, LeastNumber
<1>4. PICK R \in SUBSET S : Cardinality(R) = n /\ ~Sorted(R)
  BY <1>3
<1> HIDE DEF T
<1>5. R # {}
  <2> SUFFICES ASSUME R = {}
               PROVE  Sorted(R)
    BY <1>4
  <2>1. Cardinality(R) = 0
    BY FS_EmptySet
  <2>2. <<>> \in SetToSeqs(R)
    BY <2>1 DEF SetToSeqs
  <2> QED BY <2>2
<1>6. PICK m \in R : \A x \in R : key[m] <= key[x]
  <2>1. PICK k \in {key[x] : x \in R} : \A l \in {key[x] : x \in R} : k <= l
    BY ZenonT(60), <1>5, LeastNumber
  <2> QED BY <2>1
<1>7. Cardinality(R \ {m}) = n - 1 /\ n - 1 \in Nat /\ n \in Nat
  <2>1. IsFiniteSet(R) /\ Cardinality(R \ {m}) \in Nat /\ Cardinality(R) = n
    BY <1>1, <1>4
  <2>2. Cardinality(R \ {m}) = n - 1
    BY <1>6, <2>1, FS_RemoveElement
  <2>3. n \in Nat
    BY DEF T
  <2> QED BY <2>1, <2>2, <2>3
<1>8. Sorted(R \ {m})
  <2>1. n - 1 \notin T
    BY <1>3, <1>7
  <2> QED BY <1>7, <2>1 DEF T
<1>9. PICK q \in SetToSeqs(R \ {m}) : \A i, j \in DOMAIN q : i < j => key[q[i]] <= key[q[j]]
  BY <1>8
<1>10. q \in [1..(n - 1) -> R \ {m}] /\ \A i, j \in 1..(n - 1) : i # j => q[i] # q[j]
  BY <1>7, <1>9 DEF SetToSeqs
<1> DEFINE p == [i \in 1..n |-> IF i = 1 THEN m ELSE q[i - 1]]
<1>11. \A i \in 1..n : i # 1 => i - 1 \in 1..(n - 1)
  BY <1>7
<1>12. p \in SetToSeqs(R)
  <2>1. p \in [1..n -> R]
    BY <1>6, <1>10, <1>11
  <2>2. ASSUME NEW i \in 1..n, NEW j \in 1..n, i # j
        PROVE  p[i] # p[j]
    <3>1. CASE i = 1
      BY <1>10, <1>11, <2>2, <3>1
    <3>2. CASE j = 1
      BY <1>10, <1>11, <2>2, <3>2
    <3>3. CASE i # 1 /\ j # 1
      BY <1>10, <1>11, <2>2, <3>3
    <3> QED BY <3>1, <3>2, <3>3
  <2> QED BY <1>4, <2>1, <2>2 DEF SetToSeqs
<1>13. ASSUME NEW i \in 1..n, NEW j \in 1..n, i < j
       PROVE  key[p[i]] <= key[p[j]]
  <2>1. j # 1 /\ j - 1 \in 1..(n - 1) /\ p[j] = q[j - 1] /\ q[j - 1] \in R
    BY <1>7, <1>10, <1>11, <1>13
  <2>2. CASE i = 1
    BY <1>6, <2>1, <2>2
  <2>3. CASE i # 1
    <3>1. i - 1 \in DOMAIN q /\ j - 1 \in DOMAIN q /\ i - 1 < j - 1 /\ p[i] = q[i - 1]
      BY <1>10, <1>11, <1>13, <2>1, <2>3
    <3> QED BY <1>9, <2>1, <3>1
  <2> QED BY <2>2, <2>3
<1>14. DOMAIN p = 1..n
  OBVIOUS
<1> QED BY <1>4, <1>12, <1>13, <1>14

LEMMA SortedByProperties ==
  ASSUME NEW S, IsFiniteSet(S), NEW key, \A x \in S : key[x] \in Nat
  PROVE  /\ SortedBy(S, key) \in Seq(S)
         /\ Len(SortedBy(S, key)) = Cardinality(S)
         /\ \A i, j \in DOMAIN SortedBy(S, key) : SortedBy(S, key)[i] = SortedBy(S, key)[j] => i = j
         /\ \A i, j \in DOMAIN SortedBy(S, key) :
              i < j => key[SortedBy(S, key)[i]] <= key[SortedBy(S, key)[j]]
         /\ \A x \in S : \E i \in DOMAIN SortedBy(S, key) : SortedBy(S, key)[i] = x
<1> DEFINE q == SortedBy(S, key)
<1>1. q \in SetToSeqs(S) /\ \A i, j \in DOMAIN q : i < j => key[q[i]] <= key[q[j]]
  BY SortedExists DEF SortedBy
<1> HIDE DEF q
<1>2. /\ q \in Seq(S) /\ Len(q) = Cardinality(S) /\ DOMAIN q = 1..Cardinality(S)
      /\ \A i, j \in DOMAIN q : q[i] = q[j] => i = j
      /\ \A x \in S : \E i \in DOMAIN q : q[i] = x
  BY <1>1, EnumerationIsOnto
<1> QED BY <1>1, <1>2 DEF q

LEMMA AscendingProperties ==
  ASSUME NEW S \in SUBSET Nat, IsFiniteSet(S)
  PROVE  /\ Ascending(S) \in Seq(S) /\ Len(Ascending(S)) = Cardinality(S)
         /\ \A i, j \in DOMAIN Ascending(S) : i < j => Ascending(S)[i] < Ascending(S)[j]
         /\ \A x \in S : \E i \in DOMAIN Ascending(S) : Ascending(S)[i] = x
<1> DEFINE key == [x \in S |-> x]
           q == SortedBy(S, key)
<1>1. \A x \in S : key[x] \in Nat
  OBVIOUS
<1>2. Ascending(S) = q
  BY DEF Ascending
<1> HIDE DEF q
<1>3. /\ q \in Seq(S) /\ Len(q) = Cardinality(S)
      /\ \A i, j \in DOMAIN q : q[i] = q[j] => i = j
      /\ \A i, j \in DOMAIN q : i < j => key[q[i]] <= key[q[j]]
      /\ \A x \in S : \E i \in DOMAIN q : q[i] = x
  BY <1>1, SortedByProperties DEF q
<1>4. \A i \in DOMAIN q : q[i] \in S /\ key[q[i]] = q[i] /\ i \in Nat
  BY <1>3
<1>5. ASSUME NEW i \in DOMAIN q, NEW j \in DOMAIN q, i < j
      PROVE  q[i] < q[j]
  <2>1. q[i] \in Nat /\ q[j] \in Nat
    BY <1>4
  <2>2. q[i] <= q[j]
    <3> HIDE DEF key
    <3>1. key[q[i]] <= key[q[j]]
      BY <1>3, <1>5
    <3> QED BY <1>4, <3>1
  <2>3. q[i] # q[j]
    <3>1. i \in Nat /\ j \in Nat
      BY <1>4
    <3> QED BY <1>3, <1>5, <3>1
  <2> QED BY <2>1, <2>2, <2>3
<1> QED BY <1>2, <1>3, <1>5

(* At(q, P) lists the elements of q at the positions P, each position once  *)
(* and in the order of q.                                                   *)
LEMMA AtProperties ==
  ASSUME NEW S, NEW q \in Seq(S), NEW P \in SUBSET DOMAIN q
  PROVE  /\ At(q, P) \in Seq(S) /\ IsFiniteSet(P) /\ Len(At(q, P)) = Cardinality(P)
         /\ \E p \in Seq(P) :
              /\ Len(p) = Cardinality(P)
              /\ At(q, P) = [k \in DOMAIN p |-> q[p[k]]]
              /\ \A i, j \in DOMAIN p : i < j => p[i] < p[j]
              /\ \A x \in P : \E i \in DOMAIN p : p[i] = x
<1>1. IsFiniteSet(P) /\ Cardinality(P) \in Nat
  <2>1. IsFiniteSet(DOMAIN q)
    BY FS_Interval, LenProperties
  <2> QED BY <2>1, FS_Subset, FS_CardinalityType
<1> DEFINE p == Ascending(P)
<1>2. /\ p \in Seq(P) /\ Len(p) = Cardinality(P)
      /\ \A i, j \in DOMAIN p : i < j => p[i] < p[j]
      /\ \A x \in P : \E i \in DOMAIN p : p[i] = x
  <2>1. P \in SUBSET Nat
    BY LenProperties
  <2> QED BY <1>1, <2>1, AscendingProperties
<1>3. At(q, P) = [k \in DOMAIN p |-> q[p[k]]]
  BY DEF At
<1> HIDE DEF p
<1>4. DOMAIN p = 1..Len(p) /\ Len(p) \in Nat /\ \A k \in DOMAIN p : q[p[k]] \in S
  <2>1. DOMAIN p = 1..Len(p) /\ Len(p) \in Nat /\ \A k \in DOMAIN p : p[k] \in P
    BY <1>2, LenProperties, ElementOfSeq
  <2>2. \A i \in DOMAIN q : q[i] \in S
    BY LenProperties, ElementOfSeq
  <2> QED BY <2>1, <2>2
<1>5. [k \in DOMAIN p |-> q[p[k]]] \in Seq(S) /\ Len([k \in DOMAIN p |-> q[p[k]]]) = Len(p)
  BY <1>4
<1> QED BY <1>1, <1>2, <1>3, <1>5

(* Max picks the greatest of a bounded set of numbers.                      *)
LEMMA MaxProperties ==
  ASSUME NEW n \in Nat, NEW R \in SUBSET (1..n), R # {}
  PROVE  Max(R) \in R /\ \A k \in R : k <= Max(R)
<1> DEFINE D == {n - r : r \in R}
<1>0. D \in SUBSET Nat /\ D # {}
  <2>1. \A r \in R : n - r \in Nat
    OBVIOUS
  <2>2. D # {}
    OBVIOUS
  <2> QED BY <2>1, <2>2
<1>1. PICK d \in D : \A e \in D : d <= e
  <2> HIDE DEF D
  <2> QED BY <1>0, LeastNumber
<1>2. PICK m \in R : d = n - m
  BY <1>1
<1>3. m \in R /\ \A k \in R : m >= k
  <2> SUFFICES ASSUME NEW k \in R
               PROVE  m >= k
    BY <1>2
  <2>1. n - k \in D
    OBVIOUS
  <2>2. n - m <= n - k
    BY <1>1, <1>2, <2>1
  <2> QED BY <2>2
<1> QED BY <1>3 DEF Max

(* g folds the steps of the numbers in each set R of 1..n, the least first.   *)
IsFold(g, V, n, base, step) ==
  /\ g \in [SUBSET (1..n) -> V]
  /\ \A R \in SUBSET (1..n) :
       g[R] = IF R = {} THEN base ELSE step[Max(R)][g[R \ {Max(R)}]]

(* A fold has a value: the recursion that FoldLeft is defined by has a      *)
(* solution in V when its steps stay in V.                                  *)
LEMMA FoldExists ==
  ASSUME NEW V, NEW base \in V, NEW n \in Nat, NEW step \in [1..n -> [V -> V]]
  PROVE  \E g : IsFold(g, V, n, base, step)
<1> DEFINE Solves(g, k) == IsFold(g, V, k, base, step)
           T == {k \in 0..n : \A g : ~Solves(g, k)}
<1>1. SUFFICES ASSUME T # {}
               PROVE  FALSE
  <2>0. n \in 0..n
    OBVIOUS
  <2>1. n \notin T
    <3> HIDE DEF T
    <3> QED BY <1>1
  <2>2. \E g : Solves(g, n)
    BY <2>0, <2>1
  <2> QED BY <2>2
<1>2. PICK k \in T : \A l \in T : k <= l
  <2>1. T \in SUBSET Nat
    OBVIOUS
  <2> HIDE DEF T
  <2> QED BY <1>1, <2>1, LeastNumber
<1>3. k \in 0..n /\ k \in Nat /\ (\A g : ~Solves(g, k))
  BY <1>2
<1>4. k # 0
  <2> SUFFICES ASSUME k = 0
               PROVE  FALSE
    OBVIOUS
  <2> DEFINE f == [R \in SUBSET (1..k) |-> base]
  <2>1. \A R \in SUBSET (1..k) : R = {}
    OBVIOUS
  <2>2. Solves(f, k)
    BY <2>1 DEF IsFold
  <2> QED BY <1>3, <2>2
<1>5. PICK h : Solves(h, k - 1)
  <2>1. k - 1 \in 0..n /\ ~(k <= k - 1)
    BY <1>3, <1>4
  <2>2. k - 1 \notin T
    BY <1>2, <2>1
  <2> QED BY <2>1, <2>2
<1>5a. /\ h \in [SUBSET (1..(k - 1)) -> V]
      /\ \A R \in SUBSET (1..(k - 1)) :
            h[R] = IF R = {} THEN base ELSE step[Max(R)][h[R \ {Max(R)}]]
  BY <1>5 DEF IsFold
<1> HIDE DEF T
<1> DEFINE g == [R \in SUBSET (1..k) |->
                   IF k \in R THEN step[k][h[R \ {k}]] ELSE h[R]]
<1>6. \A R \in SUBSET (1..k) : k \notin R => R \in SUBSET (1..(k - 1))
  BY <1>3, <1>4
<1>7. \A R \in SUBSET (1..k) : R \ {k} \in SUBSET (1..(k - 1))
  BY <1>6
<1>8. k \in 1..n /\ step[k] \in [V -> V]
  BY <1>3, <1>4
<1>9. g \in [SUBSET (1..k) -> V]
  <2> SUFFICES ASSUME NEW R \in SUBSET (1..k)
               PROVE  g[R] \in V
    OBVIOUS
  <2>1. CASE k \in R
    <3>1. h[R \ {k}] \in V
      BY <1>5a, <1>7
    <3> QED BY <1>8, <2>1, <3>1
  <2>2. CASE k \notin R
    BY <1>5a, <1>6, <2>2
  <2> QED BY <2>1, <2>2
<1>10. ASSUME NEW R \in SUBSET (1..k)
       PROVE  g[R] = IF R = {} THEN base ELSE step[Max(R)][g[R \ {Max(R)}]]
  <2>0. R \in SUBSET (1..k) /\ k \in Nat
    BY <1>3
  <2>1. CASE k \in R
    <3>1. Max(R) = k
      <4>1. Max(R) \in R /\ k <= Max(R)
        BY <2>0, <2>1, MaxProperties
      <4>2. Max(R) \in 1..k
        BY <2>0, <4>1
      <4> QED BY <2>0, <4>1, <4>2
    <3>2. g[R \ {k}] = h[R \ {k}]
      BY <1>7
    <3>3. g[R] = step[k][h[R \ {k}]]
      BY <2>1
    <3> HIDE DEF g
    <3> QED BY <2>1, <3>1, <3>2, <3>3
  <2>2. CASE k \notin R
    <3>1. g[R] = h[R] /\ R \in SUBSET (1..(k - 1))
      BY <1>6, <2>2
    <3>2. CASE R = {}
      BY <1>5a, <3>1, <3>2
    <3>3. CASE R # {}
      <4>1. Max(R) \in R
        BY <2>0, <3>3, MaxProperties
      <4>2. g[R \ {Max(R)}] = h[R \ {Max(R)}]
        BY <2>2
      <4>3. h[R] = step[Max(R)][h[R \ {Max(R)}]]
        BY <1>5a, <3>1, <3>3
      <4> HIDE DEF g
      <4> QED BY <3>1, <3>3, <4>2, <4>3
    <3> QED BY <3>2, <3>3
  <2> QED BY <2>1, <2>2
<1>11. Solves(g, k)
  <2> HIDE DEF g
  <2> QED BY <1>9, <1>10 DEF IsFold
<1> HIDE DEF g
<1> QED BY <1>3, <1>11

-----------------------------------------------------------------------------
(* The types of what a run state consists of *)

Settles == [mode : {"all", "any", "quorum"}, quorum : Nat]

Dispatchable == {NoDispatch} \cup UNION {Dispatches[n] : n \in Nodes}

Activations ==
  [node : Nodes, epoch : Nat, set : Nat, phase : Over \cup {"ready", "running", "interrupted"},
   input : Seq(Nat), source : Nat, item : Nat]

Causes == {"none", "failed", "canceled", "text"}

Outcomes ==
  [phase : Over \cup {"none", "superseded"}, cause : Causes, completion : Nat,
   committed : BOOLEAN, dispatch : Dispatchable]

OutcomeMaps == UNION {[D -> Outcomes] : D \in SUBSET Nat}

SourceSets ==
  [policy : Settles, branches : Seq(Nat), out : OutcomeMaps, open : Int, cause : Causes,
   selected : Seq(Nat), decided : BOOLEAN, settled : BOOLEAN, failed : BOOLEAN]

Iterators == [target : Nodes \ Joins, items : Nat, end : {"closed", "failed"}]

Sources ==
  [set : Nat, of : Iterators, epoch : Nat, pulled : Nat, at : Nat, open : BOOLEAN, live : BOOLEAN]

RunStates ==
  [queue : Seq(Nat), act : Seq(Activations), tracked : SUBSET Nat, sets : Seq(SourceSets),
   sources : Seq(Sources), clock : Nat, step : Nat, bound : [Joins -> Seq(Nat)],
   closed : [Joins -> SUBSET [act : Nat, count : Nat]], context : Seq(Nat), revision : Nat]

(* A map of outcomes is a function on the branches it has outcomes of.      *)
LEMMA OutcomeMapIsFunction ==
  /\ \A f \in OutcomeMaps : /\ DOMAIN f \in SUBSET Nat
                            /\ f = [b \in DOMAIN f |-> f[b]]
                            /\ \A b \in DOMAIN f : f[b] \in Outcomes
  /\ \A D \in SUBSET Nat : \A f : f \in [D -> Outcomes] => f \in OutcomeMaps
BY DEF OutcomeMaps

LEMMA SeqParts ==
  ASSUME NEW S, NEW q \in Seq(S)
  PROVE  /\ Len(q) \in Nat /\ DOMAIN q = 1..Len(q)
         /\ \A i \in DOMAIN q : q[i] \in S /\ i \in Nat
BY LenProperties, ElementOfSeq

(* e adds n activations to s, and the places of the ready queue for them.   *)
Adds(s, e, n) ==
  /\ Len(e.act) = Len(s.act) + n
  /\ \A a \in 1..Len(s.act) : e.act[a] = s.act[a]
  /\ Len(e.queue) = Len(s.queue) + n
  /\ \A i \in 1..Len(s.queue) : e.queue[i] = s.queue[i]
  /\ \A i \in 1..n : e.queue[Len(s.queue) + i] = Len(s.act) + i
  /\ e.tracked = s.tracked \cup (Len(s.act) + 1)..(Len(s.act) + n)

SameSets(s, e) == e.sets = s.sets /\ e.sources = s.sources

SameCounters(s, e) ==
  e.clock = s.clock /\ e.step = s.step /\ e.context = s.context /\ e.revision = s.revision

(* The new activations are numbered on from the last.                       *)
LEMMA NewIdsParts ==
  ASSUME NEW s \in RunStates, NEW new \in Seq(Activations)
  PROVE  LET ids == NewIds(s, new)
         IN /\ ids \in Seq(Nat) /\ Len(ids) = Len(new) /\ Len(new) \in Nat
            /\ \A i \in 1..Len(new) : ids[i] = Len(s.act) + i
            /\ ToSet(ids) = (Len(s.act) + 1)..(Len(s.act) + Len(new))
<1> DEFINE ids == NewIds(s, new)
<1>1. Len(s.act) \in Nat
  BY LenProperties DEF RunStates
<1>2. /\ Len(new) \in Nat /\ DOMAIN new = 1..Len(new)
      /\ ids \in Seq(Nat) /\ Len(ids) = Len(new) /\ \A i \in 1..Len(new) : ids[i] = Len(s.act) + i
  <2>1. Len(new) \in Nat /\ DOMAIN new = 1..Len(new)
    BY LenProperties
  <2>2. ids = [i \in 1..Len(new) |-> Len(s.act) + i]
    BY <2>1 DEF NewIds
  <2>3. ids \in [1..Len(new) -> Nat]
    BY <1>1, <2>1, <2>2
  <2>4. ids \in Seq(Nat) /\ Len(ids) = Len(new)
    BY <2>1, <2>3
  <2> QED BY <2>1, <2>2, <2>4
<1> HIDE DEF ids
<1>3. ToSet(ids) = (Len(s.act) + 1)..(Len(s.act) + Len(new))
  <2> DEFINE m == Len(s.act)
             n == Len(new)
  <2>1. DOMAIN ids = 1..n /\ m \in Nat /\ n \in Nat /\ \A i \in 1..n : ids[i] = m + i
    BY <1>1, <1>2, LenProperties
  <2> HIDE DEF m, n
  <2>2. \A k \in (m + 1)..(m + n) : k - m \in 1..n /\ m + (k - m) = k
    BY <2>1
  <2>3. \A i \in 1..n : m + i \in (m + 1)..(m + n)
    BY <2>1
  <2>4. ToSet(ids) = {m + i : i \in 1..n}
    BY <2>1 DEF ToSet
  <2>5. {m + i : i \in 1..n} = (m + 1)..(m + n)
    <3>1. {m + i : i \in 1..n} \subseteq (m + 1)..(m + n)
      BY <2>3
    <3>2. ASSUME NEW k \in (m + 1)..(m + n)
          PROVE  k \in {m + i : i \in 1..n}
      BY <2>2
    <3> QED BY <3>1, <3>2
  <2> QED BY <2>4, <2>5 DEF m, n
<1> QED BY <1>2, <1>3 DEF ids

LEMMA EnqueueFields ==
  ASSUME NEW s \in RunStates, NEW new \in Seq(Activations)
  PROVE  LET e == Enqueue(s, new)
         IN /\ e \in RunStates
            /\ Adds(s, e, Len(new)) /\ SameSets(s, e) /\ SameCounters(s, e)
            /\ e.bound = s.bound /\ e.closed = s.closed
            /\ \A i \in 1..Len(new) : e.act[Len(s.act) + i] = new[i]
<1> DEFINE e == Enqueue(s, new)
           ids == NewIds(s, new)
<1>1. /\ s.queue \in Seq(Nat) /\ s.act \in Seq(Activations) /\ s.tracked \in SUBSET Nat
      /\ Len(s.act) \in Nat /\ Len(s.queue) \in Nat
  BY LenProperties DEF RunStates
<1>2. /\ Len(new) \in Nat /\ DOMAIN new = 1..Len(new)
      /\ ids \in Seq(Nat) /\ Len(ids) = Len(new) /\ \A i \in 1..Len(new) : ids[i] = Len(s.act) + i
  BY LenProperties, NewIdsParts
<1>3. ToSet(ids) = (Len(s.act) + 1)..(Len(s.act) + Len(new))
  BY NewIdsParts
<1> HIDE DEF ids
<1>4. e = [s EXCEPT !.queue = s.queue \o ids, !.tracked = s.tracked \cup ToSet(ids),
                    !.act = s.act \o new]
  BY DEF Enqueue, ids
<1>5. /\ s.queue \o ids \in Seq(Nat) /\ s.act \o new \in Seq(Activations)
      /\ s.tracked \cup ToSet(ids) \in SUBSET Nat
  <2>1. ToSet(ids) \in SUBSET Nat
    BY <1>1, <1>2, <1>3
  <2> QED BY <1>1, <1>2, <2>1, ConcatProperties
<1>6. /\ e \in RunStates /\ e.queue = s.queue \o ids /\ e.act = s.act \o new
      /\ e.tracked = s.tracked \cup ToSet(ids)
      /\ SameSets(s, e) /\ SameCounters(s, e) /\ e.bound = s.bound /\ e.closed = s.closed
  BY <1>4, <1>5 DEF RunStates, SameSets, SameCounters
<1> HIDE DEF e
<1>7. /\ Len(e.act) = Len(s.act) + Len(new)
      /\ \A a \in 1..Len(s.act) : e.act[a] = s.act[a]
      /\ \A i \in 1..Len(new) : e.act[Len(s.act) + i] = new[i]
  <2>1. /\ Len(s.act \o new) = Len(s.act) + Len(new)
        /\ \A i \in 1..(Len(s.act) + Len(new)) :
             (s.act \o new)[i] = IF i <= Len(s.act) THEN s.act[i] ELSE new[i - Len(s.act)]
    BY <1>1, ConcatProperties
  <2> QED BY <1>1, <1>2, <1>6, <2>1
<1>8. /\ Len(e.queue) = Len(s.queue) + Len(new)
      /\ \A i \in 1..Len(s.queue) : e.queue[i] = s.queue[i]
      /\ \A i \in 1..Len(new) : e.queue[Len(s.queue) + i] = Len(s.act) + i
  <2>1. /\ Len(s.queue \o ids) = Len(s.queue) + Len(ids)
        /\ \A i \in 1..(Len(s.queue) + Len(ids)) :
             (s.queue \o ids)[i] = IF i <= Len(s.queue) THEN s.queue[i] ELSE ids[i - Len(s.queue)]
    BY ZenonT(60), <1>1, <1>2, ConcatProperties
  <2> QED BY <1>1, <1>2, <1>6, <2>1
<1>9. Adds(s, e, Len(new))
  BY <1>3, <1>6, <1>7, <1>8 DEF Adds
<1> QED BY <1>6, <1>7, <1>9 DEF e

-----------------------------------------------------------------------------
(* Joins *)

(* Whatever binding a join stays in, materializeReadyJoins stays in.         *)
LEMMA MaterializeStays ==
  ASSUME NEW V, NEW s \in V, NEW K, NEW order \in Seq(K),
         \A m \in V, key \in K : Bind(m, key[1], key[2]) \in V
  PROVE  MaterializeReadyJoins(s, order) \in V
<1> DEFINE n == Len(order)
           After(m, key) == IF key \in ReadyJoins(m) THEN Bind(m, key[1], key[2]) ELSE m
           step == [i \in 1..n |-> [m \in V |-> After(m, order[i])]]
           Solves(g) == g = [R \in SUBSET DOMAIN order |->
                               IF R = {} THEN s ELSE After(g[R \ {Max(R)}], order[Max(R)])]
           h == CHOOSE g : Solves(g)
<1>1. n \in Nat /\ DOMAIN order = 1..n /\ \A i \in 1..n : order[i] \in K
  BY SeqParts
<1>2. MaterializeReadyJoins(s, order) = h[DOMAIN order]
  BY DEF MaterializeReadyJoins, FoldLeft, MapThenFoldSet
<1>3. \A m \in V, key \in K : After(m, key) \in V
  OBVIOUS
<1> HIDE DEF After
<1>4. step \in [1..n -> [V -> V]]
  BY <1>1, <1>3
<1>5. \A i \in 1..n, m \in V : step[i][m] = After(m, order[i])
  OBVIOUS
<1> HIDE DEF step, n, Solves, h
<1>6. PICK f : IsFold(f, V, n, s, step)
  BY <1>1, <1>4, FoldExists
<1>6a. /\ f \in [SUBSET (1..n) -> V]
       /\ \A R \in SUBSET (1..n) : f[R] = IF R = {} THEN s ELSE step[Max(R)][f[R \ {Max(R)}]]
  BY <1>6 DEF IsFold
<1>7. Solves(f)
  <2>1. ASSUME NEW R \in SUBSET (1..n), R # {}
        PROVE  f[R] = After(f[R \ {Max(R)}], order[Max(R)])
    <3>1. Max(R) \in 1..n
      BY <1>1, <2>1, MaxProperties
    <3>2. f[R \ {Max(R)}] \in V
      BY <1>6a
    <3> QED BY <1>5, <1>6a, <2>1, <3>1, <3>2
  <2>2. \A R \in SUBSET (1..n) : f[R] = IF R = {} THEN s ELSE After(f[R \ {Max(R)}], order[Max(R)])
    BY <1>6a, <2>1
  <2> QED BY <1>1, <1>6a, <2>2 DEF Solves
<1>8. Solves(h)
  BY <1>7 DEF h
<1>9. \A R \in SUBSET (1..n) :
        h[R] = IF R = {} THEN s ELSE After(h[R \ {Max(R)}], order[Max(R)])
  BY <1>1, <1>8 DEF Solves
<1> DEFINE T == {k \in 0..n : \E R \in SUBSET (1..k) : h[R] \notin V}
<1>10. T = {}
  <2> SUFFICES ASSUME T # {}
               PROVE  FALSE
    OBVIOUS
  <2>1. PICK k \in T : \A l \in T : k <= l
    <3>1. T \in SUBSET Nat
      OBVIOUS
    <3> HIDE DEF T
    <3> QED BY <3>1, LeastNumber
  <2>2. k \in 0..n /\ k \in Nat
    BY <1>1, <2>1
  <2>3. PICK R \in SUBSET (1..k) : h[R] \notin V
    BY <2>1
  <2>4. R \in SUBSET (1..n)
    BY <1>1, <2>2
  <2>5. R # {}
    BY <1>9, <2>3, <2>4
  <2>6. Max(R) \in R /\ \A r \in R : r <= Max(R)
    BY <2>2, <2>5, MaxProperties
  <2>7. R \ {Max(R)} \in SUBSET (1..(k - 1)) /\ k - 1 \in 0..n /\ ~(k <= k - 1)
    <3>1. k # 0
      <4> SUFFICES ASSUME k = 0
                   PROVE  FALSE
        OBVIOUS
      <4>1. 1..k = {}
        OBVIOUS
      <4> QED BY <2>5, <4>1
    <3>2. ASSUME NEW r \in R, r # Max(R)
          PROVE  r \in 1..(k - 1)
      <4>1. r \in 1..k /\ Max(R) \in 1..k /\ r <= Max(R)
        BY <2>6
      <4> QED BY <2>2, <3>2, <4>1
    <3>3. k - 1 \in 0..n
      BY <1>1, <2>2, <3>1
    <3>4. R \ {Max(R)} \in SUBSET (1..(k - 1))
      BY <3>2
    <3>5. ~(k <= k - 1)
      BY <2>2
    <3> QED BY <3>3, <3>4, <3>5
  <2>8. h[R \ {Max(R)}] \in V
    BY <2>1, <2>7
  <2>9. order[Max(R)] \in K
    BY <1>1, <2>4, <2>6
  <2>10. h[R] = After(h[R \ {Max(R)}], order[Max(R)])
    BY <1>9, <2>4, <2>5
  <2> HIDE DEF T
  <2> QED BY <1>3, <2>3, <2>8, <2>9, <2>10
<1>11. n \in 0..n /\ 1..n \in SUBSET (1..n)
  BY <1>1
<1>12. h[1..n] \in V
  <2>1. n \notin T
    BY <1>10
  <2> QED BY <1>11, <2>1
<1> QED BY <1>1, <1>2, <1>12

(* q refers to the first n activations, or sets, or iterators.              *)
Refs(q, n) == \A i \in 1..Len(q) : q[i] \in 1..n

(* The parts of a state that name activations name activations there are.   *)
ActsKnown(s) ==
  /\ \A a \in 1..Len(s.act) : /\ s.act[a].set <= Len(s.sets)
                              /\ s.act[a].source <= Len(s.sources)
                              /\ Refs(s.act[a].input, Len(s.act))
  /\ Refs(s.queue, Len(s.act)) /\ Refs(s.context, Len(s.act))
  /\ s.tracked \subseteq 1..Len(s.act)

JoinsKnown(s) ==
  \A t \in Joins : /\ Refs(s.bound[t], Len(s.act))
                   /\ \A c \in s.closed[t] : c.act \in 1..Len(s.act)

(* The branches of a source set are the activations that name it, and it    *)
(* has a place for the outcome of each.                                     *)
SetsKnown(s) ==
  /\ \A i \in 1..Len(s.sets) :
       /\ Members(s.sets[i]) = {a \in 1..Len(s.act) : s.act[a].set = i}
       /\ DOMAIN s.sets[i].out = Members(s.sets[i])
       /\ \A k \in 1..Len(s.sets[i].selected) : s.sets[i].selected[k] \in Members(s.sets[i])
  /\ \A i \in 1..Len(s.sources) : s.sources[i].set \in 1..Len(s.sets)

WellTyped(s) == s \in RunStates /\ ActsKnown(s) /\ JoinsKnown(s) /\ SetsKnown(s)

LEMMA RefsGrow ==
  ASSUME NEW q, NEW n \in Nat, NEW m \in Nat, n <= m, Refs(q, n)
  PROVE  Refs(q, m)
BY DEF Refs

(* What each part of a run state is.                                        *)
LEMMA RunStateParts ==
  ASSUME NEW s \in RunStates
  PROVE  /\ s.queue \in Seq(Nat) /\ Len(s.queue) \in Nat
         /\ s.act \in Seq(Activations) /\ Len(s.act) \in Nat
         /\ \A a \in 1..Len(s.act) : s.act[a] \in Activations
         /\ s.sets \in Seq(SourceSets) /\ Len(s.sets) \in Nat
         /\ \A i \in 1..Len(s.sets) : s.sets[i] \in SourceSets
         /\ s.sources \in Seq(Sources) /\ Len(s.sources) \in Nat
         /\ \A i \in 1..Len(s.sources) : s.sources[i] \in Sources
         /\ DOMAIN s.act = 1..Len(s.act) /\ DOMAIN s.sets = 1..Len(s.sets)
         /\ DOMAIN s.sources = 1..Len(s.sources) /\ DOMAIN s.queue = 1..Len(s.queue)
         /\ \A t \in Joins : s.bound[t] \in Seq(Nat) /\ Len(s.bound[t]) \in Nat
                             /\ DOMAIN s.bound[t] = 1..Len(s.bound[t])
         /\ s.context \in Seq(Nat) /\ s.clock \in Nat /\ s.step \in Nat /\ s.revision \in Nat
<1>1. /\ s.queue \in Seq(Nat) /\ s.act \in Seq(Activations) /\ s.sets \in Seq(SourceSets)
      /\ s.sources \in Seq(Sources) /\ s.bound \in [Joins -> Seq(Nat)]
      /\ s.context \in Seq(Nat) /\ s.clock \in Nat /\ s.step \in Nat /\ s.revision \in Nat
  BY DEF RunStates
<1>2. \A t \in Joins : s.bound[t] \in Seq(Nat)
  BY <1>1
<1> HIDE DEF RunStates
<1> QED BY <1>1, <1>2, SeqParts

LEMMA NextEpochIsNat ==
  ASSUME NEW s \in RunStates, NEW a \in 1..Len(s.act), NEW t
  PROVE  NextEpoch(s, a, t) \in Nat
<1>1. s.act[a].epoch \in Nat
  BY RunStateParts DEF Activations
<1> QED BY <1>1 DEF NextEpoch

(* The parts of a sequence refer to what the sequence refers to.            *)
LEMMA AtRefs ==
  ASSUME NEW S, NEW q \in Seq(S), NEW P \in SUBSET DOMAIN q, NEW n, Refs(q, n)
  PROVE  Refs(At(q, P), n)
<1>1. PICK p \in Seq(P) : At(q, P) = [k \in DOMAIN p |-> q[p[k]]] /\ Len(p) = Cardinality(P)
  BY AtProperties
<1>2. At(q, P) \in Seq(S) /\ Len(At(q, P)) = Cardinality(P)
  BY AtProperties
<1>3. \A k \in 1..Len(At(q, P)) : At(q, P)[k] = q[p[k]] /\ p[k] \in 1..Len(q)
  BY <1>1, <1>2, SeqParts
<1> QED BY <1>3 DEF Refs

LEMMA EnqueueOne ==
  ASSUME NEW s \in RunStates, NEW new \in Activations
  PROVE  LET e == Enqueue(s, <<new>>)
         IN /\ e \in RunStates
            /\ Adds(s, e, 1) /\ SameSets(s, e) /\ SameCounters(s, e)
            /\ e.bound = s.bound /\ e.closed = s.closed
            /\ e.act[Len(s.act) + 1] = new
<1> DEFINE one == <<new>>
           e == Enqueue(s, one)
<1>1. one \in Seq(Activations) /\ Len(one) = 1 /\ one[1] = new
  OBVIOUS
<1> HIDE DEF one
<1>2. /\ e \in RunStates
      /\ Adds(s, e, Len(one)) /\ SameSets(s, e) /\ SameCounters(s, e)
      /\ e.bound = s.bound /\ e.closed = s.closed
      /\ \A i \in 1..Len(one) : e.act[Len(s.act) + i] = one[i]
  BY <1>1, EnqueueFields
<1>3. e.act[Len(s.act) + 1] = one[1]
  <2>1. 1 \in 1..Len(one)
    BY <1>1
  <2> QED BY <1>2, <2>1
<1> HIDE DEF e
<1>4. Adds(s, e, 1)
  BY <1>1, <1>2
<1> QED BY <1>1, <1>2, <1>3, <1>4 DEF e, one

LEMMA ImageIsFinite ==
  ASSUME NEW S, IsFiniteSet(S), NEW f, DOMAIN f = S
  PROVE  IsFiniteSet({f[x] : x \in S}) /\ Cardinality({f[x] : x \in S}) <= Cardinality(S)
<1> DEFINE T == {f[x] : x \in S}
           g == [x \in S |-> f[x]]
<1>1. g \in Surjection(S, T)
  BY DEF Surjection
<1> QED BY <1>1, FS_Surjection

-----------------------------------------------------------------------------
(* What the joins hold and have been given                                   *)

Held(s, t, a) == {<<0, i>> : i \in Positions(s.bound[t], {a})}

Inputs(s, t, a) ==
  UNION {{<<j, i>> : i \in Positions(s.act[j].input, {a})} : j \in {j \in DOMAIN s.act : s.act[j].node = t}}

InputOf(s, j, t, a, x) ==
  \E i \in 1..Len(s.act[j].input) : s.act[j].node = t /\ s.act[j].input[i] = a /\ x = <<j, i>>

Pairs(j, P) == {<<j, i>> : i \in P}

(* Every payload is as often with a join as it was.                          *)
KeepsTaken(s, m) == \A t \in Joins : \A a \in Nat : Taken(m, t, a) = Taken(s, t, a)

LEMMA Bijected ==
  ASSUME NEW P, IsFiniteSet(P), NEW f, DOMAIN f = P, \A x, y \in P : f[x] = f[y] => x = y
  PROVE  LET T == {f[x] : x \in P} IN IsFiniteSet(T) /\ Cardinality(T) = Cardinality(P)
<1> DEFINE T == {f[x] : x \in P}
           g == [x \in P |-> f[x]]
<1>1. g \in Bijection(P, T)
  BY DEF Bijection, Injection, Surjection, IsInjective
<1>2. ExistsBijection(P, T)
  BY <1>1 DEF ExistsBijection
<1>3. IsFiniteSet(T)
  BY ImageIsFinite
<1> HIDE DEF T
<1>4. Cardinality(T) = Cardinality(P)
  BY <1>2, <1>3, FS_Bijection
<1> QED BY <1>3, <1>4 DEF T

LEMMA PairsCardinality ==
  ASSUME NEW P, IsFiniteSet(P), NEW j
  PROVE  IsFiniteSet(Pairs(j, P)) /\ Cardinality(Pairs(j, P)) = Cardinality(P)
<1> DEFINE f == [i \in P |-> <<j, i>>]
<1>1. DOMAIN f = P /\ \A x, y \in P : f[x] = f[y] => x = y
  OBVIOUS
<1>2. Pairs(j, P) = {f[i] : i \in P}
  BY DEF Pairs
<1> HIDE DEF f
<1>3. IsFiniteSet({f[i] : i \in P}) /\ Cardinality({f[i] : i \in P}) = Cardinality(P)
  BY <1>1, Bijected
<1> QED BY <1>2, <1>3

LEMMA PositionsFinite ==
  ASSUME NEW S, NEW q \in Seq(S), NEW T
  PROVE  Positions(q, T) \in SUBSET (1..Len(q)) /\ IsFiniteSet(Positions(q, T))
<1>1. DOMAIN q = 1..Len(q) /\ Len(q) \in Nat
  BY SeqParts
<1>2. IsFiniteSet(1..Len(q))
  BY <1>1, FS_Interval
<1>3. Positions(q, T) \in SUBSET (1..Len(q))
  BY <1>1 DEF Positions
<1> QED BY <1>2, <1>3, FS_Subset

(* Where x is among the elements picked at the positions P                   *)
LEMMA AtPositions ==
  ASSUME NEW S, NEW q \in Seq(S), NEW P \in SUBSET DOMAIN q, NEW T
  PROVE  Cardinality(Positions(At(q, P), T)) = Cardinality(Positions(q, T) \cap P)
<1> DEFINE p == Ascending(P)
<1>0. P \in SUBSET Nat /\ IsFiniteSet(P)
  <2>1. IsFiniteSet(P)
    BY AtProperties
  <2>2. DOMAIN q = 1..Len(q) /\ Len(q) \in Nat
    BY SeqParts
  <2> QED BY <2>1, <2>2
<1>1. /\ p \in Seq(P) /\ Len(p) = Cardinality(P)
      /\ \A i, j \in DOMAIN p : i < j => p[i] < p[j]
      /\ \A x \in P : \E i \in DOMAIN p : p[i] = x
      /\ At(q, P) = [k \in DOMAIN p |-> q[p[k]]]
  BY <1>0, AscendingProperties DEF At
<1> HIDE DEF p
<1> DEFINE D == DOMAIN p
           R == {k \in D : q[p[k]] \in T}
           f == [k \in R |-> p[k]]
<1>2. D = 1..Len(p) /\ Len(p) \in Nat /\ \A k \in D : p[k] \in P /\ k \in Nat
  BY <1>1, SeqParts
<1>3. Positions(At(q, P), T) = R
  BY <1>1 DEF Positions
<1>4. \A i, j \in D : p[i] = p[j] => i = j
  <2>1. \A i \in D : p[i] \in Nat
    BY <1>0, <1>2
  <2> QED BY SMTT(30), <1>1, <1>2, <2>1
<1>5. IsFiniteSet(R)
  <2>1. IsFiniteSet(D)
    BY <1>2, FS_Interval
  <2> QED BY <2>1, FS_Subset
<1>6. {f[k] : k \in R} = Positions(q, T) \cap P
  <2> HIDE DEF D
  <2>1. \A x \in P : \E i \in D : p[i] = x
    BY <1>1 DEF D
  <2> QED BY <1>2, <2>1 DEF Positions
<1>7. DOMAIN f = R /\ \A x, y \in R : f[x] = f[y] => x = y
  BY <1>4
<1> HIDE DEF R, f
<1>8. Cardinality({f[k] : k \in R}) = Cardinality(R)
  BY <1>5, <1>7, Bijected
<1> QED BY <1>3, <1>6, <1>8

LEMMA DisjointSum ==
  ASSUME NEW S, NEW T, IsFiniteSet(S), IsFiniteSet(T), S \cap T = {}
  PROVE  /\ IsFiniteSet(S \cup T) /\ Cardinality(S \cup T) = Cardinality(S) + Cardinality(T)
         /\ Cardinality(S) \in Nat /\ Cardinality(T) \in Nat
<1>1. Cardinality(S \cup T) = Cardinality(S) + Cardinality(T) - Cardinality(S \cap T)
  BY FS_Union
<1> QED BY <1>1, FS_Union, FS_EmptySet, FS_CardinalityType

LEMMA InputParts ==
  ASSUME NEW s \in RunStates, NEW t, NEW a
  PROVE  /\ IsFiniteSet(Inputs(s, t, a))
         /\ \A x : x \in Inputs(s, t, a) <=> \E j \in 1..Len(s.act) : InputOf(s, j, t, a, x)
<1> DEFINE Mine == {j \in DOMAIN s.act : s.act[j].node = t}
           Of(j) == Pairs(j, Positions(s.act[j].input, {a}))
<1>1. DOMAIN s.act = 1..Len(s.act) /\ Len(s.act) \in Nat
      /\ \A j \in 1..Len(s.act) : s.act[j].input \in Seq(Nat) /\ DOMAIN s.act[j].input = 1..Len(s.act[j].input)
  <2>1. \A j \in 1..Len(s.act) : s.act[j].input \in Seq(Nat)
    BY RunStateParts DEF Activations
  <2> QED BY <2>1, RunStateParts, SeqParts
<1>2. \A j \in Mine : IsFiniteSet(Of(j))
  <2>1. ASSUME NEW j \in Mine
        PROVE  IsFiniteSet(Of(j))
    <3>1. IsFiniteSet(Positions(s.act[j].input, {a}))
      BY <1>1, PositionsFinite
    <3> QED BY <3>1, PairsCardinality
  <2> QED BY <2>1
<1>3. IsFiniteSet(Mine)
  <2>1. IsFiniteSet(1..Len(s.act))
    BY <1>1, FS_Interval
  <2> QED BY <1>1, <2>1, FS_Subset
<1>4. Inputs(s, t, a) = UNION {Of(j) : j \in Mine}
  BY DEF Inputs, Pairs
<1>5. \A x : x \in Inputs(s, t, a) <=> \E j \in 1..Len(s.act) : InputOf(s, j, t, a, x)
  BY <1>1 DEF Inputs, Positions, InputOf
<1> HIDE DEF Mine, Of
<1>6. IsFiniteSet({Of(j) : j \in Mine})
  <2> DEFINE f == [j \in Mine |-> Of(j)]
  <2>1. DOMAIN f = Mine /\ {f[j] : j \in Mine} = {Of(j) : j \in Mine}
    OBVIOUS
  <2> HIDE DEF f
  <2>2. IsFiniteSet({f[j] : j \in Mine})
    BY <1>3, <2>1, ImageIsFinite
  <2> QED BY <2>1, <2>2
<1>7. IsFiniteSet(UNION {Of(j) : j \in Mine})
  BY <1>2, <1>6, FS_UNION
<1> QED BY <1>4, <1>5, <1>7

LEMMA TakenIsSum ==
  ASSUME NEW s \in RunStates, NEW t \in Joins, NEW a
  PROVE  /\ Taken(s, t, a) = Cardinality(Positions(s.bound[t], {a})) + Cardinality(Inputs(s, t, a))
         /\ Cardinality(Positions(s.bound[t], {a})) \in Nat /\ Cardinality(Inputs(s, t, a)) \in Nat
<1>1. Taken(s, t, a) = Cardinality(Held(s, t, a) \cup Inputs(s, t, a))
  BY DEF Taken, Held, Inputs
<1>2. IsFiniteSet(Positions(s.bound[t], {a}))
  BY RunStateParts, PositionsFinite
<1>3. IsFiniteSet(Held(s, t, a)) /\ Cardinality(Held(s, t, a)) = Cardinality(Positions(s.bound[t], {a}))
  <2>1. Held(s, t, a) = Pairs(0, Positions(s.bound[t], {a}))
    BY DEF Held, Pairs
  <2> QED BY <1>2, <2>1, PairsCardinality
<1>4. Held(s, t, a) \cap Inputs(s, t, a) = {}
  <2>1. \A x \in Inputs(s, t, a) : \E j \in 1..Len(s.act), i \in Nat : x = <<j, i>>
    BY InputParts DEF InputOf
  <2>2. 0 \notin 1..Len(s.act)
    BY RunStateParts
  <2> QED BY <2>1, <2>2 DEF Held
<1>5. IsFiniteSet(Inputs(s, t, a))
  BY InputParts
<1> DEFINE H == Held(s, t, a)
           I == Inputs(s, t, a)
<1>6. /\ Cardinality(H \cup I) = Cardinality(H) + Cardinality(I)
      /\ Cardinality(H) \in Nat /\ Cardinality(I) \in Nat
  <2>1. IsFiniteSet(H) /\ IsFiniteSet(I) /\ H \cap I = {}
    BY <1>3, <1>4, <1>5
  <2> HIDE DEF H, I
  <2> QED BY <2>1, DisjointSum
<1> QED BY <1>1, <1>3, <1>6

(* No other activation of a join, or one that has no input, is added.        *)
LEMMA InputsStay ==
  ASSUME NEW s \in RunStates, NEW m \in RunStates, NEW t, NEW a, Len(s.act) <= Len(m.act),
         \A j \in 1..Len(s.act) : m.act[j].node = s.act[j].node /\ m.act[j].input = s.act[j].input,
         \A j \in (Len(s.act) + 1)..Len(m.act) : m.act[j].node # t \/ m.act[j].input = <<>>
  PROVE  Inputs(m, t, a) = Inputs(s, t, a)
<1>1. \A x : x \in Inputs(m, t, a) <=> x \in Inputs(s, t, a)
  <2> SUFFICES ASSUME NEW x
               PROVE  x \in Inputs(m, t, a) <=> x \in Inputs(s, t, a)
    OBVIOUS
  <2>1. Len(s.act) \in Nat /\ Len(m.act) \in Nat
    BY RunStateParts
  <2> DEFINE In(e, j) == InputOf(e, j, t, a, x)
  <2>2. \A j \in 1..Len(s.act) : j \in 1..Len(m.act) /\ (In(m, j) <=> In(s, j))
    BY SMTT(30), <2>1 DEF InputOf
  <2>3. \A j \in (Len(s.act) + 1)..Len(m.act) : ~In(m, j)
    BY DEF InputOf
  <2>4. \A j \in 1..Len(m.act) : j \in 1..Len(s.act) \/ j \in (Len(s.act) + 1)..Len(m.act)
    BY <2>1
  <2>5. \A e \in RunStates : x \in Inputs(e, t, a) <=> \E j \in 1..Len(e.act) : In(e, j)
    BY InputParts
  <2> HIDE DEF In
  <2> QED BY <2>2, <2>3, <2>4, <2>5
<1> QED BY <1>1

(* A join that is bound has in its input what it held before.                *)
LEMMA BindKeepsTaken ==
  ASSUME NEW s \in RunStates, NEW m \in RunStates, NEW t \in Joins, NEW mine \in SUBSET DOMAIN s.bound[t],
         Adds(s, m, 1), m.act[Len(s.act) + 1].node = t,
         m.act[Len(s.act) + 1].input = At(s.bound[t], mine),
         m.bound = [s.bound EXCEPT ![t] = At(s.bound[t], DOMAIN s.bound[t] \ mine)]
  PROVE  KeepsTaken(s, m)
<1> DEFINE n == Len(s.act) + 1
           q == s.bound[t]
           z == At(s.bound[t], mine)
           r == DOMAIN q \ mine
<1>1. /\ Len(s.act) \in Nat /\ Len(m.act) = n /\ n \notin 1..Len(s.act)
      /\ \A j \in 1..Len(s.act) : m.act[j] = s.act[j]
      /\ \A j \in 1..n : j \in 1..Len(s.act) \/ j = n
      /\ n \in 1..n /\ \A j \in 1..Len(s.act) : j \in 1..n
  BY SMTT(30), RunStateParts DEF Adds
<1>2. /\ s.bound \in [Joins -> Seq(Nat)] /\ q \in Seq(Nat) /\ r \in SUBSET DOMAIN q
      /\ m.act[n].node = t /\ m.act[n].input = z
  BY DEF RunStates
<1>3. \A u \in Joins : m.bound[u] = IF u = t THEN At(q, r) ELSE s.bound[u]
  BY <1>2
<1>4. ASSUME NEW a \in Nat
      PROVE  Taken(m, t, a) = Taken(s, t, a)
  <2> DEFINE P == Positions(q, {a})
             N == {<<n, i>> : i \in Positions(z, {a})}
             I == Inputs(s, t, a)
  <2>0. \A D \in SUBSET DOMAIN q : At(q, D) \in Seq(Nat)
                                  /\ Cardinality(Positions(At(q, D), {a})) = Cardinality(P \cap D)
    <3>1. q \in Seq(Nat)
      BY <1>2
    <3> HIDE DEF q
    <3> TAKE D \in SUBSET DOMAIN q
    <3>2. At(q, D) \in Seq(Nat)
      BY <3>1, AtProperties
    <3>3. Cardinality(Positions(At(q, D), {a})) = Cardinality(P \cap D)
      BY ZenonT(60), <3>1, AtPositions
    <3> QED BY <3>2, <3>3
  <2>1. Cardinality(Positions(m.bound[t], {a})) = Cardinality(P \cap r)
    BY <1>2, <1>3, <2>0
  <2>2. z \in Seq(Nat) /\ Cardinality(Positions(z, {a})) = Cardinality(P \cap mine)
    BY <2>0
  <2>3. IsFiniteSet(P) /\ P \subseteq DOMAIN q
    BY <1>2, PositionsFinite, SeqParts
  <2>4. Cardinality(P) = Cardinality(P \cap r) + Cardinality(P \cap mine)
    <3>1. P = (P \cap r) \cup (P \cap mine) /\ (P \cap r) \cap (P \cap mine) = {}
      BY <2>3
    <3>2. IsFiniteSet(P \cap r) /\ IsFiniteSet(P \cap mine)
      BY <2>3, FS_Subset
    <3> HIDE DEF P, r
    <3> QED BY <3>1, <3>2, DisjointSum
  <2>5. IsFiniteSet(N) /\ Cardinality(N) = Cardinality(P \cap mine)
    <3>1. IsFiniteSet(Positions(z, {a}))
      BY <2>2, PositionsFinite
    <3>2. N = Pairs(n, Positions(z, {a}))
      BY DEF Pairs
    <3> HIDE DEF z, n, N
    <3> QED BY <2>2, <3>1, <3>2, PairsCardinality
  <2>6. Inputs(m, t, a) = I \cup N /\ I \cap N = {}
    <3>1. \A x : x \in Inputs(m, t, a) <=> x \in I \/ x \in N
      <4> SUFFICES ASSUME NEW x
                   PROVE  x \in Inputs(m, t, a) <=> x \in I \/ x \in N
        OBVIOUS
      <4> DEFINE In(e, j) == InputOf(e, j, t, a, x)
      <4>1. \A j \in 1..Len(s.act) : In(m, j) <=> In(s, j)
        BY <1>1 DEF InputOf
      <4>2. In(m, n) <=> x \in N
        <5>1. DOMAIN z = 1..Len(z)
          BY <2>2, SeqParts
        <5> HIDE DEF z, n
        <5> QED BY <1>2, <5>1 DEF Positions, InputOf
      <4>3. /\ x \in Inputs(m, t, a) <=> \E j \in 1..n : In(m, j)
            /\ x \in I <=> \E j \in 1..Len(s.act) : In(s, j)
        <5>1. \A e \in RunStates : x \in Inputs(e, t, a) <=> \E j \in 1..Len(e.act) : In(e, j)
          BY InputParts
        <5> HIDE DEF In, n
        <5> QED BY <1>1, <5>1
      <4> HIDE DEF In, N, I, n
      <4> QED BY <1>1, <4>1, <4>2, <4>3
    <3>2. \A x \in I : \E j \in 1..Len(s.act), i \in Nat : x = <<j, i>>
      BY InputParts DEF InputOf
    <3>3. \A x \in I : x \notin N
      <4> HIDE DEF n, I
      <4> QED BY <1>1, <3>2
    <3> HIDE DEF I, N
    <3> QED BY <3>1, <3>3
  <2>7. IsFiniteSet(I)
    BY InputParts
  <2> HIDE DEF P, N, I, r, q, z
  <2>8. Cardinality(Inputs(m, t, a)) = Cardinality(I) + Cardinality(P \cap mine)
    <3>1. Cardinality(I \cup N) = Cardinality(I) + Cardinality(N)
      BY <2>5, <2>6, <2>7, DisjointSum
    <3> QED BY <2>5, <2>6, <3>1
  <2>9. /\ Taken(m, t, a) = Cardinality(Positions(m.bound[t], {a})) + Cardinality(Inputs(m, t, a))
        /\ Taken(s, t, a) = Cardinality(P) + Cardinality(I)
        /\ Cardinality(I) \in Nat /\ Cardinality(P) \in Nat
    BY TakenIsSum DEF P, I, q
  <2>10. Cardinality(P \cap r) \in Nat /\ Cardinality(P \cap mine) \in Nat
    BY <2>3, FS_Subset, FS_CardinalityType
  <2> QED BY <2>1, <2>4, <2>8, <2>9, <2>10
<1>5. ASSUME NEW u \in Joins, u # t, NEW a \in Nat
      PROVE  Taken(m, u, a) = Taken(s, u, a)
  <2>1. m.bound[u] = s.bound[u]
    BY <1>3, <1>5
  <2>2. Inputs(m, u, a) = Inputs(s, u, a)
    <3>1. \A j \in (Len(s.act) + 1)..Len(m.act) : m.act[j].node # u
      BY <1>1, <1>2, <1>5
    <3>2. Len(s.act) <= Len(m.act)
      BY <1>1
    <3> QED BY <1>1, <3>1, <3>2, InputsStay
  <2>3. /\ Taken(m, u, a) = Cardinality(Positions(m.bound[u], {a})) + Cardinality(Inputs(m, u, a))
        /\ Taken(s, u, a) = Cardinality(Positions(s.bound[u], {a})) + Cardinality(Inputs(s, u, a))
    BY TakenIsSum
  <2> QED BY <2>1, <2>2, <2>3
<1> QED BY <1>4, <1>5 DEF KeepsTaken

(* m is s with activations of joins added, which took what the joins hold:   *)
(* no payload has come or gone.                                             *)
Grown(s, m) ==
  /\ m \in RunStates
  /\ \E n \in Nat : Adds(s, m, n)
  /\ SameSets(s, m) /\ SameCounters(s, m)
  /\ \A a \in (Len(s.act) + 1)..Len(m.act) :
       /\ m.act[a].node \in Joins /\ m.act[a].phase = "ready" /\ m.act[a].set = 0
       /\ m.act[a].source = 0 /\ m.act[a].item = 0 /\ Refs(m.act[a].input, Len(m.act))
  /\ JoinsKnown(m) /\ \A t \in Joins : m.closed[t] \subseteq s.closed[t]
  /\ KeepsTaken(s, m)

(* Bind takes from the join's contributions those of one epoch.             *)
LEMMA BindGrows ==
  ASSUME NEW s \in RunStates, JoinsKnown(s), NEW t \in Joins, NEW e \in Nat
  PROVE  Grown(s, Bind(s, t, e))
<1> USE TopologyAssumption
<1> DEFINE mine == {i \in DOMAIN s.bound[t] : NextEpoch(s, s.bound[t][i], t) = e}
           new == NewActivation(t, e, 0, At(s.bound[t], mine))
           q == Enqueue(s, <<new>>)
           rest == At(s.bound[t], DOMAIN s.bound[t] \ mine)
           m == Bind(s, t, e)
<1>1. /\ s.bound[t] \in Seq(Nat) /\ mine \in SUBSET DOMAIN s.bound[t]
      /\ DOMAIN s.bound[t] \ mine \in SUBSET DOMAIN s.bound[t]
      /\ Refs(s.bound[t], Len(s.act))
  BY RunStateParts DEF JoinsKnown
<1>2. /\ At(s.bound[t], mine) \in Seq(Nat) /\ Refs(At(s.bound[t], mine), Len(s.act))
      /\ rest \in Seq(Nat) /\ Refs(rest, Len(s.act))
  BY <1>1, AtProperties, AtRefs
<1> HIDE DEF mine
<1>2a. rest = At(s.bound[t], DOMAIN s.bound[t] \ mine)
  OBVIOUS
<1> HIDE DEF rest
<1>3. new \in Activations /\ <<new>> \in Seq(Activations) /\ Len(<<new>>) = 1 /\ <<new>>[1] = new
  <2>1. new \in Activations
    BY <1>2 DEF NewActivation, Activations
  <2> QED BY <2>1
<1>4. /\ new.node = t /\ new.phase = "ready" /\ new.set = 0 /\ new.source = 0 /\ new.item = 0
      /\ new.input = At(s.bound[t], mine)
  BY DEF NewActivation
<1> HIDE DEF new
<1>5. /\ q \in RunStates /\ Adds(s, q, 1) /\ SameSets(s, q) /\ SameCounters(s, q)
      /\ q.bound = s.bound /\ q.closed = s.closed /\ q.act[Len(s.act) + 1] = new
  BY <1>3, EnqueueOne
<1> HIDE DEF q
<1>6. m = [q EXCEPT !.bound[t] = rest,
                    !.closed[t] = {c \in q.closed[t] : NextEpoch(s, c.act, t) # e}]
  <2>1. m = [q EXCEPT !.bound[t] = At(q.bound[t], DOMAIN q.bound[t] \ mine),
                    !.closed[t] = {c \in q.closed[t] : NextEpoch(s, c.act, t) # e}]
    BY DEF Bind, q, new, mine
  <2> QED BY <1>5, <2>1 DEF rest
<1>7. /\ m \in RunStates
      /\ m.act = q.act /\ m.queue = q.queue /\ m.tracked = q.tracked
      /\ m.sets = q.sets /\ m.sources = q.sources
      /\ m.clock = q.clock /\ m.step = q.step /\ m.context = q.context /\ m.revision = q.revision
      /\ m.bound = [s.bound EXCEPT ![t] = rest]
      /\ m.closed = [s.closed EXCEPT ![t] = {c \in s.closed[t] : NextEpoch(s, c.act, t) # e}]
  <2>1. [s.bound EXCEPT ![t] = rest] \in [Joins -> Seq(Nat)]
    BY <1>2 DEF RunStates
  <2>2. [s.closed EXCEPT ![t] = {c \in s.closed[t] : NextEpoch(s, c.act, t) # e}]
          \in [Joins -> SUBSET [act : Nat, count : Nat]]
    <3>1. s.closed \in [Joins -> SUBSET [act : Nat, count : Nat]]
      BY DEF RunStates
    <3> QED BY <3>1
  <2>3. m = [q EXCEPT !.bound = [s.bound EXCEPT ![t] = rest],
                      !.closed = [s.closed EXCEPT ![t] = {c \in s.closed[t] : NextEpoch(s, c.act, t) # e}]]
    BY <1>5, <1>6 DEF RunStates
  <2> HIDE DEF m
  <2> QED BY <1>5, <2>1, <2>2, <2>3 DEF RunStates
<1> HIDE DEF m
<1>8. Adds(s, m, 1) /\ SameSets(s, m) /\ SameCounters(s, m)
  BY SMTT(60), <1>5, <1>7 DEF Adds, SameSets, SameCounters
<1>9. m.act[Len(s.act) + 1] = new /\ Len(m.act) = Len(s.act) + 1 /\ Len(s.act) \in Nat
  BY <1>5, <1>7, <1>8, RunStateParts DEF Adds
<1>10. \A u \in Joins : Refs(m.bound[u], Len(s.act)) /\ m.closed[u] \subseteq s.closed[u]
  <2> SUFFICES ASSUME NEW u \in Joins
               PROVE  Refs(m.bound[u], Len(s.act)) /\ m.closed[u] \subseteq s.closed[u]
    OBVIOUS
  <2>1. s.bound \in [Joins -> Seq(Nat)] /\ s.closed \in [Joins -> SUBSET [act : Nat, count : Nat]]
    BY DEF RunStates
  <2>2. m.bound[u] = IF u = t THEN rest ELSE s.bound[u]
    BY <1>7, <2>1
  <2>3. m.closed[u] \subseteq s.closed[u]
    BY <1>7, <2>1
  <2>4. Refs(s.bound[u], Len(s.act))
    BY DEF JoinsKnown
  <2> QED BY <1>2, <2>2, <2>3, <2>4
<1>11. \A a \in (Len(s.act) + 1)..Len(m.act) : m.act[a] = new
  BY <1>9
<1>12. \A u \in Joins : Refs(m.bound[u], Len(m.act))
  BY <1>9, <1>10 DEF Refs
<1>13. \A u \in Joins : \A c \in m.closed[u] : c.act \in 1..Len(m.act)
  BY <1>9, <1>10 DEF JoinsKnown
<1>14. Refs(new.input, Len(m.act))
  BY <1>2, <1>4, <1>9 DEF Refs
<1>15. KeepsTaken(s, m)
  BY <1>1, <1>2a, <1>4, <1>7, <1>8, <1>9, BindKeepsTaken
<1> QED BY <1>4, <1>7, <1>8, <1>10, <1>11, <1>12, <1>13, <1>14, <1>15 DEF Grown, JoinsKnown, m

LEMMA GrownIsReflexive ==
  ASSUME NEW s \in RunStates, JoinsKnown(s)
  PROVE  Grown(s, s)
<1>1. Adds(s, s, 0)
  BY RunStateParts DEF Adds
<1> QED BY <1>1, RunStateParts DEF Grown, SameSets, SameCounters, KeepsTaken

LEMMA SumOfSums ==
  ASSUME NEW a \in Nat, NEW n \in Nat, NEW k \in Nat, NEW b, b = a + n, NEW c, c = b + k
  PROVE  c = a + (n + k)
OBVIOUS

LEMMA Intervals ==
  ASSUME NEW a \in Nat, NEW n \in Nat, NEW k \in Nat
  PROVE  \A b : b = a + n => (a + 1)..b \cup (b + 1)..(b + k) = (a + 1)..(a + (n + k))
<1>1. \A x \in Int : x \in (a + 1)..(a + (n + k))
        <=> x \in (a + 1)..(a + n) \/ x \in (a + n + 1)..(a + n + k)
  OBVIOUS
<1>2. (a + 1)..(a + n) \cup (a + n + 1)..(a + n + k) = (a + 1)..(a + (n + k))
  BY <1>1
<1> QED BY <1>2

LEMMA AddsIsTransitive ==
  ASSUME NEW s \in RunStates, NEW m \in RunStates, NEW p \in RunStates,
         NEW n \in Nat, NEW k \in Nat, Adds(s, m, n), Adds(m, p, k)
  PROVE  Adds(s, p, n + k)
<1>1. Len(s.act) \in Nat /\ Len(s.queue) \in Nat /\ Len(m.act) \in Nat /\ Len(m.queue) \in Nat
  BY RunStateParts
<1>2. /\ Len(m.act) = Len(s.act) + n /\ Len(m.queue) = Len(s.queue) + n
      /\ Len(p.act) = Len(m.act) + k /\ Len(p.queue) = Len(m.queue) + k
  BY DEF Adds
<1> DEFINE sa == Len(s.act)  ma == Len(m.act)  pa == Len(p.act)
           sq == Len(s.queue)  mq == Len(m.queue)  pq == Len(p.queue)
<1>3. /\ pa = sa + (n + k) /\ pq = sq + (n + k)
      /\ (sa + 1)..ma \cup (ma + 1)..(ma + k) = (sa + 1)..(sa + (n + k))
  <2>1. sa \in Nat /\ sq \in Nat /\ ma = sa + n /\ mq = sq + n /\ pa = ma + k /\ pq = mq + k
    BY <1>1, <1>2
  <2> HIDE DEF sa, ma, pa, sq, mq, pq
  <2>2. pa = sa + (n + k)
    BY <2>1, SumOfSums
  <2>3. pq = sq + (n + k)
    BY <2>1, SumOfSums
  <2>4. (sa + 1)..ma \cup (ma + 1)..(ma + k) = (sa + 1)..(sa + (n + k))
    BY <2>1, Intervals
  <2> QED BY <2>2, <2>3, <2>4
<1>5. ASSUME NEW a \in 1..Len(s.act)
      PROVE  p.act[a] = s.act[a]
  <2>1. a \in 1..Len(m.act)
    BY <1>1, <1>2
  <2> QED BY <2>1 DEF Adds
<1>6. ASSUME NEW i \in 1..Len(s.queue)
      PROVE  p.queue[i] = s.queue[i]
  <2>1. i \in 1..Len(m.queue)
    BY <1>1, <1>2
  <2> QED BY <2>1 DEF Adds
<1>7. ASSUME NEW i \in 1..(n + k)
      PROVE  p.queue[Len(s.queue) + i] = Len(s.act) + i
  <2>1. CASE i <= n
    <3>1. i \in 1..n /\ Len(s.queue) + i \in 1..Len(m.queue)
      BY <1>1, <1>2, <2>1
    <3> QED BY <3>1 DEF Adds
  <2>2. CASE ~(i <= n)
    <3>1. i - n \in 1..k /\ Len(m.queue) + (i - n) = Len(s.queue) + i
      BY <1>1, <1>2, <2>2
    <3>2. Len(m.act) + (i - n) = Len(s.act) + i
      BY <1>1, <1>2, <2>2
    <3>3. p.queue[Len(m.queue) + (i - n)] = Len(m.act) + (i - n)
      BY <3>1 DEF Adds
    <3> QED BY <3>1, <3>2, <3>3
  <2> QED BY <2>1, <2>2
<1>8. p.tracked = s.tracked \cup (Len(s.act) + 1)..(Len(s.act) + (n + k))
  <2>1. m.tracked = s.tracked \cup (Len(s.act) + 1)..(Len(s.act) + n) /\ Len(m.act) = Len(s.act) + n
    BY DEF Adds
  <2>2. p.tracked = m.tracked \cup (Len(m.act) + 1)..(Len(m.act) + k)
    BY DEF Adds
  <2> DEFINE X == (sa + 1)..ma  Y == (ma + 1)..(ma + k)  Z == (sa + 1)..(sa + (n + k))
  <2>3. m.tracked = s.tracked \cup X /\ p.tracked = m.tracked \cup Y /\ X \cup Y = Z
    BY <1>2, <1>3, <2>1, <2>2
  <2> HIDE DEF X, Y, Z
  <2>4. p.tracked = s.tracked \cup Z
    BY <2>3
  <2> QED BY <2>4 DEF Z
<1> QED BY <1>3, <1>5, <1>6, <1>7, <1>8 DEF Adds

LEMMA GrownIsTransitive ==
  ASSUME NEW s \in RunStates, NEW m, Grown(s, m), NEW p, Grown(m, p)
  PROVE  Grown(s, p)
<1>1. PICK n \in Nat : Adds(s, m, n)
  BY DEF Grown
<1>2. PICK k \in Nat : Adds(m, p, k)
  BY DEF Grown
<1>3. m \in RunStates /\ p \in RunStates
  BY DEF Grown
<1>4. Adds(s, p, n + k) /\ n + k \in Nat
  BY <1>1, <1>2, <1>3, AddsIsTransitive
<1>5. SameSets(s, p) /\ SameCounters(s, p)
  BY DEF Grown, SameSets, SameCounters
<1>6. /\ Len(s.act) \in Nat /\ Len(m.act) \in Nat /\ Len(p.act) \in Nat
      /\ Len(m.act) = Len(s.act) + n /\ Len(p.act) = Len(m.act) + k
  BY <1>1, <1>2, <1>3, RunStateParts DEF Adds
<1>7. ASSUME NEW a \in (Len(s.act) + 1)..Len(p.act)
      PROVE  /\ p.act[a].node \in Joins /\ p.act[a].phase = "ready" /\ p.act[a].set = 0
             /\ p.act[a].source = 0 /\ p.act[a].item = 0 /\ Refs(p.act[a].input, Len(p.act))
  <2>1. CASE a <= Len(m.act)
    <3>1. a \in 1..Len(m.act) /\ a \in (Len(s.act) + 1)..Len(m.act)
      BY <1>6, <2>1
    <3>2. p.act[a] = m.act[a]
      BY <1>2, <3>1 DEF Adds
    <3>3. Refs(m.act[a].input, Len(p.act))
      <4>1. Len(m.act) <= Len(p.act) /\ Refs(m.act[a].input, Len(m.act))
        BY <1>6, <3>1 DEF Grown
      <4> QED BY <1>6, <4>1, RefsGrow
    <3> QED BY <3>1, <3>2, <3>3 DEF Grown
  <2>2. CASE ~(a <= Len(m.act))
    <3>1. a \in (Len(m.act) + 1)..Len(p.act)
      BY <1>6, <2>2
    <3> QED BY <3>1 DEF Grown
  <2> QED BY <2>1, <2>2
<1>8. JoinsKnown(p) /\ \A t \in Joins : p.closed[t] \subseteq s.closed[t]
  BY DEF Grown
<1>9. KeepsTaken(s, p)
  BY DEF Grown, KeepsTaken
<1> QED BY <1>3, <1>4, <1>5, <1>7, <1>8, <1>9 DEF Grown

(* materializeReadyJoins adds activations of joins, whatever the order.     *)
LEMMA MaterializeGrows ==
  ASSUME NEW s \in RunStates, JoinsKnown(s), NEW order \in SetToSeqs(ReadyJoins(s))
  PROVE  Grown(s, MaterializeReadyJoins(s, order))
<1> DEFINE K == Joins \X Nat
           V == {m \in RunStates : Grown(s, m)}
<1>1. ReadyJoins(s) \subseteq K
  <2>1. ASSUME NEW t \in Joins, NEW a \in ToSet(s.bound[t])
        PROVE  NextEpoch(s, a, t) \in Nat
    <3>1. a \in 1..Len(s.act)
      <4>1. DOMAIN s.bound[t] = 1..Len(s.bound[t])
        BY RunStateParts
      <4>2. PICK i \in 1..Len(s.bound[t]) : a = s.bound[t][i]
        BY <4>1 DEF ToSet
      <4> QED BY <4>2 DEF JoinsKnown, Refs
    <3> QED BY <3>1, NextEpochIsNat
  <2> QED BY <2>1 DEF ReadyJoins
<1>2. order \in Seq(K)
  <2>1. order \in [1..Cardinality(ReadyJoins(s)) -> ReadyJoins(s)]
    BY DEF SetToSeqs
  <2>2. Cardinality(ReadyJoins(s)) \in Nat
    <3>1. IsFiniteSet(ReadyJoins(s))
      <4>1. IsFiniteSet(Joins)
        BY TopologyAssumption, FS_Subset
      <4> DEFINE Keys(t) == {<<t, NextEpoch(s, a, t)>> : a \in ToSet(s.bound[t])}
      <4>2. ASSUME NEW t \in Joins
            PROVE  IsFiniteSet(Keys(t))
        <5> DEFINE f == [i \in 1..Len(s.bound[t]) |-> <<t, NextEpoch(s, s.bound[t][i], t)>>]
        <5>1. DOMAIN s.bound[t] = 1..Len(s.bound[t]) /\ Len(s.bound[t]) \in Nat
          BY RunStateParts
        <5>2. IsFiniteSet({f[i] : i \in 1..Len(s.bound[t])})
          <6>1. IsFiniteSet(1..Len(s.bound[t]))
            BY <5>1, FS_Interval
          <6>2. DOMAIN f = 1..Len(s.bound[t])
            OBVIOUS
          <6> HIDE DEF f
          <6> QED BY <6>1, <6>2, ImageIsFinite
        <5>3. Keys(t) = {f[i] : i \in 1..Len(s.bound[t])}
          BY <5>1 DEF ToSet
        <5> QED BY <5>2, <5>3
      <4> HIDE DEF Keys
      <4>3. IsFiniteSet({Keys(t) : t \in Joins})
        <5> DEFINE f == [t \in Joins |-> Keys(t)]
        <5>1. IsFiniteSet({f[t] : t \in Joins})
          BY <4>1, ImageIsFinite
        <5>2. {f[t] : t \in Joins} = {Keys(t) : t \in Joins}
          OBVIOUS
        <5> QED BY <5>1, <5>2
      <4>4. IsFiniteSet(UNION {Keys(t) : t \in Joins})
        BY <4>2, <4>3, FS_UNION
      <4>5. ReadyJoins(s) \subseteq UNION {Keys(t) : t \in Joins}
        BY DEF ReadyJoins, Keys
      <4> QED BY <4>4, <4>5, FS_Subset
    <3> QED BY <3>1, FS_CardinalityType
  <2>3. order \in [1..Cardinality(ReadyJoins(s)) -> K]
    BY <1>1, <2>1
  <2> QED BY <2>2, <2>3
<1>3. s \in V
  BY GrownIsReflexive
<1>4. ASSUME NEW m \in V, NEW key \in K
      PROVE  Bind(m, key[1], key[2]) \in V
  <2>1. JoinsKnown(m) /\ m \in RunStates /\ key[1] \in Joins /\ key[2] \in Nat
    BY DEF Grown
  <2>2. Grown(m, Bind(m, key[1], key[2]))
    BY <2>1, BindGrows
  <2>3. Grown(s, Bind(m, key[1], key[2]))
    BY <2>2, GrownIsTransitive
  <2> QED BY <2>3 DEF Grown
<1> HIDE DEF V, K
<1>5. MaterializeReadyJoins(s, order) \in V
  BY <1>2, <1>3, <1>4, MaterializeStays
<1> QED BY <1>5 DEF V

-----------------------------------------------------------------------------
(* Routing *)

LEMMA DispatchableParts ==
  ASSUME NEW d \in Dispatchable
  PROVE  d.to \in Seq(Nodes) /\ d.iters \in Seq(Iterators) /\ d.settle \in Settles
<1>1. CASE d = NoDispatch
  BY <1>1 DEF NoDispatch, Settles
<1>2. CASE \E n \in Nodes : d \in Dispatches[n]
  <2> PICK n \in Nodes : d \in Dispatches[n]
    BY <1>2
  <2>1. /\ d.to \in Seq(Nodes)
        /\ d.iters \in Seq([target : ToSet(Edges[n]) \ Joins, items : Nat, end : {"closed", "failed"}])
        /\ d.settle \in Settles
    BY TopologyAssumption DEF Settles
  <2>2. ToSet(Edges[n]) \subseteq Nodes
    <3>1. Edges[n] \in Seq(Nodes)
      BY TopologyAssumption
    <3> QED BY <3>1, SeqParts DEF ToSet
  <2>3. [target : ToSet(Edges[n]) \ Joins, items : Nat, end : {"closed", "failed"}] \subseteq Iterators
    BY <2>2 DEF Iterators
  <2> DEFINE T == [target : ToSet(Edges[n]) \ Joins, items : Nat, end : {"closed", "failed"}]
  <2> HIDE DEF T
  <2>4. d.iters \in Seq(T) /\ T \subseteq Iterators
    BY <2>1, <2>3 DEF T
  <2>5. d.iters \in [1..Len(d.iters) -> T] /\ Len(d.iters) \in Nat
    BY <2>4
  <2>6. d.iters \in [1..Len(d.iters) -> Iterators]
    BY <2>4, <2>5
  <2>7. d.iters \in Seq(Iterators)
    BY <2>5, <2>6
  <2> QED BY <2>1, <2>7
<1> QED BY <1>1, <1>2 DEF Dispatchable

LEMMA PositionsAreDomain ==
  ASSUME NEW q, NEW S
  PROVE  Positions(q, S) \in SUBSET DOMAIN q
BY DEF Positions

LEMMA NamedIsNat ==
  ASSUME NEW d \in Dispatchable, NEW t
  PROVE  Named(d, t) \in Nat
<1>1. d.to \in Seq(Nodes)
  BY DispatchableParts
<1>2. IsFiniteSet(Positions(d.to, {t}))
  BY <1>1, PositionsAreDomain, AtProperties
<1> QED BY <1>2, FS_CardinalityType DEF Named

LEMMA BranchesAreNodes ==
  ASSUME NEW d \in Dispatchable
  PROVE  Branches(d) \in Seq(Nodes) /\ Len(Branches(d)) \in Nat
<1>1. d.to \in Seq(Nodes)
  BY DispatchableParts
<1>2. Branches(d) \in Seq(Nodes)
  BY <1>1, PositionsAreDomain, AtProperties DEF Branches
<1> QED BY <1>2, SeqParts

(* A set as scheduleNext opens it, with the branches from m + 1 to m + n.    *)
Opened(x, m, n) ==
  /\ x \in SourceSets
  /\ ~x.decided /\ ~x.settled /\ ~x.failed /\ x.selected = <<>> /\ x.cause = "none"
  /\ Members(x) = (m + 1)..(m + n) /\ DOMAIN x.out = Members(x) /\ Len(x.branches) = n
  /\ \A b \in Members(x) : x.out[b] = NoOutcome

(* The activations that scheduleNext makes are those of the branches, of    *)
(* the next set.                                                            *)
Routes(s, e, a, d) ==
  LET n == Len(Branches(d))
      k == Len(d.iters)
  IN /\ e \in RunStates /\ Adds(s, e, n) /\ SameCounters(s, e)
     /\ \A i \in 1..n : e.act[Len(s.act) + i]
                          = NewActivation(Branches(d)[i], NextEpoch(s, a, Branches(d)[i]),
                                          Len(s.sets) + 1, <<>>)
     /\ n = 0 /\ k = 0 => SameSets(s, e)
     /\ n # 0 \/ k # 0 =>
          /\ Len(e.sets) = Len(s.sets) + 1 /\ \A i \in 1..Len(s.sets) : e.sets[i] = s.sets[i]
          /\ Opened(e.sets[Len(s.sets) + 1], Len(s.act), n)
          /\ e.sets[Len(s.sets) + 1].open = k
          /\ e.sources = s.sources \o NewSources(s, a, d)
     /\ \A t \in Joins : e.bound[t] = s.bound[t] \o [i \in 1..Named(d, t) |-> a]
     /\ \A t \in Joins : e.closed[t] \subseteq s.closed[t] \cup {[act |-> a, count |-> Named(d, t)]}

LEMMA NewSourcesParts ==
  ASSUME NEW s \in RunStates, NEW a \in 1..Len(s.act), NEW d \in Dispatchable
  PROVE  /\ NewSources(s, a, d) \in Seq(Sources) /\ Len(NewSources(s, a, d)) = Len(d.iters)
         /\ \A i \in 1..Len(d.iters) :
              /\ NewSources(s, a, d)[i].set = Len(s.sets) + 1
              /\ NewSources(s, a, d)[i].pulled = 0 /\ NewSources(s, a, d)[i].at = 0
              /\ NewSources(s, a, d)[i].open
<1> DEFINE S == [i \in DOMAIN d.iters |->
     [set |-> Len(s.sets) + 1, of |-> d.iters[i], epoch |-> NextEpoch(s, a, d.iters[i].target),
      pulled |-> 0, at |-> 0, open |-> TRUE, live |-> TRUE]]
<1>1. d.iters \in Seq(Iterators)
  BY DispatchableParts
<1>2. /\ DOMAIN d.iters = 1..Len(d.iters) /\ Len(d.iters) \in Nat
      /\ \A i \in DOMAIN d.iters : d.iters[i] \in Iterators
  BY <1>1, SeqParts
<1>3. Len(s.sets) \in Nat
  BY RunStateParts
<1>4. \A i \in DOMAIN d.iters : NextEpoch(s, a, d.iters[i].target) \in Nat
  BY NextEpochIsNat
<1>5. \A i \in DOMAIN d.iters : S[i] \in Sources
  BY <1>2, <1>3, <1>4 DEF Sources
<1>6. S \in Seq(Sources) /\ Len(S) = Len(d.iters)
  <2>1. S \in [1..Len(d.iters) -> Sources]
    BY <1>2, <1>5
  <2> HIDE DEF S
  <2> QED BY <1>2, <2>1
<1>7. NewSources(s, a, d) = S
  BY DEF NewSources
<1> QED BY <1>2, <1>6, <1>7

LEMMA AppendParts ==
  ASSUME NEW S, NEW q \in Seq(S), NEW x \in S
  PROVE  /\ Append(q, x) \in Seq(S) /\ Len(Append(q, x)) = Len(q) + 1
         /\ \A i \in 1..Len(q) : Append(q, x)[i] = q[i]
         /\ Append(q, x)[Len(q) + 1] = x
BY AppendProperties

LEMMA ConcatParts ==
  ASSUME NEW S, NEW q \in Seq(S), NEW r \in Seq(S)
  PROVE  /\ q \o r \in Seq(S) /\ Len(q \o r) = Len(q) + Len(r)
         /\ \A i \in 1..Len(q) : (q \o r)[i] = q[i]
         /\ \A i \in 1..Len(r) : (q \o r)[Len(q) + i] = r[i]
<1>1. /\ q \o r \in Seq(S) /\ Len(q \o r) = Len(q) + Len(r)
      /\ \A i \in 1..(Len(q) + Len(r)) : (q \o r)[i] = IF i <= Len(q) THEN q[i] ELSE r[i - Len(q)]
  BY ConcatProperties
<1>2. Len(q) \in Nat /\ Len(r) \in Nat
  BY SeqParts
<1> DEFINE m == Len(q)  n == Len(r)
<1> HIDE DEF m, n
<1>3. \A i \in 1..n : m + i \in 1..(m + n) /\ ~(m + i <= m) /\ (m + i) - m = i
  BY <1>2 DEF m, n
<1>4. \A i \in 1..m : i \in 1..(m + n) /\ i <= m
  BY <1>2 DEF m, n
<1> QED BY <1>1, <1>3, <1>4 DEF m, n

LEMMA ScheduleNextRoutes ==
  ASSUME NEW s \in RunStates, NEW a \in 1..Len(s.act), NEW d \in Dispatchable
  PROVE  Routes(s, ScheduleNext(s, a, d), a, d)
<1> DEFINE n == Len(Branches(d))
           k == Len(d.iters)
           Branch(i) == NewActivation(Branches(d)[i], NextEpoch(s, a, Branches(d)[i]), Len(s.sets) + 1, <<>>)
           new == [i \in DOMAIN Branches(d) |-> Branch(i)]
           ids == NewIds(s, new)
           set == [policy |-> d.settle, branches |-> ids,
                   out |-> [b \in ToSet(ids) |-> NoOutcome], open |-> k, cause |-> "none",
                   selected |-> <<>>, decided |-> FALSE, settled |-> FALSE, failed |-> FALSE]
           opened == IF ids = <<>> /\ d.iters = <<>> THEN s
                     ELSE [s EXCEPT !.sets = Append(@, set), !.sources = @ \o NewSources(s, a, d)]
           q == Enqueue(opened, new)
           contributed == [q EXCEPT !.bound = [t \in Joins |-> s.bound[t] \o [i \in 1..Named(d, t) |-> a]]]
           e == ScheduleNext(s, a, d)
<1>1. e = CloseExpectations(contributed, a, d)
  BY DEF ScheduleNext
<1>2. /\ Branches(d) \in Seq(Nodes) /\ n \in Nat /\ k \in Nat /\ DOMAIN Branches(d) = 1..n
      /\ \A i \in 1..n : Branches(d)[i] \in Nodes
      /\ Len(s.sets) \in Nat /\ Len(s.act) \in Nat
  <2>1. d.iters \in Seq(Iterators)
    BY DispatchableParts
  <2> QED BY <2>1, BranchesAreNodes, SeqParts, RunStateParts
<1>3. /\ new \in Seq(Activations) /\ Len(new) = n
      /\ \A i \in 1..n : new[i] = Branch(i)
  <2>1. \A i \in 1..n : Branch(i) \in Activations
    <3> SUFFICES ASSUME NEW i \in 1..n
                 PROVE  Branch(i) \in Activations
      OBVIOUS
    <3>1. NextEpoch(s, a, Branches(d)[i]) \in Nat
      BY NextEpochIsNat
    <3> QED BY <1>2, <3>1 DEF NewActivation, Activations
  <2> HIDE DEF Branch
  <2>2. new \in [1..n -> Activations] /\ \A i \in 1..n : new[i] = Branch(i)
    BY <1>2, <2>1
  <2> HIDE DEF new
  <2> QED BY <1>2, <2>2
<1> HIDE DEF new
<1>4. /\ ids \in Seq(Nat) /\ Len(ids) = n /\ ToSet(ids) = (Len(s.act) + 1)..(Len(s.act) + n)
  BY <1>3, NewIdsParts
<1>5. ids = NewIds(opened, new)
  <2>1. opened.act = s.act
    BY DEF RunStates
  <2> QED BY <2>1 DEF NewIds
<1> HIDE DEF ids
<1>6. Opened(set, Len(s.act), n) /\ set.open = k
  <2>1. NoOutcome \in Outcomes
    BY DEF NoOutcome, Outcomes, Causes, Dispatchable
  <2>2. ToSet(ids) \in SUBSET Nat
    BY <1>2, <1>4
  <2>3. [b \in ToSet(ids) |-> NoOutcome] \in OutcomeMaps
    BY <2>1, <2>2 DEF OutcomeMaps
  <2>4. d.settle \in Settles
    BY DispatchableParts
  <2>5. set \in SourceSets
    BY <1>2, <1>4, <2>3, <2>4 DEF SourceSets, Causes
  <2>6. /\ ~set.decided /\ ~set.settled /\ ~set.failed /\ set.selected = <<>> /\ set.cause = "none"
        /\ set.branches = ids /\ set.out = [b \in ToSet(ids) |-> NoOutcome] /\ set.open = k
    OBVIOUS
  <2> HIDE DEF set
  <2> QED BY <1>4, <2>5, <2>6 DEF Opened, Members
<1>7. set \in SourceSets
  BY <1>6 DEF Opened
<1> HIDE DEF set
<1>8. n = 0 /\ k = 0 <=> ids = <<>> /\ d.iters = <<>>
  <2>1. ids = <<>> <=> n = 0
    BY <1>4
  <2>2. d.iters = <<>> <=> k = 0
    <3>1. d.iters \in Seq(Iterators)
      BY DispatchableParts
    <3> QED BY <3>1
  <2> QED BY <2>1, <2>2
<1>9. /\ opened \in RunStates /\ opened.act = s.act /\ opened.queue = s.queue
      /\ opened.tracked = s.tracked /\ opened.bound = s.bound /\ opened.closed = s.closed
      /\ SameCounters(s, opened)
      /\ n = 0 /\ k = 0 => SameSets(s, opened)
      /\ n # 0 \/ k # 0 => /\ opened.sets = Append(s.sets, set)
                           /\ opened.sources = s.sources \o NewSources(s, a, d)
  <2>1. s.sets \in Seq(SourceSets) /\ s.sources \in Seq(Sources) /\ NewSources(s, a, d) \in Seq(Sources)
    BY RunStateParts, NewSourcesParts
  <2>2. Append(s.sets, set) \in Seq(SourceSets) /\ s.sources \o NewSources(s, a, d) \in Seq(Sources)
    BY <1>7, <2>1, AppendParts, ConcatParts
  <2>3. CASE ids = <<>> /\ d.iters = <<>>
    BY <1>8, <2>3 DEF SameSets, SameCounters
  <2>4. CASE ~(ids = <<>> /\ d.iters = <<>>)
    BY <1>8, <2>2, <2>4 DEF SameCounters, RunStates
  <2> QED BY <2>3, <2>4
<1> HIDE DEF opened
<1>10. /\ q \in RunStates /\ Adds(opened, q, n) /\ SameSets(opened, q) /\ SameCounters(opened, q)
       /\ q.bound = s.bound /\ q.closed = s.closed
       /\ \A i \in 1..n : q.act[Len(s.act) + i] = Branch(i)
  <2>1. /\ q \in RunStates /\ Adds(opened, q, Len(new)) /\ SameSets(opened, q) /\ SameCounters(opened, q)
        /\ q.bound = opened.bound /\ q.closed = opened.closed
        /\ \A i \in 1..Len(new) : q.act[Len(opened.act) + i] = new[i]
    BY <1>3, <1>9, EnqueueFields
  <2> HIDE DEF q, Branch, n
  <2> QED BY <1>3, <1>9, <2>1
<1> HIDE DEF q, Branch
<1> DEFINE bound == [t \in Joins |-> s.bound[t] \o [i \in 1..Named(d, t) |-> a]]
           closed == [t \in Joins |->
              IF t \in ToSet(Edges[contributed.act[a].node])
              THEN contributed.closed[t] \cup {[act |-> a, count |-> Named(d, t)]}
              ELSE contributed.closed[t]]
<1>11. bound \in [Joins -> Seq(Nat)]
  <2>1. ASSUME NEW t \in Joins
        PROVE  s.bound[t] \o [i \in 1..Named(d, t) |-> a] \in Seq(Nat)
    <3>1. Named(d, t) \in Nat /\ a \in Nat
      BY <1>2, NamedIsNat
    <3>2. [i \in 1..Named(d, t) |-> a] \in Seq(Nat)
      BY <3>1
    <3>3. s.bound[t] \in Seq(Nat)
      BY RunStateParts
    <3> QED BY <3>2, <3>3, ConcatParts
  <2> QED BY <2>1
<1>12. contributed = [q EXCEPT !.bound = bound]
  OBVIOUS
<1> HIDE DEF bound, contributed
<1>13. /\ contributed \in RunStates /\ contributed.bound = bound /\ contributed.closed = s.closed
       /\ contributed.act = q.act /\ contributed.queue = q.queue /\ contributed.tracked = q.tracked
       /\ SameSets(q, contributed) /\ SameCounters(q, contributed)
  BY <1>10, <1>11, <1>12 DEF RunStates, SameSets, SameCounters
<1>14. closed \in [Joins -> SUBSET [act : Nat, count : Nat]]
  <2>1. ASSUME NEW t \in Joins
        PROVE  s.closed[t] \in SUBSET [act : Nat, count : Nat] /\ [act |-> a, count |-> Named(d, t)] \in [act : Nat, count : Nat]
    <3>1. Named(d, t) \in Nat /\ a \in Nat
      BY <1>2, NamedIsNat
    <3>2. s.closed[t] \in SUBSET [act : Nat, count : Nat]
      BY DEF RunStates
    <3> QED BY <3>1, <3>2
  <2> QED BY <1>13, <2>1
<1>15. e = [contributed EXCEPT !.closed = closed]
  BY <1>1 DEF CloseExpectations
<1>16. \A t \in Joins : closed[t] \subseteq s.closed[t] \cup {[act |-> a, count |-> Named(d, t)]}
  BY <1>13
<1> HIDE DEF closed, e
<1>17. /\ e \in RunStates /\ e.closed = closed /\ e.bound = bound
       /\ e.act = q.act /\ e.queue = q.queue /\ e.tracked = q.tracked
       /\ SameSets(q, e) /\ SameCounters(q, e)
  BY <1>13, <1>14, <1>15 DEF RunStates, SameSets, SameCounters
<1>18. Adds(s, e, n) /\ SameCounters(s, e)
  BY <1>9, <1>10, <1>17 DEF Adds, SameCounters
<1>19. \A t \in Joins : e.bound[t] = s.bound[t] \o [i \in 1..Named(d, t) |-> a]
  BY <1>17 DEF bound
<1>20. /\ n = 0 /\ k = 0 => SameSets(s, e)
       /\ n # 0 \/ k # 0 => /\ e.sets = Append(s.sets, set)
                            /\ e.sources = s.sources \o NewSources(s, a, d)
  BY <1>9, <1>10, <1>17 DEF SameSets
<1>21. n # 0 \/ k # 0 =>
         /\ Len(e.sets) = Len(s.sets) + 1 /\ \A i \in 1..Len(s.sets) : e.sets[i] = s.sets[i]
         /\ Opened(e.sets[Len(s.sets) + 1], Len(s.act), n)
         /\ e.sets[Len(s.sets) + 1].open = k
  <2>1. s.sets \in Seq(SourceSets)
    BY RunStateParts
  <2>2. /\ Len(Append(s.sets, set)) = Len(s.sets) + 1
        /\ \A i \in 1..Len(s.sets) : Append(s.sets, set)[i] = s.sets[i]
        /\ Append(s.sets, set)[Len(s.sets) + 1] = set
    BY <1>7, <2>1, AppendParts
  <2> QED BY <1>6, <1>20, <2>2
<1>22. \A i \in 1..n : e.act[Len(s.act) + i] = Branch(i)
  BY <1>10, <1>17
<1> QED BY <1>16, <1>17, <1>18, <1>19, <1>20, <1>21, <1>22 DEF Routes, Branch, e

-----------------------------------------------------------------------------
(* Changes that add no activation *)

Phases == Over \cup {"ready", "running", "interrupted"}

LEMMA ExceptParts ==
  ASSUME NEW S, NEW q \in Seq(S), NEW i \in 1..Len(q), NEW x \in S
  PROVE  /\ [q EXCEPT ![i] = x] \in Seq(S) /\ Len([q EXCEPT ![i] = x]) = Len(q)
         /\ [q EXCEPT ![i] = x][i] = x
         /\ \A j \in 1..Len(q) : j # i => [q EXCEPT ![i] = x][j] = q[j]
BY ExceptSeq

LEMMA TailParts ==
  ASSUME NEW S, NEW q \in Seq(S), q # <<>>
  PROVE  /\ Tail(q) \in Seq(S) /\ Len(Tail(q)) = Len(q) - 1 /\ Len(q) \in Nat \ {0}
         /\ \A i \in 1..(Len(q) - 1) : Tail(q)[i] = q[i + 1]
         /\ Head(q) = q[1] /\ Head(q) \in S
BY HeadTailProperties

(* The activations of p are those of q, in other phases.                    *)
SameActivation(x, y) ==
  /\ x.node = y.node /\ x.epoch = y.epoch /\ x.set = y.set /\ x.input = y.input
  /\ x.source = y.source /\ x.item = y.item

Rephased(q, p) ==
  p \in Seq(Activations) /\ Len(p) = Len(q) /\ \A a \in 1..Len(q) : SameActivation(p[a], q[a])

LEMMA RephaseOne ==
  ASSUME NEW q \in Seq(Activations), NEW a \in 1..Len(q), NEW phase \in Phases
  PROVE  LET p == [q EXCEPT ![a].phase = phase]
         IN /\ Rephased(q, p) /\ p[a].phase = phase
            /\ \A c \in 1..Len(q) : c # a => p[c] = q[c]
<1> DEFINE x == [q[a] EXCEPT !.phase = phase]
           p == [q EXCEPT ![a] = x]
<1>1. \A c \in 1..Len(q) : q[c] \in Activations
  BY SeqParts
<1>2. x \in Activations /\ SameActivation(x, q[a]) /\ x.phase = phase
  BY <1>1 DEF Activations, SameActivation, Phases
<1> HIDE DEF x
<1>3. /\ p \in Seq(Activations) /\ Len(p) = Len(q) /\ p[a] = x
      /\ \A c \in 1..Len(q) : c # a => p[c] = q[c]
  BY <1>2, ExceptParts
<1> HIDE DEF p
<1>4. Rephased(q, p)
  BY <1>2, <1>3 DEF Rephased, SameActivation
<1>5. p = [q EXCEPT ![a].phase = phase]
  BY DEF p, x
<1> QED BY <1>2, <1>3, <1>4, <1>5

LEMMA RephaseMany ==
  ASSUME NEW q \in Seq(Activations), NEW T, NEW phase \in Phases
  PROVE  LET p == [a \in DOMAIN q |-> IF a \in T THEN [q[a] EXCEPT !.phase = phase] ELSE q[a]]
         IN /\ Rephased(q, p)
            /\ \A a \in 1..Len(q) : p[a].phase = IF a \in T THEN phase ELSE q[a].phase
<1> DEFINE x(a) == IF a \in T THEN [q[a] EXCEPT !.phase = phase] ELSE q[a]
           p == [a \in 1..Len(q) |-> x(a)]
<1>1. Len(q) \in Nat /\ DOMAIN q = 1..Len(q) /\ \A c \in 1..Len(q) : q[c] \in Activations
  BY SeqParts
<1>2. \A a \in 1..Len(q) : x(a) \in Activations /\ SameActivation(x(a), q[a])
                           /\ x(a).phase = IF a \in T THEN phase ELSE q[a].phase
  BY <1>1 DEF Activations, SameActivation, Phases
<1>3. p = [a \in DOMAIN q |-> IF a \in T THEN [q[a] EXCEPT !.phase = phase] ELSE q[a]]
  BY <1>1
<1> HIDE DEF x
<1>4. p \in [1..Len(q) -> Activations] /\ \A a \in 1..Len(q) : p[a] = x(a)
  BY <1>2
<1> HIDE DEF p
<1>5. p \in Seq(Activations) /\ Len(p) = Len(q)
  BY <1>1, <1>4
<1>6. Rephased(q, p)
  BY <1>2, <1>4, <1>5 DEF Rephased
<1> QED BY <1>2, <1>3, <1>4, <1>6

(* The sets of p have the branches of the sets of q.                        *)
SameBranches(q, p) ==
  /\ p \in Seq(SourceSets) /\ Len(p) = Len(q)
  /\ \A i \in 1..Len(q) :
       /\ p[i].branches = q[i].branches /\ DOMAIN p[i].out = DOMAIN q[i].out
       /\ \A k \in 1..Len(p[i].selected) : p[i].selected[k] \in Members(p[i])

SameOwners(q, p) ==
  p \in Seq(Sources) /\ Len(p) = Len(q) /\ \A i \in 1..Len(q) : p[i].set = q[i].set

(* e has the activations, sets and iterators of s.                          *)
Updated(s, e) ==
  /\ e \in RunStates /\ Rephased(s.act, e.act)
  /\ Refs(e.queue, Len(s.act)) /\ Refs(e.context, Len(s.act)) /\ e.tracked = s.tracked
  /\ SameBranches(s.sets, e.sets) /\ SameOwners(s.sources, e.sources)
  /\ e.bound = s.bound
  /\ \A t \in Joins : \A c \in e.closed[t] : c.act \in 1..Len(s.act)

LEMMA UpdateKeepsTypes ==
  ASSUME NEW s, WellTyped(s), NEW e, Updated(s, e)
  PROVE  WellTyped(e)
<1>1. s \in RunStates /\ e \in RunStates
  BY DEF WellTyped, Updated
<1>2. /\ Len(e.act) = Len(s.act) /\ Len(e.sets) = Len(s.sets) /\ Len(e.sources) = Len(s.sources)
      /\ \A a \in 1..Len(s.act) : SameActivation(e.act[a], s.act[a])
  BY DEF Updated, Rephased, SameBranches, SameOwners
<1>3. ActsKnown(e)
  BY <1>2 DEF WellTyped, Updated, ActsKnown, SameActivation
<1>4. JoinsKnown(e)
  BY <1>2 DEF WellTyped, Updated, JoinsKnown
<1>5. SetsKnown(e)
  <2>1. \A i \in 1..Len(s.sources) : e.sources[i].set \in 1..Len(s.sets)
    BY <1>2 DEF WellTyped, Updated, SetsKnown, SameOwners
  <2>2. ASSUME NEW i \in 1..Len(s.sets)
        PROVE  /\ Members(e.sets[i]) = {a \in 1..Len(e.act) : e.act[a].set = i}
               /\ DOMAIN e.sets[i].out = Members(e.sets[i])
               /\ \A k \in 1..Len(e.sets[i].selected) : e.sets[i].selected[k] \in Members(e.sets[i])
    <3>1. /\ e.sets[i].branches = s.sets[i].branches /\ DOMAIN e.sets[i].out = DOMAIN s.sets[i].out
          /\ \A k \in 1..Len(e.sets[i].selected) : e.sets[i].selected[k] \in Members(e.sets[i])
      BY DEF Updated, SameBranches
    <3>2. Members(e.sets[i]) = Members(s.sets[i])
      BY <3>1 DEF Members
    <3>3. Members(s.sets[i]) = {a \in 1..Len(s.act) : s.act[a].set = i} /\ DOMAIN s.sets[i].out = Members(s.sets[i])
      BY DEF WellTyped, SetsKnown
    <3>4. {a \in 1..Len(s.act) : s.act[a].set = i} = {a \in 1..Len(e.act) : e.act[a].set = i}
      BY <1>2 DEF SameActivation
    <3> QED BY <3>1, <3>2, <3>3, <3>4
  <2> QED BY <1>2, <2>1, <2>2 DEF SetsKnown
<1> QED BY <1>1, <1>3, <1>4, <1>5 DEF WellTyped

(* What a state refers to it may go on referring to.                        *)
LEMMA WellTypedParts ==
  ASSUME NEW s, WellTyped(s)
  PROVE  /\ s \in RunStates /\ Rephased(s.act, s.act) /\ SameBranches(s.sets, s.sets)
         /\ SameOwners(s.sources, s.sources)
         /\ Refs(s.queue, Len(s.act)) /\ Refs(s.context, Len(s.act))
         /\ \A t \in Joins : \A c \in s.closed[t] : c.act \in 1..Len(s.act)
         /\ \A a \in 1..Len(s.act) : s.act[a].set \in 0..Len(s.sets)
<1>1. s \in RunStates
  BY DEF WellTyped
<1>2. Rephased(s.act, s.act) /\ SameBranches(s.sets, s.sets) /\ SameOwners(s.sources, s.sources)
  BY <1>1, RunStateParts DEF Rephased, SameActivation, SameBranches, SameOwners, WellTyped, SetsKnown
<1>3. /\ Refs(s.queue, Len(s.act)) /\ Refs(s.context, Len(s.act))
      /\ \A t \in Joins : \A c \in s.closed[t] : c.act \in 1..Len(s.act)
  BY DEF WellTyped, ActsKnown, JoinsKnown
<1>4. \A a \in 1..Len(s.act) : s.act[a].set \in 0..Len(s.sets)
  <2> SUFFICES ASSUME NEW a \in 1..Len(s.act)
               PROVE  s.act[a].set \in 0..Len(s.sets)
    OBVIOUS
  <2>1. s.act[a].set \in Nat /\ Len(s.sets) \in Nat /\ s.act[a].set <= Len(s.sets)
    BY <1>1, RunStateParts DEF WellTyped, ActsKnown, Activations
  <2> QED BY <2>1
<1> QED BY <1>1, <1>2, <1>3, <1>4

(* A set with another outcome for one of its branches.                      *)
LEMMA OutcomeChange ==
  ASSUME NEW x \in SourceSets, NEW b \in DOMAIN x.out, NEW o \in Outcomes
  PROVE  LET y == [x EXCEPT !.out[b] = o]
         IN /\ y \in SourceSets /\ y.branches = x.branches /\ y.selected = x.selected
            /\ y.policy = x.policy /\ y.open = x.open /\ y.cause = x.cause
            /\ y.decided = x.decided /\ y.settled = x.settled /\ y.failed = x.failed
            /\ DOMAIN y.out = DOMAIN x.out /\ y.out[b] = o
            /\ \A c \in DOMAIN x.out : c # b => y.out[c] = x.out[c]
<1> DEFINE out == [x.out EXCEPT ![b] = o]
<1>1. x.out \in OutcomeMaps
  BY DEF SourceSets
<1>2. out \in OutcomeMaps /\ DOMAIN out = DOMAIN x.out /\ out[b] = o
      /\ \A c \in DOMAIN x.out : c # b => out[c] = x.out[c]
  <2>1. DOMAIN x.out \in SUBSET Nat /\ x.out \in [DOMAIN x.out -> Outcomes]
    BY <1>1, OutcomeMapIsFunction
  <2>2. out \in [DOMAIN x.out -> Outcomes]
    BY <2>1
  <2> QED BY <2>1, <2>2, OutcomeMapIsFunction
<1> HIDE DEF out
<1>3. [x EXCEPT !.out[b] = o] = [x EXCEPT !.out = out]
  BY DEF out
<1> QED BY <1>2, <1>3 DEF SourceSets

-----------------------------------------------------------------------------
(* The type invariant *)

Results ==
  [act : Nat, answer : {"none", "completed", "skipped", "retry", "failed", "interrupted", "canceled"},
   completion : Nat, dispatch : Dispatchable, base : Nat, context : Seq(Nat)]

ResultsTyped(q, n) ==
  q \in Seq(Results) /\ \A i \in 1..Len(q) : q[i].act \in 1..n /\ Refs(q[i].context, n)

(* Where the process is, and what it has at hand there.                     *)
ControlInv ==
  /\ status \in {"running", "interrupted", "completed", "failed"}
  /\ pc \in {"schedule", "start", "execute", "commit", "ended"}
  /\ processes \in 1..MaxProcesses
  /\ pc # "ended" => status = "running"
  /\ pc = "schedule" => batch = <<>> /\ todo = <<>> /\ touched = <<>>
  /\ pc = "ended" /\ status # "failed" => batch = <<>> /\ todo = <<>> /\ touched = <<>>
  /\ pc \in {"start", "execute"} => todo = <<>> /\ touched = <<>>
  /\ pc = "ended" /\ status \in {"running", "interrupted"} => processes < MaxProcesses
  /\ \A i \in 1..Len(batch) : batch[i].answer = "interrupted" => processes < MaxProcesses
  /\ pc \in {"start", "execute"} => Len(batch) <= Len(st.queue)
  /\ pc = "commit" => Len(todo) <= Len(st.queue)

(* The state of the process, its checkpoint and the results at hand are well *)
(* typed, and refer only to activations and sets that are there.            *)
TypeInv ==
  /\ WellTyped(st) /\ WellTyped(saved)
  /\ ControlInv
  /\ ResultsTyped(batch, Len(st.act)) /\ ResultsTyped(todo, Len(st.act))
  /\ \A i \in 1..Len(todo) : todo[i].answer \notin {"none", "interrupted"}
  /\ touched \in Seq(Nat) /\ Refs(touched, Len(st.sets))

LEMMA EmptyParts ==
  \A S : <<>> \in Seq(S) /\ Len(<<>>) = 0 /\ \A i \in 1..Len(<<>>) : FALSE
OBVIOUS

LEMMA ResultsStayTyped ==
  ASSUME NEW n \in Nat, NEW m \in Nat, n <= m
  PROVE  /\ \A q : ResultsTyped(q, n) => ResultsTyped(q, m)
         /\ \A q : ResultsTyped(q, n) /\ q # <<>> => ResultsTyped(Tail(q), n)
         /\ ResultsTyped(<<>>, n)
<1>1. ASSUME NEW q, ResultsTyped(q, n)
      PROVE  ResultsTyped(q, m)
  BY <1>1, RefsGrow DEF ResultsTyped
<1>2. ASSUME NEW q, ResultsTyped(q, n), q # <<>>
      PROVE  ResultsTyped(Tail(q), n)
  <2>1. /\ Tail(q) \in Seq(Results) /\ Len(Tail(q)) = Len(q) - 1 /\ Len(q) \in Nat \ {0}
        /\ \A i \in 1..(Len(q) - 1) : Tail(q)[i] = q[i + 1] /\ i + 1 \in 1..Len(q)
    BY <1>2, TailParts DEF ResultsTyped
  <2> QED BY <1>2, <2>1 DEF ResultsTyped
<1>3. ResultsTyped(<<>>, n)
  BY EmptyParts DEF ResultsTyped
<1> QED BY <1>1, <1>2, <1>3

LEMMA TypeParts ==
  ASSUME TypeInv
  PROVE  /\ st \in RunStates /\ saved \in RunStates
         /\ Len(st.act) \in Nat /\ Len(st.sets) \in Nat
         /\ batch \in Seq(Results) /\ todo \in Seq(Results) /\ touched \in Seq(Nat)
         /\ Len(batch) \in Nat /\ DOMAIN batch = 1..Len(batch)
         /\ \A i \in 1..Len(batch) : batch[i] \in Results /\ batch[i].act \in 1..Len(st.act)
                                     /\ Refs(batch[i].context, Len(st.act))
         /\ Len(todo) \in Nat /\ DOMAIN todo = 1..Len(todo)
         /\ \A i \in 1..Len(todo) : todo[i] \in Results /\ todo[i].act \in 1..Len(st.act)
                                    /\ Refs(todo[i].context, Len(st.act))
<1>1. st \in RunStates /\ saved \in RunStates
  BY DEF TypeInv, WellTyped
<1>2. Len(st.act) \in Nat /\ Len(st.sets) \in Nat
  BY <1>1, RunStateParts
<1>3. batch \in Seq(Results) /\ todo \in Seq(Results) /\ touched \in Seq(Nat)
  BY DEF TypeInv, ResultsTyped
<1>4. /\ \A i \in 1..Len(batch) : batch[i].act \in 1..Len(st.act) /\ Refs(batch[i].context, Len(st.act))
      /\ \A i \in 1..Len(todo) : todo[i].act \in 1..Len(st.act) /\ Refs(todo[i].context, Len(st.act))
  BY DEF TypeInv, ResultsTyped
<1> QED BY <1>1, <1>2, <1>3, <1>4, SeqParts

(* A step keeps the types that leaves the state well typed and takes        *)
(* nothing away that the results at hand refer to.                          *)
LEMMA StepKeepsTypes ==
  ASSUME TypeInv, WellTyped(st)', saved' = saved \/ saved' = st', ControlInv',
         Len(st.act) <= Len(st'.act), Len(st.sets) <= Len(st'.sets),
         batch' = batch \/ batch' = <<>>,
         todo' = todo \/ (todo # <<>> /\ todo' = Tail(todo)) \/ todo' = <<>>,
         touched' \in Seq(Nat) /\ Refs(touched', Len(st.sets))
  PROVE  TypeInv'
<1> DEFINE n == Len(st.act)  m == Len(st'.act)
<1>1. n \in Nat /\ m \in Nat /\ n <= m /\ Len(st.sets) \in Nat /\ Len(st'.sets) \in Nat
  BY RunStateParts DEF WellTyped, TypeInv
<1>2. ResultsTyped(batch, n) /\ ResultsTyped(todo, n)
  BY DEF TypeInv
<1> HIDE DEF n, m
<1>3. ResultsTyped(batch', m) /\ ResultsTyped(todo', m)
  BY <1>1, <1>2, ResultsStayTyped
<1>4. \A i \in 1..Len(todo') : todo'[i].answer \notin {"none", "interrupted"}
  <2>1. CASE todo' = todo
    BY <2>1 DEF TypeInv
  <2>2. CASE todo # <<>> /\ todo' = Tail(todo)
    <3>1. todo \in Seq(Results)
      BY DEF TypeInv, ResultsTyped
    <3>2. /\ Len(todo') = Len(todo) - 1 /\ Len(todo) \in Nat \ {0}
          /\ \A i \in 1..(Len(todo) - 1) : todo'[i] = todo[i + 1] /\ i + 1 \in 1..Len(todo)
      BY <2>2, <3>1, TailParts
    <3> QED BY <3>2 DEF TypeInv
  <2>3. CASE todo' = <<>>
    BY <2>3, EmptyParts
  <2> QED BY <2>1, <2>2, <2>3
<1>5. Refs(touched', Len(st'.sets))
  BY <1>1, RefsGrow
<1>6. WellTyped(saved')
  BY DEF TypeInv
<1> QED BY <1>3, <1>4, <1>5, <1>6 DEF TypeInv, n, m

(* The same, of a step that adds no activation and no set.                  *)
LEMMA UpdateStepKeepsTypes ==
  ASSUME TypeInv, Updated(st, st'), saved' = saved \/ saved' = st', ControlInv',
         batch' = batch \/ batch' = <<>>,
         todo' = todo \/ (todo # <<>> /\ todo' = Tail(todo)) \/ todo' = <<>>,
         touched' \in Seq(Nat) /\ Refs(touched', Len(st.sets))
  PROVE  TypeInv'
<1>1. WellTyped(st')
  BY UpdateKeepsTypes DEF TypeInv
<1>2. Len(st'.act) = Len(st.act) /\ Len(st'.sets) = Len(st.sets)
  BY DEF Updated, Rephased, SameBranches
<1>3. Len(st.act) \in Nat /\ Len(st.sets) \in Nat
  BY TypeParts
<1>4. Len(st.act) <= Len(st'.act) /\ Len(st.sets) <= Len(st'.sets)
  BY <1>2, <1>3
<1> QED BY <1>1, <1>4, StepKeepsTypes

LEMMA UpdatedIsReflexive ==
  ASSUME NEW s, WellTyped(s)
  PROVE  Updated(s, s)
BY WellTypedParts DEF Updated

(* A step that leaves the state alone, or goes back to the checkpoint.      *)
LEMMA TailTouched ==
  ASSUME TypeInv, touched # <<>>
  PROVE  Tail(touched) \in Seq(Nat) /\ Refs(Tail(touched), Len(st.sets))
         /\ Head(touched) \in 1..Len(st.sets)
<1>1. /\ Tail(touched) \in Seq(Nat) /\ Len(Tail(touched)) = Len(touched) - 1
      /\ Len(touched) \in Nat \ {0}
      /\ \A i \in 1..(Len(touched) - 1) : Tail(touched)[i] = touched[i + 1] /\ i + 1 \in 1..Len(touched)
      /\ Head(touched) = touched[1] /\ 1 \in 1..Len(touched)
  BY TailParts DEF TypeInv
<1>2. Refs(touched, Len(st.sets))
  BY DEF TypeInv
<1> QED BY <1>1, <1>2 DEF Refs

(* The end of a run by a failure, when the state was updated.               *)
LEMMA FailKeepsTypes ==
  ASSUME TypeInv, NEW s, Updated(st, s), NEW kind, NEW set, NEW cause, Fail(s, kind, set, cause)
  PROVE  TypeInv'
<1>1. /\ st' = s /\ saved' = s /\ status' = "failed" /\ pc' = "ended"
      /\ batch' = batch /\ todo' = todo /\ touched' = touched /\ processes' = processes
  BY DEF Fail
<1>2. ControlInv'
  BY <1>1 DEF TypeInv, ControlInv
<1>3. touched' \in Seq(Nat) /\ Refs(touched', Len(st.sets))
  BY <1>1 DEF TypeInv
<1> QED BY <1>1, <1>2, <1>3, UpdateStepKeepsTypes

LEMMA InitTypes ==
  ASSUME Init
  PROVE  TypeInv
<1> PICK entry \in Entries : st = Fresh(entry)
  BY DEF Init
<1> DEFINE one == NewActivation(entry, 1, 0, <<>>)
           acts == <<one>>
<1>1. one \in Activations /\ one.set = 0 /\ one.source = 0 /\ one.input = <<>>
  BY TopologyAssumption DEF NewActivation, Activations
<1> HIDE DEF one
<1>2. acts \in Seq(Activations) /\ Len(acts) = 1 /\ acts[1] = one
  BY <1>1
<1>3. <<1>> \in Seq(Nat) /\ Len(<<1>>) = 1 /\ <<1>>[1] = 1
  OBVIOUS
<1>4. /\ st.queue = <<1>> /\ st.act = acts /\ st.tracked = {1} /\ st.sets = <<>> /\ st.sources = <<>>
      /\ st.bound = [t \in Joins |-> <<>>] /\ st.closed = [t \in Joins |-> {}] /\ st.context = <<>>
  BY DEF Fresh, one
<1>5. st \in RunStates
  <2>1. /\ [t \in Joins |-> <<>>] \in [Joins -> Seq(Nat)]
        /\ [t \in Joins |-> {}] \in [Joins -> SUBSET [act : Nat, count : Nat]]
    BY EmptyParts
  <2> HIDE DEF acts
  <2> QED BY <1>2, <1>3, <2>1, EmptyParts DEF Fresh, RunStates, acts, one
<1> HIDE DEF acts
<1>6. WellTyped(st)
  <2>1. ActsKnown(st)
    <3>1. \A a \in 1..Len(st.act) : st.act[a] = one /\ Len(st.act) = 1
      <4>1. Len(st.act) = 1 /\ st.act[1] = one
        BY <1>2, <1>4
      <4> QED BY <4>1
    <3>2. Len(st.sets) = 0 /\ Len(st.sources) = 0 /\ Len(st.act) = 1
      BY <1>2, <1>4, EmptyParts
    <3>3. Refs(one.input, Len(st.act)) /\ Refs(st.context, Len(st.act))
      BY <1>1, <1>4, EmptyParts DEF Refs
    <3>4. Refs(st.queue, Len(st.act))
      BY <1>3, <1>4, <3>2 DEF Refs
    <3>5. st.tracked \subseteq 1..Len(st.act)
      BY <1>4, <3>2
    <3> QED BY <1>1, <3>1, <3>2, <3>3, <3>4, <3>5 DEF ActsKnown
  <2>2. JoinsKnown(st)
    BY <1>4, EmptyParts DEF JoinsKnown, Refs
  <2>3. SetsKnown(st)
    BY <1>4, EmptyParts DEF SetsKnown
  <2> QED BY <1>5, <2>1, <2>2, <2>3 DEF WellTyped
<1>7. ControlInv
  BY LimitsAssumption, EmptyParts DEF Init, ControlInv
<1>8. /\ saved = st /\ batch = <<>> /\ todo = <<>> /\ touched = <<>>
  BY DEF Init
<1> QED BY <1>6, <1>7, <1>8, EmptyParts DEF TypeInv, ResultsTyped, Refs

-----------------------------------------------------------------------------
(* Steps that leave the activations where they are *)

LEMMA StillTypes ==
  ASSUME TypeInv, st' = st, saved' = saved \/ saved' = st, ControlInv',
         batch' = batch \/ batch' = <<>>, todo' = todo,
         touched' \in Seq(Nat) /\ Refs(touched', Len(st.sets))
  PROVE  TypeInv'
<1>1. Updated(st, st')
  BY UpdatedIsReflexive DEF TypeInv
<1> QED BY <1>1, UpdateStepKeepsTypes

LEMMA FailStillTypes ==
  ASSUME TypeInv, NEW kind, NEW set, NEW cause, Fail(st, kind, set, cause)
  PROVE  TypeInv'
BY UpdatedIsReflexive, FailKeepsTypes DEF TypeInv

LEMMA BatchSizeParts ==
  ASSUME TypeInv, st.queue # <<>>, st.step <= MaxSteps
  PROVE  BatchSize(st) \in 1..Len(st.queue)
<1> DEFINE T == {MaxParallelism, Len(st.queue), MaxSteps - st.step + 1}
<1>1. st \in RunStates /\ Len(st.queue) \in Nat /\ st.step \in Nat /\ Len(st.queue) # 0
  BY TypeParts, RunStateParts
<1>2. MaxParallelism \in Nat /\ MaxSteps - st.step + 1 \in Nat
      /\ MaxParallelism # 0 /\ MaxSteps - st.step + 1 # 0
  BY <1>1, LimitsAssumption
<1>3. T \in SUBSET Nat /\ T # {} /\ Len(st.queue) \in T /\ 0 \notin T
  BY <1>1, <1>2
<1> HIDE DEF T
<1>4. Min(T) \in T /\ Min(T) <= Len(st.queue)
  BY <1>3, MinProperties
<1>5. Min(T) \in Nat /\ Min(T) # 0
  BY <1>3, <1>4
<1>6. Min(T) \in 1..Len(st.queue)
  BY <1>1, <1>4, <1>5
<1> QED BY <1>6 DEF BatchSize, T

(* nextBatch takes the head of the ready queue.                             *)
LEMMA NextBatchFields ==
  ASSUME TypeInv, NextBatch
  PROVE  /\ batch' \in Seq(Results) /\ Len(batch') \in 1..Len(st.queue)
         /\ \A i \in 1..Len(batch') :
              /\ batch'[i].act = st.queue[i] /\ batch'[i].answer = "none"
              /\ batch'[i].base = 0 /\ batch'[i].context = <<>>
         /\ st' = st /\ saved' = saved /\ status' = status /\ pc' = "start"
         /\ UNCHANGED <<todo, touched, processes>>
<1> DEFINE n == BatchSize(st)
           Result(i) == [act |-> st.queue[i], answer |-> "none", completion |-> 0,
                         dispatch |-> NoDispatch, base |-> 0, context |-> <<>>]
<1>1. n \in 1..Len(st.queue) /\ Len(st.queue) \in Nat
      /\ \A i \in 1..Len(st.queue) : st.queue[i] \in Nat
  <2>1. st.queue # <<>> /\ st.step <= MaxSteps
    BY DEF NextBatch
  <2>2. st.queue \in Seq(Nat)
    BY TypeParts, RunStateParts
  <2> QED BY <2>1, <2>2, BatchSizeParts, SeqParts
<1>2. \A i \in 1..n : Result(i) \in Results
  BY <1>1 DEF Results, Dispatchable
<1>3. batch' = [i \in 1..n |-> Result(i)]
  BY DEF NextBatch
<1>4. \A i \in 1..n : Result(i).act = st.queue[i] /\ Result(i).answer = "none"
                      /\ Result(i).base = 0 /\ Result(i).context = <<>>
  OBVIOUS
<1> HIDE DEF Result, n
<1>5. batch' \in [1..n -> Results] /\ n \in Nat
  BY <1>1, <1>2, <1>3
<1>6. batch' \in Seq(Results) /\ Len(batch') = n
  BY <1>5
<1>7. st' = st /\ saved' = saved /\ status' = status /\ pc' = "start"
      /\ UNCHANGED <<todo, touched, processes>>
  BY DEF NextBatch, Compute
<1> QED BY <1>1, <1>3, <1>4, <1>6, <1>7

LEMMA NextBatchTypes ==
  ASSUME TypeInv, NextBatch
  PROVE  TypeInv'
<1>1. /\ batch' \in Seq(Results) /\ Len(batch') \in 1..Len(st.queue)
      /\ \A i \in 1..Len(batch') :
           /\ batch'[i].act = st.queue[i] /\ batch'[i].answer = "none"
           /\ batch'[i].base = 0 /\ batch'[i].context = <<>>
      /\ st' = st /\ saved' = saved /\ status' = status /\ pc' = "start"
      /\ UNCHANGED <<todo, touched, processes>>
  BY NextBatchFields
<1>2. pc = "schedule"
  BY DEF NextBatch
<1>3. ResultsTyped(batch', Len(st'.act))
  <2>1. Refs(st.queue, Len(st.act)) /\ Len(st.queue) \in Nat
    BY TypeParts, RunStateParts, WellTypedParts DEF TypeInv
  <2>2. \A i \in 1..Len(batch') : i \in 1..Len(st.queue)
    BY <1>1, <2>1
  <2> QED BY <1>1, <2>1, <2>2, EmptyParts DEF ResultsTyped, Refs
<1>4. ControlInv'
  BY <1>1, <1>2 DEF TypeInv, ControlInv
<1> QED BY <1>1, <1>3, <1>4 DEF TypeInv

LEMMA StillStepsTypes ==
  ASSUME TypeInv
  PROVE  /\ Advance => TypeInv'
         /\ Complete => TypeInv'
         /\ StepsExceeded => TypeInv'
         /\ \A i : FailPull(i) => TypeInv'
         /\ \A s : LeaveSet(s) => TypeInv'
         /\ \A s : RefuseSet(s) => TypeInv'
         /\ \A r : FailContext(r) => TypeInv'
<1>0. touched \in Seq(Nat) /\ Refs(touched, Len(st.sets))
  BY DEF TypeInv
<1>1. ASSUME Advance PROVE TypeInv'
  <2>1. ControlInv'
    BY <1>1, EmptyParts DEF TypeInv, ControlInv, Advance, BatchDone, Compute
  <2> QED BY <1>0, <1>1, <2>1, StillTypes DEF Advance, Compute
<1>2. ASSUME Complete PROVE TypeInv'
  <2>1. ControlInv'
    BY <1>2 DEF TypeInv, ControlInv, Complete
  <2> QED BY <1>0, <1>2, <2>1, StillTypes DEF Complete
<1>3. ASSUME StepsExceeded PROVE TypeInv'
  BY <1>3, FailStillTypes DEF StepsExceeded
<1>4. ASSUME NEW i, FailPull(i) PROVE TypeInv'
  BY <1>4, FailStillTypes DEF FailPull
<1>5. ASSUME NEW s, LeaveSet(s) PROVE TypeInv'
  <2>1. touched # <<>>
    BY <1>5 DEF LeaveSet, Settling
  <2>2. touched' \in Seq(Nat) /\ Refs(touched', Len(st.sets))
    BY <1>5, <2>1, TailTouched DEF LeaveSet
  <2>3. ControlInv'
    BY <1>5 DEF TypeInv, ControlInv, LeaveSet, Settling, Compute
  <2> QED BY <1>5, <2>2, <2>3, StillTypes DEF LeaveSet, Compute
<1>6. ASSUME NEW s, RefuseSet(s) PROVE TypeInv'
  BY <1>6, FailStillTypes DEF RefuseSet
<1>7. ASSUME NEW r, FailContext(r) PROVE TypeInv'
  BY <1>7, FailStillTypes DEF FailContext
<1> QED BY <1>1, <1>2, <1>3, <1>4, <1>5, <1>6, <1>7

LEMMA CrashTypes ==
  ASSUME TypeInv, Crash
  PROVE  TypeInv'
<1>1. /\ st' = saved /\ saved' = saved /\ batch' = <<>> /\ todo' = <<>> /\ touched' = <<>>
      /\ pc' = "ended" /\ status' = status /\ processes' = processes
      /\ pc # "ended" /\ processes < MaxProcesses
  BY DEF Crash, Compute
<1>2. ControlInv'
  BY <1>1, EmptyParts DEF TypeInv, ControlInv
<1> QED BY <1>1, <1>2, EmptyParts DEF TypeInv, ResultsTyped, Refs

SameJoins(s, e) == e.tracked = s.tracked /\ e.bound = s.bound /\ e.closed = s.closed

(* e is s with activation a in another phase.                               *)
InPhaseNow(s, e, a, phase) ==
  /\ e \in RunStates /\ Rephased(s.act, e.act) /\ e.act[a].phase = phase
  /\ \A c \in 1..Len(s.act) : c # a => e.act[c] = s.act[c]
  /\ e.queue = s.queue /\ SameSets(s, e) /\ SameJoins(s, e) /\ SameCounters(s, e)

LEMMA RephasedFields ==
  ASSUME NEW s \in RunStates, NEW a \in 1..Len(s.act), NEW phase \in Phases
  PROVE  InPhaseNow(s, [s EXCEPT !.act[a].phase = phase], a, phase)
<1> DEFINE p == [s.act EXCEPT ![a].phase = phase]
           e == [s EXCEPT !.act = p]
<1>1. s.act \in Seq(Activations)
  BY RunStateParts
<1>2. Rephased(s.act, p) /\ p[a].phase = phase /\ \A c \in 1..Len(s.act) : c # a => p[c] = s.act[c]
  BY <1>1, RephaseOne
<1>3. e = [s EXCEPT !.act[a].phase = phase]
  OBVIOUS
<1> HIDE DEF p
<1>4. p \in Seq(Activations)
  BY <1>2 DEF Rephased
<1>5. /\ e \in RunStates /\ e.act = p /\ e.queue = s.queue
      /\ SameSets(s, e) /\ SameJoins(s, e) /\ SameCounters(s, e)
  BY <1>4 DEF RunStates, SameSets, SameJoins, SameCounters
<1> HIDE DEF e
<1>6. InPhaseNow(s, e, a, phase)
  BY <1>2, <1>5 DEF InPhaseNow
<1> QED BY <1>3, <1>6

LEMMA RephasedIsUpdated ==
  ASSUME NEW s, WellTyped(s), NEW a \in 1..Len(s.act), NEW phase \in Phases
  PROVE  Updated(s, [s EXCEPT !.act[a].phase = phase])
<1> DEFINE e == [s EXCEPT !.act[a].phase = phase]
<1>1. s \in RunStates
  BY WellTypedParts
<1>2. InPhaseNow(s, e, a, phase)
  BY <1>1, RephasedFields
<1> HIDE DEF e
<1>3. Updated(s, e)
  BY <1>2, WellTypedParts DEF Updated, InPhaseNow, SameSets, SameJoins, SameCounters
<1> QED BY <1>3 DEF e

(* What the start of an activation of the batch changes.                    *)
Started(i) ==
  /\ i \in 1..Len(batch) /\ st.act[batch[i].act].phase = "ready"
  /\ \A j \in 1..(i - 1) : st.act[batch[j].act].phase = "running"
  /\ st' = [st EXCEPT !.act[batch[i].act].phase = "running"] /\ saved' = st'
  /\ InPhaseNow(st, st', batch[i].act, "running")
  /\ pc = "start" /\ pc' = IF i = Len(batch) THEN "execute" ELSE pc
  /\ status' = status /\ UNCHANGED <<batch, todo, touched, processes>>

LEMMA StartActivationFields ==
  ASSUME TypeInv, StartActivation
  PROVE  \E i \in DOMAIN batch : Started(i)
<1> PICK i \in DOMAIN batch :
       /\ st.act[batch[i].act].phase = "ready"
       /\ \A j \in 1..(i - 1) : st.act[batch[j].act].phase = "running"
       /\ Checkpoint([st EXCEPT !.act[batch[i].act].phase = "running"])
       /\ pc' = IF i = Len(batch) THEN "execute" ELSE pc
  BY DEF StartActivation
<1>1. i \in 1..Len(batch) /\ batch[i].act \in 1..Len(st.act) /\ "running" \in Phases /\ st \in RunStates
  BY TypeParts DEF Phases
<1> DEFINE e == [st EXCEPT !.act[batch[i].act].phase = "running"]
<1>2. InPhaseNow(st, e, batch[i].act, "running")
  BY <1>1, RephasedFields
<1> HIDE DEF e
<1>3. st' = e /\ saved' = e
  BY DEF Checkpoint, e
<1>4. InPhaseNow(st, st', batch[i].act, "running") /\ saved' = st'
  BY <1>2, <1>3
<1>5. /\ st.act[batch[i].act].phase = "ready"
      /\ \A j \in 1..(i - 1) : st.act[batch[j].act].phase = "running"
      /\ st' = [st EXCEPT !.act[batch[i].act].phase = "running"]
      /\ pc' = IF i = Len(batch) THEN "execute" ELSE pc
  BY DEF Checkpoint
<1>6. pc = "start" /\ status' = status /\ UNCHANGED <<batch, todo, touched, processes>>
  BY DEF StartActivation, Checkpoint
<1>7. Started(i)
  BY <1>1, <1>4, <1>5, <1>6 DEF Started
<1> QED BY <1>7

LEMMA StartActivationTypes ==
  ASSUME TypeInv, StartActivation
  PROVE  TypeInv'
<1> PICK i \in DOMAIN batch : Started(i)
  BY StartActivationFields
<1>1. batch[i].act \in 1..Len(st.act) /\ "running" \in Phases
  BY TypeParts DEF Phases
<1>2. Updated(st, st') /\ saved' = st'
  BY <1>1, RephasedIsUpdated DEF TypeInv, Started
<1>3. pc = "start" /\ pc' \in {"start", "execute"} /\ batch' = batch /\ todo' = todo /\ touched' = touched
      /\ status' = status /\ processes' = processes /\ st'.queue = st.queue
  BY DEF Started, InPhaseNow
<1>4. ControlInv'
  BY <1>3 DEF TypeInv, ControlInv
<1>5. touched' \in Seq(Nat) /\ Refs(touched', Len(st.sets))
  BY <1>3 DEF TypeInv
<1> QED BY <1>2, <1>3, <1>4, <1>5, UpdateStepKeepsTypes

LEMMA FailStandaloneTypes ==
  ASSUME TypeInv, NEW r, r.act \in 1..Len(st.act), FailStandalone(r)
  PROVE  TypeInv'
<1> DEFINE phase == IF r.answer = "canceled" THEN "canceled" ELSE "failed"
           s == [st EXCEPT !.act[r.act].phase = phase]
<1>1. Fail(s, "node", 0, phase)
  BY DEF FailStandalone
<1>2. phase \in Phases
  BY DEF Phases, Over
<1> HIDE DEF phase
<1>3. Updated(st, s)
  BY <1>2, RephasedIsUpdated DEF TypeInv
<1> HIDE DEF s
<1> QED BY <1>1, <1>3, FailKeepsTypes

LEMMA FailBatchTypes ==
  ASSUME TypeInv, FailBatch
  PROVE  TypeInv'
<1> DEFINE lone(answer) == {i \in Answered(answer) : SetOf(batch[i]) = 0}
           failed == IF lone("failed") # {} THEN lone("failed") ELSE lone("canceled")
<1>1. failed # {} /\ FailStandalone(batch[Min(failed)])
  BY DEF FailBatch
<1>2. failed \in SUBSET DOMAIN batch
  BY DEF Answered
<1> HIDE DEF failed
<1>3. failed \in SUBSET Nat /\ DOMAIN batch = 1..Len(batch)
  BY <1>2, TypeParts
<1>4. Min(failed) \in 1..Len(batch)
  BY <1>1, <1>2, <1>3, MinProperties
<1>5. batch[Min(failed)].act \in 1..Len(st.act)
  BY <1>4, TypeParts
<1> QED BY <1>1, <1>5, FailStandaloneTypes

LEMMA HeadTodo ==
  ASSUME TypeInv, NEW r, Committing(r)
  PROVE  /\ r \in Results /\ r.act \in 1..Len(st.act) /\ Refs(r.context, Len(st.act))
         /\ r.answer \in {"completed", "skipped", "retry", "failed", "canceled"}
         /\ todo # <<>> /\ r = todo[1] /\ 1 \in 1..Len(todo) /\ pc = "commit"
         /\ r.dispatch \in Dispatchable /\ r.base \in Nat /\ r.context \in Seq(Nat)
         /\ r.completion \in Nat
<1>1. todo # <<>> /\ r = todo[1] /\ Len(todo) \in Nat \ {0} /\ pc = "commit"
  BY TypeParts, TailParts DEF Committing
<1>2. 1 \in 1..Len(todo)
  BY <1>1
<1>3. r \in Results /\ r.act \in 1..Len(st.act) /\ Refs(r.context, Len(st.act))
  BY <1>1, <1>2, TypeParts
<1>4. r.answer \notin {"none", "interrupted"}
  BY <1>1, <1>2 DEF TypeInv
<1> QED BY <1>1, <1>2, <1>3, <1>4 DEF Results

LEMMA FailCommitTypes ==
  ASSUME TypeInv, NEW r, FailCommit(r)
  PROVE  TypeInv'
BY HeadTodo, FailStandaloneTypes DEF FailCommit

-----------------------------------------------------------------------------
(* Results *)

(* e is s at another time of the clock.                                      *)
OnlyTicks(s, e) ==
  /\ e \in RunStates /\ e.act = s.act /\ e.queue = s.queue /\ e.context = s.context
  /\ e.revision = s.revision /\ e.step = s.step /\ SameSets(s, e) /\ SameJoins(s, e)

LEMMA ClockFields ==
  ASSUME NEW s \in RunStates
  PROVE  OnlyTicks(s, [s EXCEPT !.clock = @ + 1])
<1> DEFINE tick == s.clock + 1
           x == [s EXCEPT !.clock = tick]
<1>1. tick \in Nat /\ x = [s EXCEPT !.clock = @ + 1]
  BY RunStateParts
<1> HIDE DEF tick
<1>2. OnlyTicks(s, x)
  BY <1>1 DEF RunStates, OnlyTicks, SameSets, SameJoins
<1> QED BY <1>1, <1>2

(* What a node that returns changes.                                        *)
Returned(i) ==
  /\ i \in 1..Len(batch) /\ batch' \in Seq(Results) /\ Len(batch') = Len(batch)
  /\ \A j \in 1..Len(batch) : j # i => batch'[j] = batch[j]
  /\ batch'[i].act = batch[i].act
  /\ batch[i].answer = "none" /\ batch'[i].answer # "none"
  /\ batch'[i].answer = "canceled" => GroupCanceled(batch[i])
  /\ batch'[i].base = 0 => batch'[i].context \in {<<>>, Append(st.context, batch[i].act)}
  /\ batch'[i].answer = "interrupted" => processes < MaxProcesses
  /\ batch'[i].answer = "completed" => batch'[i].dispatch \in Dispatches[st.act[batch[i].act].node]
  /\ batch'[i].base # 0 => /\ batch'[i].base = st.revision
                           /\ batch'[i].context = Append(st.context, batch[i].act)
  /\ st' = [st EXCEPT !.clock = @ + 1] /\ saved' = saved /\ status' = status /\ pc = "execute"
  /\ UNCHANGED <<pc, todo, touched, processes>>

LEMMA ReturnFields ==
  ASSUME TypeInv, NEW i \in DOMAIN batch, Return(i)
  PROVE  Returned(i)
<1> DEFINE node == st.act[batch[i].act].node
<1>1. PICK answer \in Answers[node] \cup IF GroupCanceled(batch[i]) THEN {"canceled"} ELSE {} :
       /\ answer = "interrupted" => processes < MaxProcesses
       /\ \E d \in IF answer = "completed" THEN Dispatches[node] ELSE {NoDispatch},
             sets \in MaySet(node, answer) :
            batch' = [batch EXCEPT ![i].answer = answer, ![i].dispatch = d,
                                   ![i].completion = st.clock + 1,
                                   ![i].base = IF sets THEN st.revision ELSE 0,
                                   ![i].context = IF sets THEN Append(st.context, batch[i].act)
                                                          ELSE <<>>]
  BY DEF Return
<1>2. PICK d \in IF answer = "completed" THEN Dispatches[node] ELSE {NoDispatch},
             sets \in MaySet(node, answer) :
            batch' = [batch EXCEPT ![i].answer = answer, ![i].dispatch = d,
                                   ![i].completion = st.clock + 1,
                                   ![i].base = IF sets THEN st.revision ELSE 0,
                                   ![i].context = IF sets THEN Append(st.context, batch[i].act)
                                                          ELSE <<>>]
  BY <1>1
<1>3. /\ batch \in Seq(Results) /\ i \in 1..Len(batch) /\ batch[i] \in Results
      /\ batch[i].act \in 1..Len(st.act)
  BY TypeParts
<1>4. node \in Nodes
  BY <1>3, TypeParts, RunStateParts DEF Activations
<1>5. answer \in {"completed", "skipped", "retry", "failed", "interrupted", "canceled"}
  BY <1>1, <1>4, TopologyAssumption
<1>6. d \in Dispatchable /\ (answer = "completed" => d \in Dispatches[node])
  BY <1>2, <1>4 DEF Dispatchable
<1>7. st.clock \in Nat /\ st.revision \in Nat /\ st.context \in Seq(Nat)
  BY TypeParts, RunStateParts
<1>8. Append(st.context, batch[i].act) \in Seq(Nat)
  BY <1>3, <1>7, AppendParts
<1> DEFINE base == IF sets THEN st.revision ELSE 0
           context == IF sets THEN Append(st.context, batch[i].act) ELSE <<>>
           r == [batch[i] EXCEPT !.answer = answer, !.dispatch = d, !.completion = st.clock + 1,
                                 !.base = base, !.context = context]
<1>9. base \in Nat /\ context \in Seq(Nat)
  BY <1>7, <1>8
<1>10. /\ base # 0 => base = st.revision /\ context = Append(st.context, batch[i].act)
       /\ context \in {<<>>, Append(st.context, batch[i].act)}
  OBVIOUS
<1>11. batch' = [batch EXCEPT ![i] = r]
  BY <1>2, <1>3
<1> HIDE DEF base, context
<1>14. /\ r \in Results /\ r.act = batch[i].act /\ r.answer = answer /\ r.dispatch = d
       /\ r.base = base /\ r.context = context
  <2> DEFINE tick == st.clock + 1
             x == [batch[i] EXCEPT !.answer = answer, !.dispatch = d, !.completion = tick,
                                   !.base = base, !.context = context]
  <2>1. r = x /\ tick \in Nat
    BY <1>7
  <2> HIDE DEF tick, r
  <2>2. /\ x \in Results /\ x.act = batch[i].act /\ x.answer = answer /\ x.dispatch = d
        /\ x.base = base /\ x.context = context
    BY <1>3, <1>5, <1>6, <1>9, <2>1 DEF Results
  <2> QED BY <2>1, <2>2
<1> HIDE DEF r
<1>15. /\ batch' \in Seq(Results) /\ Len(batch') = Len(batch) /\ batch'[i] = r
       /\ \A j \in 1..Len(batch) : j # i => batch'[j] = batch[j]
  BY <1>3, <1>11, <1>14, ExceptParts
<1>16. st' = [st EXCEPT !.clock = @ + 1] /\ saved' = saved /\ status' = status /\ pc = "execute"
       /\ UNCHANGED <<pc, todo, touched, processes>>
  BY DEF Return, Compute
<1>17. batch[i].answer = "none" /\ (answer = "canceled" => GroupCanceled(batch[i]))
  <2>1. "canceled" \notin Answers[node]
    BY <1>4, TopologyAssumption
  <2> QED BY <1>1, <2>1 DEF Return
<1> QED BY <1>1, <1>3, <1>5, <1>6, <1>10, <1>14, <1>15, <1>16, <1>17 DEF Returned

LEMMA SameActsIsUpdated ==
  ASSUME NEW s, WellTyped(s), NEW e \in RunStates, e.act = s.act, Refs(e.queue, Len(s.act)),
         Refs(e.context, Len(s.act)), e.tracked = s.tracked, SameSets(s, e), e.bound = s.bound,
         e.closed = s.closed
  PROVE  Updated(s, e)
BY WellTypedParts DEF Updated, SameSets

LEMMA ReturnTypes ==
  ASSUME TypeInv, NEW i \in DOMAIN batch, Return(i)
  PROVE  TypeInv'
<1>1. Returned(i)
  BY ReturnFields
<1>2. pc = "execute" /\ pc' = "execute" /\ todo' = todo /\ touched' = touched /\ saved' = saved
      /\ status' = status /\ processes' = processes
  BY <1>1 DEF Return, Returned
<1> DEFINE e == [st EXCEPT !.clock = @ + 1]
<1>3. Updated(st, e) /\ Len(e.act) = Len(st.act) /\ Len(e.sets) = Len(st.sets) /\ e.queue = st.queue
  <2>1. st \in RunStates /\ st.clock \in Nat
    BY TypeParts, RunStateParts
  <2>2. OnlyTicks(st, e)
    BY <2>1, ClockFields
  <2> HIDE DEF e
  <2> QED BY <2>2, WellTypedParts, SameActsIsUpdated DEF TypeInv, OnlyTicks, SameSets, SameJoins
<1>4. WellTyped(st)'
  BY <1>1, <1>3, UpdateKeepsTypes DEF TypeInv, Returned
<1> HIDE DEF e
<1>5. Len(st'.act) = Len(st.act) /\ Len(st'.sets) = Len(st.sets) /\ st'.queue = st.queue
  BY <1>1, <1>3 DEF Returned, e
<1>6. ResultsTyped(batch', Len(st.act))
  <2>1. Refs(batch'[i].context, Len(st.act)) /\ batch'[i].act \in 1..Len(st.act)
    <3>1. batch[i].act \in 1..Len(st.act) /\ Refs(st.context, Len(st.act)) /\ st.context \in Seq(Nat)
          /\ Refs(batch[i].context, Len(st.act)) /\ batch[i].act \in Nat
      BY TypeParts, RunStateParts, WellTypedParts DEF TypeInv, Results
    <3>2. Refs(Append(st.context, batch[i].act), Len(st.act))
      <4>1. /\ Len(Append(st.context, batch[i].act)) = Len(st.context) + 1 /\ Len(st.context) \in Nat
            /\ \A j \in 1..Len(st.context) : Append(st.context, batch[i].act)[j] = st.context[j]
            /\ Append(st.context, batch[i].act)[Len(st.context) + 1] = batch[i].act
        BY <3>1, AppendParts, SeqParts
      <4>2. \A j \in 1..(Len(st.context) + 1) : j \in 1..Len(st.context) \/ j = Len(st.context) + 1
        BY <4>1
      <4> QED BY <3>1, <4>1, <4>2 DEF Refs
    <3> QED BY <1>1, <3>1, <3>2, EmptyParts DEF Returned, Refs
  <2> QED BY <1>1, <2>1, TypeParts DEF Returned, ResultsTyped
<1>7. ControlInv'
  <2>1. \A j \in 1..Len(batch') : batch'[j].answer = "interrupted" => processes < MaxProcesses
    BY <1>1 DEF Returned, TypeInv, ControlInv
  <2>2. Len(batch') = Len(batch) /\ st'.queue = st.queue
    BY <1>1, <1>5 DEF Returned
  <2> QED BY <1>2, <2>1, <2>2 DEF TypeInv, ControlInv
<1> QED BY <1>2, <1>4, <1>5, <1>6, <1>7 DEF TypeInv

-----------------------------------------------------------------------------
(* Committing the results of a batch *)

LEMMA AtElements ==
  ASSUME NEW S, NEW q \in Seq(S), NEW P \in SUBSET DOMAIN q
  PROVE  /\ At(q, P) \in Seq(S) /\ Len(At(q, P)) \in Nat
         /\ \A k \in 1..Len(At(q, P)) : \E i \in P : At(q, P)[k] = q[i]
         /\ \A i \in P : \E k \in 1..Len(At(q, P)) : At(q, P)[k] = q[i]
<1>1. PICK p \in Seq(P) :
         /\ Len(p) = Cardinality(P)
         /\ At(q, P) = [k \in DOMAIN p |-> q[p[k]]]
         /\ \A x \in P : \E i \in DOMAIN p : p[i] = x
  BY AtProperties
<1>2. At(q, P) \in Seq(S) /\ Len(At(q, P)) = Cardinality(P)
  BY AtProperties
<1>3. DOMAIN p = 1..Len(p) /\ Len(p) \in Nat /\ \A k \in DOMAIN p : p[k] \in P
  BY <1>1, SeqParts
<1> QED BY <1>1, <1>2, <1>3

SubSeqTo(q, n) == SubSeq(q, n + 1, Len(q))

LEMMA SubSeqToParts ==
  ASSUME NEW S, NEW q \in Seq(S), NEW n \in 0..Len(q)
  PROVE  /\ SubSeqTo(q, n) \in Seq(S) /\ Len(SubSeqTo(q, n)) = Len(q) - n
         /\ \A i \in 1..(Len(q) - n) : SubSeqTo(q, n)[i] = q[n + i] /\ n + i \in 1..Len(q)
<1>1. Len(q) \in Nat /\ n \in Nat /\ n <= Len(q) /\ \A i \in 1..Len(q) : q[i] \in S
  BY SeqParts
<1> DEFINE l == Len(q)
           m == n + 1
<1>2. SubSeq(q, m, l) = [i \in 1..(l - m + 1) |-> q[i + m - 1]]
  OBVIOUS
<1>3. l \in Nat /\ m \in Nat /\ l - m + 1 = l - n /\ l - n \in Nat
      /\ \A i \in 1..(l - n) : i + m - 1 = n + i /\ n + i \in 1..l
  BY <1>1
<1> HIDE DEF l
<1>4. SubSeq(q, m, l) = [i \in 1..(l - n) |-> q[n + i]]
  BY <1>2, <1>3
<1>5. SubSeq(q, m, l) \in [1..(l - n) -> S]
  BY <1>1, <1>3, <1>4 DEF l
<1>6. SubSeq(q, m, l) \in Seq(S) /\ Len(SubSeq(q, m, l)) = l - n
  <2> DEFINE k == l - n
             f == SubSeq(q, m, l)
  <2>1. k \in Nat /\ f \in [1..k -> S]
    BY <1>3, <1>5
  <2> HIDE DEF k, f
  <2>2. f \in Seq(S) /\ Len(f) = k
    BY <2>1
  <2> QED BY <2>2 DEF k, f
<1> QED BY <1>3, <1>4, <1>6 DEF l, SubSeqTo

LEMMA ConcatRefs ==
  ASSUME NEW n, NEW q \in Seq(Nat), NEW r \in Seq(Nat), Refs(q, n), Refs(r, n)
  PROVE  q \o r \in Seq(Nat) /\ Refs(q \o r, n)
<1>1. /\ q \o r \in Seq(Nat) /\ Len(q \o r) = Len(q) + Len(r)
      /\ \A i \in 1..Len(q) : (q \o r)[i] = q[i]
      /\ \A i \in 1..Len(r) : (q \o r)[Len(q) + i] = r[i]
      /\ Len(q) \in Nat /\ Len(r) \in Nat
  BY ConcatParts, SeqParts
<1> DEFINE l == Len(q)  m == Len(r)
<1>2. ASSUME NEW i \in 1..(l + m)
      PROVE  i \in 1..l \/ \E j \in 1..m : i = l + j
  <2>1. l \in Nat /\ m \in Nat
    BY <1>1
  <2> HIDE DEF l, m
  <2>2. CASE i > l
    <3>1. i - l \in 1..m /\ i = l + (i - l)
      BY <2>1, <2>2
    <3> QED BY <3>1
  <2> QED BY <2>1, <2>2
<1> QED BY <1>1, <1>2 DEF Refs

(* advanceBatch: the results that are committed, and those of the           *)
(* interrupted activations, which stay behind them in the queue.            *)
Kept == At(batch, DOMAIN batch \ Answered("interrupted"))

Gone == At(batch, Answered("interrupted"))

Ids(results) == [i \in DOMAIN results |-> results[i].act]

LEMMA IdsParts ==
  ASSUME NEW q \in Seq(Results)
  PROVE  Ids(q) \in Seq(Nat) /\ Len(Ids(q)) = Len(q) /\ Len(q) \in Nat
         /\ \A i \in 1..Len(q) : Ids(q)[i] = q[i].act
<1>1. Len(q) \in Nat /\ DOMAIN q = 1..Len(q) /\ \A i \in 1..Len(q) : q[i].act \in Nat
  <2>1. Len(q) \in Nat /\ DOMAIN q = 1..Len(q) /\ \A i \in 1..Len(q) : q[i] \in Results
    BY SeqParts
  <2>2. \A r \in Results : r.act \in Nat
    BY DEF Results
  <2> QED BY <2>1, <2>2
<1>2. Ids(q) = [i \in 1..Len(q) |-> q[i].act]
  BY <1>1 DEF Ids
<1>3. Ids(q) \in [1..Len(q) -> Nat]
  BY <1>1, <1>2
<1> QED BY <1>1, <1>2, <1>3

LEMMA KeptAndGone ==
  ASSUME TypeInv, AllReturned
  PROVE  /\ Kept \in Seq(Results) /\ Gone \in Seq(Results)
         /\ \A k \in 1..Len(Kept) : \E i \in 1..Len(batch) :
              Kept[k] = batch[i] /\ batch[i].answer \notin {"none", "interrupted"}
         /\ \A k \in 1..Len(Gone) : \E i \in 1..Len(batch) :
              Gone[k] = batch[i] /\ batch[i].answer = "interrupted"
<1>1. batch \in Seq(Results) /\ DOMAIN batch = 1..Len(batch)
  BY TypeParts
<1>2. Answered("interrupted") \in SUBSET DOMAIN batch
  BY DEF Answered
<1>3. \A i \in DOMAIN batch : batch[i].answer # "none"
  BY DEF AllReturned, Answered
<1>4. /\ Kept \in Seq(Results)
      /\ \A k \in 1..Len(Kept) : \E i \in DOMAIN batch \ Answered("interrupted") : Kept[k] = batch[i]
  <2> DEFINE P == DOMAIN batch \ Answered("interrupted")
  <2>1. P \in SUBSET DOMAIN batch
    OBVIOUS
  <2> HIDE DEF P
  <2>2. At(batch, P) \in Seq(Results) /\ \A k \in 1..Len(At(batch, P)) : \E i \in P : At(batch, P)[k] = batch[i]
    BY <1>1, <2>1, AtElements
  <2> QED BY <2>2 DEF Kept, P
<1>5. /\ Gone \in Seq(Results)
      /\ \A k \in 1..Len(Gone) : \E i \in Answered("interrupted") : Gone[k] = batch[i]
  BY <1>1, <1>2, AtElements DEF Gone
<1> QED BY <1>1, <1>3, <1>4, <1>5 DEF Answered

Accepted ==
  /\ st' = [st EXCEPT !.queue = Ids(Kept) \o Ids(Gone) \o SubSeq(st.queue, Len(batch) + 1, Len(st.queue))]
  /\ todo' = Kept /\ pc = "execute" /\ pc' = "commit" /\ saved' = saved /\ status' = status
  /\ Answered("interrupted") = {} =>
       {i \in Answered("failed") \cup Answered("canceled") : SetOf(batch[i]) = 0} = {}
  /\ UNCHANGED <<batch, touched, processes>>

LEMMA AcceptBatchFields ==
  ASSUME AcceptBatch
  PROVE  Accepted
BY DEF AcceptBatch, Accepted, AllReturned, Compute, Reordered, Kept, Gone, Ids

(* The results at hand are of activations at the head of the queue.         *)
LEMMA AcceptBatchTypes ==
  ASSUME TypeInv, AcceptBatch
  PROVE  TypeInv'
<1> DEFINE rest == SubSeq(st.queue, Len(batch) + 1, Len(st.queue))
           q == Ids(Kept) \o Ids(Gone) \o rest
<1>1. Accepted /\ AllReturned
  BY AcceptBatchFields DEF AcceptBatch
<1>2. /\ st.queue \in Seq(Nat) /\ Refs(st.queue, Len(st.act)) /\ Len(st.queue) \in Nat /\ Len(batch) \in Nat
  BY TypeParts, RunStateParts, WellTypedParts DEF TypeInv
<1>3. rest \in Seq(Nat) /\ Refs(rest, Len(st.act))
  <2>1. Len(batch) \in 0..Len(st.queue)
    <3>1. Len(batch) <= Len(st.queue)
      BY <1>1 DEF TypeInv, ControlInv, Accepted
    <3> QED BY <1>2, <3>1
  <2>2. /\ rest \in Seq(Nat) /\ Len(rest) = Len(st.queue) - Len(batch)
        /\ \A i \in 1..(Len(st.queue) - Len(batch)) :
             rest[i] = st.queue[Len(batch) + i] /\ Len(batch) + i \in 1..Len(st.queue)
    BY <1>2, <2>1, SubSeqToParts DEF SubSeqTo
  <2> QED BY <1>2, <2>2 DEF Refs
<1>4. /\ Ids(Kept) \in Seq(Nat) /\ Refs(Ids(Kept), Len(st.act))
      /\ Ids(Gone) \in Seq(Nat) /\ Refs(Ids(Gone), Len(st.act))
  <2>1. \A i \in 1..Len(batch) : batch[i].act \in 1..Len(st.act)
    BY TypeParts
  <2>2. \A k \in 1..Len(Kept) : Kept[k].act \in 1..Len(st.act)
    BY <1>1, <2>1, KeptAndGone
  <2>3. \A k \in 1..Len(Gone) : Gone[k].act \in 1..Len(st.act)
    BY <1>1, <2>1, KeptAndGone
  <2>4. Kept \in Seq(Results) /\ Gone \in Seq(Results)
    BY <1>1, KeptAndGone
  <2> QED BY <2>2, <2>3, <2>4, IdsParts DEF Refs
<1>5. q \in Seq(Nat) /\ Refs(q, Len(st.act))
  BY <1>3, <1>4, ConcatRefs
<1>6. st' = [st EXCEPT !.queue = q]
  BY <1>1 DEF Accepted
<1> HIDE DEF q, rest
<1>7. Updated(st, st')
  <2>1. st \in RunStates
    BY TypeParts
  <2>2. /\ st' \in RunStates /\ st'.act = st.act /\ st'.queue = q /\ st'.context = st.context
        /\ st'.tracked = st.tracked /\ SameSets(st, st') /\ st'.bound = st.bound /\ st'.closed = st.closed
    BY <1>5, <1>6, <2>1 DEF RunStates, SameSets
  <2> QED BY <1>5, <2>2, WellTypedParts, SameActsIsUpdated DEF TypeInv
<1>8. WellTyped(st)' /\ Len(st'.act) = Len(st.act) /\ Len(st'.sets) = Len(st.sets)
  BY <1>7, UpdateKeepsTypes DEF TypeInv, Updated, Rephased, SameBranches
<1>9. ControlInv'
  <2>1. Len(todo') <= Len(st'.queue)
    <3> DEFINE k == Len(Ids(Kept))  g == Len(Ids(Gone))  l == Len(rest)
    <3>1. /\ k \in Nat /\ g \in Nat /\ l \in Nat /\ Len(todo') = k
          /\ Len(q) = k + g + l
      <4>1. Kept \in Seq(Results)
        BY <1>1, KeptAndGone
      <4>2. /\ Len(Ids(Kept)) \in Nat /\ Len(Ids(Gone)) \in Nat /\ Len(rest) \in Nat
            /\ Ids(Kept) \o Ids(Gone) \in Seq(Nat)
            /\ Len(Ids(Kept) \o Ids(Gone)) = Len(Ids(Kept)) + Len(Ids(Gone))
        BY <1>3, <1>4, SeqParts, ConcatParts
      <4>3. Len(q) = Len(Ids(Kept) \o Ids(Gone)) + Len(rest)
        BY <1>3, <4>2, ConcatParts DEF q
      <4> QED BY <1>1, <4>1, <4>2, <4>3, IdsParts DEF Accepted
    <3> HIDE DEF k, g, l
    <3>2. Len(todo') <= Len(q)
      BY <3>1
    <3>3. st'.queue = q
      BY <1>5, <1>6, TypeParts DEF RunStates
    <3> QED BY <3>2, <3>3
  <2> QED BY <1>1, <1>8, <2>1 DEF Accepted, TypeInv, ControlInv
<1>10. ResultsTyped(todo', Len(st.act)) /\ \A i \in 1..Len(todo') : todo'[i].answer \notin {"none", "interrupted"}
  <2>1. \A i \in 1..Len(batch) : batch[i].act \in 1..Len(st.act) /\ Refs(batch[i].context, Len(st.act))
    BY TypeParts
  <2> QED BY <1>1, <2>1, KeptAndGone DEF Accepted, ResultsTyped
<1>11. ResultsTyped(batch', Len(st.act)) /\ touched' = touched /\ saved' = saved
  BY <1>1 DEF Accepted, TypeInv
<1> QED BY <1>8, <1>9, <1>10, <1>11 DEF TypeInv

(* e is s with the result of activation a at the head of the queue committed *)
(* to it.                                                                   *)
Done(s, e, a, phase) ==
  /\ e \in RunStates /\ Rephased(s.act, e.act) /\ e.act[a].phase = phase
  /\ \A c \in 1..Len(s.act) : c # a => e.act[c] = s.act[c]
  /\ s.queue # <<>> /\ e.queue = Tail(s.queue) /\ SameSets(s, e) /\ SameJoins(s, e)
  /\ e.clock = s.clock /\ e.step = s.step

LEMMA FinishedFields ==
  ASSUME NEW s \in RunStates, s.queue # <<>>, NEW a \in 1..Len(s.act), NEW phase \in Phases
  PROVE  Done(s, Finished(s, a, phase), a, phase) /\ SameCounters(s, Finished(s, a, phase))
<1> DEFINE p == [s.act EXCEPT ![a].phase = phase]
           q == Tail(s.queue)
           e == [s EXCEPT !.queue = q, !.act = p]
<1>1. s.act \in Seq(Activations) /\ s.queue \in Seq(Nat)
  BY RunStateParts
<1>2. Rephased(s.act, p) /\ p[a].phase = phase /\ \A c \in 1..Len(s.act) : c # a => p[c] = s.act[c]
  BY <1>1, RephaseOne
<1>3. q \in Seq(Nat)
  BY <1>1, TailParts
<1>4. e = Finished(s, a, phase)
  BY DEF Finished
<1> HIDE DEF p, q
<1>5. p \in Seq(Activations)
  BY <1>2 DEF Rephased
<1>6. /\ e \in RunStates /\ e.act = p /\ e.queue = q
      /\ SameSets(s, e) /\ SameJoins(s, e) /\ SameCounters(s, e)
  BY <1>3, <1>5 DEF RunStates, SameSets, SameJoins, SameCounters
<1> HIDE DEF e
<1>7. Done(s, e, a, phase)
  BY <1>2, <1>6 DEF Done, q, SameCounters
<1> QED BY <1>4, <1>6, <1>7

LEMMA QueueIsNotEmpty ==
  ASSUME TypeInv, NEW r, Committing(r)
  PROVE  st.queue # <<>> /\ Len(todo) <= Len(st.queue)
<1>1. Len(todo) <= Len(st.queue) /\ 1 \in 1..Len(todo) /\ Len(todo) \in Nat
  BY HeadTodo, TypeParts DEF TypeInv, ControlInv
<1>2. Len(st.queue) \in Nat
  BY TypeParts, RunStateParts
<1>3. Len(st.queue) # 0
  BY <1>1, <1>2
<1> QED BY <1>1, <1>3, EmptyParts

(* commitContext: nothing, or the context and its revision.                  *)
ContextDone(r, e) ==
  /\ e.context = IF r.base = 0 THEN st.context ELSE r.context
  /\ e.revision = IF r.base = 0 THEN st.revision ELSE st.revision + 1

LEMMA CommittedFields ==
  ASSUME TypeInv, NEW r, Committing(r), r.answer # "retry"
  PROVE  LET e == Finished(ContextCommitted(r), r.act, r.answer)
         IN Done(st, e, r.act, r.answer) /\ ContextDone(r, e)
<1> DEFINE c == ContextCommitted(r)
           e == Finished(c, r.act, r.answer)
<1>1. /\ r.act \in 1..Len(st.act) /\ r.answer \in Phases /\ r.context \in Seq(Nat) /\ r.base \in Nat
  BY HeadTodo DEF Phases, Over
<1>2. st \in RunStates /\ st.revision \in Nat
  BY TypeParts, RunStateParts
<1>3. /\ c \in RunStates /\ c.queue = st.queue /\ c.act = st.act /\ SameSets(st, c) /\ SameJoins(st, c)
      /\ c.clock = st.clock /\ c.step = st.step /\ ContextDone(r, c)
  <2>1. CASE r.base = 0
    BY <1>2, <2>1 DEF ContextCommitted, SameSets, SameJoins, ContextDone
  <2>2. CASE r.base # 0
    <3> DEFINE v == st.revision + 1
               x == [st EXCEPT !.context = r.context, !.revision = v]
    <3>1. c = x /\ v \in Nat
      BY <1>2, <2>2 DEF ContextCommitted
    <3>2. v = st.revision + 1
      OBVIOUS
    <3> HIDE DEF v, c
    <3>3. /\ x \in RunStates /\ x.queue = st.queue /\ x.act = st.act /\ SameSets(st, x) /\ SameJoins(st, x)
          /\ x.clock = st.clock /\ x.step = st.step /\ x.context = r.context /\ x.revision = v
      BY <1>1, <1>2, <3>1 DEF RunStates, SameSets, SameJoins
    <3> HIDE DEF x
    <3> QED BY <2>2, <3>1, <3>2, <3>3 DEF ContextDone
  <2> QED BY <2>1, <2>2
<1> HIDE DEF c
<1>4. Done(c, e, r.act, r.answer) /\ SameCounters(c, e)
  BY <1>1, <1>3, QueueIsNotEmpty, FinishedFields
<1> HIDE DEF e
<1>5. Done(st, e, r.act, r.answer) /\ ContextDone(r, e)
  BY <1>3, <1>4 DEF Done, SameCounters, SameSets, SameJoins, ContextDone
<1> QED BY <1>5 DEF c, e

LEMMA TailRefs ==
  ASSUME NEW q \in Seq(Nat), q # <<>>, NEW n, Refs(q, n)
  PROVE  Tail(q) \in Seq(Nat) /\ Refs(Tail(q), n) /\ Head(q) \in 1..n
<1>1. /\ Tail(q) \in Seq(Nat) /\ Len(Tail(q)) = Len(q) - 1 /\ Len(q) \in Nat \ {0}
      /\ \A i \in 1..(Len(q) - 1) : Tail(q)[i] = q[i + 1] /\ i + 1 \in 1..Len(q)
      /\ Head(q) = q[1] /\ 1 \in 1..Len(q)
  BY TailParts
<1> QED BY <1>1 DEF Refs

LEMMA AppendRefs ==
  ASSUME NEW q \in Seq(Nat), NEW n \in Nat, Refs(q, n), NEW x \in 1..n
  PROVE  Append(q, x) \in Seq(Nat) /\ Refs(Append(q, x), n)
<1>1. /\ Append(q, x) \in Seq(Nat) /\ Len(Append(q, x)) = Len(q) + 1 /\ Len(q) \in Nat
      /\ \A i \in 1..Len(q) : Append(q, x)[i] = q[i]
      /\ Append(q, x)[Len(q) + 1] = x
  BY AppendParts, SeqParts
<1>2. \A j \in 1..(Len(q) + 1) : j \in 1..Len(q) \/ j = Len(q) + 1
  BY <1>1
<1> QED BY <1>1, <1>2 DEF Refs

(* retryActivation: back to the end of the queue.                           *)
Retried(r) ==
  /\ r.answer = "retry"
  /\ st' \in RunStates /\ Rephased(st.act, st'.act) /\ st'.act[r.act].phase = "ready"
  /\ \A c \in 1..Len(st.act) : c # r.act => st'.act[c] = st.act[c]
  /\ st.queue # <<>> /\ st'.queue = Append(Tail(st.queue), r.act)
  /\ SameSets(st, st') /\ SameJoins(st, st')
  /\ st'.clock = st.clock /\ st'.context = st.context /\ st'.revision = st.revision
  /\ saved' = st' /\ status' = status /\ todo' = Tail(todo)
  /\ UNCHANGED <<pc, batch, touched, processes>>

LEMMA CommitRetryFields ==
  ASSUME TypeInv, NEW r, CommitRetry(r)
  PROVE  Retried(r)
<1> DEFINE b == r.act
           p == [st.act EXCEPT ![b].phase = "ready"]
           q == Append(Tail(st.queue), r.act)
           n == st.step + 1
           e == [st EXCEPT !.queue = q, !.act = p, !.step = n]
<1>0. Committing(r) /\ r.answer = "retry"
  BY DEF CommitRetry
<1>1. /\ st \in RunStates /\ st.act \in Seq(Activations) /\ st.queue \in Seq(Nat) /\ st.step \in Nat
      /\ r.act \in 1..Len(st.act) /\ r.act \in Nat /\ "ready" \in Phases
  BY <1>0, TypeParts, RunStateParts, HeadTodo DEF Phases
<1>1a. st.queue # <<>>
  BY <1>0, QueueIsNotEmpty
<1>2. Rephased(st.act, p) /\ p[b].phase = "ready" /\ \A c \in 1..Len(st.act) : c # b => p[c] = st.act[c]
  <2>1. st.act \in Seq(Activations) /\ b \in 1..Len(st.act) /\ "ready" \in Phases
    BY <1>1
  <2> HIDE DEF b
  <2> QED BY <2>1, RephaseOne
<1>3. q \in Seq(Nat) /\ n \in Nat
  BY <1>1, <1>1a, TailParts, AppendParts
<1>4. st' = e /\ saved' = st' /\ status' = status /\ todo' = Tail(todo)
      /\ UNCHANGED <<pc, batch, touched, processes>>
  BY DEF CommitRetry, Checkpoint
<1>5. q = Append(Tail(st.queue), r.act)
  OBVIOUS
<1> HIDE DEF p, q, n
<1>6. p \in Seq(Activations)
  BY <1>2 DEF Rephased
<1>7. /\ e \in RunStates /\ e.act = p /\ e.queue = q
      /\ SameSets(st, e) /\ SameJoins(st, e)
      /\ e.clock = st.clock /\ e.context = st.context /\ e.revision = st.revision
  BY <1>1, <1>3, <1>6 DEF RunStates, SameSets, SameJoins
<1> HIDE DEF e
<1> QED BY <1>0, <1>1a, <1>2, <1>4, <1>5, <1>7 DEF Retried, b

(* The head of todo is at the head of the queue.                            *)
LEMMA CommitRetryTypes ==
  ASSUME TypeInv, NEW r, CommitRetry(r)
  PROVE  TypeInv'
<1>0. Committing(r)
  BY DEF CommitRetry
<1>1. Retried(r)
  BY CommitRetryFields
<1>2. st.queue \in Seq(Nat) /\ Refs(st.queue, Len(st.act)) /\ Len(st.act) \in Nat
  BY TypeParts, RunStateParts, WellTypedParts DEF TypeInv
<1>3. Refs(st'.queue, Len(st.act))
  BY ZenonT(60), <1>0, <1>1, <1>2, HeadTodo, TailRefs, AppendRefs DEF Retried
<1>4. Updated(st, st')
  BY <1>1, <1>3, WellTypedParts DEF TypeInv, Updated, Retried, SameSets, SameJoins
<1>5. pc = "commit" /\ todo # <<>>
  BY <1>0, HeadTodo
<1>6. ControlInv'
  <2>1. Len(st'.queue) = Len(st.queue) /\ Len(todo') = Len(todo) - 1 /\ Len(todo) \in Nat
    BY <1>0, <1>1, <1>2, <1>5, HeadTodo, TypeParts, TailParts, AppendParts, TailRefs DEF Retried
  <2>2. Len(todo') <= Len(st'.queue)
    <3> DEFINE k == Len(todo)  l == Len(st.queue)
    <3>1. k \in Nat /\ l \in Nat /\ k <= l /\ Len(todo') = k - 1 /\ Len(st'.queue) = l
      BY <1>0, <1>2, <2>1, QueueIsNotEmpty, SeqParts
    <3> HIDE DEF k, l
    <3> QED BY <3>1
  <2> QED BY <1>1, <1>5, <2>2 DEF TypeInv, ControlInv, Retried
<1>7. touched' \in Seq(Nat) /\ Refs(touched', Len(st.sets))
  BY <1>1 DEF TypeInv, Retried
<1> QED BY <1>1, <1>4, <1>5, <1>6, <1>7, UpdateStepKeepsTypes DEF Retried

-----------------------------------------------------------------------------
(* Outcomes of branches *)

(* The sets of p are those of q, with outcome o for branch b of set g.      *)
OutcomeSet(q, p, g, b, o) ==
  /\ p \in Seq(SourceSets) /\ Len(p) = Len(q) /\ g \in 1..Len(q)
  /\ \A j \in 1..Len(q) : j # g => p[j] = q[j]
  /\ p[g].branches = q[g].branches /\ p[g].selected = q[g].selected /\ p[g].policy = q[g].policy
  /\ p[g].open = q[g].open /\ p[g].cause = q[g].cause /\ p[g].decided = q[g].decided
  /\ p[g].settled = q[g].settled /\ p[g].failed = q[g].failed
  /\ DOMAIN p[g].out = DOMAIN q[g].out /\ p[g].out[b] = o
  /\ \A c \in DOMAIN q[g].out : c # b => p[g].out[c] = q[g].out[c]

LEMMA OutcomeSetFields ==
  ASSUME NEW q \in Seq(SourceSets), NEW g \in 1..Len(q), NEW b \in DOMAIN q[g].out, NEW o \in Outcomes
  PROVE  OutcomeSet(q, [q EXCEPT ![g].out[b] = o], g, b, o)
<1> DEFINE x == q[g]
           y == [x EXCEPT !.out[b] = o]
           p == [q EXCEPT ![g] = y]
<1>1. x \in SourceSets
  BY SeqParts
<1>2. /\ y \in SourceSets /\ y.branches = x.branches /\ y.selected = x.selected
      /\ y.policy = x.policy /\ y.open = x.open /\ y.cause = x.cause
      /\ y.decided = x.decided /\ y.settled = x.settled /\ y.failed = x.failed
      /\ DOMAIN y.out = DOMAIN x.out /\ y.out[b] = o
      /\ \A c \in DOMAIN x.out : c # b => y.out[c] = x.out[c]
  <2>1. x \in SourceSets /\ b \in DOMAIN x.out
    BY <1>1
  <2> HIDE DEF x
  <2> QED BY <2>1, OutcomeChange
<1>3. p = [q EXCEPT ![g].out[b] = o]
  OBVIOUS
<1> HIDE DEF y
<1>4. /\ p \in Seq(SourceSets) /\ Len(p) = Len(q) /\ p[g] = y
      /\ \A j \in 1..Len(q) : j # g => p[j] = q[j]
  BY <1>2, ExceptParts
<1> HIDE DEF p
<1>5. OutcomeSet(q, p, g, b, o)
  BY <1>2, <1>4 DEF OutcomeSet
<1> QED BY <1>3, <1>5

LEMMA BranchMember ==
  ASSUME NEW s, WellTyped(s), NEW a \in 1..Len(s.act), s.act[a].set # 0
  PROVE  /\ s.act[a].set \in 1..Len(s.sets) /\ a \in Members(s.sets[s.act[a].set])
         /\ a \in DOMAIN s.sets[s.act[a].set].out
<1>1. s.act[a].set \in 0..Len(s.sets) /\ Len(s.sets) \in Nat
  BY WellTypedParts, RunStateParts
<1>2. s.act[a].set \in 1..Len(s.sets)
  BY <1>1
<1> QED BY <1>2 DEF WellTyped, SetsKnown

LEMMA OutcomeSetKeepsBranches ==
  ASSUME NEW s, WellTyped(s), NEW p, NEW g, NEW b, NEW o, OutcomeSet(s.sets, p, g, b, o)
  PROVE  SameBranches(s.sets, p)
<1>1. \A i \in 1..Len(s.sets) : p[i].branches = s.sets[i].branches /\ DOMAIN p[i].out = DOMAIN s.sets[i].out
                                /\ p[i].selected = s.sets[i].selected
  BY DEF OutcomeSet
<1>2. \A i \in 1..Len(s.sets) : \A k \in 1..Len(s.sets[i].selected) : s.sets[i].selected[k] \in Members(s.sets[i])
  BY DEF WellTyped, SetsKnown
<1>3. \A i \in 1..Len(s.sets) : Members(p[i]) = Members(s.sets[i])
  BY <1>1 DEF Members
<1> QED BY <1>1, <1>2, <1>3 DEF SameBranches, OutcomeSet

OutcomeOf(r) ==
  Outcome(r.answer, IF r.answer \in {"failed", "canceled"} THEN r.answer ELSE "none",
          r.completion, r.dispatch)

LEMMA OutcomeParts ==
  ASSUME NEW phase \in Over \cup {"none", "superseded"}, NEW cause \in Causes, NEW completion \in Nat,
         NEW dispatch \in Dispatchable
  PROVE  LET o == Outcome(phase, cause, completion, dispatch)
         IN o \in Outcomes /\ o.phase = phase /\ o.cause = cause /\ o.completion = completion
            /\ o.dispatch = dispatch /\ o.committed = FALSE
BY DEF Outcome, NoOutcome, Outcomes

(* What the commit of a branch's result changes.                            *)
BranchDone(r) ==
  /\ SetOf(r) # 0 /\ r.answer \in Over
  /\ st' \in RunStates /\ Rephased(st.act, st'.act) /\ st'.act[r.act].phase = r.answer
  /\ \A c \in 1..Len(st.act) : c # r.act => st'.act[c] = st.act[c]
  /\ st.queue # <<>> /\ st'.queue = Tail(st.queue)
  /\ OutcomeSet(st.sets, st'.sets, SetOf(r), r.act, OutcomeOf(r))
  /\ st'.sources = st.sources /\ SameJoins(st, st') /\ ContextDone(r, st') /\ st'.clock = st.clock
  /\ saved' = st' /\ status' = status /\ todo' = Tail(todo)
  /\ touched' = IF Contains(touched, SetOf(r)) THEN touched ELSE Append(touched, SetOf(r))
  /\ UNCHANGED <<pc, batch, processes>>

LEMMA CommitBranchFields ==
  ASSUME TypeInv, NEW r, CommitBranch(r)
  PROVE  BranchDone(r)
<1> DEFINE c == Finished(ContextCommitted(r), r.act, r.answer)
           g == SetOf(r)
           o == OutcomeOf(r)
           x == [c.sets EXCEPT ![g].out[r.act] = o]
           n == c.step + 1
           e == [c EXCEPT !.sets = x, !.step = n]
<1>1. /\ Committing(r) /\ r.answer # "retry" /\ g # 0
      /\ todo' = Tail(todo) /\ UNCHANGED <<pc, batch>>
      /\ touched' = IF Contains(touched, SetOf(r)) THEN touched ELSE Append(touched, SetOf(r))
  BY DEF CommitBranch
<1>2. st' = e /\ saved' = e /\ status' = status /\ processes' = processes
  BY DEF CommitBranch, Checkpoint, OutcomeOf
<1>3. Done(st, c, r.act, r.answer) /\ ContextDone(r, c)
  BY <1>1, CommittedFields
<1>4. c \in RunStates /\ c.sets = st.sets
  BY <1>3 DEF Done, SameSets
<1> HIDE DEF c
<1>5. /\ r.act \in 1..Len(st.act) /\ r.answer \in Over /\ r.completion \in Nat /\ r.dispatch \in Dispatchable
  BY <1>1, HeadTodo DEF Over
<1>6. o \in Outcomes
  BY ZenonT(60), <1>5, OutcomeParts DEF OutcomeOf, Causes
<1>7. g \in 1..Len(st.sets) /\ r.act \in DOMAIN st.sets[g].out
  BY <1>1, <1>5, BranchMember DEF SetOf, TypeInv
<1>8. st.sets \in Seq(SourceSets)
  BY TypeParts, RunStateParts
<1> HIDE DEF o, g
<1>9. OutcomeSet(st.sets, x, g, r.act, o)
  BY <1>4, <1>6, <1>7, <1>8, OutcomeSetFields
<1> HIDE DEF x
<1>10. x \in Seq(SourceSets) /\ n \in Nat
  BY <1>4, <1>9, RunStateParts DEF OutcomeSet
<1> HIDE DEF n
<1>11. /\ e \in RunStates /\ e.act = c.act /\ e.queue = c.queue /\ e.sets = x /\ e.sources = c.sources
       /\ SameJoins(c, e) /\ e.clock = c.clock /\ e.context = c.context /\ e.revision = c.revision
  BY <1>4, <1>10 DEF RunStates, SameJoins
<1> HIDE DEF e
<1>12. /\ st' \in RunStates /\ Rephased(st.act, st'.act) /\ st'.act[r.act].phase = r.answer
       /\ \A a \in 1..Len(st.act) : a # r.act => st'.act[a] = st.act[a]
       /\ st.queue # <<>> /\ st'.queue = Tail(st.queue) /\ st'.sources = st.sources
       /\ st'.sets = x /\ SameJoins(st, st') /\ ContextDone(r, st') /\ st'.clock = st.clock
  BY <1>2, <1>3, <1>11 DEF Done, SameSets, SameJoins, ContextDone
<1> QED BY <1>1, <1>2, <1>5, <1>9, <1>12 DEF BranchDone, o, g

LEMMA CommitContextRefs ==
  ASSUME TypeInv, NEW r, Committing(r), NEW e, ContextDone(r, e)
  PROVE  Refs(e.context, Len(st.act))
BY HeadTodo, WellTypedParts DEF TypeInv, ContextDone

LEMMA ContainsOrAppend ==
  ASSUME NEW q \in Seq(Nat), NEW n \in Nat, Refs(q, n), NEW g \in 1..n
  PROVE  LET p == IF Contains(q, g) THEN q ELSE Append(q, g) IN p \in Seq(Nat) /\ Refs(p, n)
BY AppendRefs

(* One result less is to be committed, and one activation less is ready.     *)
LEMMA QueueStaysAhead ==
  ASSUME TypeInv, NEW r, Committing(r), NEW q, q = Tail(st.queue)
  PROVE  Len(Tail(todo)) <= Len(q) /\ q \in Seq(Nat) /\ Refs(q, Len(st.act)) /\ Len(q) \in Nat
         /\ Len(Tail(todo)) \in Nat
<1>1. st.queue \in Seq(Nat) /\ Refs(st.queue, Len(st.act)) /\ st.queue # <<>> /\ Len(todo) <= Len(st.queue)
  BY QueueIsNotEmpty, TypeParts, RunStateParts, WellTypedParts DEF TypeInv
<1> DEFINE k == Len(todo)  l == Len(st.queue)
<1>2. /\ q \in Seq(Nat) /\ Refs(q, Len(st.act)) /\ Len(q) = l - 1 /\ l \in Nat \ {0}
  BY <1>1, TailRefs, TailParts
<1>3. Len(Tail(todo)) = k - 1 /\ k \in Nat \ {0}
  BY HeadTodo, TypeParts, TailParts
<1> HIDE DEF k, l
<1>4. k <= l
  BY <1>1 DEF k, l
<1>5. k - 1 <= l - 1 /\ l - 1 \in Nat /\ k - 1 \in Nat
  BY <1>2, <1>3, <1>4
<1> QED BY <1>2, <1>3, <1>5

LEMMA CommitBranchTypes ==
  ASSUME TypeInv, NEW r, CommitBranch(r)
  PROVE  TypeInv'
<1>1. BranchDone(r) /\ Committing(r)
  BY CommitBranchFields DEF CommitBranch
<1>2. Len(todo') <= Len(st'.queue) /\ Refs(st'.queue, Len(st.act))
  BY <1>1, QueueStaysAhead DEF BranchDone
<1>3. SameBranches(st.sets, st'.sets)
  BY <1>1, OutcomeSetKeepsBranches DEF BranchDone, TypeInv
<1>4. Refs(st'.context, Len(st.act))
  BY <1>1, CommitContextRefs DEF BranchDone
<1>5. Updated(st, st')
  BY <1>1, <1>2, <1>3, <1>4, WellTypedParts DEF TypeInv, Updated, BranchDone, SameJoins
<1>6. todo # <<>> /\ pc = "commit"
  BY <1>1, HeadTodo
<1>7. ControlInv'
  BY <1>1, <1>2, <1>6 DEF TypeInv, ControlInv, BranchDone
<1>8. touched' \in Seq(Nat) /\ Refs(touched', Len(st.sets))
  <2>1. SetOf(r) \in 1..Len(st.sets) /\ Len(st.sets) \in Nat
    BY <1>1, HeadTodo, BranchMember, TypeParts DEF BranchDone, SetOf, TypeInv
  <2> QED BY <1>1, <2>1, ContainsOrAppend DEF BranchDone, TypeInv
<1> QED BY <1>1, <1>5, <1>6, <1>7, <1>8, UpdateStepKeepsTypes DEF BranchDone

-----------------------------------------------------------------------------
(* Settling a set *)

LEMMA SettlingParts ==
  ASSUME TypeInv, NEW s, Settling(s)
  PROVE  /\ s \in 1..Len(st.sets) /\ st.sets[s] \in SourceSets /\ touched # <<>> /\ todo = <<>> /\ pc = "commit"
         /\ Tail(touched) \in Seq(Nat) /\ Refs(Tail(touched), Len(st.sets))
         /\ touched \in Seq(Nat) /\ Refs(touched, Len(st.sets))
         /\ st \in RunStates /\ Len(st.queue) \in Nat /\ Len(todo) = 0
BY TailTouched, TypeParts, RunStateParts, EmptyParts DEF Settling, TypeInv

LEMMA MembersParts ==
  ASSUME NEW x \in SourceSets
  PROVE  /\ Members(x) \in SUBSET Nat /\ IsFiniteSet(Members(x))
         /\ \A phases : InPhase(x, phases) \in SUBSET Members(x) /\ IsFiniteSet(InPhase(x, phases))
<1>1. x.branches \in Seq(Nat)
  BY DEF SourceSets
<1>2. DOMAIN x.branches = 1..Len(x.branches) /\ Len(x.branches) \in Nat
      /\ \A i \in DOMAIN x.branches : x.branches[i] \in Nat
  BY <1>1, SeqParts
<1>3. Members(x) = {x.branches[i] : i \in DOMAIN x.branches}
  BY DEF Members, ToSet
<1>4. IsFiniteSet(Members(x))
  <2>1. IsFiniteSet(DOMAIN x.branches)
    BY <1>2, FS_Interval
  <2> DEFINE f == x.branches
  <2>2. IsFiniteSet({f[i] : i \in DOMAIN f})
    <3> HIDE DEF f
    <3>1. IsFiniteSet(DOMAIN f)
      BY <2>1 DEF f
    <3> QED BY <3>1, ImageIsFinite
  <2> QED BY <1>3, <2>2
<1>5. \A phases : InPhase(x, phases) \in SUBSET Members(x)
  BY DEF InPhase
<1> QED BY <1>2, <1>3, <1>4, <1>5, FS_Subset

LEMMA QueuedBranchParts ==
  ASSUME TypeInv, NEW s, QueuedBranches(s) # {}
  PROVE  LET i == Min(QueuedBranches(s))
         IN /\ i \in 1..Len(st.queue) /\ st.queue[i] \in 1..Len(st.act)
            /\ st.act[st.queue[i]].set = s /\ st.queue[i] \notin Selected(s)
            /\ \A j \in 1..Len(st.queue) :
                 st.act[st.queue[j]].set = s /\ st.queue[j] \notin Selected(s) => i <= j
<1> DEFINE Q == QueuedBranches(s)
<1>1. DOMAIN st.queue = 1..Len(st.queue) /\ Len(st.queue) \in Nat /\ Refs(st.queue, Len(st.act))
  BY TypeParts, RunStateParts, WellTypedParts DEF TypeInv
<1>2. Q \in SUBSET Nat /\ Q = {i \in 1..Len(st.queue) : st.act[st.queue[i]].set = s /\ st.queue[i] \notin Selected(s)}
  BY <1>1 DEF QueuedBranches
<1> HIDE DEF Q
<1>3. Min(Q) \in Q /\ \A k \in Q : Min(Q) <= k
  BY <1>2, MinProperties DEF Q
<1>4. Min(Q) \in 1..Len(st.queue) /\ st.act[st.queue[Min(Q)]].set = s /\ st.queue[Min(Q)] \notin Selected(s)
  BY <1>2, <1>3
<1>5. st.queue[Min(Q)] \in 1..Len(st.act)
  BY <1>1, <1>4 DEF Refs
<1>6. \A j \in 1..Len(st.queue) : st.act[st.queue[j]].set = s /\ st.queue[j] \notin Selected(s) => Min(Q) <= j
  BY <1>2, <1>3
<1> QED BY <1>4, <1>5, <1>6 DEF Q

(* p is q without its element i.                                            *)
Removed(q, p, i) ==
  /\ p \in Seq(Nat) /\ Len(p) = Len(q) - 1
  /\ \A j \in 1..(i - 1) : p[j] = q[j]
  /\ \A j \in i..(Len(q) - 1) : p[j] = q[j + 1]

LEMMA RemoveAtParts ==
  ASSUME NEW q \in Seq(Nat), NEW i \in 1..Len(q)
  PROVE  Removed(q, RemoveAt(q, i), i)
<1> DEFINE l == Len(q)
           a == SubSeq(q, 1, i - 1)
           b == SubSeqTo(q, i)
<1>1. l \in Nat /\ i \in 1..l /\ i \in Nat /\ i - 1 \in Nat /\ i \in 0..l /\ l - i \in Nat
      /\ \A j \in 1..l : q[j] \in Nat
  BY SeqParts
<1>2. b \in Seq(Nat) /\ Len(b) = l - i /\ \A j \in 1..(l - i) : b[j] = q[i + j]
  BY <1>1, SubSeqToParts
<1>3. a \in Seq(Nat) /\ Len(a) = i - 1 /\ \A j \in 1..(i - 1) : a[j] = q[j]
  <2>1. a = [j \in 1..(i - 1) |-> q[j]]
    <3> DEFINE k == i - 1
    <3>1. SubSeq(q, 1, k) = [j \in 1..(k - 1 + 1) |-> q[j + 1 - 1]]
      OBVIOUS
    <3>2. k \in Nat /\ k - 1 + 1 = k /\ \A j \in 1..k : j + 1 - 1 = j
      BY <1>1
    <3> HIDE DEF k
    <3>3. SubSeq(q, 1, k) = [j \in 1..k |-> q[j]]
      BY <3>1, <3>2
    <3> QED BY <3>3 DEF k
  <2>2. \A j \in 1..(i - 1) : q[j] \in Nat
    BY <1>1
  <2> DEFINE k == i - 1
  <2>3. a \in [1..k -> Nat] /\ k \in Nat
    BY <1>1, <2>1, <2>2
  <2> HIDE DEF a, k
  <2>4. a \in Seq(Nat) /\ Len(a) = k
    BY <2>3
  <2> QED BY <2>1, <2>4 DEF k
<1>4. RemoveAt(q, i) = a \o b
  BY DEF RemoveAt, SubSeqTo
<1> HIDE DEF a, b
<1>5. /\ a \o b \in Seq(Nat) /\ Len(a \o b) = Len(a) + Len(b)
      /\ \A j \in 1..Len(a) : (a \o b)[j] = a[j]
      /\ \A j \in 1..Len(b) : (a \o b)[Len(a) + j] = b[j]
  <2>1. a \in Seq(Nat) /\ b \in Seq(Nat)
    BY <1>2, <1>3
  <2> QED BY <2>1, ConcatParts
<1> HIDE DEF l
<1>6. Len(a \o b) = l - 1
  BY <1>1, <1>2, <1>3, <1>5
<1>7. ASSUME NEW j \in i..(l - 1)
      PROVE  (a \o b)[j] = q[j + 1]
  <2>1. j - (i - 1) \in 1..(l - i) /\ (i - 1) + (j - (i - 1)) = j /\ i + (j - (i - 1)) = j + 1
    BY <1>1
  <2> DEFINE m == j - (i - 1)
  <2>2. (a \o b)[Len(a) + m] = b[m] /\ b[m] = q[i + m]
    BY <1>2, <1>5, <2>1
  <2> HIDE DEF m
  <2>3. Len(a) + m = j /\ i + m = j + 1
    BY <1>3, <2>1 DEF m
  <2> QED BY <2>2, <2>3
<1> QED BY <1>3, <1>4, <1>5, <1>6, <1>7 DEF Removed, l

LEMMA RemovedRefs ==
  ASSUME NEW q \in Seq(Nat), NEW i \in 1..Len(q), NEW p, Removed(q, p, i), NEW n, Refs(q, n)
  PROVE  Refs(p, n)
<1>1. Len(q) \in Nat /\ Len(p) = Len(q) - 1
  BY SeqParts DEF Removed
<1> DEFINE l == Len(q)
<1>2. l \in Nat /\ i \in 1..l
  BY <1>1
<1>3. ASSUME NEW j \in 1..(l - 1)
      PROVE  p[j] \in 1..n
  <2>1. CASE j \in 1..(i - 1)
    <3>1. p[j] = q[j] /\ j \in 1..l
      BY <1>2, <2>1 DEF Removed
    <3> QED BY <3>1 DEF Refs
  <2>2. CASE j \in i..(l - 1)
    <3>1. p[j] = q[j + 1] /\ j + 1 \in 1..l
      BY <1>2, <2>2 DEF Removed
    <3> QED BY <3>1 DEF Refs
  <2>3. j \in 1..(i - 1) \/ j \in i..(l - 1)
    <3> HIDE DEF l
    <3> QED BY <1>2
  <2> QED BY <2>1, <2>2, <2>3
<1> QED BY <1>1, <1>3 DEF Refs

Cancellation == Outcome("canceled", "canceled", st.clock + 1, NoDispatch)

(* What the cancellation of the branch at place i of the queue changes.     *)
Canceled(s, i) ==
  /\ st.sets[s].decided \/ st.sets[s].failed
  /\ i \in 1..Len(st.queue) /\ st.queue[i] \in 1..Len(st.act) /\ st.act[st.queue[i]].set = s
  /\ st.queue[i] \notin Selected(s) /\ st.act[st.queue[i]].phase = "ready"
  /\ st' \in RunStates /\ Rephased(st.act, st'.act) /\ st'.act[st.queue[i]].phase = "canceled"
  /\ \A c \in 1..Len(st.act) : c # st.queue[i] => st'.act[c] = st.act[c]
  /\ Removed(st.queue, st'.queue, i)
  /\ OutcomeSet(st.sets, st'.sets, s, st.queue[i], Cancellation)
  /\ st'.sources = st.sources /\ SameJoins(st, st')
  /\ st'.context = st.context /\ st'.revision = st.revision
  /\ saved' = st' /\ status' = status
  /\ UNCHANGED <<pc, batch, todo, touched, processes>>

(* An activation of the set that is not ready fails the run.                *)
LEMMA CancelQueuedBranchFields ==
  ASSUME TypeInv, NEW s, CancelQueuedBranch(s)
  PROVE  \/ \E i : Canceled(s, i)
         \/ /\ status' = "failed"
            /\ \E e : Fail(e, "scheduler", s, "none") /\ Updated(st, e)
<1> DEFINE i == Min(QueuedBranches(s))
           b == st.queue[i]
           q == RemoveAt(st.queue, i)
           n == st.clock + 1
           c == [st EXCEPT !.queue = q, !.clock = n]
<1>1. Decided(s) /\ QueuedBranches(s) # {}
  BY DEF CancelQueuedBranch
<1>2. /\ i \in 1..Len(st.queue) /\ b \in 1..Len(st.act) /\ st.act[b].set = s /\ b \notin Selected(s)
  BY <1>1, QueuedBranchParts
<1>3. /\ st \in RunStates /\ st.queue \in Seq(Nat) /\ st.act \in Seq(Activations) /\ st.sets \in Seq(SourceSets)
      /\ n \in Nat /\ WellTyped(st)
  BY TypeParts, RunStateParts DEF TypeInv
<1>4. Removed(st.queue, q, i) /\ q \in Seq(Nat)
  BY <1>2, <1>3, RemoveAtParts DEF Removed
<1>5. s \in 1..Len(st.sets) /\ b \in DOMAIN st.sets[s].out
  <2>1. s \in 1..Len(st.sets)
    BY <1>1, SettlingParts DEF Decided, Unsettled
  <2>2. s # 0
    BY <2>1
  <2> QED BY <1>2, <1>3, <2>1, <2>2, BranchMember
<1>6. \/ st.act[b].phase # "ready" /\ Fail(c, "scheduler", s, "none")
      \/ /\ st.act[b].phase = "ready"
         /\ Checkpoint([c EXCEPT !.act[b].phase = "canceled",
                                 !.sets[s].out[b] = Outcome("canceled", "canceled", n, NoDispatch)])
         /\ UNCHANGED <<pc, batch, todo, touched>>
  BY DEF CancelQueuedBranch
<1> DEFINE o == Outcome("canceled", "canceled", n, NoDispatch)
<1>7. o = Cancellation /\ o \in Outcomes
  BY <1>3, OutcomeParts DEF Cancellation, Causes, Over, Dispatchable
<1> DEFINE p == [st.act EXCEPT ![b].phase = "canceled"]
           x == [st.sets EXCEPT ![s].out[b] = o]
           e == [c EXCEPT !.act = p, !.sets = x]
<1> HIDE DEF i, q, n, o
<1>8. /\ c \in RunStates /\ c.act = st.act /\ c.queue = q /\ SameSets(st, c) /\ SameJoins(st, c)
      /\ c.context = st.context /\ c.revision = st.revision
  BY <1>3, <1>4 DEF RunStates, SameSets, SameJoins
<1>9. CASE st.act[b].phase # "ready" /\ Fail(c, "scheduler", s, "none")
  <2>1. Refs(q, Len(st.act))
    BY <1>2, <1>3, <1>4, WellTypedParts, RemovedRefs
  <2> HIDE DEF c, b
  <2>2. Updated(st, c)
    BY <1>3, <1>8, <2>1, WellTypedParts, SameActsIsUpdated DEF SameSets, SameJoins
  <2> QED BY <1>9, <2>2 DEF Fail
<1>10. CASE /\ st.act[b].phase = "ready"
            /\ Checkpoint([c EXCEPT !.act[b].phase = "canceled", !.sets[s].out[b] = o])
            /\ UNCHANGED <<pc, batch, todo, touched>>
  <2>1. Rephased(st.act, p) /\ p[b].phase = "canceled" /\ \A a \in 1..Len(st.act) : a # b => p[a] = st.act[a]
    <3>1. "canceled" \in Phases
      BY DEF Phases, Over
    <3>2. st.act \in Seq(Activations) /\ b \in 1..Len(st.act)
      BY <1>2, <1>3
    <3> HIDE DEF b
    <3> QED BY <3>1, <3>2, RephaseOne
  <2>2. OutcomeSet(st.sets, x, s, b, o)
    <3> HIDE DEF b
    <3> QED BY <1>3, <1>5, <1>7, OutcomeSetFields
  <2>3. e = [c EXCEPT !.act[b].phase = "canceled", !.sets[s].out[b] = o]
    BY <1>8 DEF SameSets
  <2> HIDE DEF p, x, b, c
  <2>4. p \in Seq(Activations) /\ x \in Seq(SourceSets)
    BY <2>1, <2>2 DEF Rephased, OutcomeSet
  <2>5. /\ e \in RunStates /\ e.act = p /\ e.queue = q /\ e.sets = x /\ e.sources = st.sources
        /\ SameJoins(st, e) /\ e.context = st.context /\ e.revision = st.revision
    BY <1>8, <2>4 DEF RunStates, SameSets, SameJoins
  <2>6. st' = e /\ saved' = e /\ status' = status /\ processes' = processes
    BY <1>10, <2>3 DEF Checkpoint
  <2> HIDE DEF e
  <2>7. st.sets[s].decided \/ st.sets[s].failed
    BY <1>1 DEF Decided
  <2>8. Canceled(s, i)
    BY <1>2, <1>4, <1>7, <1>10, <2>1, <2>2, <2>5, <2>6, <2>7 DEF Canceled, b
  <2> QED BY <2>8
<1> QED BY <1>6, <1>9, <1>10 DEF o

LEMMA SettleKeepsControl ==
  ASSUME TypeInv, NEW s, Settling(s), st' \in RunStates, status' = status, UNCHANGED <<pc, batch, todo, processes>>
  PROVE  ControlInv'
<1>1. pc = "commit" /\ Len(todo) = 0
  BY SettlingParts
<1>2. Len(st'.queue) \in Nat
  BY RunStateParts
<1> QED BY <1>1, <1>2 DEF TypeInv, ControlInv

LEMMA CancelQueuedBranchTypes ==
  ASSUME TypeInv, NEW s, CancelQueuedBranch(s)
  PROVE  TypeInv'
<1>1. CASE \E e : Fail(e, "scheduler", s, "none") /\ Updated(st, e)
  BY <1>1, FailKeepsTypes
<1>2. CASE \E i : Canceled(s, i)
  <2> PICK i : Canceled(s, i)
    BY <1>2
  <2>1. Settling(s)
    BY DEF CancelQueuedBranch, Decided, Unsettled
  <2>2. ControlInv'
    BY <2>1, SettleKeepsControl DEF Canceled
  <2>3. st.queue \in Seq(Nat) /\ Refs(st.queue, Len(st.act))
    BY TypeParts, RunStateParts, WellTypedParts DEF TypeInv
  <2>4. Refs(st'.queue, Len(st.act))
    BY <2>3, RemovedRefs DEF Canceled
  <2>5. SameBranches(st.sets, st'.sets)
    BY OutcomeSetKeepsBranches DEF Canceled, TypeInv
  <2>6. Updated(st, st')
    BY <2>4, <2>5, WellTypedParts DEF TypeInv, Updated, Canceled, SameJoins
  <2>7. touched' \in Seq(Nat) /\ Refs(touched', Len(st.sets))
    BY <2>1, SettlingParts DEF Canceled
  <2> QED BY <2>2, <2>6, <2>7, UpdateStepKeepsTypes DEF Canceled
<1> QED BY <1>1, <1>2, CancelQueuedBranchFields

(* What superseding branch b changes.                                        *)
Superseded(s, b) ==
  /\ st.sets[s].decided \/ st.sets[s].failed
  /\ Settling(s) /\ b \in Members(st.sets[s]) /\ b \notin Selected(s) /\ st.sets[s].out[b].phase = "completed"
  /\ st' \in RunStates /\ st'.act = st.act /\ st'.queue = st.queue
  /\ OutcomeSet(st.sets, st'.sets, s, b, [st.sets[s].out[b] EXCEPT !.phase = "superseded"])
  /\ st'.sources = st.sources /\ SameJoins(st, st') /\ SameCounters(st, st')
  /\ saved' = st' /\ status' = status
  /\ UNCHANGED <<pc, batch, todo, touched, processes>>

LEMMA SupersedeBranchFields ==
  ASSUME TypeInv, NEW s, SupersedeBranch(s)
  PROVE  \E b : Superseded(s, b)
<1> DEFINE b == Min(Unwanted(s))
           o == [st.sets[s].out[b] EXCEPT !.phase = "superseded"]
           x == [st.sets EXCEPT ![s].out[b] = o]
           e == [st EXCEPT !.sets = x]
<1>1. Settling(s) /\ Unwanted(s) # {} /\ (st.sets[s].decided \/ st.sets[s].failed)
  BY DEF SupersedeBranch, Decided, Unsettled
<1>2. /\ s \in 1..Len(st.sets) /\ st.sets[s] \in SourceSets /\ st \in RunStates /\ st.sets \in Seq(SourceSets)
  BY <1>1, SettlingParts, RunStateParts
<1>3. Unwanted(s) \in SUBSET Nat
  BY <1>2, MembersParts DEF Unwanted
<1>4. b \in Unwanted(s)
  BY <1>1, <1>3, MinProperties
<1>5. b \in Members(st.sets[s]) /\ b \notin Selected(s) /\ st.sets[s].out[b].phase = "completed"
  BY <1>4 DEF Unwanted, InPhase
<1>6. st' = e /\ saved' = e /\ status' = status /\ UNCHANGED <<pc, batch, todo, touched, processes>>
  BY DEF SupersedeBranch, Checkpoint
<1>7. b \in DOMAIN st.sets[s].out /\ st.sets[s].out[b] \in Outcomes
  <2>1. b \in DOMAIN st.sets[s].out
    BY <1>2, <1>5 DEF TypeInv, WellTyped, SetsKnown
  <2>2. st.sets[s].out \in OutcomeMaps
    BY <1>2 DEF SourceSets
  <2> QED BY <2>1, <2>2, OutcomeMapIsFunction
<1> HIDE DEF b
<1>8. o \in Outcomes
  BY <1>7 DEF Outcomes
<1>9. OutcomeSet(st.sets, x, s, b, o)
  <2> HIDE DEF o
  <2> QED BY <1>2, <1>7, <1>8, OutcomeSetFields
<1> HIDE DEF x
<1>10. x \in Seq(SourceSets)
  BY <1>9 DEF OutcomeSet
<1>11. /\ e \in RunStates /\ e.act = st.act /\ e.queue = st.queue /\ e.sets = x /\ e.sources = st.sources
       /\ SameJoins(st, e) /\ SameCounters(st, e)
  BY <1>2, <1>10 DEF RunStates, SameJoins, SameCounters
<1> HIDE DEF e, o
<1>12. Superseded(s, b)
  BY <1>1, <1>5, <1>6, <1>9, <1>11 DEF Superseded, o
<1> QED BY <1>12

LEMMA SupersedeBranchTypes ==
  ASSUME TypeInv, NEW s, SupersedeBranch(s)
  PROVE  TypeInv'
<1> PICK b : Superseded(s, b)
  BY SupersedeBranchFields
<1>1. ControlInv'
  BY SettleKeepsControl DEF Superseded
<1>2. SameBranches(st.sets, st'.sets)
  BY OutcomeSetKeepsBranches DEF Superseded, TypeInv
<1>3. Updated(st, st')
  BY <1>2, WellTypedParts DEF TypeInv, Updated, Superseded, SameJoins, SameCounters
<1>4. touched' \in Seq(Nat) /\ Refs(touched', Len(st.sets))
  BY SettlingParts DEF Superseded
<1> QED BY <1>1, <1>3, <1>4, UpdateStepKeepsTypes DEF Superseded

(* closeUnselectedBranchExpectations                                         *)
OnlyCloses(s, e) ==
  /\ e \in RunStates /\ e.act = s.act /\ e.queue = s.queue /\ e.tracked = s.tracked
  /\ SameSets(s, e) /\ SameCounters(s, e) /\ e.bound = s.bound
  /\ \A t \in Joins : \A c \in e.closed[t] : c.act \in 1..Len(s.act)

LEMMA ClosedUnselectedFields ==
  ASSUME TypeInv, NEW s, Settling(s)
  PROVE  OnlyCloses(st, ClosedUnselected(s))
<1> DEFINE B(t) == {b \in Members(st.sets[s]) \ Selected(s) : t \in ToSet(Edges[st.act[b].node])}
           C(t) == {[act |-> b, count |-> 0] : b \in B(t)}
           cl == [t \in Joins |-> st.closed[t] \cup C(t)]
           e == [st EXCEPT !.closed = cl]
<1>1. st \in RunStates /\ s \in 1..Len(st.sets) /\ Len(st.act) \in Nat
  BY SettlingParts, RunStateParts
<1>2. \A b \in Members(st.sets[s]) : b \in 1..Len(st.act) /\ b \in Nat
  <2>1. Members(st.sets[s]) = {a \in 1..Len(st.act) : st.act[a].set = s}
    BY <1>1 DEF TypeInv, WellTyped, SetsKnown
  <2>2. \A b \in Members(st.sets[s]) : b \in 1..Len(st.act)
    BY <2>1
  <2> QED BY <1>1, <2>2
<1>3. \A t \in Joins : C(t) \in SUBSET [act : Nat, count : Nat] /\ \A c \in C(t) : c.act \in 1..Len(st.act)
  BY <1>2
<1>4. e = ClosedUnselected(s)
  BY DEF ClosedUnselected
<1> HIDE DEF C
<1>5. st.closed \in [Joins -> SUBSET [act : Nat, count : Nat]]
  BY <1>1 DEF RunStates
<1>6. cl \in [Joins -> SUBSET [act : Nat, count : Nat]] /\ \A t \in Joins : cl[t] = st.closed[t] \cup C(t)
  BY <1>3, <1>5
<1>7. \A t \in Joins : \A c \in cl[t] : c.act \in 1..Len(st.act)
  BY <1>3, <1>6, WellTypedParts DEF TypeInv
<1> HIDE DEF cl
<1>8. /\ e \in RunStates /\ e.act = st.act /\ e.queue = st.queue /\ e.tracked = st.tracked
      /\ SameSets(st, e) /\ SameCounters(st, e) /\ e.bound = st.bound /\ e.closed = cl
  BY <1>1, <1>6 DEF RunStates, SameSets, SameCounters
<1> HIDE DEF e
<1>9. OnlyCloses(st, e)
  BY <1>7, <1>8 DEF OnlyCloses
<1> QED BY <1>4, <1>9

LEMMA OnlyClosesIsUpdated ==
  ASSUME NEW s, WellTyped(s), NEW e, OnlyCloses(s, e)
  PROVE  Updated(s, e) /\ WellTyped(e)
<1>1. Updated(s, e)
  BY WellTypedParts DEF Updated, OnlyCloses, SameSets, SameCounters
<1> QED BY <1>1, UpdateKeepsTypes

LEMMA FailSetTypes ==
  ASSUME TypeInv, NEW s, FailSet(s)
  PROVE  TypeInv'
<1>1. Settling(s) /\ Fail(ClosedUnselected(s), "set", s, FirstFailure(st.sets[s]))
  BY DEF FailSet, Cleared, Decided, Unsettled
<1>2. Updated(st, ClosedUnselected(s))
  BY <1>1, ClosedUnselectedFields, OnlyClosesIsUpdated DEF TypeInv
<1> QED BY <1>1, <1>2, FailKeepsTypes

-----------------------------------------------------------------------------
(* Decisions *)

LEMMA SuccessesParts ==
  ASSUME NEW x \in SourceSets, DOMAIN x.out = Members(x)
  PROVE  /\ Successes(x) \in Seq(Nat) /\ Len(Successes(x)) \in Nat
         /\ \A i \in 1..Len(Successes(x)) : Successes(x)[i] \in InPhase(x, {"completed"})
         /\ \A i, j \in 1..Len(Successes(x)) : Successes(x)[i] = Successes(x)[j] => i = j
         /\ \A b \in InPhase(x, {"completed"}) : \E i \in 1..Len(Successes(x)) : Successes(x)[i] = b
         /\ Len(Successes(x)) = Cardinality(InPhase(x, {"completed"}))
<1> DEFINE S == InPhase(x, {"completed"})
           key == [b \in Members(x) |-> IF x.policy.mode = "all" THEN b ELSE x.out[b].completion]
           q == SortedBy(S, key)
<1>1. S \in SUBSET Members(x) /\ IsFiniteSet(S) /\ Members(x) \in SUBSET Nat
  BY MembersParts
<1>2. \A b \in S : key[b] \in Nat
  <2> SUFFICES ASSUME NEW b \in S
               PROVE  key[b] \in Nat
    OBVIOUS
  <2>1. b \in Members(x) /\ b \in Nat /\ b \in DOMAIN x.out
    BY <1>1
  <2>2. x.out[b].completion \in Nat
    <3>1. x.out \in OutcomeMaps
      BY DEF SourceSets
    <3>2. x.out[b] \in Outcomes
      BY <2>1, <3>1, OutcomeMapIsFunction
    <3> QED BY <3>2 DEF Outcomes
  <2> QED BY <2>1, <2>2
<1>3. q = Successes(x)
  BY DEF Successes
<1> HIDE DEF S, key
<1>4. /\ q \in Seq(S) /\ Len(q) = Cardinality(S)
      /\ \A i, j \in DOMAIN q : q[i] = q[j] => i = j
      /\ \A b \in S : \E i \in DOMAIN q : q[i] = b
  BY <1>1, <1>2, SortedByProperties
<1> HIDE DEF q
<1>5. Len(q) \in Nat /\ DOMAIN q = 1..Len(q) /\ \A i \in 1..Len(q) : q[i] \in S
  BY <1>4, SeqParts
<1>6. q \in Seq(Nat)
  <2>1. \A i \in 1..Len(q) : q[i] \in Nat
    BY <1>1, <1>5
  <2>2. q \in [1..Len(q) -> Nat]
    <3>1. q \in [1..Len(q) -> S]
      BY <1>4, <1>5
    <3> QED BY <2>1, <3>1
  <2> QED BY <1>5, <2>2
<1> QED BY <1>3, <1>4, <1>5, <1>6 DEF S

LEMMA SubSeqFrom1 ==
  ASSUME NEW S, NEW r \in Seq(S), NEW n \in 0..Len(r)
  PROVE  /\ SubSeq(r, 1, n) \in Seq(S) /\ Len(SubSeq(r, 1, n)) = n
         /\ \A i \in 1..n : SubSeq(r, 1, n)[i] = r[i]
<1> DEFINE q == SubSeq(r, 1, n)
<1>1. n \in Nat /\ \A i \in 1..n : i \in 1..Len(r) /\ r[i] \in S
  BY SeqParts
<1>2. q = [i \in 1..(n - 1 + 1) |-> r[i + 1 - 1]]
  OBVIOUS
<1>3. n - 1 + 1 = n /\ \A i \in 1..n : i + 1 - 1 = i
  BY <1>1
<1>4. q = [i \in 1..n |-> r[i]]
  BY <1>2, <1>3
<1> HIDE DEF q
<1>5. q \in [1..n -> S]
  BY <1>1, <1>4
<1>6. q \in Seq(S) /\ Len(q) = n
  BY <1>1, <1>5
<1> QED BY <1>4, <1>6 DEF q

(* A decision is to fail, or selects completed branches.                     *)
Decides(x, d) ==
  /\ d.ready \in BOOLEAN /\ d.failed \in BOOLEAN /\ d.selected \in Seq(Nat)
  /\ \A i \in 1..Len(d.selected) : d.selected[i] \in InPhase(x, {"completed"})
  /\ d.failed => d.selected = <<>>

LEMMA DecisionParts ==
  ASSUME NEW x \in SourceSets, DOMAIN x.out = Members(x)
  PROVE  Decides(x, Decision(x))
<1> DEFINE r == Successes(x)
           n == Required(x.policy, Len(x.branches))
           C == InPhase(x, {"completed"})
<1>1. /\ r \in Seq(Nat) /\ Len(r) \in Nat /\ \A i \in 1..Len(r) : r[i] \in C
  BY SuccessesParts
<1>2. n \in Nat
  <2>1. x.policy.mode \in {"all", "any", "quorum"} /\ x.policy.quorum \in Nat
    BY DEF SourceSets, Settles
  <2>2. Len(x.branches) \in Nat
    BY SeqParts DEF SourceSets
  <2> QED BY <2>1, <2>2 DEF Required
<1>3. Decision(x) \in {Fails, Undecided, Selects(r)} \/ (Len(r) >= n /\ Decision(x) = Selects(SubSeq(r, 1, n)))
  BY DEF Decision
<1>4. Decides(x, Fails) /\ Decides(x, Undecided)
  BY EmptyParts DEF Fails, Undecided, Decides
<1> HIDE DEF r, n
<1>5. ASSUME NEW q \in Seq(Nat), \A i \in 1..Len(q) : q[i] \in C
      PROVE  Decides(x, Selects(q))
  BY <1>5 DEF Decides, Selects
<1>6. CASE Len(r) >= n /\ Decision(x) = Selects(SubSeq(r, 1, n))
  <2> DEFINE q == SubSeq(r, 1, n)
  <2>1. n \in 0..Len(r) /\ \A i \in 1..n : i \in 1..Len(r)
    BY <1>1, <1>2, <1>6
  <2>2. q \in Seq(Nat) /\ Len(q) = n /\ \A i \in 1..n : q[i] = r[i]
    BY <1>1, <2>1, SubSeqFrom1
  <2> HIDE DEF q, C
  <2>3. \A i \in 1..Len(q) : q[i] \in C
    BY <1>1, <2>1, <2>2
  <2> QED BY <1>5, <1>6, <2>2, <2>3 DEF q
<1> QED BY <1>1, <1>3, <1>4, <1>5, <1>6

-----------------------------------------------------------------------------
(* Iterators, and the decision of a set *)

(* p is q with the iterators of set g closed.                                *)
ClosedSources(q, p, g) ==
  /\ p \in Seq(Sources) /\ Len(p) = Len(q)
  /\ \A i \in 1..Len(q) :
       /\ p[i].set = q[i].set /\ p[i].of = q[i].of /\ p[i].pulled = q[i].pulled /\ p[i].at = q[i].at
       /\ p[i].epoch = q[i].epoch /\ p[i].live = q[i].live
       /\ p[i].open = (q[i].open /\ q[i].set # g)

(* p is q but for what set g has come to, with the branches it has.          *)
SetChange(q, p, g) ==
  /\ p \in Seq(SourceSets) /\ Len(p) = Len(q) /\ g \in 1..Len(q)
  /\ \A j \in 1..Len(q) : j # g => p[j] = q[j]
  /\ p[g].branches = q[g].branches /\ p[g].out = q[g].out /\ p[g].policy = q[g].policy
  /\ p[g].settled = q[g].settled

(* y is x, but for what it has come to.                                      *)
SameSet(x, y) ==
  /\ y \in SourceSets /\ y.branches = x.branches /\ y.out = x.out /\ y.policy = x.policy
  /\ y.settled = x.settled

LEMMA SetOpenParts ==
  ASSUME NEW x \in SourceSets, NEW n \in Int, NEW y, y = [x EXCEPT !.open = n]
  PROVE  SameSet(x, y) /\ y.open = n /\ y.cause = x.cause /\ y.selected = x.selected
         /\ y.decided = x.decided /\ y.failed = x.failed
BY DEF SourceSets, SameSet

LEMMA SourcesClosedFields ==
  ASSUME NEW s \in RunStates, NEW g \in 1..Len(s.sets)
  PROVE  LET e == SourcesClosed(s, g)
         IN /\ e \in RunStates /\ e.act = s.act /\ e.queue = s.queue
            /\ e.sets = [s.sets EXCEPT ![g].open = 0]
            /\ ClosedSources(s.sources, e.sources, g)
            /\ SameJoins(s, e) /\ SameCounters(s, e)
<1> DEFINE Closing(i) == [s.sources[i] EXCEPT !.open = s.sources[i].open /\ s.sources[i].set # g]
           p == [i \in DOMAIN s.sources |-> Closing(i)]
           y == [s.sets[g] EXCEPT !.open = 0]
           x == [s.sets EXCEPT ![g] = y]
           e == [s EXCEPT !.sets = x, !.sources = p]
<1>1. /\ s.sources \in Seq(Sources) /\ DOMAIN s.sources = 1..Len(s.sources) /\ Len(s.sources) \in Nat
      /\ \A i \in 1..Len(s.sources) : s.sources[i] \in Sources
      /\ s.sets \in Seq(SourceSets) /\ s.sets[g] \in SourceSets
  BY RunStateParts
<1>2. \A i \in 1..Len(s.sources) :
        /\ Closing(i) \in Sources
        /\ Closing(i).set = s.sources[i].set /\ Closing(i).of = s.sources[i].of
        /\ Closing(i).pulled = s.sources[i].pulled /\ Closing(i).at = s.sources[i].at
        /\ Closing(i).epoch = s.sources[i].epoch /\ Closing(i).live = s.sources[i].live
        /\ Closing(i).open = (s.sources[i].open /\ s.sources[i].set # g)
  BY <1>1 DEF Sources
<1>3. e = SourcesClosed(s, g)
  BY DEF SourcesClosed
<1> HIDE DEF Closing
<1>4. p \in [1..Len(s.sources) -> Sources] /\ \A i \in 1..Len(s.sources) : p[i] = Closing(i)
  BY <1>1, <1>2
<1> HIDE DEF p
<1>5. p \in Seq(Sources) /\ Len(p) = Len(s.sources)
  BY <1>1, <1>4
<1>6. ClosedSources(s.sources, p, g)
  BY <1>2, <1>4, <1>5 DEF ClosedSources
<1>7. y \in SourceSets
  <2> DEFINE w == s.sets[g]
  <2>1. w \in SourceSets /\ y = [w EXCEPT !.open = 0] /\ 0 \in Int
    BY <1>1
  <2> HIDE DEF w, y
  <2>2. SameSet(w, y)
    BY <2>1, SetOpenParts
  <2> QED BY <2>2 DEF SameSet
<1>8. x = [s.sets EXCEPT ![g].open = 0]
  OBVIOUS
<1> HIDE DEF y
<1>9. x \in Seq(SourceSets)
  BY <1>1, <1>7, ExceptParts
<1> HIDE DEF x
<1>10. /\ e \in RunStates /\ e.act = s.act /\ e.queue = s.queue /\ e.sets = x /\ e.sources = p
       /\ SameJoins(s, e) /\ SameCounters(s, e)
  BY <1>5, <1>9 DEF RunStates, SameJoins, SameCounters
<1> HIDE DEF e
<1> QED BY <1>3, <1>6, <1>8, <1>10

LEMMA ClosedSourcesKeepOwners ==
  ASSUME NEW q, NEW p, NEW g, ClosedSources(q, p, g)
  PROVE  SameOwners(q, p)
BY DEF ClosedSources, SameOwners

(* A set whose selection is of its members.                                  *)
LEMMA SetChangeKeepsBranches ==
  ASSUME NEW s, WellTyped(s), NEW p, NEW g, SetChange(s.sets, p, g),
         \A k \in 1..Len(p[g].selected) : p[g].selected[k] \in Members(s.sets[g])
  PROVE  SameBranches(s.sets, p)
<1>1. \A i \in 1..Len(s.sets) : p[i].branches = s.sets[i].branches /\ DOMAIN p[i].out = DOMAIN s.sets[i].out
  BY DEF SetChange
<1>2. \A i \in 1..Len(s.sets) : \A k \in 1..Len(s.sets[i].selected) : s.sets[i].selected[k] \in Members(s.sets[i])
  BY DEF WellTyped, SetsKnown
<1>3. \A i \in 1..Len(s.sets) : Members(p[i]) = Members(s.sets[i])
  BY <1>1 DEF Members
<1>4. ASSUME NEW i \in 1..Len(s.sets)
      PROVE  \A k \in 1..Len(p[i].selected) : p[i].selected[k] \in Members(p[i])
  <2>1. CASE i = g
    BY <1>3, <2>1
  <2>2. CASE i # g
    BY <1>2, <1>3, <2>2 DEF SetChange
  <2> QED BY <2>1, <2>2
<1> QED BY <1>1, <1>4 DEF SameBranches, SetChange

(* What a decision changes.                                                  *)
Resolved(s, d) ==
  /\ Settling(s) /\ ~st.sets[s].settled /\ ~st.sets[s].decided /\ ~st.sets[s].failed
  /\ ~TooSmall(st.sets[s])
  /\ d = Decision(st.sets[s]) /\ d.ready /\ Decides(st.sets[s], d)
  /\ st' \in RunStates /\ st'.act = st.act /\ st'.queue = st.queue
  /\ SetChange(st.sets, st'.sets, s)
  /\ st'.sets[s].decided = ~d.failed /\ st'.sets[s].failed = d.failed
  /\ st'.sets[s].selected = d.selected /\ st'.sets[s].open = 0 /\ st'.sets[s].cause = st.sets[s].cause
  /\ ClosedSources(st.sources, st'.sources, s)
  /\ SameJoins(st, st') /\ SameCounters(st, st')
  /\ saved' = saved /\ status' = status /\ UNCHANGED <<pc, batch, todo, touched, processes>>

LEMMA DecideFields ==
  ASSUME TypeInv, NEW s, Decide(s)
  PROVE  \E d : Resolved(s, d)
<1> DEFINE d == Decision(st.sets[s])
           c == SourcesClosed(st, s)
           y == [c.sets[s] EXCEPT !.decided = ~d.failed, !.failed = d.failed, !.selected = d.selected]
           x == [c.sets EXCEPT ![s] = y]
           e == [c EXCEPT !.sets = x]
<1>1. /\ Settling(s) /\ ~st.sets[s].settled /\ ~st.sets[s].decided /\ ~st.sets[s].failed
      /\ ~TooSmall(st.sets[s]) /\ d.ready
      /\ Compute([SourcesClosed(st, s) EXCEPT
          !.sets[s].decided = ~d.failed, !.sets[s].failed = d.failed, !.sets[s].selected = d.selected])
      /\ UNCHANGED <<pc, batch, todo, touched>>
  BY DEF Decide, Unsettled, Decided
<1>2. /\ s \in 1..Len(st.sets) /\ st.sets[s] \in SourceSets /\ st \in RunStates /\ st.sets \in Seq(SourceSets)
  BY <1>1, SettlingParts, RunStateParts
<1>3. Decides(st.sets[s], d)
  <2>1. DOMAIN st.sets[s].out = Members(st.sets[s])
    BY <1>2 DEF TypeInv, WellTyped, SetsKnown
  <2> QED BY <1>2, <2>1, DecisionParts
<1> HIDE DEF d
<1>4. /\ c \in RunStates /\ c.act = st.act /\ c.queue = st.queue
      /\ c.sets = [st.sets EXCEPT ![s].open = 0]
      /\ ClosedSources(st.sources, c.sources, s)
      /\ SameJoins(st, c) /\ SameCounters(st, c)
  BY <1>2, SourcesClosedFields
<1>5. st' = e /\ saved' = saved /\ status' = status /\ processes' = processes
  BY <1>1 DEF Compute
<1> HIDE DEF c
<1>6. /\ c.sets \in Seq(SourceSets) /\ Len(c.sets) = Len(st.sets)
      /\ c.sets[s] = [st.sets[s] EXCEPT !.open = 0] /\ \A j \in 1..Len(st.sets) : j # s => c.sets[j] = st.sets[j]
  <2> DEFINE z == [st.sets[s] EXCEPT !.open = 0]
  <2>1. z \in SourceSets /\ c.sets = [st.sets EXCEPT ![s] = z]
    <3> DEFINE w == st.sets[s]
    <3>1. w \in SourceSets /\ z = [w EXCEPT !.open = 0] /\ 0 \in Int /\ c.sets = [st.sets EXCEPT ![s] = z]
      BY <1>2, <1>4
    <3> HIDE DEF w, z
    <3>2. SameSet(w, z)
      BY <3>1, SetOpenParts
    <3> QED BY <3>1, <3>2 DEF SameSet
  <2> HIDE DEF z
  <2>2. c.sets \in Seq(SourceSets) /\ Len(c.sets) = Len(st.sets) /\ c.sets[s] = z
        /\ \A j \in 1..Len(st.sets) : j # s => c.sets[j] = st.sets[j]
    BY <1>2, <2>1, ExceptParts
  <2> QED BY <2>2 DEF z
<1>7. /\ y \in SourceSets /\ y.branches = st.sets[s].branches /\ y.out = st.sets[s].out
      /\ y.policy = st.sets[s].policy /\ y.settled = st.sets[s].settled /\ y.cause = st.sets[s].cause
      /\ y.open = 0 /\ y.decided = ~d.failed /\ y.failed = d.failed /\ y.selected = d.selected
  <2>1. d.failed \in BOOLEAN /\ (~d.failed) \in BOOLEAN /\ d.selected \in Seq(Nat)
    <3>1. d.failed \in BOOLEAN /\ d.selected \in Seq(Nat)
      BY <1>3 DEF Decides
    <3> QED BY <3>1
  <2> DEFINE w == st.sets[s]
             v == c.sets[s]
             f == ~d.failed
             h == d.failed
             q == d.selected
             u == [v EXCEPT !.decided = f, !.failed = h, !.selected = q]
  <2>2. w \in SourceSets /\ v = [w EXCEPT !.open = 0] /\ y = u
    BY <1>2, <1>6
  <2>3. f \in BOOLEAN /\ h \in BOOLEAN /\ q \in Seq(Nat)
    BY <2>1
  <2> HIDE DEF w, v, f, h, q
  <2>4. SameSet(w, v) /\ v.open = 0 /\ v.cause = w.cause
    BY <2>2, SetOpenParts
  <2> HIDE DEF u
  <2>u. u = [v EXCEPT !.decided = f, !.failed = h, !.selected = q] /\ v \in SourceSets
    BY <2>4 DEF u, SameSet
  <2>5. SameSet(v, u) /\ u.open = v.open /\ u.cause = v.cause /\ u.selected = q
        /\ u.decided = f /\ u.failed = h
    BY <2>3, <2>u DEF SourceSets, SameSet
  <2> HIDE DEF u, y
  <2>6. /\ y \in SourceSets /\ y.branches = w.branches /\ y.out = w.out
        /\ y.policy = w.policy /\ y.settled = w.settled /\ y.cause = w.cause
        /\ y.open = 0 /\ y.decided = f /\ y.failed = h /\ y.selected = q
    BY <2>2, <2>4, <2>5 DEF SameSet
  <2> QED BY <2>6 DEF w, f, h, q
<1> HIDE DEF y
<1>8. /\ x \in Seq(SourceSets) /\ Len(x) = Len(st.sets) /\ x[s] = y
      /\ \A j \in 1..Len(st.sets) : j # s => x[j] = st.sets[j]
  BY <1>2, <1>6, <1>7, ExceptParts
<1> HIDE DEF x
<1>9. /\ e \in RunStates /\ e.act = c.act /\ e.queue = c.queue /\ e.sets = x /\ e.sources = c.sources
      /\ SameJoins(c, e) /\ SameCounters(c, e)
  BY <1>4, <1>8 DEF RunStates, SameJoins, SameCounters
<1> HIDE DEF e
<1>10. SetChange(st.sets, x, s)
  BY <1>2, <1>7, <1>8 DEF SetChange
<1>11. SameJoins(st, e) /\ SameCounters(st, e)
  BY <1>4, <1>9 DEF SameJoins, SameCounters
<1>12. Resolved(s, d)
  BY <1>1, <1>3, <1>4, <1>5, <1>7, <1>8, <1>9, <1>10, <1>11 DEF Resolved, d
<1> QED BY <1>12

LEMMA DecideTypes ==
  ASSUME TypeInv, NEW s, Decide(s)
  PROVE  TypeInv'
<1> PICK d : Resolved(s, d)
  BY DecideFields
<1>1. Settling(s)
  BY DEF Resolved
<1>2. ControlInv'
  BY <1>1, SettleKeepsControl DEF Resolved
<1>3. \A k \in 1..Len(st'.sets[s].selected) : st'.sets[s].selected[k] \in Members(st.sets[s])
  BY DEF Resolved, Decides, InPhase
<1>4. SameBranches(st.sets, st'.sets)
  BY <1>3, SetChangeKeepsBranches DEF Resolved, TypeInv
<1>5. Updated(st, st')
  BY <1>4, ClosedSourcesKeepOwners, WellTypedParts DEF TypeInv, Updated, Resolved, SameJoins, SameCounters
<1>6. touched' \in Seq(Nat) /\ Refs(touched', Len(st.sets))
  BY <1>1, SettlingParts DEF Resolved
<1> QED BY <1>2, <1>5, <1>6, UpdateStepKeepsTypes DEF Resolved

LEMMA PullingParts ==
  ASSUME TypeInv, NEW i, Pulling(i)
  PROVE  /\ i \in 1..Len(st.sources) /\ st.sources[i] \in Sources /\ st.sources[i].open
         /\ st.sources[i].set \in 1..Len(st.sets) /\ st.sets[st.sources[i].set] \in SourceSets
         /\ \A j \in 1..Len(st.sources) : st.sources[j].open => i <= j
         /\ pc = "schedule" /\ todo = <<>> /\ batch = <<>> /\ touched = <<>>
         /\ st \in RunStates /\ st.sets \in Seq(SourceSets) /\ st.sources \in Seq(Sources)
<1>1. /\ st \in RunStates /\ st.sets \in Seq(SourceSets) /\ st.sources \in Seq(Sources)
      /\ DOMAIN st.sources = 1..Len(st.sources)
      /\ \A j \in 1..Len(st.sources) : st.sources[j] \in Sources
      /\ \A j \in 1..Len(st.sets) : st.sets[j] \in SourceSets
  BY TypeParts, RunStateParts
<1> DEFINE O == OpenSources(st)
<1>2. O \in SUBSET Nat /\ O = {j \in 1..Len(st.sources) : st.sources[j].open} /\ O # {} /\ i = Min(O)
  BY <1>1 DEF OpenSources, Pulling
<1> HIDE DEF O
<1>3. i \in O /\ \A j \in O : i <= j
  BY <1>2, MinProperties
<1>4. i \in 1..Len(st.sources) /\ st.sources[i].open /\ \A j \in 1..Len(st.sources) : st.sources[j].open => i <= j
  BY <1>2, <1>3
<1>5. st.sources[i].set \in 1..Len(st.sets)
  BY <1>4 DEF TypeInv, WellTyped, SetsKnown
<1>6. pc = "schedule" /\ todo = <<>> /\ batch = <<>> /\ touched = <<>>
  BY DEF Pulling, TypeInv, ControlInv
<1> QED BY <1>1, <1>4, <1>5, <1>6

(* What the end of an iterator changes: it is closed, or, when it failed,    *)
(* its set with all its iterators.                                           *)
Ended(i, g) ==
  /\ Pulling(i) /\ g = st.sources[i].set /\ g \in 1..Len(st.sets)
  /\ st' \in RunStates /\ st'.act = st.act /\ st'.queue = st.queue
  /\ SetChange(st.sets, st'.sets, g)
  /\ st'.sets[g].decided = st.sets[g].decided /\ st'.sets[g].selected = st.sets[g].selected
  /\ SameOwners(st.sources, st'.sources)
  /\ \/ /\ st'.sets[g].open = st.sets[g].open - 1 /\ st'.sets[g].failed = st.sets[g].failed
        /\ st'.sets[g].cause = st.sets[g].cause
        /\ st'.sources = [st.sources EXCEPT ![i].open = FALSE]
        /\ st'.sources[i] = [st.sources[i] EXCEPT !.open = FALSE]
        /\ \A j \in 1..Len(st.sources) : j # i => st'.sources[j] = st.sources[j]
     \/ /\ st'.sets[g].open = 0 /\ st'.sets[g].failed /\ st'.sets[g].cause = "failed"
        /\ ClosedSources(st.sources, st'.sources, g)
  /\ SameJoins(st, st') /\ SameCounters(st, st')
  /\ saved' = st' /\ status' = status /\ pc = "schedule" /\ pc' = "commit" /\ touched' = <<g>>
  /\ UNCHANGED <<batch, todo, processes>>

LEMMA EndSourceFields ==
  ASSUME TypeInv, NEW i, EndSource(i)
  PROVE  \E g : Ended(i, g)
<1> DEFINE g == st.sources[i].set
<1>1. /\ Pulling(i) /\ touched' = <<g>> /\ pc' = "commit" /\ UNCHANGED <<batch, todo>>
      /\ Checkpoint(IF st.sources[i].of.end = "closed"
                   THEN [st EXCEPT !.sources[i].open = FALSE, !.sets[g].open = @ - 1]
                   ELSE [SourcesClosed(st, g) EXCEPT !.sets[g].failed = TRUE,
                                                     !.sets[g].cause = "failed"])
  BY DEF EndSource
<1>2. /\ i \in 1..Len(st.sources) /\ st.sources[i] \in Sources
      /\ g \in 1..Len(st.sets) /\ st.sets[g] \in SourceSets /\ pc = "schedule"
      /\ st \in RunStates /\ st.sets \in Seq(SourceSets) /\ st.sources \in Seq(Sources)
  BY <1>1, PullingParts
<1>3. CASE st.sources[i].of.end = "closed"
  <2> DEFINE n == st.sets[g].open - 1
             y == [st.sets[g] EXCEPT !.open = n]
             z == [st.sources[i] EXCEPT !.open = FALSE]
             x == [st.sets EXCEPT ![g] = y]
             p == [st.sources EXCEPT ![i] = z]
             e == [st EXCEPT !.sources = p, !.sets = x]
  <2>1. n \in Int
    <3>1. st.sets[g].open \in Int
      <4> HIDE DEF g
      <4> QED BY <1>2 DEF SourceSets
    <3> QED BY <3>1
  <2>2. st' = e /\ saved' = st' /\ status' = status /\ processes' = processes
    BY <1>1, <1>3 DEF Checkpoint
  <2>3. n = st.sets[g].open - 1 /\ z = [st.sources[i] EXCEPT !.open = FALSE]
        /\ p = [st.sources EXCEPT ![i].open = FALSE]
    OBVIOUS
  <2> HIDE DEF n
  <2>4. /\ y \in SourceSets /\ y.branches = st.sets[g].branches /\ y.out = st.sets[g].out
        /\ y.policy = st.sets[g].policy /\ y.settled = st.sets[g].settled /\ y.cause = st.sets[g].cause
        /\ y.open = n /\ y.decided = st.sets[g].decided /\ y.failed = st.sets[g].failed
        /\ y.selected = st.sets[g].selected
    <3> HIDE DEF g
    <3> QED BY <1>2, <2>1, SetOpenParts DEF SameSet
  <2>5. z \in Sources /\ z.set = g
    BY <1>2 DEF Sources
  <2> HIDE DEF y, z, g
  <2>6. /\ x \in Seq(SourceSets) /\ Len(x) = Len(st.sets) /\ x[g] = y
        /\ \A j \in 1..Len(st.sets) : j # g => x[j] = st.sets[j]
    BY <1>2, <2>4, ExceptParts
  <2>7. /\ p \in Seq(Sources) /\ Len(p) = Len(st.sources) /\ p[i] = z
        /\ \A j \in 1..Len(st.sources) : j # i => p[j] = st.sources[j]
    BY <1>2, <2>5, ExceptParts
  <2> HIDE DEF x, p
  <2>8. /\ e \in RunStates /\ e.act = st.act /\ e.queue = st.queue /\ e.sets = x /\ e.sources = p
        /\ SameJoins(st, e) /\ SameCounters(st, e)
    BY <1>2, <2>6, <2>7 DEF RunStates, SameJoins, SameCounters
  <2> HIDE DEF e
  <2>9. SetChange(st.sets, x, g)
    BY <1>2, <2>4, <2>6 DEF SetChange
  <2>10. SameOwners(st.sources, p)
    BY <2>5, <2>7 DEF SameOwners, g
  <2>11. st'.sets = x /\ st'.sources = p /\ st' \in RunStates /\ st'.act = st.act /\ st'.queue = st.queue
         /\ SameJoins(st, st') /\ SameCounters(st, st')
    BY <2>2, <2>8
  <2>12. Ended(i, g)
    BY <1>1, <1>2, <2>2, <2>3, <2>4, <2>6, <2>7, <2>9, <2>10, <2>11 DEF Ended, g
  <2> QED BY <2>12
<1>4. CASE st.sources[i].of.end # "closed"
  <2> DEFINE c == SourcesClosed(st, g)
             y == [c.sets[g] EXCEPT !.failed = TRUE, !.cause = "failed"]
             x == [c.sets EXCEPT ![g] = y]
             e == [c EXCEPT !.sets = x]
  <2>1. st' = e /\ saved' = st' /\ status' = status /\ processes' = processes
    BY <1>1, <1>4 DEF Checkpoint
  <2>2. /\ c \in RunStates /\ c.act = st.act /\ c.queue = st.queue
        /\ c.sets = [st.sets EXCEPT ![g].open = 0]
        /\ ClosedSources(st.sources, c.sources, g)
        /\ SameJoins(st, c) /\ SameCounters(st, c)
    BY <1>2, SourcesClosedFields
  <2> HIDE DEF c, g
  <2>3. /\ c.sets \in Seq(SourceSets) /\ Len(c.sets) = Len(st.sets)
        /\ c.sets[g] = [st.sets[g] EXCEPT !.open = 0] /\ \A j \in 1..Len(st.sets) : j # g => c.sets[j] = st.sets[j]
    <3> DEFINE z == [st.sets[g] EXCEPT !.open = 0]
    <3>1. z \in SourceSets /\ c.sets = [st.sets EXCEPT ![g] = z]
      <4> DEFINE w == st.sets[g]
      <4>1. w \in SourceSets /\ z = [w EXCEPT !.open = 0] /\ 0 \in Int /\ c.sets = [st.sets EXCEPT ![g] = z]
        BY <1>2, <2>2 DEF g
      <4> HIDE DEF w, z
      <4>2. SameSet(w, z)
        BY <4>1, SetOpenParts
      <4> QED BY <4>1, <4>2 DEF SameSet
    <3> HIDE DEF z
    <3>2. c.sets \in Seq(SourceSets) /\ Len(c.sets) = Len(st.sets) /\ c.sets[g] = z
          /\ \A j \in 1..Len(st.sets) : j # g => c.sets[j] = st.sets[j]
      BY <1>2, <3>1, ExceptParts
    <3> QED BY <3>2 DEF z
  <2>4. /\ y \in SourceSets /\ y.branches = st.sets[g].branches /\ y.out = st.sets[g].out
        /\ y.policy = st.sets[g].policy /\ y.settled = st.sets[g].settled /\ y.cause = "failed"
        /\ y.open = 0 /\ y.decided = st.sets[g].decided /\ y.failed
        /\ y.selected = st.sets[g].selected
    <3> DEFINE w == st.sets[g]
               v == c.sets[g]
    <3>1. w \in SourceSets /\ v = [w EXCEPT !.open = 0] /\ y = [v EXCEPT !.failed = TRUE, !.cause = "failed"]
      BY <1>2, <2>3 DEF g
    <3> HIDE DEF w, v, y
    <3>2. SameSet(w, v) /\ v.open = 0 /\ v.decided = w.decided /\ v.selected = w.selected
      BY <3>1, SetOpenParts
    <3>3. SameSet(v, y) /\ y.open = v.open /\ y.cause = "failed" /\ y.selected = v.selected
          /\ y.decided = v.decided /\ y.failed
      BY <3>1, <3>2 DEF SameSet, SourceSets, Causes
    <3> QED BY <3>2, <3>3 DEF SameSet, w
  <2> HIDE DEF y
  <2>5. /\ x \in Seq(SourceSets) /\ Len(x) = Len(st.sets) /\ x[g] = y
        /\ \A j \in 1..Len(st.sets) : j # g => x[j] = st.sets[j]
    BY <1>2, <2>3, <2>4, ExceptParts
  <2> HIDE DEF x
  <2>6. /\ e \in RunStates /\ e.act = c.act /\ e.queue = c.queue /\ e.sets = x /\ e.sources = c.sources
        /\ SameJoins(c, e) /\ SameCounters(c, e)
    BY <2>2, <2>5 DEF RunStates, SameJoins, SameCounters
  <2> HIDE DEF e
  <2>7. SetChange(st.sets, x, g)
    BY <1>2, <2>4, <2>5 DEF SetChange
  <2>8. SameJoins(st, e) /\ SameCounters(st, e)
    BY <2>2, <2>6 DEF SameJoins, SameCounters
  <2>9. SameOwners(st.sources, c.sources)
    BY <2>2, ClosedSourcesKeepOwners
  <2>10. Ended(i, g)
    BY <1>1, <1>2, <2>1, <2>2, <2>4, <2>5, <2>6, <2>7, <2>8, <2>9 DEF Ended, g
  <2> QED BY <2>10
<1> QED BY <1>3, <1>4

LEMMA EndSourceTypes ==
  ASSUME TypeInv, NEW i, EndSource(i)
  PROVE  TypeInv'
<1> PICK g : Ended(i, g)
  BY EndSourceFields
<1>1. todo = <<>> /\ batch = <<>> /\ pc = "schedule" /\ st \in RunStates
  BY PullingParts DEF Ended
<1>2. ControlInv'
  <2>1. Len(todo') = 0 /\ Len(st'.queue) \in Nat
    BY <1>1, EmptyParts, RunStateParts DEF Ended
  <2> QED BY SMTT(60), <1>1, <2>1 DEF TypeInv, ControlInv, Ended
<1>3. SameBranches(st.sets, st'.sets)
  <2>1. \A k \in 1..Len(st.sets[g].selected) : st.sets[g].selected[k] \in Members(st.sets[g])
    BY DEF Ended, TypeInv, WellTyped, SetsKnown
  <2>2. SetChange(st.sets, st'.sets, g) /\ st'.sets[g].selected = st.sets[g].selected
    BY DEF Ended
  <2> QED BY <2>1, <2>2, SetChangeKeepsBranches DEF TypeInv
<1>4. Updated(st, st')
  BY <1>3, WellTypedParts DEF TypeInv, Updated, Ended, SameJoins, SameCounters
<1>5. touched' \in Seq(Nat) /\ Refs(touched', Len(st.sets))
  <2>1. touched' = <<g>> /\ g \in 1..Len(st.sets)
    BY DEF Ended
  <2>2. Len(<<g>>) = 1 /\ <<g>>[1] = g /\ g \in Nat
    BY <2>1
  <2> QED BY <2>1, <2>2 DEF Refs
<1> QED BY <1>1, <1>2, <1>4, <1>5, UpdateStepKeepsTypes DEF Ended

-----------------------------------------------------------------------------
(* Steps that add activations *)

(* What the activations that are added refer to is there.                    *)
LEMMA AddsKeepsActs ==
  ASSUME NEW s, WellTyped(s), NEW e \in RunStates, NEW n \in Nat, Adds(s, e, n),
         e.context = s.context, Len(s.sets) <= Len(e.sets), Len(s.sources) <= Len(e.sources),
         \A a \in (Len(s.act) + 1)..Len(e.act) :
            /\ e.act[a].set <= Len(e.sets) /\ e.act[a].source <= Len(e.sources)
            /\ Refs(e.act[a].input, Len(e.act))
  PROVE  ActsKnown(e)
<1>1. /\ Len(s.act) \in Nat /\ Len(e.act) \in Nat /\ Len(s.queue) \in Nat
      /\ Len(s.sets) \in Nat /\ Len(e.sets) \in Nat /\ Len(s.sources) \in Nat /\ Len(e.sources) \in Nat
      /\ \A a \in 1..Len(s.act) : s.act[a] \in Activations
  BY RunStateParts DEF WellTyped
<1>2. /\ Len(e.act) = Len(s.act) + n /\ Len(e.queue) = Len(s.queue) + n
      /\ e.tracked = s.tracked \cup (Len(s.act) + 1)..(Len(s.act) + n)
      /\ \A a \in 1..Len(s.act) : e.act[a] = s.act[a]
      /\ \A i \in 1..Len(s.queue) : e.queue[i] = s.queue[i]
      /\ \A i \in 1..n : e.queue[Len(s.queue) + i] = Len(s.act) + i
  BY DEF Adds
<1>3. Len(s.act) <= Len(e.act)
  BY <1>1, <1>2
<1>4. ASSUME NEW a \in 1..Len(e.act)
      PROVE  /\ e.act[a].set <= Len(e.sets) /\ e.act[a].source <= Len(e.sources)
             /\ Refs(e.act[a].input, Len(e.act))
  <2>1. CASE a \in 1..Len(s.act)
    <3>1. /\ s.act[a].set <= Len(s.sets) /\ s.act[a].source <= Len(s.sources)
          /\ Refs(s.act[a].input, Len(s.act)) /\ s.act[a].set \in Nat /\ s.act[a].source \in Nat
      BY <1>1, <2>1 DEF WellTyped, ActsKnown, Activations
    <3>2. Refs(s.act[a].input, Len(e.act))
      BY <1>1, <1>3, <3>1, RefsGrow
    <3>3. s.act[a].set <= Len(e.sets) /\ s.act[a].source <= Len(e.sources)
      BY SMTT(30), <1>1, <3>1
    <3> QED BY <1>2, <2>1, <3>2, <3>3
  <2>2. CASE a \in (Len(s.act) + 1)..Len(e.act)
    BY <2>2
  <2> QED BY <1>1, <2>1, <2>2
<1>5. Refs(e.queue, Len(e.act))
  <2> SUFFICES ASSUME NEW i \in 1..Len(e.queue)
               PROVE  e.queue[i] \in 1..Len(e.act)
    BY DEF Refs
  <2>1. CASE i \in 1..Len(s.queue)
    <3>1. e.queue[i] = s.queue[i] /\ s.queue[i] \in 1..Len(s.act)
      BY <1>2, <2>1, WellTypedParts DEF Refs
    <3> QED BY <1>1, <1>3, <3>1
  <2>2. CASE i \notin 1..Len(s.queue)
    <3>1. i - Len(s.queue) \in 1..n /\ Len(s.queue) + (i - Len(s.queue)) = i
      BY <1>1, <1>2, <2>2
    <3> DEFINE j == i - Len(s.queue)
    <3>2. e.queue[Len(s.queue) + j] = Len(s.act) + j /\ j \in 1..n /\ Len(s.queue) + j = i
      BY <1>2, <3>1
    <3> HIDE DEF j
    <3>3. Len(s.act) + j \in 1..Len(e.act)
      BY <1>1, <1>2, <3>2
    <3> QED BY <3>2, <3>3
  <2> QED BY <2>1, <2>2
<1>6. Refs(e.context, Len(e.act))
  BY <1>1, <1>3, WellTypedParts, RefsGrow
<1>7. e.tracked \subseteq 1..Len(e.act)
  <2>1. s.tracked \subseteq 1..Len(s.act)
    BY DEF WellTyped, ActsKnown
  <2>2. \A a \in 1..Len(s.act) : a \in 1..Len(e.act)
    BY <1>1, <1>3
  <2>3. \A a \in (Len(s.act) + 1)..(Len(s.act) + n) : a \in 1..Len(e.act)
    BY <1>1, <1>2
  <2> QED BY <1>2, <2>1, <2>2, <2>3
<1> QED BY <1>4, <1>5, <1>6, <1>7 DEF ActsKnown

LEMMA JoinsStayKnown ==
  ASSUME NEW s \in RunStates, JoinsKnown(s), NEW e \in RunStates, Len(s.act) <= Len(e.act),
         e.bound = s.bound, e.closed = s.closed
  PROVE  JoinsKnown(e)
<1>1. Len(s.act) \in Nat /\ Len(e.act) \in Nat
  BY RunStateParts
<1>2. \A t \in Joins : Refs(e.bound[t], Len(e.act))
  BY <1>1, RefsGrow DEF JoinsKnown
<1>3. \A a \in 1..Len(s.act) : a \in 1..Len(e.act)
  BY <1>1
<1> QED BY <1>2, <1>3 DEF JoinsKnown

(* y is set x with branch b, which has no outcome yet.                       *)
WithBranch(x, y, b) ==
  /\ y \in SourceSets /\ y.branches = Append(x.branches, b)
  /\ DOMAIN y.out = DOMAIN x.out \cup {b} /\ y.out[b] = NoOutcome
  /\ \A c \in DOMAIN x.out : c # b => y.out[c] = x.out[c]
  /\ y.policy = x.policy /\ y.open = x.open /\ y.cause = x.cause /\ y.selected = x.selected
  /\ y.decided = x.decided /\ y.settled = x.settled /\ y.failed = x.failed

LEMMA WithBranchFields ==
  ASSUME NEW x \in SourceSets, NEW b \in Nat
  PROVE  WithBranch(x, [x EXCEPT !.branches = Append(@, b),
                                 !.out = [c \in DOMAIN @ \cup {b} |-> IF c = b THEN NoOutcome ELSE @[c]]],
                    b)
<1> DEFINE q == Append(x.branches, b)
           D == DOMAIN x.out \cup {b}
           f == [c \in D |-> IF c = b THEN NoOutcome ELSE x.out[c]]
           y == [x EXCEPT !.branches = q, !.out = f]
<1>1. x.branches \in Seq(Nat) /\ x.out \in OutcomeMaps
  BY DEF SourceSets
<1>2. q \in Seq(Nat)
  BY <1>1, AppendParts
<1>3. NoOutcome \in Outcomes
  BY DEF NoOutcome, Outcomes, Causes, Dispatchable
<1>4. DOMAIN x.out \in SUBSET Nat /\ \A c \in DOMAIN x.out : x.out[c] \in Outcomes
  BY <1>1, OutcomeMapIsFunction
<1>5. D \in SUBSET Nat /\ f \in [D -> Outcomes]
  BY <1>3, <1>4
<1>6. f \in OutcomeMaps
  BY <1>5, OutcomeMapIsFunction
<1>7. DOMAIN f = D /\ f[b] = NoOutcome /\ \A c \in DOMAIN x.out : c # b => f[c] = x.out[c]
  OBVIOUS
<1>8. y = [x EXCEPT !.branches = Append(@, b),
                    !.out = [c \in DOMAIN @ \cup {b} |-> IF c = b THEN NoOutcome ELSE @[c]]]
  OBVIOUS
<1> HIDE DEF q, f
<1>9. /\ y \in SourceSets /\ y.branches = q /\ y.out = f
      /\ y.policy = x.policy /\ y.open = x.open /\ y.cause = x.cause /\ y.selected = x.selected
      /\ y.decided = x.decided /\ y.settled = x.settled /\ y.failed = x.failed
  BY <1>2, <1>6 DEF SourceSets
<1> HIDE DEF y
<1>10. WithBranch(x, y, b)
  BY <1>7, <1>9 DEF WithBranch, q
<1> QED BY <1>8, <1>10

(* What an item that is pulled changes: a branch more, of the iterator.      *)
Pulled(i, g, b) ==
  /\ Pulling(i) /\ g = st.sources[i].set /\ b = Len(st.act) + 1
  /\ st.sources[i].at < st.sources[i].of.items
  /\ st' \in RunStates /\ Adds(st, st', 1)
  /\ LET new == st'.act[b]
     IN /\ new.node = st.sources[i].of.target /\ new.set = g /\ new.phase = "ready"
        /\ new.input = <<>> /\ new.source = i /\ new.item = st.sources[i].at + 1
  /\ Len(st'.sets) = Len(st.sets) /\ \A j \in 1..Len(st.sets) : j # g => st'.sets[j] = st.sets[j]
  /\ WithBranch(st.sets[g], st'.sets[g], b)
  /\ Len(st'.sources) = Len(st.sources)
  /\ \A j \in 1..Len(st.sources) : j # i => st'.sources[j] = st.sources[j]
  /\ LET y == st'.sources[i]
         x == st.sources[i]
     IN /\ y \in Sources /\ y.set = x.set /\ y.of = x.of /\ y.epoch = x.epoch
        /\ y.pulled = x.pulled + 1 /\ y.at = x.at + 1 /\ y.open = x.open /\ y.live = x.live
  /\ st'.bound = st.bound /\ st'.closed = st.closed /\ SameCounters(st, st')
  /\ saved' = st' /\ status' = status /\ UNCHANGED <<pc, batch, todo, touched, processes>>

LEMMA PullItemFields ==
  ASSUME TypeInv, NEW i, PullItem(i)
  PROVE  \E g, b : Pulled(i, g, b)
<1> DEFINE g == st.sources[i].set
           b == Len(st.act) + 1
           n == st.sources[i].at + 1
           new == [NewActivation(st.sources[i].of.target, st.sources[i].epoch, g, <<>>) EXCEPT
                !.source = i, !.item = n]
           c == Enqueue(st, <<new>>)
<1>1. /\ Pulling(i) /\ st.sources[i].at < st.sources[i].of.items
      /\ Checkpoint([c EXCEPT
          !.sets[g].branches = Append(@, b),
          !.sets[g].out = [x \in DOMAIN @ \cup {b} |-> IF x = b THEN NoOutcome ELSE @[x]],
          !.sources[i].pulled = @ + 1, !.sources[i].at = @ + 1])
      /\ UNCHANGED <<pc, batch, todo, touched>>
  BY DEF PullItem
<1>2. /\ i \in 1..Len(st.sources) /\ st.sources[i] \in Sources
      /\ g \in 1..Len(st.sets) /\ st.sets[g] \in SourceSets
      /\ st \in RunStates /\ st.sets \in Seq(SourceSets) /\ st.sources \in Seq(Sources)
      /\ Len(st.act) \in Nat /\ Len(st.sets) \in Nat
  BY <1>1, PullingParts, TypeParts
<1>3. /\ st.sources[i].at \in Nat /\ st.sources[i].pulled \in Nat /\ st.sources[i].epoch \in Nat
      /\ st.sources[i].of.target \in Nodes /\ g \in Nat /\ b \in Nat /\ n \in Nat /\ i \in Nat
  <2>1. st.sources[i].at \in Nat /\ st.sources[i].pulled \in Nat /\ st.sources[i].epoch \in Nat
        /\ st.sources[i].of \in Iterators
    BY <1>2 DEF Sources
  <2>2. st.sources[i].of.target \in Nodes
    BY <2>1 DEF Iterators
  <2> QED BY <1>2, <2>1, <2>2
<1>4. /\ new \in Activations
      /\ new.node = st.sources[i].of.target /\ new.set = g /\ new.phase = "ready"
      /\ new.input = <<>> /\ new.source = i /\ new.item = n
  <2> HIDE DEF g, n
  <2> QED BY <1>3, EmptyParts DEF NewActivation, Activations
<1>5. n = st.sources[i].at + 1 /\ b = Len(st.act) + 1 /\ g = st.sources[i].set
  OBVIOUS
<1> HIDE DEF new
<1>6. /\ c \in RunStates
      /\ Adds(st, c, 1) /\ SameSets(st, c) /\ SameCounters(st, c)
      /\ c.bound = st.bound /\ c.closed = st.closed
      /\ c.act[Len(st.act) + 1] = new
  BY <1>2, <1>4, EnqueueOne
<1> HIDE DEF c, g, b, n
<1> DEFINE y == [st.sets[g] EXCEPT !.branches = Append(@, b),
                  !.out = [x \in DOMAIN @ \cup {b} |-> IF x = b THEN NoOutcome ELSE @[x]]]
           sets == [st.sets EXCEPT ![g] = y]
           m == st.sources[i].pulled + 1
           z == [st.sources[i] EXCEPT !.pulled = m, !.at = n]
           sources == [st.sources EXCEPT ![i] = z]
           e == [c EXCEPT !.sets = sets, !.sources = sources]
<1>7. WithBranch(st.sets[g], y, b) /\ y \in SourceSets
  <2> DEFINE w == st.sets[g]
  <2>1. w \in SourceSets /\ b \in Nat
    BY <1>2, <1>3
  <2> HIDE DEF w
  <2>2. WithBranch(w, [w EXCEPT !.branches = Append(@, b),
                  !.out = [x \in DOMAIN @ \cup {b} |-> IF x = b THEN NoOutcome ELSE @[x]]], b)
    BY <2>1, WithBranchFields
  <2>3. WithBranch(st.sets[g], y, b)
    BY <2>2 DEF w
  <2> QED BY <2>3 DEF WithBranch
<1>8. [c EXCEPT
          !.sets[g].branches = Append(@, b),
          !.sets[g].out = [x \in DOMAIN @ \cup {b} |-> IF x = b THEN NoOutcome ELSE @[x]],
          !.sources[i].pulled = @ + 1, !.sources[i].at = @ + 1] = e
  <2>1. c.sets = st.sets /\ c.sources = st.sources
    BY <1>6 DEF SameSets
  <2> DEFINE B == Append(st.sets[g].branches, b)
             O == [x \in DOMAIN st.sets[g].out \cup {b} |-> IF x = b THEN NoOutcome ELSE st.sets[g].out[x]]
  <2>2. [c EXCEPT
          !.sets[g].branches = Append(@, b),
          !.sets[g].out = [x \in DOMAIN @ \cup {b} |-> IF x = b THEN NoOutcome ELSE @[x]],
          !.sources[i].pulled = @ + 1, !.sources[i].at = @ + 1]
        = [c EXCEPT !.sets[g].branches = B, !.sets[g].out = O, !.sources[i].pulled = m, !.sources[i].at = n]
    BY <1>5, <2>1
  <2> DEFINE d == [c EXCEPT !.sets[g].branches = B, !.sets[g].out = O]
             x == [st.sets EXCEPT ![g] = [st.sets[g] EXCEPT !.branches = B, !.out = O]]
             s == [st.sources EXCEPT ![i] = [st.sources[i] EXCEPT !.pulled = m, !.at = n]]
  <2>3. c \in RunStates /\ g \in DOMAIN c.sets /\ i \in DOMAIN c.sources
        /\ st.sets[g] \in SourceSets /\ st.sources[i] \in Sources
    BY <1>2, <1>6, <2>1, RunStateParts
  <2>4. e = [c EXCEPT !.sets = x, !.sources = s]
    OBVIOUS
  <2> HIDE DEF B, O, m, e
  <2>5. d = [c EXCEPT !.sets = x]
    BY <2>1, <2>3 DEF RunStates, SourceSets
  <2>6. [c EXCEPT !.sets[g].branches = B, !.sets[g].out = O,
                  !.sources[i].pulled = m, !.sources[i].at = n]
          = [d EXCEPT !.sources[i].pulled = m, !.sources[i].at = n]
    OBVIOUS
  <2> HIDE DEF x
  <2>7. [[c EXCEPT !.sets = x] EXCEPT !.sources[i].pulled = m, !.sources[i].at = n]
          = [[c EXCEPT !.sets = x] EXCEPT !.sources = s]
    BY <2>1, <2>3 DEF RunStates, Sources
  <2> HIDE DEF s, d
  <2>8. [[c EXCEPT !.sets = x] EXCEPT !.sources = s] = [c EXCEPT !.sets = x, !.sources = s]
    OBVIOUS
  <2> QED BY <2>2, <2>4, <2>5, <2>6, <2>7, <2>8
<1>9. /\ z \in Sources /\ z.set = st.sources[i].set /\ z.of = st.sources[i].of
      /\ z.epoch = st.sources[i].epoch /\ z.pulled = m /\ z.at = n
      /\ z.open = st.sources[i].open /\ z.live = st.sources[i].live
  <2>1. m \in Nat
    BY <1>3
  <2> HIDE DEF m
  <2> QED BY <1>2, <1>3, <2>1 DEF Sources
<1>10. m = st.sources[i].pulled + 1
  OBVIOUS
<1> HIDE DEF y, z, m
<1>11. /\ sets \in Seq(SourceSets) /\ Len(sets) = Len(st.sets) /\ sets[g] = y
       /\ \A j \in 1..Len(st.sets) : j # g => sets[j] = st.sets[j]
  BY <1>2, <1>7, ExceptParts
<1>12. /\ sources \in Seq(Sources) /\ Len(sources) = Len(st.sources) /\ sources[i] = z
       /\ \A j \in 1..Len(st.sources) : j # i => sources[j] = st.sources[j]
  BY <1>2, <1>9, ExceptParts
<1> HIDE DEF sets, sources
<1>13. /\ e \in RunStates /\ e.act = c.act /\ e.queue = c.queue /\ e.tracked = c.tracked
       /\ e.sets = sets /\ e.sources = sources /\ e.bound = st.bound /\ e.closed = st.closed
       /\ SameCounters(c, e)
  BY <1>6, <1>11, <1>12 DEF RunStates, SameCounters
<1>14. st' = e /\ saved' = e /\ status' = status /\ processes' = processes
  BY <1>1, <1>8 DEF Checkpoint
<1> HIDE DEF e
<1>15. Adds(st, st', 1) /\ SameCounters(st, st') /\ st'.act[b] = new
  BY <1>5, <1>6, <1>13, <1>14 DEF Adds, SameCounters
<1>16. Pulled(i, g, b)
  BY <1>1, <1>4, <1>5, <1>7, <1>9, <1>10, <1>11, <1>12, <1>13, <1>14, <1>15 DEF Pulled
<1> QED BY <1>16

LEMMA PullItemTypes ==
  ASSUME TypeInv, NEW i, PullItem(i)
  PROVE  TypeInv'
<1> PICK g, b : Pulled(i, g, b)
  BY PullItemFields
<1>1. /\ i \in 1..Len(st.sources) /\ g \in 1..Len(st.sets) /\ pc = "schedule"
      /\ st \in RunStates /\ st' \in RunStates /\ WellTyped(st) /\ b \in Nat
  BY PullingParts, TypeParts DEF Pulled, TypeInv
<1>2. /\ Len(st.act) \in Nat /\ Len(st.sets) \in Nat /\ Len(st.sources) \in Nat
      /\ Len(st'.act) = b /\ b = Len(st.act) + 1 /\ Len(st'.sets) = Len(st.sets)
      /\ Len(st'.sources) = Len(st.sources) /\ Len(st'.queue) \in Nat
      /\ \A a \in 1..Len(st.act) : st'.act[a] = st.act[a]
  BY <1>1, RunStateParts DEF Pulled, Adds
<1>3. ActsKnown(st')
  <2>1. ASSUME NEW a \in (Len(st.act) + 1)..Len(st'.act)
        PROVE  /\ st'.act[a].set <= Len(st'.sets) /\ st'.act[a].source <= Len(st'.sources)
               /\ Refs(st'.act[a].input, Len(st'.act))
    <3>1. a = b
      BY <1>2
    <3>2. st'.act[b].set = g /\ st'.act[b].source = i /\ st'.act[b].input = <<>>
      BY DEF Pulled
    <3>3. g <= Len(st'.sets) /\ i <= Len(st'.sources)
      BY <1>1, <1>2
    <3> QED BY <3>1, <3>2, <3>3, EmptyParts DEF Refs
  <2>2. Adds(st, st', 1) /\ st'.context = st.context /\ Len(st.sets) <= Len(st'.sets)
        /\ Len(st.sources) <= Len(st'.sources) /\ 1 \in Nat
    BY <1>2 DEF Pulled, SameCounters
  <2> QED BY <1>1, <2>1, <2>2, AddsKeepsActs
<1>4. JoinsKnown(st')
  BY <1>1, <1>2, JoinsStayKnown DEF Pulled, WellTyped
<1>5. SetsKnown(st')
  <2>1. \A j \in 1..Len(st'.sources) : st'.sources[j].set \in 1..Len(st'.sets)
    <3>1. \A j \in 1..Len(st.sources) : st'.sources[j].set = st.sources[j].set
      BY DEF Pulled
    <3> QED BY <1>2, <3>1 DEF TypeInv, WellTyped, SetsKnown
  <2>2. ASSUME NEW j \in 1..Len(st.sets)
        PROVE  /\ Members(st'.sets[j]) = {a \in 1..Len(st'.act) : st'.act[a].set = j}
               /\ DOMAIN st'.sets[j].out = Members(st'.sets[j])
               /\ \A k \in 1..Len(st'.sets[j].selected) : st'.sets[j].selected[k] \in Members(st'.sets[j])
    <3>1. /\ Members(st.sets[j]) = {a \in 1..Len(st.act) : st.act[a].set = j}
          /\ DOMAIN st.sets[j].out = Members(st.sets[j])
          /\ \A k \in 1..Len(st.sets[j].selected) : st.sets[j].selected[k] \in Members(st.sets[j])
      BY DEF TypeInv, WellTyped, SetsKnown
    <3>2. \A a : a \in 1..Len(st'.act) <=> a \in 1..Len(st.act) \/ a = b
      BY <1>2
    <3>3. st'.act[b].set = g
      BY DEF Pulled
    <3>4. CASE j = g
      <4>1. WithBranch(st.sets[g], st'.sets[g], b)
        BY DEF Pulled
      <4>2. Members(st'.sets[j]) = Members(st.sets[j]) \cup {b}
        <5> DEFINE q == st.sets[g].branches
        <5>1. q \in Seq(Nat) /\ b \in Nat /\ st'.sets[g].branches = Append(q, b)
          <6>1. st.sets[g] \in SourceSets
            BY <1>1, RunStateParts
          <6> QED BY <1>1, <4>1, <6>1 DEF SourceSets, WithBranch
        <5> HIDE DEF q
        <5>2. ToSet(Append(q, b)) = ToSet(q) \cup {b}
          BY SMTT(30), <5>1, AppendProperties DEF ToSet
        <5> QED BY <3>4, <5>1, <5>2 DEF Members, q
      <4>3. {a \in 1..Len(st'.act) : st'.act[a].set = j} = {a \in 1..Len(st.act) : st.act[a].set = j} \cup {b}
        BY <1>2, <3>2, <3>3, <3>4
      <4> QED BY <3>1, <3>4, <4>1, <4>2, <4>3 DEF WithBranch
    <3>5. CASE j # g
      <4>1. st'.sets[j] = st.sets[j]
        BY <3>5 DEF Pulled
      <4>2. {a \in 1..Len(st'.act) : st'.act[a].set = j} = {a \in 1..Len(st.act) : st.act[a].set = j}
        BY <1>2, <3>2, <3>3, <3>5
      <4> QED BY <3>1, <4>1, <4>2
    <3> QED BY <3>4, <3>5
  <2> QED BY <1>2, <2>1, <2>2 DEF SetsKnown
<1>6. WellTyped(st')
  BY <1>1, <1>3, <1>4, <1>5 DEF WellTyped
<1>7. ControlInv'
  BY <1>1 DEF TypeInv, ControlInv, Pulled
<1>8. Len(st.act) <= Len(st'.act) /\ Len(st.sets) <= Len(st'.sets)
  BY <1>2
<1>9. touched' \in Seq(Nat) /\ Refs(touched', Len(st.sets))
  BY DEF Pulled, TypeInv
<1> QED BY <1>6, <1>7, <1>8, <1>9, StepKeepsTypes DEF Pulled

-----------------------------------------------------------------------------
(* Steps that route an output *)

(* m is s with n activations of a new set of n branches and k iterators, and *)
(* after them activations of joins.                                          *)
Extended(s, m, n, k) ==
  /\ m \in RunStates /\ JoinsKnown(m) /\ SameCounters(s, m)
  /\ n \in Nat /\ k \in Nat
  /\ \E l \in Nat : n <= l /\ Adds(s, m, l)
  /\ \A a \in (Len(s.act) + 1)..Len(m.act) :
       /\ m.act[a].phase = "ready" /\ m.act[a].source = 0 /\ m.act[a].item = 0
       /\ Refs(m.act[a].input, Len(m.act))
       /\ m.act[a].set = IF a <= Len(s.act) + n THEN Len(s.sets) + 1 ELSE 0
  /\ n = 0 /\ k = 0 => SameSets(s, m)
  /\ n # 0 \/ k # 0 =>
       /\ Len(m.sets) = Len(s.sets) + 1 /\ \A i \in 1..Len(s.sets) : m.sets[i] = s.sets[i]
       /\ Opened(m.sets[Len(s.sets) + 1], Len(s.act), n) /\ m.sets[Len(s.sets) + 1].open = k
       /\ Len(m.sources) = Len(s.sources) + k
       /\ \A i \in 1..Len(s.sources) : m.sources[i] = s.sources[i]
       /\ \A i \in (Len(s.sources) + 1)..Len(m.sources) :
            /\ m.sources[i].set = Len(s.sets) + 1 /\ m.sources[i].open
            /\ m.sources[i].pulled = 0 /\ m.sources[i].at = 0

LEMMA ConstantRefs ==
  ASSUME NEW n \in Nat, NEW a \in 1..n, NEW k \in Nat
  PROVE  [i \in 1..k |-> a] \in Seq(Nat) /\ Refs([i \in 1..k |-> a], n)
<1>1. [i \in 1..k |-> a] \in Seq(Nat) /\ Len([i \in 1..k |-> a]) = k
  OBVIOUS
<1>2. \A i \in 1..k : [j \in 1..k |-> a][i] = a
  OBVIOUS
<1> QED BY <1>1, <1>2 DEF Refs

LEMMA RoutesExtends ==
  ASSUME NEW s, WellTyped(s), NEW a \in 1..Len(s.act), NEW d \in Dispatchable, NEW e, Routes(s, e, a, d)
  PROVE  Extended(s, e, Len(Branches(d)), Len(d.iters))
<1> DEFINE n == Len(Branches(d))
           k == Len(d.iters)
<1>1. s \in RunStates /\ e \in RunStates /\ Adds(s, e, n) /\ SameCounters(s, e)
  BY DEF WellTyped, Routes
<1>2. n \in Nat /\ k \in Nat /\ d.iters \in Seq(Iterators)
  BY BranchesAreNodes, DispatchableParts, SeqParts
<1>3. /\ Len(s.act) \in Nat /\ Len(s.sets) \in Nat /\ Len(s.sources) \in Nat /\ Len(e.act) = Len(s.act) + n
      /\ s.sources \in Seq(Sources)
  BY <1>1, RunStateParts DEF Adds
<1>4. JoinsKnown(e)
  <2>1. ASSUME NEW t \in Joins
        PROVE  Refs(e.bound[t], Len(e.act))
    <3> DEFINE c == [i \in 1..Named(d, t) |-> a]
    <3>1. a \in 1..Len(e.act) /\ Len(s.act) <= Len(e.act) /\ Len(e.act) \in Nat
      BY <1>2, <1>3
    <3>2. c \in Seq(Nat) /\ Refs(c, Len(e.act))
      BY <3>1, NamedIsNat, ConstantRefs
    <3>3. s.bound[t] \in Seq(Nat) /\ Refs(s.bound[t], Len(e.act))
      BY <1>1, <1>3, <3>1, RunStateParts, RefsGrow DEF WellTyped, JoinsKnown
    <3>4. e.bound[t] = s.bound[t] \o c
      BY DEF Routes
    <3> HIDE DEF c
    <3> QED BY <3>2, <3>3, <3>4, ConcatRefs
  <2>2. ASSUME NEW t \in Joins, NEW c \in e.closed[t]
        PROVE  c.act \in 1..Len(e.act)
    <3>1. c \in s.closed[t] \/ c = [act |-> a, count |-> Named(d, t)]
      BY DEF Routes
    <3>2. c.act \in 1..Len(s.act)
      BY <3>1 DEF WellTyped, JoinsKnown
    <3> QED BY <1>2, <1>3, <3>2
  <2> QED BY <2>1, <2>2 DEF JoinsKnown
<1>5. ASSUME NEW b \in (Len(s.act) + 1)..Len(e.act)
      PROVE  /\ e.act[b].phase = "ready" /\ e.act[b].source = 0 /\ e.act[b].item = 0
             /\ Refs(e.act[b].input, Len(e.act))
             /\ e.act[b].set = IF b <= Len(s.act) + n THEN Len(s.sets) + 1 ELSE 0
  <2> DEFINE i == b - Len(s.act)
  <2>1. i \in 1..n /\ Len(s.act) + i = b /\ b <= Len(s.act) + n
    BY <1>2, <1>3
  <2> HIDE DEF i
  <2>2. e.act[Len(s.act) + i] = NewActivation(Branches(d)[i], NextEpoch(s, a, Branches(d)[i]), Len(s.sets) + 1, <<>>)
    BY <2>1 DEF Routes
  <2> QED BY SMTT(30), <2>1, <2>2, EmptyParts DEF NewActivation, Refs
<1>6. n = 0 /\ k = 0 => SameSets(s, e)
  BY DEF Routes
<1>7. ASSUME n # 0 \/ k # 0
      PROVE  /\ Len(e.sets) = Len(s.sets) + 1 /\ \A i \in 1..Len(s.sets) : e.sets[i] = s.sets[i]
             /\ Opened(e.sets[Len(s.sets) + 1], Len(s.act), n) /\ e.sets[Len(s.sets) + 1].open = k
             /\ Len(e.sources) = Len(s.sources) + k
             /\ \A i \in 1..Len(s.sources) : e.sources[i] = s.sources[i]
             /\ \A i \in (Len(s.sources) + 1)..Len(e.sources) :
                  /\ e.sources[i].set = Len(s.sets) + 1 /\ e.sources[i].open
                  /\ e.sources[i].pulled = 0 /\ e.sources[i].at = 0
  <2> DEFINE new == NewSources(s, a, d)
             q == s.sources
             l == Len(q)
             p == e.sources
             m == Len(d.iters)
  <2>1. /\ Len(e.sets) = Len(s.sets) + 1 /\ \A i \in 1..Len(s.sets) : e.sets[i] = s.sets[i]
        /\ Opened(e.sets[Len(s.sets) + 1], Len(s.act), n) /\ e.sets[Len(s.sets) + 1].open = k
        /\ p = q \o new
    BY <1>7 DEF Routes
  <2>2. /\ new \in Seq(Sources) /\ Len(new) = m
        /\ \A i \in 1..m : new[i].set = Len(s.sets) + 1 /\ new[i].pulled = 0 /\ new[i].at = 0 /\ new[i].open
    BY <1>1, NewSourcesParts
  <2>3. q \in Seq(Sources) /\ l \in Nat /\ m \in Nat /\ m = k
    BY <1>2, <1>3
  <2>4. p = q \o new /\ l = Len(q)
    BY <2>1
  <2>5. /\ Len(p) = l + m /\ \A i \in 1..l : p[i] = q[i]
        /\ \A i \in 1..m : p[l + i] = new[i]
    <3> HIDE DEF new, q, l, p, m
    <3>1. /\ Len(q \o new) = Len(q) + Len(new) /\ \A i \in 1..Len(q) : (q \o new)[i] = q[i]
          /\ \A i \in 1..Len(new) : (q \o new)[Len(q) + i] = new[i]
      <4>1. new \in Seq(Sources) /\ q \in Seq(Sources)
        BY <2>2, <2>3
      <4> QED BY <4>1, ConcatParts
    <3> QED BY <2>2, <2>4, <3>1
  <2>6. ASSUME NEW i \in (l + 1)..Len(p)
        PROVE  \E j \in 1..m : p[i] = new[j]
    <3> HIDE DEF new, q, l, p, m
    <3>1. i - l \in 1..m /\ l + (i - l) = i
      BY <2>3, <2>5
    <3> DEFINE j == i - l
    <3>2. j \in 1..m /\ l + j = i
      BY <3>1
    <3> HIDE DEF j
    <3> QED BY <2>5, <3>2
  <2>7. ASSUME NEW i \in (l + 1)..Len(p)
        PROVE  p[i].set = Len(s.sets) + 1 /\ p[i].open /\ p[i].pulled = 0 /\ p[i].at = 0
    <3> PICK j \in 1..m : p[i] = new[j]
      BY <2>6
    <3> HIDE DEF new, l, p, m
    <3> QED BY <2>2
  <2> QED BY <2>1, <2>3, <2>5, <2>7
<1>8. n <= n
  BY <1>2
<1> QED BY <1>1, <1>2, <1>4, <1>5, <1>6, <1>7, <1>8 DEF Extended

(* Joins that start do so behind the branches.                               *)
LEMMA GrownExtends ==
  ASSUME NEW s, WellTyped(s), NEW m, NEW n, NEW k, Extended(s, m, n, k), NEW p, Grown(m, p)
  PROVE  Extended(s, p, n, k)
<1>1. PICK l \in Nat : n <= l /\ Adds(s, m, l)
  BY DEF Extended
<1>2. PICK j \in Nat : Adds(m, p, j)
  BY DEF Grown
<1>3. s \in RunStates /\ m \in RunStates /\ p \in RunStates /\ n \in Nat /\ k \in Nat
  BY DEF Extended, Grown, WellTyped
<1>4. Adds(s, p, l + j) /\ l + j \in Nat /\ n <= l + j
  BY <1>1, <1>2, <1>3, AddsIsTransitive
<1>5. SameCounters(s, p) /\ SameSets(m, p) /\ JoinsKnown(p)
  BY DEF Extended, Grown, SameCounters
<1>6. /\ Len(s.act) \in Nat /\ Len(m.act) \in Nat /\ Len(p.act) \in Nat
      /\ Len(m.act) = Len(s.act) + l /\ Len(p.act) = Len(m.act) + j
  BY <1>1, <1>2, <1>3, RunStateParts DEF Adds
<1>7. ASSUME NEW a \in (Len(s.act) + 1)..Len(p.act)
      PROVE  /\ p.act[a].phase = "ready" /\ p.act[a].source = 0 /\ p.act[a].item = 0
             /\ Refs(p.act[a].input, Len(p.act))
             /\ p.act[a].set = IF a <= Len(s.act) + n THEN Len(s.sets) + 1 ELSE 0
  <2>1. CASE a <= Len(m.act)
    <3>1. a \in 1..Len(m.act) /\ a \in (Len(s.act) + 1)..Len(m.act)
      BY <1>6, <2>1
    <3>2. p.act[a] = m.act[a]
      BY <1>2, <3>1 DEF Adds
    <3>3. Refs(m.act[a].input, Len(p.act))
      <4>1. Len(m.act) <= Len(p.act) /\ Refs(m.act[a].input, Len(m.act))
        BY <1>6, <3>1 DEF Extended
      <4> QED BY <1>6, <4>1, RefsGrow
    <3> QED BY <3>1, <3>2, <3>3 DEF Extended
  <2>2. CASE ~(a <= Len(m.act))
    <3>1. a \in (Len(m.act) + 1)..Len(p.act) /\ ~(a <= Len(s.act) + n)
      BY <1>1, <1>3, <1>6, <2>2
    <3> QED BY <3>1 DEF Grown
  <2> QED BY <2>1, <2>2
<1>8. /\ n = 0 /\ k = 0 => SameSets(s, p)
      /\ n # 0 \/ k # 0 =>
         /\ Len(p.sets) = Len(s.sets) + 1 /\ \A i \in 1..Len(s.sets) : p.sets[i] = s.sets[i]
         /\ Opened(p.sets[Len(s.sets) + 1], Len(s.act), n) /\ p.sets[Len(s.sets) + 1].open = k
         /\ Len(p.sources) = Len(s.sources) + k
         /\ \A i \in 1..Len(s.sources) : p.sources[i] = s.sources[i]
         /\ \A i \in (Len(s.sources) + 1)..Len(p.sources) :
              /\ p.sources[i].set = Len(s.sets) + 1 /\ p.sources[i].open
              /\ p.sources[i].pulled = 0 /\ p.sources[i].at = 0
  BY <1>5 DEF Extended, SameSets
<1> QED BY <1>3, <1>4, <1>5, <1>7, <1>8 DEF Extended

(* What the lengths of an extended state are, and where its parts come from. *)
LEMMA ExtendedParts ==
  ASSUME NEW s, WellTyped(s), NEW m, NEW n, NEW k, Extended(s, m, n, k)
  PROVE  /\ Len(s.act) \in Nat /\ Len(m.act) \in Nat /\ Len(s.sets) \in Nat /\ Len(m.sets) \in Nat
         /\ Len(s.sources) \in Nat /\ Len(m.sources) \in Nat
         /\ Len(s.act) + n <= Len(m.act) /\ Len(s.act) <= Len(m.act) /\ n \in Nat /\ k \in Nat
         /\ Len(s.sets) <= Len(m.sets) /\ Len(s.sources) <= Len(m.sources)
         /\ \A a \in 1..Len(s.act) : m.act[a] = s.act[a]
         /\ \A i \in 1..Len(s.sets) : m.sets[i] = s.sets[i]
         /\ \A i \in 1..Len(s.sources) : m.sources[i] = s.sources[i]
         /\ n = 0 /\ k = 0 => Len(m.sets) = Len(s.sets) /\ Len(m.sources) = Len(s.sources)
         /\ n # 0 \/ k # 0 => Len(m.sets) = Len(s.sets) + 1
         /\ Len(s.queue) \in Nat /\ Len(m.queue) \in Nat /\ Len(s.queue) <= Len(m.queue)
<1>1. PICK l \in Nat : n <= l /\ Adds(s, m, l)
  BY DEF Extended
<1>2. s \in RunStates /\ m \in RunStates /\ n \in Nat /\ k \in Nat
  BY DEF Extended, WellTyped
<1>3. /\ Len(s.act) \in Nat /\ Len(m.act) \in Nat /\ Len(s.sets) \in Nat /\ Len(m.sets) \in Nat
      /\ Len(s.sources) \in Nat /\ Len(m.sources) \in Nat /\ Len(s.queue) \in Nat /\ Len(m.queue) \in Nat
  BY <1>2, RunStateParts
<1>4. Len(s.act) + n <= Len(m.act) /\ Len(s.act) <= Len(m.act) /\ Len(s.queue) <= Len(m.queue)
  BY <1>1, <1>2, <1>3 DEF Adds
<1>5. CASE n = 0 /\ k = 0
  BY <1>1, <1>2, <1>3, <1>4, <1>5 DEF Extended, SameSets, Adds
<1>6. CASE n # 0 \/ k # 0
  <2>1. /\ Len(m.sets) = Len(s.sets) + 1 /\ \A i \in 1..Len(s.sets) : m.sets[i] = s.sets[i]
        /\ Len(m.sources) = Len(s.sources) + k
        /\ \A i \in 1..Len(s.sources) : m.sources[i] = s.sources[i]
    BY <1>6 DEF Extended
  <2>2. Len(s.sets) <= Len(m.sets) /\ Len(s.sources) <= Len(m.sources)
    BY <1>2, <1>3, <2>1
  <2>3. \A a \in 1..Len(s.act) : m.act[a] = s.act[a]
    BY <1>1 DEF Adds
  <2> QED BY <1>2, <1>3, <1>4, <1>6, <2>1, <2>2, <2>3
<1> QED BY <1>2, <1>5, <1>6

LEMMA ExtendedIsTyped ==
  ASSUME NEW s, WellTyped(s), NEW m, NEW n, NEW k, Extended(s, m, n, k)
  PROVE  WellTyped(m)
<1>1. /\ Len(s.act) \in Nat /\ Len(m.act) \in Nat /\ Len(s.sets) \in Nat /\ Len(m.sets) \in Nat
      /\ Len(s.sources) \in Nat /\ Len(m.sources) \in Nat
      /\ Len(s.act) + n <= Len(m.act) /\ Len(s.act) <= Len(m.act) /\ n \in Nat /\ k \in Nat
      /\ Len(s.sets) <= Len(m.sets) /\ Len(s.sources) <= Len(m.sources)
      /\ \A a \in 1..Len(s.act) : m.act[a] = s.act[a]
      /\ \A i \in 1..Len(s.sets) : m.sets[i] = s.sets[i]
      /\ \A i \in 1..Len(s.sources) : m.sources[i] = s.sources[i]
      /\ n = 0 /\ k = 0 => Len(m.sets) = Len(s.sets) /\ Len(m.sources) = Len(s.sources)
      /\ n # 0 \/ k # 0 => Len(m.sets) = Len(s.sets) + 1
  BY ExtendedParts
<1>2. m \in RunStates /\ JoinsKnown(m) /\ SameCounters(s, m)
  BY DEF Extended
<1>3. \A a \in (Len(s.act) + 1)..Len(m.act) :
       /\ m.act[a].source = 0 /\ Refs(m.act[a].input, Len(m.act))
       /\ m.act[a].set = IF a <= Len(s.act) + n THEN Len(s.sets) + 1 ELSE 0
  BY DEF Extended
<1>4. ActsKnown(m)
  <2>1. PICK l \in Nat : Adds(s, m, l)
    BY DEF Extended
  <2>2. ASSUME NEW a \in (Len(s.act) + 1)..Len(m.act)
        PROVE  /\ m.act[a].set <= Len(m.sets) /\ m.act[a].source <= Len(m.sources)
               /\ Refs(m.act[a].input, Len(m.act))
    <3>1. CASE a <= Len(s.act) + n
      <4>1. n # 0
        BY <1>1, <3>1
      <4> QED BY SMTT(30), <1>1, <1>3, <3>1, <4>1
    <3>2. CASE ~(a <= Len(s.act) + n)
      BY <1>1, <1>3, <3>2
    <3> QED BY <3>1, <3>2
  <2> QED BY <1>1, <1>2, <2>1, <2>2, AddsKeepsActs DEF SameCounters
<1>5. \A i \in 1..Len(m.sources) : m.sources[i].set \in 1..Len(m.sets)
  <2> SUFFICES ASSUME NEW i \in 1..Len(m.sources)
               PROVE  m.sources[i].set \in 1..Len(m.sets)
    OBVIOUS
  <2>1. CASE i \in 1..Len(s.sources)
    <3>1. s.sources[i].set \in 1..Len(s.sets)
      BY <2>1 DEF WellTyped, SetsKnown
    <3> QED BY SMTT(30), <1>1, <2>1, <3>1
  <2>2. CASE i \notin 1..Len(s.sources)
    <3>1. i \in (Len(s.sources) + 1)..Len(m.sources) /\ (n # 0 \/ k # 0)
      BY <1>1, <2>2
    <3>2. m.sources[i].set = Len(s.sets) + 1
      BY <3>1 DEF Extended
    <3> QED BY <1>1, <3>1, <3>2
  <2> QED BY <2>1, <2>2
<1>6. ASSUME NEW i \in 1..Len(m.sets)
      PROVE  /\ Members(m.sets[i]) = {a \in 1..Len(m.act) : m.act[a].set = i}
             /\ DOMAIN m.sets[i].out = Members(m.sets[i])
             /\ \A j \in 1..Len(m.sets[i].selected) : m.sets[i].selected[j] \in Members(m.sets[i])
  <2>1. CASE i \in 1..Len(s.sets)
    <3>1. /\ Members(s.sets[i]) = {a \in 1..Len(s.act) : s.act[a].set = i}
          /\ DOMAIN s.sets[i].out = Members(s.sets[i])
          /\ \A j \in 1..Len(s.sets[i].selected) : s.sets[i].selected[j] \in Members(s.sets[i])
      BY <2>1 DEF WellTyped, SetsKnown
    <3>2. {a \in 1..Len(s.act) : s.act[a].set = i} = {a \in 1..Len(m.act) : m.act[a].set = i}
      <4>1. ASSUME NEW a \in 1..Len(m.act), a \notin 1..Len(s.act)
            PROVE  m.act[a].set # i
        <5>1. a \in (Len(s.act) + 1)..Len(m.act)
          BY <1>1, <4>1
        <5>2. m.act[a].set \in {Len(s.sets) + 1, 0}
          BY <1>3, <5>1
        <5> QED BY <1>1, <2>1, <5>2
      <4>2. \A a \in 1..Len(s.act) : a \in 1..Len(m.act)
        BY <1>1
      <4> QED BY <1>1, <4>1, <4>2
    <3> QED BY <1>1, <2>1, <3>1, <3>2
  <2>2. CASE i \notin 1..Len(s.sets)
    <3>1. i = Len(s.sets) + 1 /\ (n # 0 \/ k # 0)
      BY <1>1, <2>2
    <3>2. Opened(m.sets[i], Len(s.act), n)
      BY <3>1 DEF Extended
    <3>3. (Len(s.act) + 1)..(Len(s.act) + n) = {a \in 1..Len(m.act) : m.act[a].set = i}
      <4>1. ASSUME NEW a \in (Len(s.act) + 1)..(Len(s.act) + n)
            PROVE  a \in 1..Len(m.act) /\ m.act[a].set = i
        <5>1. a \in (Len(s.act) + 1)..Len(m.act) /\ a <= Len(s.act) + n /\ a \in 1..Len(m.act)
          BY <1>1
        <5> QED BY <1>3, <3>1, <5>1
      <4>2. ASSUME NEW a \in 1..Len(m.act), m.act[a].set = i
            PROVE  a \in (Len(s.act) + 1)..(Len(s.act) + n)
        <5>1. ASSUME a \in 1..Len(s.act)
              PROVE  FALSE
          <6>1. s.act[a].set \in 0..Len(s.sets)
            BY <5>1, WellTypedParts
          <6>2. m.act[a] = s.act[a]
            BY <1>1, <5>1
          <6> QED BY <1>1, <3>1, <4>2, <6>1, <6>2
        <5>2. a \in (Len(s.act) + 1)..Len(m.act)
          BY <1>1, <5>1
        <5>3. a <= Len(s.act) + n
          BY <1>1, <1>3, <3>1, <4>2, <5>2
        <5> QED BY <1>1, <5>2, <5>3
      <4> QED BY <4>1, <4>2
    <3> QED BY <3>2, <3>3, EmptyParts DEF Opened
  <2> QED BY <2>1, <2>2
<1> QED BY <1>2, <1>4, <1>5, <1>6 DEF WellTyped, SetsKnown

-----------------------------------------------------------------------------
(* Committing an activation that belongs to no set                           *)

LEMMA DoneIsUpdated ==
  ASSUME NEW s, WellTyped(s), NEW e, NEW a, NEW phase, Done(s, e, a, phase), Refs(e.context, Len(s.act))
  PROVE  Updated(s, e) /\ WellTyped(e)
<1>1. s.queue \in Seq(Nat) /\ Refs(s.queue, Len(s.act))
  BY RunStateParts, WellTypedParts DEF WellTyped
<1>2. Refs(e.queue, Len(s.act))
  BY <1>1, TailRefs DEF Done
<1>3. Updated(s, e)
  BY <1>2, WellTypedParts DEF Updated, Done, SameJoins, SameSets
<1> QED BY <1>3, UpdateKeepsTypes

LEMMA CloseExpectationsFields ==
  ASSUME NEW s, WellTyped(s), NEW a \in 1..Len(s.act), NEW d \in Dispatchable
  PROVE  OnlyCloses(s, CloseExpectations(s, a, d))
<1> DEFINE new == [t \in Joins |-> IF t \in ToSet(Edges[s.act[a].node])
                                   THEN s.closed[t] \cup {[act |-> a, count |-> Named(d, t)]}
                                   ELSE s.closed[t]]
           e == [s EXCEPT !.closed = new]
<1>1. s \in RunStates /\ s.closed \in [Joins -> SUBSET [act : Nat, count : Nat]] /\ a \in Nat
  BY DEF WellTyped, RunStates
<1>2. ASSUME NEW t \in Joins
      PROVE  new[t] \in SUBSET [act : Nat, count : Nat] /\ \A c \in new[t] : c.act \in 1..Len(s.act)
  <2>1. \A c \in s.closed[t] : c.act \in 1..Len(s.act)
    BY DEF WellTyped, JoinsKnown
  <2> DEFINE k == Named(d, t)
  <2>2. k \in Nat
    BY NamedIsNat
  <2> HIDE DEF k
  <2>3. new[t] \in {s.closed[t], s.closed[t] \cup {[act |-> a, count |-> k]}}
    BY DEF k
  <2> QED BY <1>1, <2>1, <2>2, <2>3
<1>3. new \in [Joins -> SUBSET [act : Nat, count : Nat]]
  BY <1>2
<1>4. e = CloseExpectations(s, a, d)
  BY DEF CloseExpectations
<1> HIDE DEF new
<1>5. e \in RunStates /\ e.act = s.act /\ e.queue = s.queue /\ e.tracked = s.tracked
      /\ SameSets(s, e) /\ SameCounters(s, e) /\ e.bound = s.bound /\ e.closed = new
  BY <1>1, <1>3 DEF RunStates, SameSets, SameCounters
<1> HIDE DEF e
<1>6. OnlyCloses(s, e)
  BY <1>2, <1>5 DEF OnlyCloses
<1> QED BY <1>4, <1>6

LEMMA ClosesExtends ==
  ASSUME NEW s, WellTyped(s), NEW e, OnlyCloses(s, e)
  PROVE  Extended(s, e, 0, 0)
<1>1. s \in RunStates /\ e \in RunStates /\ JoinsKnown(e)
  BY OnlyClosesIsUpdated DEF WellTyped
<1>2. Len(s.act) \in Nat /\ Len(s.queue) \in Nat
  BY <1>1, RunStateParts
<1>3. Adds(s, e, 0)
  BY <1>2 DEF Adds, OnlyCloses
<1>4. \A a \in (Len(s.act) + 1)..Len(e.act) : FALSE
  BY <1>2 DEF OnlyCloses
<1>5. 0 \in Nat /\ 0 <= 0
  OBVIOUS
<1> QED BY <1>1, <1>3, <1>4, <1>5 DEF Extended, OnlyCloses

(* What follows when activation a is done: its outputs are routed, or its   *)
(* expectations closed, and the joins that became ready start.               *)
LEMMA RoutedExtends ==
  ASSUME NEW s, WellTyped(s), NEW a \in 1..Len(s.act), NEW d \in Dispatchable,
         NEW e, OnlyCloses(s, e) \/ Routes(s, e, a, d), NEW order \in SetToSeqs(ReadyJoins(e))
  PROVE  /\ Grown(e, MaterializeReadyJoins(e, order))
         /\ \E n, k \in Nat : Extended(s, MaterializeReadyJoins(e, order), n, k)
<1>1. PICK n \in Nat, k \in Nat : Extended(s, e, n, k)
  <2>1. CASE OnlyCloses(s, e)
    BY <2>1, ClosesExtends
  <2>2. CASE Routes(s, e, a, d)
    <3>1. Extended(s, e, Len(Branches(d)), Len(d.iters))
      BY <2>2, RoutesExtends
    <3> QED BY <3>1 DEF Extended
  <2> QED BY <2>1, <2>2
<1>2. Grown(e, MaterializeReadyJoins(e, order))
  BY <1>1, MaterializeGrows DEF Extended
<1> QED BY <1>1, <1>2, GrownExtends

(* s after a checkpoint of the batch: the step counts on.                    *)
Stepped(s, e) ==
  /\ e \in RunStates /\ e.act = s.act /\ e.queue = s.queue /\ SameSets(s, e) /\ SameJoins(s, e)
  /\ e.clock = s.clock /\ e.context = s.context /\ e.revision = s.revision

LEMMA SteppedFields ==
  ASSUME NEW s \in RunStates, NEW e, e = [s EXCEPT !.step = @ + 1]
  PROVE  Stepped(s, e)
<1> DEFINE tick == s.step + 1
<1>1. tick \in Nat
  BY RunStateParts
<1>2. e = [s EXCEPT !.step = tick]
  OBVIOUS
<1> HIDE DEF tick
<1> QED BY <1>1, <1>2 DEF RunStates, Stepped, SameSets, SameJoins

LEMMA SteppedIsUpdated ==
  ASSUME NEW s, WellTyped(s), NEW e, Stepped(s, e)
  PROVE  WellTyped(e)
<1>1. Updated(s, e)
  BY SameActsIsUpdated, WellTypedParts DEF Stepped, SameJoins
<1> QED BY <1>1, UpdateKeepsTypes

(* f and then the joins that result r makes ready: x                       *)
Forwards(r, f, x) ==
  \E e : /\ Grown(e, x)
         /\ IF r.answer = "completed" THEN Routes(f, e, r.act, r.dispatch) ELSE OnlyCloses(f, e)

(* What committing an activation changes: f has its result, x what follows. *)
ActivationDone(r, f, x, n, k) ==
  /\ SetOf(r) = 0 /\ r.answer \in {"completed", "skipped"} /\ MayCommitContext(r)
  /\ Done(st, f, r.act, r.answer) /\ ContextDone(r, f) /\ WellTyped(f)
  /\ Extended(f, x, n, k) /\ Forwards(r, f, x) /\ Stepped(x, st')
  /\ saved' = st' /\ status' = status /\ todo' = Tail(todo)
  /\ UNCHANGED <<pc, batch, touched, processes>>

LEMMA CommitActivationFields ==
  ASSUME TypeInv, NEW r, CommitActivation(r)
  PROVE  \/ \E f, x, n, k : ActivationDone(r, f, x, n, k)
         \/ \E f : /\ Fail(f, "policy", 0, "none") /\ Updated(st, f)
                   /\ Done(st, f, r.act, r.answer) /\ ContextDone(r, f)
<1> DEFINE f == Finished(ContextCommitted(r), r.act, r.answer)
           e == IF r.answer = "skipped" THEN CloseExpectations(f, r.act, NoDispatch)
                ELSE ScheduleNext(f, r.act, r.dispatch)
<1>1. /\ Committing(r) /\ r.answer \in {"completed", "skipped"} /\ SetOf(r) = 0 /\ MayCommitContext(r)
  BY DEF CommitActivation
<1>2. Done(st, f, r.act, r.answer) /\ ContextDone(r, f)
  BY <1>1, CommittedFields
<1>3. /\ IF r.answer = "completed" /\ Unreachable(r.dispatch)
         THEN Fail(f, "policy", 0, "none")
         ELSE /\ \E order \in SetToSeqs(ReadyJoins(e)) :
                  Checkpoint([MaterializeReadyJoins(e, order) EXCEPT !.step = @ + 1])
              /\ todo' = Tail(todo) /\ UNCHANGED <<pc, batch, touched>>
  BY DEF CommitActivation
<1> HIDE DEF f
<1>4. Updated(st, f) /\ WellTyped(f)
  BY <1>1, <1>2, CommitContextRefs, DoneIsUpdated DEF TypeInv
<1>5. r.act \in 1..Len(f.act) /\ r.dispatch \in Dispatchable /\ NoDispatch \in Dispatchable
  BY <1>1, <1>2, HeadTodo DEF Done, Rephased, Dispatchable
<1>6. CASE r.answer = "completed" /\ Unreachable(r.dispatch)
  BY <1>2, <1>3, <1>4, <1>6
<1>7. CASE ~(r.answer = "completed" /\ Unreachable(r.dispatch))
  <2>1. PICK order \in SetToSeqs(ReadyJoins(e)) :
          Checkpoint([MaterializeReadyJoins(e, order) EXCEPT !.step = @ + 1])
    BY <1>3, <1>7
  <2>2. IF r.answer = "completed" THEN Routes(f, e, r.act, r.dispatch) ELSE OnlyCloses(f, e)
    BY <1>1, <1>4, <1>5, CloseExpectationsFields, ScheduleNextRoutes DEF WellTyped
  <2> DEFINE x == MaterializeReadyJoins(e, order)
  <2> HIDE DEF e
  <2>3. Grown(e, x) /\ \E n, k \in Nat : Extended(f, x, n, k)
    BY <1>4, <1>5, <2>2, RoutedExtends
  <2>4. PICK n \in Nat, k \in Nat : Extended(f, x, n, k)
    BY <2>3
  <2>5. Forwards(r, f, x)
    BY <2>2, <2>3 DEF Forwards
  <2>6. st' = [x EXCEPT !.step = @ + 1] /\ saved' = st' /\ status' = status /\ processes' = processes
    BY <2>1 DEF Checkpoint
  <2>7. x \in RunStates
    BY <2>4 DEF Extended
  <2> HIDE DEF x
  <2>8. Stepped(x, st')
    BY <2>6, <2>7, SteppedFields
  <2>9. ActivationDone(r, f, x, n, k)
    BY <1>1, <1>2, <1>3, <1>4, <1>7, <2>6, <2>8, <2>4, <2>5 DEF ActivationDone
  <2> QED BY <2>9
<1> QED BY <1>6, <1>7

LEMMA CommitActivationTypes ==
  ASSUME TypeInv, NEW r, CommitActivation(r)
  PROVE  TypeInv'
<1>1. CASE \E f : Fail(f, "policy", 0, "none") /\ Updated(st, f)
  BY <1>1, FailKeepsTypes
<1>2. ASSUME NEW f, NEW x, NEW n, NEW k, ActivationDone(r, f, x, n, k)
      PROVE  TypeInv'
  <2>1. WellTyped(f) /\ WellTyped(x) /\ WellTyped(st')
    BY <1>2, ExtendedIsTyped, SteppedIsUpdated DEF ActivationDone
  <2>2. /\ Len(f.act) \in Nat /\ Len(f.act) <= Len(x.act) /\ Len(f.sets) <= Len(x.sets)
        /\ Len(f.queue) <= Len(x.queue) /\ Len(f.queue) \in Nat /\ Len(x.queue) \in Nat
    BY <1>2, ExtendedParts DEF ActivationDone
  <2>3. f.queue = Tail(st.queue) /\ Len(f.act) = Len(st.act) /\ f.sets = st.sets
        /\ st'.queue = x.queue /\ st'.act = x.act /\ st'.sets = x.sets
    BY <1>2 DEF ActivationDone, Done, Rephased, SameSets, Stepped
  <2>4. Committing(r)
    BY DEF CommitActivation
  <2>5. Len(Tail(todo)) <= Len(f.queue) /\ Len(Tail(todo)) \in Nat
    BY <2>3, <2>4, QueueStaysAhead
  <2>6. Len(todo') <= Len(st'.queue)
    BY <1>2, <2>2, <2>3, <2>5 DEF ActivationDone
  <2>7. todo # <<>> /\ pc = "commit"
    BY <2>4, HeadTodo
  <2>8. ControlInv'
    BY <1>2, <2>6, <2>7 DEF TypeInv, ControlInv, ActivationDone
  <2>9. touched' \in Seq(Nat) /\ Refs(touched', Len(st.sets))
    BY <1>2 DEF TypeInv, ActivationDone
  <2>10. Len(st.act) <= Len(st'.act) /\ Len(st.sets) <= Len(st'.sets)
    BY <2>2, <2>3
  <2> QED BY <1>2, <2>1, <2>7, <2>8, <2>9, <2>10, StepKeepsTypes DEF ActivationDone
<1> QED BY <1>1, <1>2, CommitActivationFields

-----------------------------------------------------------------------------
(* Releasing a branch, settling a set                                        *)

(* What releasing branch b of set s changes: c closes what the others would  *)
(* have contributed, x routes the output of b.                               *)
BranchReleased(s, b, c, x) ==
  /\ Cleared(s) /\ b \in Members(st.sets[s]) /\ b \in Selected(s)
  /\ ~st.sets[s].out[b].committed
  /\ OnlyCloses(st, c) /\ Routes(c, x, b, st.sets[s].out[b].dispatch)
  /\ st' \in RunStates /\ st'.act = x.act /\ st'.queue = x.queue
  /\ OutcomeSet(x.sets, st'.sets, s, b, [st.sets[s].out[b] EXCEPT !.committed = TRUE])
  /\ st'.sources = x.sources /\ SameJoins(x, st') /\ SameCounters(x, st')
  /\ saved' = st' /\ status' = status
  /\ UNCHANGED <<pc, batch, todo, touched, processes>>

LEMMA UnreleasedBranch ==
  ASSUME TypeInv, NEW s, Settling(s), Unreleased(s) # {}
  PROVE  LET b == st.sets[s].selected[Min(Unreleased(s))]
         IN /\ b \in Selected(s) /\ b \in Members(st.sets[s]) /\ b \in 1..Len(st.act)
            /\ st.act[b].set = s /\ b \in DOMAIN st.sets[s].out /\ ~st.sets[s].out[b].committed
            /\ st.sets[s].out[b] \in Outcomes
<1> DEFINE q == st.sets[s].selected
           b == q[Min(Unreleased(s))]
<1>1. s \in 1..Len(st.sets) /\ st.sets[s] \in SourceSets
  BY SettlingParts
<1>2. q \in Seq(Nat) /\ DOMAIN q = 1..Len(q) /\ Len(q) \in Nat
  BY <1>1, SeqParts DEF SourceSets
<1>3. Unreleased(s) \in SUBSET Nat
  BY <1>2 DEF Unreleased
<1>4. Min(Unreleased(s)) \in Unreleased(s)
  BY <1>3, MinProperties
<1>5. Min(Unreleased(s)) \in DOMAIN q /\ ~st.sets[s].out[b].committed
  BY <1>4 DEF Unreleased
<1>6. b \in Selected(s)
  BY <1>5 DEF Selected, ToSet
<1>7. b \in Members(st.sets[s])
  BY <1>1, <1>2, <1>5 DEF TypeInv, WellTyped, SetsKnown
<1>8. /\ b \in 1..Len(st.act) /\ st.act[b].set = s /\ b \in DOMAIN st.sets[s].out
  BY <1>1, <1>7 DEF TypeInv, WellTyped, SetsKnown
<1>9. st.sets[s].out[b] \in Outcomes
  BY <1>1, <1>8, OutcomeMapIsFunction DEF SourceSets
<1> QED BY <1>5, <1>6, <1>7, <1>8, <1>9

LEMMA ReleaseBranchFields ==
  ASSUME TypeInv, NEW s, ReleaseBranch(s)
  PROVE  \/ \E b, c, x : BranchReleased(s, b, c, x)
         \/ \E c : Fail(c, "policy", s, "none") /\ OnlyCloses(st, c)
<1> DEFINE b == st.sets[s].selected[Min(Unreleased(s))]
           d == st.sets[s].out[b].dispatch
           c == ClosedUnselected(s)
           x == ScheduleNext(c, b, d)
           o == [st.sets[s].out[b] EXCEPT !.committed = TRUE]
           p == [x.sets EXCEPT ![s].out[b] = o]
           y == [x EXCEPT !.sets = p]
<1>1. Cleared(s) /\ Unreleased(s) # {} /\ Settling(s)
  BY DEF ReleaseBranch, Cleared, Decided, Unsettled
<1>2. IF Unreachable(d) THEN Fail(c, "policy", s, "none")
      ELSE /\ Checkpoint([x EXCEPT !.sets[s].out[b].committed = TRUE])
           /\ UNCHANGED <<pc, batch, todo, touched>>
  BY DEF ReleaseBranch
<1>3. OnlyCloses(st, c)
  BY <1>1, ClosedUnselectedFields
<1>4. CASE Unreachable(d)
  BY <1>2, <1>3, <1>4
<1>5. CASE ~Unreachable(d)
  <2>1. /\ b \in Selected(s) /\ b \in Members(st.sets[s]) /\ b \in 1..Len(st.act)
        /\ st.act[b].set = s /\ b \in DOMAIN st.sets[s].out /\ ~st.sets[s].out[b].committed
        /\ st.sets[s].out[b] \in Outcomes
    BY <1>1, UnreleasedBranch
  <2>2. d \in Dispatchable
    BY <2>1 DEF Outcomes
  <2>3. s \in 1..Len(st.sets) /\ Len(st.sets) \in Nat
    BY <1>1, SettlingParts, TypeParts
  <2>4. Checkpoint([x EXCEPT !.sets[s].out[b].committed = TRUE]) /\ UNCHANGED <<pc, batch, todo, touched>>
    BY <1>2, <1>5
  <2>5. o \in Outcomes
    BY <2>1 DEF Outcomes
  <2> HIDE DEF b
  <2> HIDE DEF c, d
  <2>6. c \in RunStates /\ b \in 1..Len(c.act) /\ c.sets = st.sets /\ WellTyped(c)
    BY <1>3, <2>1, OnlyClosesIsUpdated DEF OnlyCloses, SameSets, TypeInv
  <2>7. Routes(c, x, b, d)
    BY <2>2, <2>6, ScheduleNextRoutes
  <2> HIDE DEF x
  <2>8. Extended(c, x, Len(Branches(d)), Len(d.iters))
    BY <2>2, <2>6, <2>7, RoutesExtends
  <2>9. Len(c.sets) <= Len(x.sets) /\ Len(x.sets) \in Nat /\ \A i \in 1..Len(c.sets) : x.sets[i] = c.sets[i]
    BY <2>6, <2>8, ExtendedParts
  <2>10. x.sets[s] = st.sets[s] /\ s \in 1..Len(x.sets) /\ x \in RunStates /\ x.sets \in Seq(SourceSets)
    BY <2>3, <2>6, <2>7, <2>9, RunStateParts DEF Routes
  <2>11. [x EXCEPT !.sets[s].out[b].committed = TRUE] = y
    BY <2>10
  <2> HIDE DEF o
  <2>12. OutcomeSet(x.sets, p, s, b, o)
    BY <2>1, <2>5, <2>10, OutcomeSetFields
  <2>13. p \in Seq(SourceSets)
    BY <2>12 DEF OutcomeSet
  <2> HIDE DEF p
  <2>14. /\ y \in RunStates /\ y.act = x.act /\ y.queue = x.queue /\ y.sets = p
         /\ y.sources = x.sources /\ SameJoins(x, y) /\ SameCounters(x, y)
    BY <2>10, <2>13 DEF RunStates, SameJoins, SameCounters
  <2>15. st' = y /\ saved' = st' /\ status' = status /\ processes' = processes
    BY <2>4, <2>11 DEF Checkpoint
  <2> HIDE DEF y
  <2>16. OutcomeSet(x.sets, st'.sets, s, b, [st.sets[s].out[b] EXCEPT !.committed = TRUE])
    BY <2>12, <2>14, <2>15 DEF o
  <2>17. Routes(c, x, b, st.sets[s].out[b].dispatch)
    BY <2>7 DEF d
  <2>18. BranchReleased(s, b, c, x)
    BY <1>1, <1>3, <2>1, <2>4, <2>14, <2>15, <2>16, <2>17 DEF BranchReleased
  <2> QED BY <2>18
<1> QED BY <1>4, <1>5

(* The state in between, and where it goes.                                  *)
LEMMA ReleasedParts ==
  ASSUME TypeInv, NEW s, NEW b, NEW c, NEW x, BranchReleased(s, b, c, x)
  PROVE  /\ WellTyped(c) /\ b \in 1..Len(c.act) /\ st.sets[s].out[b].dispatch \in Dispatchable
         /\ Extended(c, x, Len(Branches(st.sets[s].out[b].dispatch)), Len(st.sets[s].out[b].dispatch.iters))
         /\ WellTyped(x) /\ Settling(s) /\ c.act = st.act /\ c.sets = st.sets /\ c.queue = st.queue
         /\ c.sources = st.sources
<1>1. Settling(s)
  BY DEF BranchReleased, Cleared, Decided, Unsettled
<1>2. s \in 1..Len(st.sets) /\ st.sets[s] \in SourceSets
  BY <1>1, SettlingParts
<1>3. b \in 1..Len(st.act) /\ b \in DOMAIN st.sets[s].out
  BY <1>2 DEF BranchReleased, TypeInv, WellTyped, SetsKnown
<1>4. st.sets[s].out[b] \in Outcomes
  BY <1>2, <1>3, OutcomeMapIsFunction DEF SourceSets
<1> DEFINE d == st.sets[s].out[b].dispatch
<1>5. d \in Dispatchable
  BY <1>4 DEF Outcomes
<1>6. WellTyped(c) /\ c.act = st.act /\ c.sets = st.sets /\ c.queue = st.queue /\ c.sources = st.sources
  BY OnlyClosesIsUpdated DEF BranchReleased, OnlyCloses, SameSets, TypeInv
<1>7. Routes(c, x, b, d)
  BY DEF BranchReleased
<1> HIDE DEF d
<1>8. Extended(c, x, Len(Branches(d)), Len(d.iters))
  BY <1>3, <1>5, <1>6, <1>7, RoutesExtends
<1>9. WellTyped(x)
  BY <1>6, <1>8, ExtendedIsTyped
<1> QED BY <1>1, <1>3, <1>5, <1>6, <1>8, <1>9 DEF d

LEMMA ReleaseBranchTypes ==
  ASSUME TypeInv, NEW s, ReleaseBranch(s)
  PROVE  TypeInv'
<1>1. CASE \E c : Fail(c, "policy", s, "none") /\ OnlyCloses(st, c)
  BY <1>1, OnlyClosesIsUpdated, FailKeepsTypes DEF TypeInv
<1>2. ASSUME NEW b, NEW c, NEW x, BranchReleased(s, b, c, x)
      PROVE  TypeInv'
  <2> DEFINE d == st.sets[s].out[b].dispatch
  <2>1. /\ WellTyped(c) /\ Extended(c, x, Len(Branches(d)), Len(d.iters))
        /\ WellTyped(x) /\ Settling(s) /\ c.act = st.act /\ c.sets = st.sets
    BY <1>2, ReleasedParts
  <2> HIDE DEF d
  <2>2. Len(c.act) <= Len(x.act) /\ Len(c.sets) <= Len(x.sets)
    BY <2>1, ExtendedParts
  <2>3. SameBranches(x.sets, st'.sets)
    BY <1>2, <2>1, OutcomeSetKeepsBranches DEF BranchReleased
  <2>4. Updated(x, st')
    BY <1>2, <2>1, <2>3, WellTypedParts DEF BranchReleased, Updated, SameJoins, SameCounters
  <2>5. WellTyped(st') /\ st'.act = x.act /\ Len(st'.sets) = Len(x.sets)
    BY <1>2, <2>1, <2>3, <2>4, UpdateKeepsTypes DEF BranchReleased, SameBranches
  <2>6. ControlInv'
    BY <1>2, <2>1, SettleKeepsControl DEF BranchReleased
  <2>7. touched' \in Seq(Nat) /\ Refs(touched', Len(st.sets)) /\ saved' = st' /\ batch' = batch /\ todo' = todo
    BY <1>2 DEF TypeInv, BranchReleased
  <2>8. Len(st.act) <= Len(st'.act) /\ Len(st.sets) <= Len(st'.sets)
    BY <2>1, <2>2, <2>5
  <2> QED BY <2>5, <2>6, <2>7, <2>8, StepKeepsTypes
<1> QED BY <1>1, <1>2, ReleaseBranchFields

(* What settling set s changes: the joins that became ready start.           *)
SetSettled(s, c, x) ==
  /\ Cleared(s) /\ st.sets[s].decided /\ Unreleased(s) = {}
  /\ OnlyCloses(st, c) /\ Grown(c, x)
  /\ st' \in RunStates /\ st'.act = x.act /\ st'.queue = x.queue
  /\ st'.sets \in Seq(SourceSets) /\ Len(st'.sets) = Len(st.sets)
  /\ \A j \in 1..Len(st.sets) : j # s => st'.sets[j] = st.sets[j]
  /\ st'.sets[s] = [st.sets[s] EXCEPT !.settled = TRUE]
  /\ st'.sources = x.sources /\ SameJoins(x, st') /\ SameCounters(x, st')
  /\ saved' = saved /\ status' = status /\ touched' = Tail(touched)
  /\ UNCHANGED <<pc, batch, todo, processes>>

LEMMA SettleSetFields ==
  ASSUME TypeInv, NEW s, SettleSet(s)
  PROVE  \E c, x : SetSettled(s, c, x)
<1> DEFINE c == ClosedUnselected(s)
<1>1. /\ Cleared(s) /\ st.sets[s].decided /\ Unreleased(s) = {} /\ Settling(s)
  BY DEF SettleSet, Cleared, Decided, Unsettled
<1>2. OnlyCloses(st, c)
  BY <1>1, ClosedUnselectedFields
<1>3. PICK order \in SetToSeqs(ReadyJoins(c)) :
        Compute([MaterializeReadyJoins(c, order) EXCEPT !.sets[s].settled = TRUE])
  BY DEF SettleSet
<1> DEFINE x == MaterializeReadyJoins(c, order)
<1> HIDE DEF c
<1>4. c \in RunStates /\ JoinsKnown(c) /\ c.sets = st.sets
  BY <1>2, OnlyClosesIsUpdated DEF TypeInv, WellTyped, OnlyCloses, SameSets
<1>5. Grown(c, x)
  BY <1>4, MaterializeGrows
<1>6. st' = [x EXCEPT !.sets[s].settled = TRUE] /\ UNCHANGED <<saved, status, processes>>
  BY <1>3 DEF Compute
<1> HIDE DEF x
<1>7. x \in RunStates /\ x.sets = st.sets /\ s \in 1..Len(st.sets) /\ st.sets[s] \in SourceSets
      /\ st.sets \in Seq(SourceSets)
  BY <1>1, <1>4, <1>5, SettlingParts, RunStateParts DEF Grown, SameSets
<1> DEFINE z == [st.sets[s] EXCEPT !.settled = TRUE]
           p == [st.sets EXCEPT ![s] = z]
           y == [x EXCEPT !.sets = p]
<1>8. z \in SourceSets
  BY <1>7 DEF SourceSets
<1>9. st' = y
  BY <1>6, <1>7
<1> HIDE DEF z
<1>10. /\ p \in Seq(SourceSets) /\ Len(p) = Len(st.sets) /\ p[s] = z
       /\ \A j \in 1..Len(st.sets) : j # s => p[j] = st.sets[j]
  BY <1>7, <1>8, ExceptParts
<1> HIDE DEF p
<1>11. /\ y \in RunStates /\ y.act = x.act /\ y.queue = x.queue /\ y.sets = p /\ y.sources = x.sources
       /\ SameJoins(x, y) /\ SameCounters(x, y)
  BY <1>7, <1>10 DEF RunStates, SameJoins, SameCounters
<1> HIDE DEF y
<1>12. SetSettled(s, c, x)
  BY <1>1, <1>2, <1>5, <1>6, <1>9, <1>10, <1>11 DEF SetSettled, SettleSet, z
<1> QED BY <1>12

LEMMA GrownIsTyped ==
  ASSUME NEW s, WellTyped(s), NEW m, Grown(s, m)
  PROVE  WellTyped(m) /\ Len(s.act) <= Len(m.act)
<1>1. Extended(s, s, 0, 0)
  <2>1. OnlyCloses(s, s)
    BY WellTypedParts DEF OnlyCloses, SameSets, SameCounters
  <2> QED BY <2>1, ClosesExtends
<1>2. Extended(s, m, 0, 0)
  BY <1>1, GrownExtends
<1> QED BY <1>2, ExtendedIsTyped, ExtendedParts

LEMMA SettleSetTypes ==
  ASSUME TypeInv, NEW s, SettleSet(s)
  PROVE  TypeInv'
<1>1. PICK c, x : SetSettled(s, c, x)
  BY SettleSetFields
<1>2. Settling(s)
  BY DEF SettleSet, Cleared, Decided, Unsettled
<1>3. WellTyped(c) /\ c.act = st.act /\ c.sets = st.sets
  BY <1>1, OnlyClosesIsUpdated DEF SetSettled, OnlyCloses, SameSets, TypeInv
<1>4. WellTyped(x) /\ Len(c.act) <= Len(x.act) /\ x.sets = st.sets
  BY <1>1, <1>3, GrownIsTyped DEF SetSettled, Grown, SameSets
<1>5. SameBranches(x.sets, st'.sets)
  <2>1. /\ st'.sets \in Seq(SourceSets) /\ Len(st'.sets) = Len(x.sets) /\ SameBranches(x.sets, x.sets)
        /\ \A j \in 1..Len(x.sets) : j # s => st'.sets[j] = x.sets[j]
        /\ st'.sets[s].branches = x.sets[s].branches /\ st'.sets[s].out = x.sets[s].out
        /\ st'.sets[s].selected = x.sets[s].selected
    <3>1. st.sets[s] \in SourceSets
      BY <1>2, SettlingParts
    <3>2. st'.sets[s] = [st.sets[s] EXCEPT !.settled = TRUE]
      BY <1>1 DEF SetSettled
    <3>3. /\ st'.sets[s].branches = st.sets[s].branches /\ st'.sets[s].out = st.sets[s].out
          /\ st'.sets[s].selected = st.sets[s].selected
      BY <3>1, <3>2 DEF SourceSets
    <3> QED BY <1>1, <1>4, <3>3, WellTypedParts DEF SetSettled
  <2>2. Members(st'.sets[s]) = Members(x.sets[s])
    BY <2>1 DEF Members
  <2> QED BY <2>1, <2>2 DEF SameBranches
<1>6. Updated(x, st')
  BY <1>1, <1>4, <1>5, WellTypedParts DEF SetSettled, Updated, SameJoins, SameCounters
<1>7. WellTyped(st') /\ st'.act = x.act /\ Len(st'.sets) = Len(st.sets)
  BY <1>1, <1>4, <1>6, UpdateKeepsTypes DEF SetSettled
<1>8. ControlInv'
  BY <1>1, <1>2, SettleKeepsControl DEF SetSettled
<1>9. touched' \in Seq(Nat) /\ Refs(touched', Len(st.sets)) /\ saved' = saved /\ batch' = batch /\ todo' = todo
  BY <1>1, <1>2, SettlingParts DEF SetSettled
<1>10. Len(st.act) <= Len(st'.act) /\ Len(st.sets) <= Len(st'.sets)
  BY <1>3, <1>4, <1>7, TypeParts
<1> QED BY <1>7, <1>8, <1>9, <1>10, StepKeepsTypes

-----------------------------------------------------------------------------
(* The end of a process, and the next                                        *)

LEMMA ActsAreUpdated ==
  ASSUME NEW s, WellTyped(s), NEW p, Rephased(s.act, p), NEW e, e = [s EXCEPT !.act = p]
  PROVE  /\ Updated(s, e) /\ e.act = p /\ e.queue = s.queue /\ SameSets(s, e)
         /\ SameJoins(s, e) /\ SameCounters(s, e)
<1>1. s \in RunStates /\ p \in Seq(Activations)
  BY DEF WellTyped, Rephased
<1>2. e \in RunStates
  BY <1>1 DEF RunStates
<1>3. /\ e.act = p /\ e.queue = s.queue /\ SameSets(s, e) /\ SameJoins(s, e) /\ SameCounters(s, e)
  BY <1>1 DEF RunStates, SameSets, SameJoins, SameCounters
<1> QED BY <1>2, <1>3, WellTypedParts DEF Updated, SameSets, SameJoins, SameCounters

Waiting == {batch[i].act : i \in Answered("interrupted")}

(* What an interrupt changes: what waits for a resolution is interrupted.    *)
Interrupted ==
  /\ BatchDone /\ Answered("interrupted") # {}
  /\ Rephased(st.act, st'.act)
  /\ \A a \in 1..Len(st.act) :
       st'.act[a].phase = IF a \in Waiting THEN "interrupted" ELSE st.act[a].phase
  /\ st' \in RunStates /\ st'.queue = st.queue /\ SameSets(st, st') /\ SameJoins(st, st')
  /\ SameCounters(st, st') /\ saved' = st' /\ status' = "interrupted" /\ pc' = "ended" /\ batch' = <<>>
  /\ UNCHANGED <<todo, touched, processes>>

LEMMA InterruptBatchFields ==
  ASSUME TypeInv, InterruptBatch
  PROVE  Interrupted /\ Updated(st, st')
<1> DEFINE p == [a \in DOMAIN st.act |->
                   IF a \in Waiting THEN [st.act[a] EXCEPT !.phase = "interrupted"] ELSE st.act[a]]
<1>1. WellTyped(st) /\ st.act \in Seq(Activations)
  BY TypeParts, RunStateParts DEF TypeInv
<1>2. "interrupted" \in Phases
  BY DEF Phases
<1>3. Rephased(st.act, p)
      /\ \A a \in 1..Len(st.act) : p[a].phase = IF a \in Waiting THEN "interrupted" ELSE st.act[a].phase
  BY <1>1, <1>2, RephaseMany
<1>4. st' = [st EXCEPT !.act = p] /\ saved' = st'
  BY DEF InterruptBatch, Waiting
<1> HIDE DEF p
<1>5. /\ Updated(st, st') /\ st'.act = p /\ st'.queue = st.queue /\ SameSets(st, st')
      /\ SameJoins(st, st') /\ SameCounters(st, st')
  <2> DEFINE e == [st EXCEPT !.act = p]
  <2>1. Rephased(st.act, p) /\ st' = e
    BY <1>3, <1>4
  <2>2. e = [st EXCEPT !.act = p]
    OBVIOUS
  <2> HIDE DEF e
  <2>3. /\ Updated(st, e) /\ e.act = p /\ e.queue = st.queue /\ SameSets(st, e)
        /\ SameJoins(st, e) /\ SameCounters(st, e)
    BY <1>1, <2>1, <2>2, ActsAreUpdated
  <2> QED BY <2>1, <2>3
<1>6. /\ BatchDone /\ Answered("interrupted") # {} /\ status' = "interrupted" /\ pc' = "ended"
      /\ batch' = <<>> /\ UNCHANGED <<todo, touched, processes>>
  BY DEF InterruptBatch
<1> QED BY <1>3, <1>4, <1>5, <1>6 DEF Interrupted, Updated

LEMMA InterruptBatchTypes ==
  ASSUME TypeInv, InterruptBatch
  PROVE  TypeInv'
<1>1. Interrupted /\ Updated(st, st')
  BY InterruptBatchFields
<1>2. todo = <<>> /\ touched = <<>> /\ \E i \in 1..Len(batch) : batch[i].answer = "interrupted"
  BY <1>1, TypeParts DEF Interrupted, BatchDone, Answered
<1>3. processes < MaxProcesses
  BY <1>2 DEF TypeInv, ControlInv
<1>4. \A i \in 1..Len(batch') : FALSE
  BY <1>1, EmptyParts DEF Interrupted
<1>5. ControlInv'
  BY <1>1, <1>2, <1>3, <1>4 DEF TypeInv, ControlInv, Interrupted
<1>6. touched' \in Seq(Nat) /\ Refs(touched', Len(st.sets))
  BY <1>1 DEF TypeInv, Interrupted
<1> QED BY <1>1, <1>5, <1>6, UpdateStepKeepsTypes DEF Interrupted

(* A set as it is restored: the causes of its branches may change.           *)
Reread(x, y) ==
  /\ y \in SourceSets /\ y.branches = x.branches /\ y.selected = x.selected
  /\ y.policy = x.policy /\ y.open = x.open /\ y.cause = x.cause
  /\ y.decided = x.decided /\ y.settled = x.settled /\ y.failed = x.failed
  /\ DOMAIN y.out = DOMAIN x.out
  /\ \A b \in DOMAIN x.out : /\ y.out[b].phase = x.out[b].phase
                             /\ y.out[b].completion = x.out[b].completion
                             /\ y.out[b].committed = x.out[b].committed
                             /\ y.out[b].dispatch = x.out[b].dispatch

LEMMA RestoredSetFields ==
  ASSUME NEW x \in SourceSets
  PROVE  Reread(x, RestoredSet(x))
<1> DEFINE f == [b \in DOMAIN x.out |-> IF x.out[b].cause = "canceled"
                                        THEN [x.out[b] EXCEPT !.cause = "text"] ELSE x.out[b]]
           y == [x EXCEPT !.out = f]
<1>1. x.out \in OutcomeMaps
  BY DEF SourceSets
<1>2. DOMAIN x.out \in SUBSET Nat /\ \A b \in DOMAIN x.out : x.out[b] \in Outcomes
  BY <1>1, OutcomeMapIsFunction
<1>3. DOMAIN f = DOMAIN x.out
  OBVIOUS
<1>4. ASSUME NEW b \in DOMAIN x.out
      PROVE  /\ f[b] \in Outcomes /\ f[b].phase = x.out[b].phase /\ f[b].completion = x.out[b].completion
             /\ f[b].committed = x.out[b].committed /\ f[b].dispatch = x.out[b].dispatch
  <2>1. x.out[b] \in Outcomes
    BY <1>2
  <2> DEFINE o == x.out[b]
  <2>2. f[b] = IF o.cause = "canceled" THEN [o EXCEPT !.cause = "text"] ELSE o
    OBVIOUS
  <2> HIDE DEF f, o
  <2>3. o \in Outcomes
    BY <2>1 DEF o
  <2>4. /\ f[b] \in Outcomes /\ f[b].phase = o.phase /\ f[b].completion = o.completion
        /\ f[b].committed = o.committed /\ f[b].dispatch = o.dispatch
    BY <2>2, <2>3 DEF Outcomes, Causes
  <2> QED BY <2>4 DEF o
<1>5. f = [b \in DOMAIN x.out |-> f[b]]
  OBVIOUS
<1>6. y = RestoredSet(x)
  BY DEF RestoredSet
<1> HIDE DEF f
<1>7. f \in [DOMAIN x.out -> Outcomes]
  BY <1>3, <1>4, <1>5
<1>8. f \in OutcomeMaps
  BY <1>2, <1>7, OutcomeMapIsFunction
<1>9. /\ y \in SourceSets /\ y.branches = x.branches /\ y.selected = x.selected
      /\ y.policy = x.policy /\ y.open = x.open /\ y.cause = x.cause
      /\ y.decided = x.decided /\ y.settled = x.settled /\ y.failed = x.failed /\ y.out = f
  BY <1>8 DEF SourceSets
<1> HIDE DEF y
<1>10. Reread(x, y)
  BY <1>3, <1>4, <1>9 DEF Reread
<1> QED BY <1>6, <1>10

(* An iterator as it is bound again.                                         *)
Rebound(x, y) ==
  /\ y \in Sources /\ y.set = x.set /\ y.of = x.of /\ y.epoch = x.epoch /\ y.pulled = x.pulled
  /\ y.at = x.pulled /\ y.open = x.open /\ y.live

LEMMA BoundFields ==
  ASSUME NEW x \in Sources
  PROVE  Rebound(x, Bound(x))
BY DEF Bound, Sources, Rebound

(* What the next process starts from.                                        *)
Resumed(s, e) ==
  /\ e \in RunStates /\ Rephased(s.act, e.act)
  /\ \A a \in 1..Len(s.act) :
       e.act[a].phase = IF s.act[a].phase \in {"running", "interrupted"} THEN "ready" ELSE s.act[a].phase
  /\ Len(e.sets) = Len(s.sets) /\ \A i \in 1..Len(s.sets) : Reread(s.sets[i], e.sets[i])
  /\ Len(e.sources) = Len(s.sources) /\ \A i \in 1..Len(s.sources) : Rebound(s.sources[i], e.sources[i])
  /\ e.queue = s.queue /\ SameJoins(s, e) /\ SameCounters(s, e)

LEMMA SeqMap ==
  ASSUME NEW T, NEW n \in Nat, NEW p \in [1..n -> T]
  PROVE  p \in Seq(T) /\ Len(p) = n
OBVIOUS

LEMMA ResumedFields ==
  ASSUME NEW s, WellTyped(s)
  PROVE  Resumed(s, PrepareResume(Restored(s)))
<1> DEFINE p == [i \in DOMAIN s.sets |-> RestoredSet(s.sets[i])]
           q == [i \in DOMAIN s.sources |-> Bound(s.sources[i])]
           m == [s EXCEPT !.sets = p, !.sources = q]
           T == {a \in DOMAIN s.act : s.act[a].phase \in {"running", "interrupted"}}
           r == [a \in DOMAIN s.act |-> IF a \in T THEN [s.act[a] EXCEPT !.phase = "ready"] ELSE s.act[a]]
           e == [m EXCEPT !.act = r]
<1>1. s \in RunStates
  BY DEF WellTyped
<1>2. /\ s.sets \in Seq(SourceSets) /\ DOMAIN s.sets = 1..Len(s.sets)
      /\ s.sources \in Seq(Sources) /\ DOMAIN s.sources = 1..Len(s.sources)
      /\ s.act \in Seq(Activations) /\ DOMAIN s.act = 1..Len(s.act)
      /\ \A i \in 1..Len(s.sets) : s.sets[i] \in SourceSets
      /\ \A i \in 1..Len(s.sources) : s.sources[i] \in Sources
  BY <1>1, RunStateParts
<1>3. \A i \in 1..Len(s.sets) : p[i] = RestoredSet(s.sets[i])
  BY <1>2
<1>4. \A i \in 1..Len(s.sets) : Reread(s.sets[i], p[i])
  BY <1>2, <1>3, RestoredSetFields
<1>5. \A i \in 1..Len(s.sources) : q[i] = Bound(s.sources[i])
  BY <1>2
<1>6. \A i \in 1..Len(s.sources) : Rebound(s.sources[i], q[i])
  BY <1>2, <1>5, BoundFields
<1>7. /\ p = [i \in 1..Len(s.sets) |-> p[i]] /\ q = [i \in 1..Len(s.sources) |-> q[i]]
      /\ Len(s.sets) \in Nat /\ Len(s.sources) \in Nat
  BY <1>1, <1>2, RunStateParts
<1>8. m = Restored(s)
  BY DEF Restored
<1> HIDE DEF p, q
<1>9. p \in Seq(SourceSets) /\ Len(p) = Len(s.sets)
  <2>1. \A i \in 1..Len(s.sets) : p[i] \in SourceSets
    BY <1>4 DEF Reread
  <2>2. p \in [1..Len(s.sets) -> SourceSets]
    BY <1>7, <2>1
  <2> QED BY <1>7, <2>2, SeqMap
<1>10. q \in Seq(Sources) /\ Len(q) = Len(s.sources)
  <2>1. \A i \in 1..Len(s.sources) : q[i] \in Sources
    BY <1>6 DEF Rebound
  <2>2. q \in [1..Len(s.sources) -> Sources]
    BY <1>7, <2>1
  <2> QED BY <1>7, <2>2, SeqMap
<1>11. /\ m \in RunStates /\ m.sets = p /\ m.sources = q /\ m.act = s.act /\ m.queue = s.queue
       /\ SameJoins(s, m) /\ SameCounters(s, m)
  BY <1>1, <1>9, <1>10 DEF RunStates, SameJoins, SameCounters
<1>12. e = PrepareResume(m)
  <2>1. r = [a \in DOMAIN m.act |-> IF m.act[a].phase \in {"running", "interrupted"}
                                    THEN [m.act[a] EXCEPT !.phase = "ready"] ELSE m.act[a]]
    BY <1>11
  <2> QED BY <2>1 DEF PrepareResume
<1>13. "ready" \in Phases
  BY DEF Phases
<1>14. Rephased(s.act, r) /\ \A a \in 1..Len(s.act) : r[a].phase = IF a \in T THEN "ready" ELSE s.act[a].phase
  <2> HIDE DEF T, e, m
  <2>1. s.act \in Seq(Activations)
    BY <1>2
  <2> QED BY <1>13, <2>1, RephaseMany
<1>15. \A a \in 1..Len(s.act) :
         r[a].phase = IF s.act[a].phase \in {"running", "interrupted"} THEN "ready" ELSE s.act[a].phase
  <2> HIDE DEF r
  <2> QED BY <1>2, <1>14
<1> HIDE DEF r, m
<1>16. r \in Seq(Activations)
  BY <1>14 DEF Rephased
<1>17. /\ e \in RunStates /\ e.sets = m.sets /\ e.sources = m.sources /\ e.act = r /\ e.queue = m.queue
       /\ SameJoins(m, e) /\ SameCounters(m, e)
  BY <1>11, <1>16 DEF RunStates, SameJoins, SameCounters
<1> HIDE DEF e
<1>18. SameJoins(s, e) /\ SameCounters(s, e)
  BY <1>11, <1>17 DEF SameJoins, SameCounters
<1>19. Resumed(s, e)
  BY <1>4, <1>6, <1>9, <1>10, <1>11, <1>14, <1>15, <1>17, <1>18 DEF Resumed
<1> QED BY <1>8, <1>12, <1>19

LEMMA ResumedIsUpdated ==
  ASSUME NEW s, WellTyped(s), NEW e, Resumed(s, e)
  PROVE  Updated(s, e) /\ WellTyped(e)
<1>1. e \in RunStates
  BY DEF Resumed
<1>2. /\ e.sets \in Seq(SourceSets) /\ e.sources \in Seq(Sources) /\ Len(s.sets) \in Nat
  BY <1>1, RunStateParts DEF WellTyped
<1>3. SameBranches(s.sets, e.sets)
  <2>1. ASSUME NEW i \in 1..Len(s.sets)
        PROVE  /\ e.sets[i].branches = s.sets[i].branches /\ DOMAIN e.sets[i].out = DOMAIN s.sets[i].out
               /\ \A k \in 1..Len(e.sets[i].selected) : e.sets[i].selected[k] \in Members(e.sets[i])
    <3>1. Reread(s.sets[i], e.sets[i])
      BY DEF Resumed
    <3>2. Members(e.sets[i]) = Members(s.sets[i])
      BY <3>1 DEF Reread, Members
    <3>3. \A k \in 1..Len(s.sets[i].selected) : s.sets[i].selected[k] \in Members(s.sets[i])
      BY WellTypedParts DEF SameBranches
    <3> QED BY <3>1, <3>2, <3>3 DEF Reread
  <2> QED BY <1>2, <2>1 DEF SameBranches, Resumed
<1>4. SameOwners(s.sources, e.sources)
  BY <1>2 DEF SameOwners, Resumed, Rebound
<1>5. Updated(s, e)
  BY <1>1, <1>3, <1>4, WellTypedParts DEF Updated, Resumed, SameJoins, SameCounters
<1> QED BY <1>5, UpdateKeepsTypes

(* What a resume does.                                                       *)
Restarted ==
  /\ pc = "ended" /\ status \in {"running", "interrupted"} /\ processes < MaxProcesses
  /\ Resumed(saved, st') /\ WellTyped(st') /\ saved' = st'
  /\ touched' = Ascending(ToReconcile(st'))
  /\ batch = <<>> /\ todo = <<>> /\ batch' = <<>> /\ todo' = <<>>
  /\ status' = "running" /\ pc' = "commit" /\ processes' = processes + 1

LEMMA ResumeFields ==
  ASSUME TypeInv, Resume
  PROVE  Restarted
<1>1. st' = PrepareResume(Restored(saved)) /\ saved' = st' /\ touched' = Ascending(ToReconcile(st'))
  BY DEF Resume
<1>2. Resumed(saved, st') /\ WellTyped(st')
  BY <1>1, ResumedFields, ResumedIsUpdated DEF TypeInv
<1>3. /\ pc = "ended" /\ status \in {"running", "interrupted"} /\ status' = "running" /\ pc' = "commit"
      /\ processes' = processes + 1 /\ UNCHANGED <<batch, todo, fault>>
  BY DEF Resume
<1>4. batch = <<>> /\ todo = <<>> /\ processes < MaxProcesses
  BY <1>3 DEF TypeInv, ControlInv
<1> QED BY <1>1, <1>2, <1>3, <1>4 DEF Restarted

(* The sets to reconcile, in order.                                          *)
LEMMA ReconcileParts ==
  ASSUME NEW s \in RunStates
  PROVE  LET q == Ascending(ToReconcile(s))
         IN /\ q \in Seq(Nat) /\ Refs(q, Len(s.sets))
            /\ \A i \in 1..Len(s.sets) : ~s.sets[i].settled => \E k \in 1..Len(q) : q[k] = i
<1> DEFINE T == ToReconcile(s)
           q == Ascending(T)
<1>1. T \in SUBSET (1..Len(s.sets)) /\ Len(s.sets) \in Nat
      /\ \A i \in 1..Len(s.sets) : ~s.sets[i].settled => i \in T
  BY RunStateParts DEF ToReconcile
<1> HIDE DEF T
<1>2. T \in SUBSET Nat /\ IsFiniteSet(T)
  <2>1. IsFiniteSet(1..Len(s.sets))
    BY <1>1, FS_Interval
  <2>2. T \in SUBSET Nat
    BY <1>1
  <2> QED BY <1>1, <2>1, <2>2, FS_Subset
<1>3. q \in Seq(T) /\ \A x \in T : \E i \in DOMAIN q : q[i] = x
  BY <1>2, AscendingProperties
<1> HIDE DEF q
<1>4. q \in Seq(Nat) /\ DOMAIN q = 1..Len(q) /\ \A i \in 1..Len(q) : q[i] \in T
  <2>1. DOMAIN q = 1..Len(q) /\ \A i \in DOMAIN q : q[i] \in T
    BY <1>3, SeqParts
  <2>2. q \in Seq(Nat)
    <3>1. q = [i \in 1..Len(q) |-> q[i]] /\ Len(q) \in Nat
      BY <1>3
    <3>2. q \in [1..Len(q) -> Nat]
      BY <1>2, <2>1, <3>1
    <3> QED BY <3>1, <3>2, SeqMap
  <2> QED BY <2>1, <2>2
<1>5. Refs(q, Len(s.sets))
  BY <1>1, <1>4 DEF Refs
<1>6. \A i \in 1..Len(s.sets) : ~s.sets[i].settled => \E k \in 1..Len(q) : q[k] = i
  BY <1>1, <1>3, <1>4
<1> QED BY <1>4, <1>5, <1>6 DEF q, T

LEMMA ResumeTypes ==
  ASSUME TypeInv, Resume
  PROVE  TypeInv'
<1>1. Restarted
  BY ResumeFields
<1>2. st' \in RunStates
  BY <1>1 DEF Restarted, WellTyped
<1>3. touched' \in Seq(Nat) /\ Refs(touched', Len(st'.sets))
  BY <1>1, <1>2, ReconcileParts DEF Restarted
<1>4. Len(st'.queue) \in Nat /\ Len(st'.act) \in Nat
  BY <1>2, RunStateParts
<1>5. batch' = <<>> /\ todo' = <<>> /\ Len(<<>>) = 0
  BY <1>1, EmptyParts DEF Restarted
<1>6. \A i \in 1..Len(batch') : FALSE
  BY <1>5
<1>7. processes' \in 1..MaxProcesses
  BY <1>1, LimitsAssumption DEF TypeInv, ControlInv, Restarted
<1>8. ControlInv'
  BY <1>1, <1>4, <1>5, <1>6, <1>7 DEF ControlInv, Restarted
<1>10. ResultsTyped(batch', Len(st'.act)) /\ ResultsTyped(todo', Len(st'.act)) /\ \A i \in 1..Len(todo') : FALSE
  BY <1>4, <1>5, <1>6, ResultsStayTyped
<1> QED BY <1>1, <1>3, <1>8, <1>10 DEF TypeInv, Restarted

LEMMA StepTypes ==
  ASSUME TypeInv, [Next]_vars
  PROVE  TypeInv'
<1>1. CASE UNCHANGED vars
  BY <1>1 DEF vars, TypeInv, ControlInv
<1>2. CASE \E i \in DOMAIN st.sources : PullItem(i) \/ EndSource(i) \/ FailPull(i)
  BY <1>2, PullItemTypes, EndSourceTypes, StillStepsTypes
<1>3. CASE NextBatch \/ StepsExceeded \/ StartActivation \/ AcceptBatch \/ FailBatch
  BY <1>3, NextBatchTypes, StillStepsTypes, StartActivationTypes, AcceptBatchTypes, FailBatchTypes
<1>4. CASE \E i \in DOMAIN batch : Return(i)
  BY <1>4, ReturnTypes
<1>5. CASE \E r \in ToSet(todo) : Commit(r)
  BY <1>5, CommitRetryTypes, CommitBranchTypes, CommitActivationTypes, FailCommitTypes, StillStepsTypes
     DEF Commit
<1>6. CASE \E s \in ToSet(touched) : Settle(s)
  BY <1>6, DecideTypes, CancelQueuedBranchTypes, SupersedeBranchTypes, ReleaseBranchTypes, FailSetTypes,
     SettleSetTypes, StillStepsTypes DEF Settle
<1>7. CASE Advance \/ InterruptBatch \/ Complete \/ Resume \/ Crash
  BY <1>7, StillStepsTypes, InterruptBatchTypes, ResumeTypes, CrashTypes
<1> QED BY <1>1, <1>2, <1>3, <1>4, <1>5, <1>6, <1>7 DEF Next, Progress

LEMMA RefsAreSequence ==
  ASSUME NEW q \in Seq(Nat), NEW n \in Nat, Refs(q, n), NEW S, S = 1..n
  PROVE  q \in Seq(S)
<1>1. Len(q) \in Nat /\ DOMAIN q = 1..Len(q) /\ q = [i \in 1..Len(q) |-> q[i]]
  OBVIOUS
<1>2. \A i \in 1..Len(q) : q[i] \in S
  BY DEF Refs
<1> QED BY <1>1, <1>2

LEMMA WellTypedIsWellFormed ==
  ASSUME NEW s, WellTyped(s)
  PROVE  WellFormed(s)
<1> DEFINE A == [node : Nodes, epoch : Nat, set : 0..Len(s.sets), input : Seq(DOMAIN s.act),
                 source : 0..Len(s.sources), item : Nat,
                 phase : Over \cup {"ready", "running", "interrupted"}]
<1>1. /\ s \in RunStates /\ s.act \in Seq(Activations) /\ DOMAIN s.act = 1..Len(s.act) /\ Len(s.act) \in Nat
      /\ Len(s.sets) \in Nat /\ Len(s.sources) \in Nat /\ DOMAIN s.sets = 1..Len(s.sets)
      /\ \A a \in 1..Len(s.act) : s.act[a] \in Activations
  BY RunStateParts DEF WellTyped
<1>2. s.act \in Seq(A)
  <2>1. ASSUME NEW a \in 1..Len(s.act)
        PROVE  s.act[a] \in A
    <3>1. s.act[a] \in Activations /\ s.act[a].set <= Len(s.sets) /\ s.act[a].source <= Len(s.sources)
          /\ Refs(s.act[a].input, Len(s.act))
      BY <1>1 DEF WellTyped, ActsKnown
    <3>2. s.act[a].set \in 0..Len(s.sets) /\ s.act[a].source \in 0..Len(s.sources)
          /\ s.act[a].input \in Seq(Nat)
      <4> DEFINE x == s.act[a]
                 m == Len(s.sets)
                 n == Len(s.sources)
      <4>1. x \in Activations /\ x.set <= m /\ x.source <= n /\ m \in Nat /\ n \in Nat
        BY <1>1, <3>1
      <4> HIDE DEF x, m, n, A
      <4>2. x.set \in Nat /\ x.source \in Nat /\ x.input \in Seq(Nat)
        BY <4>1 DEF Activations
      <4>3. x.set \in 0..m /\ x.source \in 0..n
        BY <4>1, <4>2
      <4> QED BY <4>2, <4>3 DEF x, m, n
    <3>3. s.act[a].input \in Seq(DOMAIN s.act)
      BY <1>1, <3>1, <3>2, RefsAreSequence
    <3> QED BY <3>1, <3>2, <3>3 DEF Activations
  <2>2. s.act = [a \in 1..Len(s.act) |-> s.act[a]]
    BY <1>1
  <2> HIDE DEF A
  <2> QED BY <1>1, <2>1, <2>2
<1>3. /\ s.queue \in Seq(DOMAIN s.act) /\ s.context \in Seq(DOMAIN s.act)
      /\ s.tracked \subseteq DOMAIN s.act /\ s.revision \in Nat /\ s.clock \in Nat /\ s.step \in Nat
  BY <1>1, RunStateParts, RefsAreSequence DEF WellTyped, ActsKnown
<1>4. s.bound \in [Joins -> Seq(DOMAIN s.act)]
  <2>1. s.bound \in [Joins -> Seq(Nat)]
    BY <1>1 DEF RunStates
  <2>2. \A t \in Joins : s.bound[t] \in Seq(DOMAIN s.act)
    BY <1>1, <2>1, RefsAreSequence DEF WellTyped, JoinsKnown
  <2> QED BY <2>1, <2>2
<1>5. \A t \in Joins : s.closed[t] \subseteq [act : DOMAIN s.act, count : Nat]
  <2>1. s.closed \in [Joins -> SUBSET [act : Nat, count : Nat]]
    BY <1>1 DEF RunStates
  <2>2. ASSUME NEW t \in Joins, NEW c \in s.closed[t]
        PROVE  c \in [act : DOMAIN s.act, count : Nat]
    <3>1. c \in [act : Nat, count : Nat] /\ c.act \in DOMAIN s.act
      BY <1>1, <2>1 DEF WellTyped, JoinsKnown
    <3> QED BY <3>1
  <2> QED BY <2>2
<1>6. ASSUME NEW i \in DOMAIN s.sets
      PROVE  LET set == s.sets[i]
             IN /\ Members(set) = {a \in DOMAIN s.act : s.act[a].set = i}
                /\ DOMAIN set.out = Members(set) /\ ToSet(set.selected) \subseteq Members(set)
                /\ \A b \in Members(set) : set.out[b].phase \in Over \cup {"none", "superseded"}
  <2> DEFINE x == s.sets[i]
  <2>1. /\ Members(x) = {a \in 1..Len(s.act) : s.act[a].set = i} /\ DOMAIN x.out = Members(x)
        /\ \A k \in 1..Len(x.selected) : x.selected[k] \in Members(x)
    BY <1>1 DEF WellTyped, SetsKnown
  <2>2. x \in SourceSets
    BY <1>1, RunStateParts
  <2> HIDE DEF x
  <2>3. x.out \in OutcomeMaps /\ DOMAIN x.selected = 1..Len(x.selected)
    BY <2>2, SeqParts DEF SourceSets
  <2>4. \A b \in DOMAIN x.out : x.out[b] \in Outcomes
    BY <2>3, OutcomeMapIsFunction
  <2>5. ToSet(x.selected) \subseteq Members(x)
    BY <2>1, <2>3 DEF ToSet
  <2>6. \A b \in Members(x) : x.out[b].phase \in Over \cup {"none", "superseded"}
    BY <2>1, <2>4 DEF Outcomes
  <2> QED BY <1>1, <2>1, <2>5, <2>6 DEF x
<1> QED BY <1>2, <1>3, <1>4, <1>5, <1>6 DEF WellFormed

LEMMA TypeInvIsTypeOK ==
  ASSUME TypeInv
  PROVE  TypeOK
<1>1. WellFormed(st) /\ WellFormed(saved)
  BY WellTypedIsWellFormed DEF TypeInv
<1>2. \A i \in DOMAIN batch : batch[i].act \in DOMAIN st.act
  BY TypeParts, RunStateParts
<1>3. ToSet(touched) \subseteq DOMAIN st.sets
  <2>1. touched \in Seq(Nat) /\ Refs(touched, Len(st.sets)) /\ DOMAIN st.sets = 1..Len(st.sets)
    BY TypeParts, RunStateParts DEF TypeInv
  <2>2. DOMAIN touched = 1..Len(touched)
    BY <2>1, SeqParts
  <2> QED BY <2>1, <2>2 DEF Refs, ToSet
<1> QED BY <1>1, <1>2, <1>3 DEF TypeOK, TypeInv, ControlInv

THEOREM Types == Spec => []TypeInv
<1>1. Init => TypeInv
  BY InitTypes
<1>2. TypeInv /\ [Next]_vars => TypeInv'
  BY StepTypes
<1> QED BY <1>1, <1>2, PTL DEF Spec

THEOREM RunIsWellTyped == Spec => []TypeOK
<1>1. TypeInv => TypeOK
  BY TypeInvIsTypeOK
<1> QED BY <1>1, Types, PTL

-----------------------------------------------------------------------------
(* What a step does                                                          *)

(* The activation whose result the run fails with, if it is one's result.   *)
InHand(a) ==
  \/ pc = "execute" /\ \E i \in 1..Len(batch) : a = batch[i].act
  \/ \E r : Committing(r) /\ a = r.act

Failed ==
  /\ status = "running" /\ status' = "failed" /\ pc' = "ended" /\ saved' = st'
  /\ st' \in RunStates /\ Rephased(st.act, st'.act)
  /\ \A a \in 1..Len(st.act) : st'.act[a] = st.act[a] \/ InHand(a)
  /\ SameSets(st, st') /\ st'.bound = st.bound
  /\ \/ st'.context = st.context
     \/ \E r : Committing(r) /\ MayCommitContext(r) /\ ContextDone(r, st')

LEMMA FailedOnTheSpot ==
  ASSUME TypeInv, pc # "ended", NEW e, NEW kind, NEW set, NEW cause, Fail(e, kind, set, cause),
         e \in RunStates, e.act = st.act, SameSets(st, e), e.bound = st.bound, e.context = st.context
  PROVE  Failed
<1>1. st' = e /\ saved' = st' /\ status' = "failed" /\ pc' = "ended"
  BY DEF Fail
<1>2. Rephased(st.act, st.act) /\ status = "running"
  BY WellTypedParts DEF TypeInv, ControlInv
<1> QED BY <1>1, <1>2 DEF Failed, SameSets

LEMMA FailedWithResult ==
  ASSUME TypeInv, pc # "ended", NEW r, r.act \in 1..Len(st.act), InHand(r.act), FailStandalone(r)
  PROVE  Failed
<1> DEFINE phase == IF r.answer = "canceled" THEN "canceled" ELSE "failed"
           e == [st EXCEPT !.act[r.act].phase = phase]
<1>1. Fail(e, "node", 0, phase)
  BY DEF FailStandalone
<1>2. phase \in Phases
  BY DEF Phases, Over
<1>3. st \in RunStates /\ status = "running"
  BY TypeParts DEF TypeInv, ControlInv
<1> HIDE DEF phase
<1>4. InPhaseNow(st, e, r.act, phase)
  BY <1>2, <1>3, RephasedFields
<1>5. st' = e /\ saved' = st' /\ status' = "failed" /\ pc' = "ended"
  BY <1>1 DEF Fail
<1> HIDE DEF e
<1> QED BY <1>3, <1>4, <1>5 DEF Failed, InPhaseNow, SameJoins, SameCounters

LEMMA FailBatchFails ==
  ASSUME TypeInv, FailBatch
  PROVE  Failed
<1> DEFINE lone(answer) == {i \in Answered(answer) : SetOf(batch[i]) = 0}
           failed == IF lone("failed") # {} THEN lone("failed") ELSE lone("canceled")
<1>1. failed # {} /\ FailStandalone(batch[Min(failed)]) /\ pc = "execute"
  BY DEF FailBatch, AllReturned
<1>2. failed \in SUBSET (1..Len(batch)) /\ Len(batch) \in Nat
  BY TypeParts DEF Answered
<1> HIDE DEF failed
<1>3. Min(failed) \in 1..Len(batch)
  <2>1. failed \in SUBSET Nat
    BY <1>2
  <2>2. Min(failed) \in failed
    BY <1>1, <2>1, MinProperties
  <2> QED BY <1>2, <2>2
<1> DEFINE m == Min(failed)
<1> HIDE DEF m
<1>4. m \in 1..Len(batch) /\ FailStandalone(batch[m])
  BY <1>1, <1>3 DEF m
<1>5. batch[m].act \in 1..Len(st.act) /\ InHand(batch[m].act)
  BY <1>1, <1>4, TypeParts DEF InHand
<1> QED BY <1>1, <1>4, <1>5, FailedWithResult

LEMMA FailingCommits ==
  ASSUME TypeInv, NEW r
  PROVE  /\ FailCommit(r) => Failed
         /\ FailContext(r) => Failed
         /\ CommitActivation(r) => Failed \/ \E f, x, n, k : ActivationDone(r, f, x, n, k)
<1>1. ASSUME FailCommit(r)
      PROVE  Failed
  <2>1. Committing(r) /\ FailStandalone(r)
    BY <1>1 DEF FailCommit
  <2>2. r.act \in 1..Len(st.act) /\ pc = "commit" /\ InHand(r.act)
    BY <2>1, HeadTodo DEF InHand
  <2> QED BY <2>1, <2>2, FailedWithResult
<1>2. ASSUME FailContext(r)
      PROVE  Failed
  <2>1. Fail(st, "context", 0, "none") /\ pc = "commit"
    BY <1>2 DEF FailContext, Committing
  <2> QED BY <2>1, TypeParts, FailedOnTheSpot DEF SameSets
<1>3. ASSUME CommitActivation(r)
      PROVE  Failed \/ \E f, x, n, k : ActivationDone(r, f, x, n, k)
  <2>1. CASE \E f, x, n, k : ActivationDone(r, f, x, n, k)
    BY <2>1
  <2>2. ASSUME NEW f, Fail(f, "policy", 0, "none"), Updated(st, f), Done(st, f, r.act, r.answer),
               ContextDone(r, f)
        PROVE  Failed
    <3>1. Committing(r) /\ MayCommitContext(r)
      BY <1>3 DEF CommitActivation
    <3>2. InHand(r.act) /\ status = "running"
      BY <3>1 DEF InHand, Committing, TypeInv, ControlInv
    <3>3. st' = f /\ saved' = st' /\ status' = "failed" /\ pc' = "ended"
      BY <2>2 DEF Fail
    <3>4. ContextDone(r, st')
      BY <2>2, <3>3
    <3>5. /\ st' \in RunStates /\ Rephased(st.act, st'.act) /\ SameSets(st, st') /\ st'.bound = st.bound
          /\ \A a \in 1..Len(st.act) : st'.act[a] = st.act[a] \/ InHand(a)
      BY <2>2, <3>2, <3>3 DEF Done, SameJoins
    <3> QED BY <3>1, <3>2, <3>3, <3>4, <3>5 DEF Failed
  <2> QED BY <1>3, <2>1, <2>2, CommitActivationFields
<1> QED BY <1>1, <1>2, <1>3

LEMMA FailingSettles ==
  ASSUME TypeInv, NEW s
  PROVE  /\ RefuseSet(s) => Failed
         /\ FailSet(s) => Failed
         /\ ReleaseBranch(s) => Failed \/ \E b, c, x : BranchReleased(s, b, c, x)
         /\ CancelQueuedBranch(s) => Failed \/ \E i : Canceled(s, i)
<1>1. ASSUME NEW c, OnlyCloses(st, c), NEW kind, NEW cause, Fail(c, kind, s, cause), Settling(s)
      PROVE  Failed
  <2>1. pc # "ended"
    BY <1>1 DEF Settling
  <2> QED BY <1>1, <2>1, FailedOnTheSpot DEF OnlyCloses, SameCounters
<1>2. ASSUME RefuseSet(s)
      PROVE  Failed
  <2>1. Fail(st, "policy", s, "none") /\ pc = "commit"
    BY <1>2 DEF RefuseSet, Unsettled, Settling
  <2> QED BY <2>1, TypeParts, FailedOnTheSpot DEF SameSets
<1>3. ASSUME FailSet(s)
      PROVE  Failed
  <2>1. Fail(ClosedUnselected(s), "set", s, FirstFailure(st.sets[s])) /\ Settling(s)
    BY <1>3 DEF FailSet, Cleared, Decided, Unsettled
  <2>2. OnlyCloses(st, ClosedUnselected(s))
    BY <2>1, ClosedUnselectedFields
  <2> QED BY <1>1, <2>1, <2>2
<1>4. ASSUME ReleaseBranch(s)
      PROVE  Failed \/ \E b, c, x : BranchReleased(s, b, c, x)
  <2>1. Settling(s)
    BY <1>4 DEF ReleaseBranch, Cleared, Decided, Unsettled
  <2> QED BY <1>1, <1>4, <2>1, ReleaseBranchFields
<1>5. ASSUME CancelQueuedBranch(s)
      PROVE  Failed \/ \E i : Canceled(s, i)
  <2> DEFINE i == Min(QueuedBranches(s))
             q == RemoveAt(st.queue, i)
             tick == st.clock + 1
             e == [st EXCEPT !.queue = q, !.clock = tick]
  <2>1. Settling(s) /\ QueuedBranches(s) # {}
    BY <1>5 DEF CancelQueuedBranch, Decided, Unsettled
  <2>2. CASE st.act[st.queue[i]].phase # "ready"
    <3>1. Fail(e, "scheduler", s, "none")
      BY <1>5, <2>2 DEF CancelQueuedBranch
    <3>2. st \in RunStates /\ st.queue \in Seq(Nat) /\ tick \in Nat
      BY TypeParts, RunStateParts
    <3>3. i \in 1..Len(st.queue)
      BY <2>1, QueuedBranchParts
    <3>4. q \in Seq(Nat)
      BY <3>2, <3>3, RemoveAtParts DEF Removed
    <3> HIDE DEF q, tick
    <3>5. e \in RunStates /\ e.act = st.act /\ SameSets(st, e) /\ e.bound = st.bound /\ e.context = st.context
      BY <3>2, <3>4 DEF RunStates, SameSets
    <3> HIDE DEF e
    <3>6. pc # "ended"
      BY <2>1 DEF Settling
    <3> QED BY <3>1, <3>5, <3>6, FailedOnTheSpot
  <2>3. CASE ~(st.act[st.queue[i]].phase # "ready")
    <3>1. CASE \E j : Canceled(s, j)
      BY <3>1
    <3>2. CASE status' = "failed"
      <4>1. UNCHANGED status
        BY <1>5, <2>3 DEF CancelQueuedBranch, Checkpoint
      <4> QED BY <2>1, <3>2, <4>1 DEF Settling, TypeInv, ControlInv
    <3> QED BY <1>5, <3>1, <3>2, CancelQueuedBranchFields
  <2> QED BY <2>2, <2>3
<1> QED BY <1>2, <1>3, <1>4, <1>5

LEMMA OtherFailures ==
  ASSUME TypeInv
  PROVE  /\ StepsExceeded => Failed
         /\ \A i : FailPull(i) => Failed
<1>1. ASSUME StepsExceeded
      PROVE  Failed
  <2>1. Fail(st, "steps", 0, "none") /\ pc # "ended"
    BY <1>1 DEF StepsExceeded
  <2> QED BY <2>1, TypeParts, FailedOnTheSpot DEF SameSets
<1>2. ASSUME NEW i, FailPull(i)
      PROVE  Failed
  <2>1. Fail(st, "iterator", 0, "none") /\ pc # "ended"
    BY <1>2 DEF FailPull, Pulling
  <2> QED BY <2>1, TypeParts, FailedOnTheSpot DEF SameSets
<1> QED BY <1>1, <1>2

(* The next batch is the head of the queue.                                  *)
Scheduled ==
  /\ batch' \in Seq(Results) /\ Len(batch') \in 1..Len(st.queue)
  /\ \A i \in 1..Len(batch') : /\ batch'[i].act = st.queue[i] /\ batch'[i].answer = "none"
                               /\ batch'[i].base = 0
  /\ st' = st /\ saved' = saved /\ status' = status /\ pc' = "start"
  /\ UNCHANGED <<todo, touched, processes>>

(* Steps that leave the run state of the process as it is.                   *)
Stays ==
  /\ st' = st /\ saved' \in {saved, st} /\ todo' = todo /\ processes' = processes
  /\ \/ UNCHANGED vars
     \/ /\ \E s : Settling(s)                                 \* LeaveSet
        /\ touched' = Tail(touched) /\ UNCHANGED <<status, pc, batch>>
     \/ /\ BatchDone /\ Answered("interrupted") = {}              \* Advance
        /\ pc' = "schedule" /\ batch' = <<>> /\ UNCHANGED <<status, touched>>
     \/ /\ pc = "schedule" /\ pc' = "ended" /\ status' = "completed"
        /\ UNCHANGED <<batch, touched>>

Crashed ==
  /\ pc # "ended" /\ pc' = "ended" /\ st' = saved /\ saved' = saved /\ status' = status
  /\ batch' = <<>> /\ todo' = <<>> /\ touched' = <<>>

Committed(r) ==
  /\ Committing(r)
  /\ \/ Retried(r)
     \/ BranchDone(r) /\ MayCommitContext(r)
     \/ \E f, x, n, k : ActivationDone(r, f, x, n, k)
  /\ Head(st.queue) = r.act

SettleStep(s) ==
  \/ \E d : Resolved(s, d)
  \/ \E i : Canceled(s, i)
  \/ \E b : Superseded(s, b)
  \/ \E b, c, x : BranchReleased(s, b, c, x)
  \/ \E c, x : SetSettled(s, c, x)

Moves ==
  \/ Stays \/ Crashed \/ Restarted \/ Interrupted \/ Failed
  \/ Scheduled /\ pc = "schedule"
  \/ Accepted /\ AllReturned
  \/ \E i : Started(i)
  \/ \E i : Returned(i)
  \/ \E i, g, b : Pulled(i, g, b)
  \/ \E i, g : Ended(i, g)
  \/ \E r : Committed(r)
  \/ \E s : Settling(s) /\ SettleStep(s)

LEMMA StepsMove ==
  ASSUME TypeInv, [Next]_vars
  PROVE  Moves
<1>1. CASE UNCHANGED vars
  BY <1>1 DEF vars, Moves, Stays
<1>2. CASE \E i \in DOMAIN st.sources : PullItem(i) \/ EndSource(i) \/ FailPull(i)
  BY <1>2, PullItemFields, EndSourceFields, OtherFailures DEF Moves
<1>3. CASE NextBatch
  BY <1>3, NextBatchFields DEF Moves, Scheduled, NextBatch
<1>4. CASE StepsExceeded \/ FailBatch
  BY <1>4, OtherFailures, FailBatchFails DEF Moves
<1>5. CASE StartActivation
  BY <1>5, StartActivationFields DEF Moves
<1>6. CASE AcceptBatch
  BY <1>6, AcceptBatchFields DEF Moves, AcceptBatch
<1>7. CASE \E i \in DOMAIN batch : Return(i)
  BY <1>7, ReturnFields DEF Moves
<1>8. CASE \E r \in ToSet(todo) : Commit(r)
  <2> PICK r : Commit(r)
    BY <1>8
  <2>1. CASE CommitRetry(r)
    BY <2>1, CommitRetryFields DEF CommitRetry, Committed, Moves
  <2>2. CASE CommitBranch(r)
    BY <2>2, CommitBranchFields DEF CommitBranch, Committed, Moves
  <2>3. CASE CommitActivation(r)
    <3>1. Failed \/ \E f, x, n, k : ActivationDone(r, f, x, n, k)
      BY <2>3, FailingCommits
    <3>2. Committing(r) /\ Head(st.queue) = r.act
      BY <2>3 DEF CommitActivation
    <3> QED BY <3>1, <3>2 DEF Committed, Moves
  <2>4. CASE FailCommit(r) \/ FailContext(r)
    BY <2>4, FailingCommits DEF Moves
  <2> QED BY <2>1, <2>2, <2>3, <2>4 DEF Commit
<1>9. CASE \E s \in ToSet(touched) : Settle(s)
  <2> PICK s : Settle(s)
    BY <1>9
  <2>1. Settling(s)
    BY DEF Settle, Decide, RefuseSet, LeaveSet, CancelQueuedBranch, SupersedeBranch, ReleaseBranch,
           FailSet, SettleSet, Cleared, Decided, Unsettled
  <2>2. CASE RefuseSet(s) \/ FailSet(s)
    BY <2>2, FailingSettles DEF Moves
  <2>3. CASE LeaveSet(s)
    BY <2>1, <2>3 DEF LeaveSet, Compute, Stays, Moves
  <2>4. CASE Decide(s) \/ CancelQueuedBranch(s) \/ SupersedeBranch(s) \/ ReleaseBranch(s) \/ SettleSet(s)
    <3>1. Failed \/ SettleStep(s)
      BY <2>4, DecideFields, SupersedeBranchFields, SettleSetFields, FailingSettles DEF SettleStep
    <3> QED BY <2>1, <3>1 DEF Moves
  <2> QED BY <2>2, <2>3, <2>4 DEF Settle
<1>10. CASE Advance
  BY <1>10 DEF Advance, Compute, Moves, Stays
<1>11. CASE Complete
  BY <1>11 DEF Complete, Moves, Stays
<1>12. CASE InterruptBatch \/ Resume
  BY <1>12, InterruptBatchFields, ResumeFields DEF Moves
<1>13. CASE Crash
  BY <1>13 DEF Crash, Compute, Crashed, Moves
<1> QED BY <1>1, <1>2, <1>3, <1>4, <1>5, <1>6, <1>7, <1>8, <1>9, <1>10, <1>11, <1>12, <1>13 DEF Next, Progress

-----------------------------------------------------------------------------
(* The ready queue                                                           *)

(* The queue holds each activation that is not over, once.                   *)
Once(s) ==
  /\ \A i, j \in 1..Len(s.queue) : s.queue[i] = s.queue[j] => i = j
  /\ \A i \in 1..Len(s.queue) : s.act[s.queue[i]].phase \notin Over
  /\ \A a \in 1..Len(s.act) : s.act[a].phase \notin Over => \E i \in 1..Len(s.queue) : s.queue[i] = a

(* In memory and in the checkpoint the queue is the work that is left, and   *)
(* the results at hand are those of its first activations, in order.        *)
QueueInv ==
  status # "failed" =>
    /\ Once(st) /\ Once(saved)
    /\ pc \in {"start", "execute"} => \A i \in 1..Len(batch) : batch[i].act = st.queue[i]
    /\ pc = "execute" => \A i \in 1..Len(batch) : st.act[batch[i].act].phase = "running"
    /\ pc = "commit" =>
         /\ \A k \in 1..Len(todo) : todo[k].act = st.queue[k]
         /\ \A i \in 1..Len(batch) : batch[i].answer = "interrupted" =>
              /\ st.act[batch[i].act].phase = "running"
              /\ \A k \in 1..Len(todo) : todo[k].act # batch[i].act

(* The queue is as long as before, and holds activations with other phases. *)
LEMMA OnceRephased ==
  ASSUME NEW s, WellTyped(s), Once(s), NEW e, e.queue = s.queue, Len(e.act) = Len(s.act),
         \A a \in 1..Len(s.act) : (e.act[a].phase \in Over) <=> (s.act[a].phase \in Over)
  PROVE  Once(e)
<1>1. \A i \in 1..Len(s.queue) : s.queue[i] \in 1..Len(s.act)
  BY DEF WellTyped, ActsKnown, Refs
<1> QED BY <1>1 DEF Once

(* New activations come behind.                                              *)
LEMMA OnceAdded ==
  ASSUME NEW s, WellTyped(s), Once(s), NEW e \in RunStates, NEW n \in Nat, Adds(s, e, n),
         \A a \in (Len(s.act) + 1)..Len(e.act) : e.act[a].phase = "ready"
  PROVE  Once(e)
<1> DEFINE l == Len(s.queue)  k == Len(s.act)  q == e.queue
<1>1. l \in Nat /\ k \in Nat /\ Len(q) = l + n /\ Len(e.act) = k + n
  BY RunStateParts DEF WellTyped, Adds
<1>2. /\ \A i \in 1..l : q[i] = s.queue[i] /\ q[i] \in 1..k
      /\ \A i \in 1..n : q[l + i] = k + i
      /\ \A a \in 1..k : e.act[a] = s.act[a]
  BY DEF WellTyped, ActsKnown, Refs, Adds
<1>3. \A a \in (k + 1)..(k + n) : e.act[a].phase = "ready"
  BY <1>1
<1>4. /\ \A i, j \in 1..l : q[i] = q[j] => i = j
      /\ \A i \in 1..l : e.act[q[i]].phase \notin Over
      /\ \A a \in 1..k : e.act[a].phase \notin Over => \E i \in 1..l : q[i] = a
  <2> DEFINE o == s.queue
  <2>1. /\ \A i, j \in 1..l : o[i] = o[j] => i = j
        /\ \A i \in 1..l : s.act[o[i]].phase \notin Over
        /\ \A a \in 1..k : s.act[a].phase \notin Over => \E i \in 1..l : o[i] = a
    BY DEF Once
  <2>2. /\ \A i \in 1..l : q[i] = o[i] /\ q[i] \in 1..k
        /\ \A a \in 1..k : e.act[a] = s.act[a]
    BY <1>2
  <2> HIDE DEF l, k, q, o
  <2> QED BY <2>1, <2>2
<1>5. "ready" \notin Over
  BY DEF Over
<1> HIDE DEF l, k, q
<1>6. \A i \in 1..(l + n) : \/ i \in 1..l /\ q[i] \in 1..k
                            \/ i - l \in 1..n /\ q[i] = k + (i - l) /\ q[i] \in (k + 1)..(k + n)
  <2> SUFFICES ASSUME NEW i \in 1..(l + n), i \notin 1..l
               PROVE  i - l \in 1..n /\ q[i] = k + (i - l) /\ q[i] \in (k + 1)..(k + n)
    BY <1>2
  <2> DEFINE j == i - l
  <2>1. j \in 1..n /\ l + j = i /\ k + j \in (k + 1)..(k + n)
    BY <1>1
  <2> HIDE DEF j
  <2>2. q[i] = k + j
    BY <1>2, <2>1
  <2> QED BY <2>1, <2>2 DEF j
<1>7. ASSUME NEW i \in 1..(l + n), NEW j \in 1..(l + n), q[i] = q[j]
      PROVE  i = j
  <2>1. CASE i \in 1..l /\ j \in 1..l
    BY <1>4, <1>7, <2>1
  <2>2. CASE i \notin 1..l /\ j \notin 1..l
    <3>1. q[i] = k + (i - l) /\ q[j] = k + (j - l)
      BY <1>6, <2>2
    <3>2. k + (i - l) = k + (j - l)
      BY <1>7, <3>1
    <3> QED BY <1>1, <3>2
  <2>3. CASE i \in 1..l /\ j \notin 1..l
    BY <1>1, <1>2, <1>6, <1>7, <2>3
  <2>4. CASE i \notin 1..l /\ j \in 1..l
    BY <1>1, <1>2, <1>6, <1>7, <2>4
  <2> QED BY <2>1, <2>2, <2>3, <2>4
<1>8. \A i \in 1..(l + n) : e.act[q[i]].phase \notin Over
  BY <1>3, <1>4, <1>5, <1>6
<1>9. ASSUME NEW a \in 1..(k + n), e.act[a].phase \notin Over
      PROVE  \E i \in 1..(l + n) : q[i] = a
  <2>1. CASE a \in 1..k
    <3>1. \A i \in 1..l : i \in 1..(l + n)
      BY <1>1
    <3> QED BY <1>4, <1>9, <2>1, <3>1
  <2>2. CASE a \notin 1..k
    <3> DEFINE i == a - k
    <3>1. i \in 1..n /\ k + i = a /\ l + i \in 1..(l + n)
      BY <1>1, <2>2
    <3> HIDE DEF i
    <3> QED BY <1>2, <3>1
  <2> QED BY <2>1, <2>2
<1> QED BY <1>1, <1>7, <1>8, <1>9 DEF Once, l, k, q

(* The head of the queue is done.                                            *)
LEMMA OnceDone ==
  ASSUME NEW s, WellTyped(s), Once(s), NEW e, s.queue # <<>>, e.queue = Tail(s.queue),
         Len(e.act) = Len(s.act), e.act[Head(s.queue)].phase \in Over,
         \A a \in 1..Len(s.act) : a # Head(s.queue) => e.act[a] = s.act[a]
  PROVE  Once(e)
<1> DEFINE q == s.queue  l == Len(q)  p == Tail(q)
<1>1. q \in Seq(Nat) /\ q # <<>>
  BY RunStateParts DEF WellTyped
<1>2. /\ l \in Nat \ {0} /\ Len(p) = l - 1 /\ Head(q) = q[1]
      /\ \A i \in 1..(l - 1) : p[i] = q[i + 1] /\ i + 1 \in 1..l /\ i + 1 # 1
  BY <1>1, TailParts
<1>3. /\ \A i, j \in 1..l : q[i] = q[j] => i = j
      /\ \A i \in 1..l : s.act[q[i]].phase \notin Over /\ q[i] \in 1..Len(s.act)
      /\ \A a \in 1..Len(s.act) : s.act[a].phase \notin Over => \E i \in 1..l : q[i] = a
  BY DEF Once, WellTyped, ActsKnown, Refs
<1>4. 1 \in 1..l
  BY <1>2
<1>5. e.act[q[1]].phase \in Over /\ \A a \in 1..Len(s.act) : a # q[1] => e.act[a] = s.act[a]
  BY <1>2
<1>6. e.queue = p
  OBVIOUS
<1> HIDE DEF q, l, p
<1>7. ASSUME NEW i \in 1..(l - 1)
      PROVE  p[i] # q[1] /\ p[i] \in 1..Len(s.act) /\ e.act[p[i]].phase \notin Over
  <2>1. p[i] = q[i + 1] /\ i + 1 \in 1..l /\ i + 1 # 1
    BY <1>2
  <2>2. p[i] # q[1]
    BY <1>3, <1>4, <2>1
  <2> QED BY <1>3, <1>5, <2>1, <2>2
<1>8. ASSUME NEW i \in 1..(l - 1), NEW j \in 1..(l - 1), p[i] = p[j]
      PROVE  i = j
  <2>1. i + 1 = j + 1
    BY <1>2, <1>3, <1>8
  <2> QED BY <1>2, <2>1
<1>9. ASSUME NEW a \in 1..Len(s.act), e.act[a].phase \notin Over
      PROVE  \E i \in 1..(l - 1) : p[i] = a
  <2>1. a # q[1] /\ s.act[a].phase \notin Over
    BY <1>5, <1>9
  <2>2. PICK k \in 1..l : q[k] = a
    BY <1>3, <2>1
  <2> DEFINE i == k - 1
  <2>3. i \in 1..(l - 1) /\ i + 1 = k
    BY <1>2, <2>1, <2>2
  <2> HIDE DEF i
  <2>4. p[i] = q[k]
    BY <1>2, <2>3
  <2> QED BY <2>2, <2>3, <2>4
<1> QED BY <1>2, <1>6, <1>7, <1>8, <1>9 DEF Once

(* The head of the queue goes to its end.                                    *)
LEMMA OnceRotated ==
  ASSUME NEW s, WellTyped(s), Once(s), NEW e, s.queue # <<>>,
         e.queue = Append(Tail(s.queue), Head(s.queue)),
         Len(e.act) = Len(s.act), e.act[Head(s.queue)].phase \notin Over,
         \A a \in 1..Len(s.act) : a # Head(s.queue) => e.act[a] = s.act[a]
  PROVE  Once(e)
<1> DEFINE q == s.queue  l == Len(q)  t == Tail(q)  p == Append(t, q[1])
<1>1. q \in Seq(Nat) /\ q # <<>>
  BY RunStateParts DEF WellTyped
<1>2. /\ l \in Nat \ {0} /\ Len(t) = l - 1 /\ Head(q) = q[1] /\ t \in Seq(Nat) /\ q[1] \in Nat
      /\ \A i \in 1..(l - 1) : t[i] = q[i + 1] /\ i + 1 \in 1..l /\ i + 1 # 1
  BY <1>1, TailParts
<1>3. /\ \A i, j \in 1..l : q[i] = q[j] => i = j
      /\ \A i \in 1..l : s.act[q[i]].phase \notin Over /\ q[i] \in 1..Len(s.act)
      /\ \A a \in 1..Len(s.act) : s.act[a].phase \notin Over => \E i \in 1..l : q[i] = a
  BY DEF Once, WellTyped, ActsKnown, Refs
<1>4. 1 \in 1..l
  BY <1>2
<1>5. e.act[q[1]].phase \notin Over /\ \A a \in 1..Len(s.act) : a # q[1] => e.act[a] = s.act[a]
  BY <1>2
<1>6. e.queue = p
  BY <1>2
<1> HIDE DEF q, l, t
<1>7. Len(p) = Len(t) + 1 /\ (\A i \in 1..Len(t) : p[i] = t[i]) /\ p[Len(t) + 1] = q[1]
  BY <1>2, AppendParts
<1> HIDE DEF p
<1>8. Len(p) = l /\ p[l] = q[1] /\ \A i \in 1..(l - 1) : p[i] = q[i + 1] /\ i + 1 \in 1..l /\ i + 1 # 1
  BY <1>2, <1>7
<1>9. \A i \in 1..l : i = l \/ i \in 1..(l - 1)
  BY <1>2
<1>10. ASSUME NEW i \in 1..l
       PROVE  e.act[p[i]].phase \notin Over
  <2>1. CASE i = l
    BY <1>5, <1>8, <2>1
  <2>2. CASE i \in 1..(l - 1)
    <3>1. p[i] = q[i + 1] /\ i + 1 \in 1..l
      BY <1>8, <2>2
    <3> DEFINE j == i + 1
    <3>2. p[i] = q[j] /\ j \in 1..l
      BY <3>1
    <3> HIDE DEF j
    <3> QED BY <1>3, <1>5, <3>2
  <2> QED BY <1>9, <2>1, <2>2
<1>11. ASSUME NEW i \in 1..l, NEW j \in 1..l, p[i] = p[j]
       PROVE  i = j
  <2>1. CASE i = l /\ j = l
    BY <2>1
  <2>2. CASE i # l /\ j # l
    <3>1. i + 1 = j + 1
      BY <1>3, <1>8, <1>9, <1>11, <2>2
    <3> QED BY <3>1
  <2>3. CASE i = l /\ j # l
    BY <1>3, <1>4, <1>8, <1>9, <1>11, <2>3
  <2>4. CASE i # l /\ j = l
    BY <1>3, <1>4, <1>8, <1>9, <1>11, <2>4
  <2> QED BY <2>1, <2>2, <2>3, <2>4
<1>12. ASSUME NEW a \in 1..Len(s.act), e.act[a].phase \notin Over
       PROVE  \E i \in 1..l : p[i] = a
  <2>1. CASE a = q[1]
    <3>1. l \in 1..l
      BY <1>2
    <3> QED BY <1>8, <2>1, <3>1
  <2>2. CASE a # q[1]
    <3>1. s.act[a].phase \notin Over
      BY <1>5, <1>12, <2>2
    <3>2. PICK k \in 1..l : q[k] = a
      BY <1>3, <3>1
    <3> DEFINE i == k - 1
    <3>3. i \in 1..(l - 1) /\ i + 1 = k /\ i \in 1..l
      BY <1>2, <2>2, <3>2
    <3> HIDE DEF i
    <3>4. p[i] = q[k]
      BY <1>8, <3>3
    <3> QED BY <3>2, <3>3, <3>4
  <2> QED BY <2>1, <2>2
<1> QED BY ZenonT(60), <1>6, <1>8, <1>10, <1>11, <1>12 DEF Once

(* One place of the queue is removed, its activation over.                   *)
LEMMA OnceRemoved ==
  ASSUME NEW s, WellTyped(s), Once(s), NEW e, NEW i \in 1..Len(s.queue), Removed(s.queue, e.queue, i),
         Len(e.act) = Len(s.act), e.act[s.queue[i]].phase \in Over,
         \A a \in 1..Len(s.act) : a # s.queue[i] => e.act[a] = s.act[a]
  PROVE  Once(e)
<1> DEFINE q == s.queue  l == Len(q)  p == e.queue  n == Len(s.act)
<1>1. l \in Nat /\ i \in 1..l
  BY RunStateParts DEF WellTyped
<1>2. /\ Len(p) = l - 1 /\ \A j \in 1..(i - 1) : p[j] = q[j]
      /\ \A j \in i..(l - 1) : p[j] = q[j + 1]
  BY DEF Removed
<1>3. /\ \A j, k \in 1..l : q[j] = q[k] => j = k
      /\ \A j \in 1..l : s.act[q[j]].phase \notin Over /\ q[j] \in 1..n
      /\ \A a \in 1..n : s.act[a].phase \notin Over => \E j \in 1..l : q[j] = a
  BY DEF Once, WellTyped, ActsKnown, Refs
<1>4. e.act[q[i]].phase \in Over /\ \A a \in 1..n : a # q[i] => e.act[a] = s.act[a]
  OBVIOUS
<1>5. Len(e.act) = n
  OBVIOUS
<1> DEFINE From(j) == IF j < i THEN j ELSE j + 1
<1> HIDE DEF q, l, p, n
<1>6. ASSUME NEW j \in 1..(l - 1)
      PROVE  From(j) \in 1..l /\ From(j) # i /\ p[j] = q[From(j)]
  <2>1. CASE j < i
    <3>1. j \in 1..(i - 1) /\ j \in 1..l /\ j # i
      BY <1>1, <2>1
    <3> QED BY <1>2, <2>1, <3>1
  <2>2. CASE ~(j < i)
    <3>1. j \in i..(l - 1) /\ j + 1 \in 1..l /\ j + 1 # i
      BY <1>1, <2>2
    <3> QED BY <1>2, <2>2, <3>1
  <2> QED BY <2>1, <2>2
<1>7. ASSUME NEW j \in 1..(l - 1), NEW k \in 1..(l - 1), From(j) = From(k)
      PROVE  j = k
  BY <1>1, <1>7
<1>8. ASSUME NEW k \in 1..l, k # i
      PROVE  \E j \in 1..(l - 1) : From(j) = k
  <2>1. CASE k < i
    <3>1. k \in 1..(l - 1)
      BY <1>1, <2>1
    <3> QED BY <2>1, <3>1
  <2>2. CASE ~(k < i)
    <3>1. k - 1 \in 1..(l - 1) /\ ~(k - 1 < i) /\ (k - 1) + 1 = k
      BY <1>1, <1>8, <2>2
    <3> QED BY <3>1
  <2> QED BY <2>1, <2>2
<1> HIDE DEF From
<1>9. ASSUME NEW j \in 1..(l - 1), NEW k \in 1..(l - 1), p[j] = p[k]
      PROVE  j = k
  BY <1>3, <1>6, <1>7, <1>9
<1>10. ASSUME NEW j \in 1..(l - 1)
       PROVE  e.act[p[j]].phase \notin Over
  <2> PICK k \in 1..l : k # i /\ p[j] = q[k]
    BY <1>6
  <2>1. p[j] # q[i]
    BY <1>1, <1>3
  <2> QED BY <1>3, <1>4, <2>1
<1>11. ASSUME NEW a \in 1..n, e.act[a].phase \notin Over
       PROVE  \E j \in 1..(l - 1) : p[j] = a
  <2>1. a # q[i] /\ s.act[a].phase \notin Over
    BY <1>4, <1>11
  <2>2. PICK k \in 1..l : q[k] = a
    BY <1>3, <2>1
  <2>3. PICK j \in 1..(l - 1) : From(j) = k
    BY <1>8, <2>1, <2>2
  <2> QED BY <1>6, <2>2, <2>3
<1> QED BY <1>2, <1>5, <1>9, <1>10, <1>11 DEF Once, p

(* f is a permutation of the numbers up to l.                                *)
Permutes(f, l) ==
  /\ \A i \in 1..l : f[i] \in 1..l
  /\ \A i, j \in 1..l : f[i] = f[j] => i = j
  /\ \A k \in 1..l : \E i \in 1..l : f[i] = k

(* The queue holds the same in another order.                                *)
LEMMA OncePermuted ==
  ASSUME NEW s, WellTyped(s), Once(s), NEW e, e.act = s.act, Len(e.queue) = Len(s.queue),
         NEW from, Permutes(from, Len(s.queue)),
         \A i \in 1..Len(s.queue) : e.queue[i] = s.queue[from[i]]
  PROVE  Once(e)
<1> DEFINE q == s.queue  l == Len(q)  p == e.queue  n == Len(s.act)
<1>1. /\ \A j, k \in 1..l : q[j] = q[k] => j = k
      /\ \A j \in 1..l : s.act[q[j]].phase \notin Over
      /\ \A a \in 1..n : s.act[a].phase \notin Over => \E j \in 1..l : q[j] = a
  BY DEF Once
<1>2. /\ \A i \in 1..l : from[i] \in 1..l /\ p[i] = q[from[i]]
      /\ \A i, j \in 1..l : from[i] = from[j] => i = j
      /\ \A k \in 1..l : \E i \in 1..l : from[i] = k
      /\ Len(p) = l
  BY DEF Permutes
<1> HIDE DEF q, l, p, n
<1>3. ASSUME NEW i \in 1..l, NEW j \in 1..l, p[i] = p[j]
      PROVE  i = j
  <2>1. from[i] = from[j]
    <3> DEFINE x == from[i]  y == from[j]
    <3>1. x \in 1..l /\ y \in 1..l /\ q[x] = q[y]
      BY <1>2, <1>3
    <3> HIDE DEF x, y
    <3>2. x = y
      BY <1>1, <3>1
    <3> QED BY <3>2 DEF x, y
  <2> QED BY <1>2, <2>1
<1>4. \A i \in 1..l : s.act[p[i]].phase \notin Over
  BY ZenonT(60), <1>1, <1>2
<1>5. ASSUME NEW a \in 1..n, s.act[a].phase \notin Over
      PROVE  \E i \in 1..l : p[i] = a
  <2>1. PICK k \in 1..l : q[k] = a
    BY <1>1, <1>5
  <2>2. PICK i \in 1..l : from[i] = k
    BY <1>2
  <2> QED BY <1>2, <2>1, <2>2
<1> QED BY <1>2, <1>3, <1>4, <1>5 DEF Once, p, n

(* The places that a part of a sequence is taken from.                       *)
Places(q, P, p) ==
  /\ Len(At(q, P)) = Cardinality(P) /\ Cardinality(P) \in Nat
  /\ \A k \in 1..Cardinality(P) : p[k] \in P /\ At(q, P)[k] = q[p[k]]
  /\ \A j, k \in 1..Cardinality(P) : p[j] = p[k] => j = k
  /\ \A x \in P : \E k \in 1..Cardinality(P) : p[k] = x

LEMMA PlacesExist ==
  ASSUME NEW S, NEW q \in Seq(S), NEW P \in SUBSET DOMAIN q
  PROVE  \E p : Places(q, P, p)
<1>1. /\ IsFiniteSet(P) /\ Len(At(q, P)) = Cardinality(P) /\ P \in SUBSET Nat
  <2>1. DOMAIN q \in SUBSET Nat
    BY SeqParts
  <2> QED BY <2>1, AtProperties
<1> DEFINE p == Ascending(P)
<1>2. /\ p \in Seq(P) /\ Len(p) = Cardinality(P)
      /\ \A i, j \in DOMAIN p : i < j => p[i] < p[j]
      /\ \A x \in P : \E i \in DOMAIN p : p[i] = x
  BY <1>1, AscendingProperties
<1>a. At(q, P) = [k \in DOMAIN p |-> q[p[k]]]
  BY DEF At
<1> HIDE DEF p
<1>3. Cardinality(P) \in Nat /\ DOMAIN p = 1..Cardinality(P) /\ \A k \in DOMAIN p : p[k] \in P
  BY <1>1, <1>2, SeqParts, FS_CardinalityType
<1>4. ASSUME NEW j \in DOMAIN p, NEW k \in DOMAIN p, p[j] = p[k]
      PROVE  j = k
  <2>1. ~(p[j] < p[k]) /\ ~(p[k] < p[j])
    BY <1>1, <1>3, <1>4
  <2> QED BY <1>2, <1>3, <2>1
<1>5. Places(q, P, p)
  BY <1>1, <1>2, <1>a, <1>3, <1>4 DEF Places
<1> QED BY <1>5

(* Two parts of the places up to n, one after the other, and the rest.       *)
Halves(c, h, n, l, K, p, g) ==
  /\ c \in Nat /\ h \in Nat /\ n \in Nat /\ l \in Nat /\ n = c + h /\ n <= l /\ K \in SUBSET (1..n)
  /\ \A k \in 1..c : p[k] \in K
  /\ \A j, k \in 1..c : p[j] = p[k] => j = k
  /\ \A x \in K : \E k \in 1..c : p[k] = x
  /\ \A k \in 1..h : g[k] \in (1..n) \ K
  /\ \A j, k \in 1..h : g[j] = g[k] => j = k
  /\ \A x \in (1..n) \ K : \E k \in 1..h : g[k] = x

Shuffle(c, n, l, p, g) == [i \in 1..l |-> IF i <= c THEN p[i] ELSE IF i <= n THEN g[i - c] ELSE i]

LEMMA Merged ==
  ASSUME NEW c, NEW h, NEW n, NEW l, NEW K, NEW p, NEW g, Halves(c, h, n, l, K, p, g)
  PROVE  Permutes(Shuffle(c, n, l, p, g), l)
<1> DEFINE from == Shuffle(c, n, l, p, g)
<1>0. /\ c \in Nat /\ h \in Nat /\ n \in Nat /\ l \in Nat /\ n = c + h /\ n <= l /\ K \in SUBSET (1..n)
      /\ \A k \in 1..c : p[k] \in K
      /\ \A j, k \in 1..c : p[j] = p[k] => j = k
      /\ \A x \in K : \E k \in 1..c : p[k] = x
      /\ \A k \in 1..h : g[k] \in (1..n) \ K
      /\ \A j, k \in 1..h : g[j] = g[k] => j = k
      /\ \A x \in (1..n) \ K : \E k \in 1..h : g[k] = x
  BY DEF Halves
<1>a. \A i \in 1..l : from[i] = IF i <= c THEN p[i] ELSE IF i <= n THEN g[i - c] ELSE i
  BY DEF Shuffle
<1> HIDE DEF from
<1> USE <1>0
<1>1. \A i \in 1..l : \/ i \in 1..c /\ from[i] = p[i] /\ from[i] \in K
                      \/ i - c \in 1..h /\ from[i] = g[i - c] /\ from[i] \in (1..n) \ K
                      \/ i \in (n + 1)..l /\ from[i] = i
  <2> TAKE i \in 1..l
  <2>1. CASE i <= c
    <3>1. i \in 1..c /\ from[i] = p[i]
      BY <1>a, <2>1
    <3> QED BY <3>1
  <2>2. CASE ~(i <= c) /\ i <= n
    <3>1. i - c \in 1..h /\ from[i] = g[i - c]
      BY <1>a, <2>2
    <3> QED BY <3>1
  <2>3. CASE ~(i <= n)
    <3>1. i \in (n + 1)..l /\ from[i] = i
      BY <1>a, <2>3
    <3> QED BY <3>1
  <2> QED BY <2>1, <2>2, <2>3
<1>2. \A x \in 1..n : x \in 1..l /\ x \notin (n + 1)..l
  OBVIOUS
<1>3. \A i \in 1..l : from[i] \in 1..l
  BY <1>1, <1>2
<1>4. ASSUME NEW i \in 1..l, NEW j \in 1..l, from[i] = from[j]
      PROVE  i = j
  <2>1. CASE i \in 1..c /\ from[i] = p[i] /\ from[i] \in K
    <3>1. j \in 1..c /\ from[j] = p[j]
      <4>1. from[j] \in K /\ from[j] \notin (1..n) \ K /\ from[j] \in 1..n
        BY <1>4, <2>1
      <4>2. ~(j \in (n + 1)..l /\ from[j] = j)
        BY <4>1
      <4> QED BY <1>1, <4>1, <4>2
    <3> QED BY <1>4, <2>1, <3>1
  <2>2. CASE i - c \in 1..h /\ from[i] = g[i - c] /\ from[i] \in (1..n) \ K
    <3>1. j - c \in 1..h /\ from[j] = g[j - c]
      BY <1>1, <1>2, <1>4, <2>2
    <3> DEFINE x == i - c  y == j - c
    <3>2. x \in 1..h /\ y \in 1..h /\ g[x] = g[y]
      BY <1>4, <2>2, <3>1
    <3> HIDE DEF x, y
    <3>3. x = y
      BY <3>2
    <3> QED BY <3>3 DEF x, y
  <2>3. CASE i \in (n + 1)..l /\ from[i] = i
    <3>1. from[i] \notin 1..n
      BY <2>3
    <3>2. from[j] = j
      <4>1. from[j] \notin K /\ from[j] \notin (1..n) \ K
        BY <1>4, <3>1
      <4> QED BY <1>1, <4>1
    <3> QED BY <1>4, <2>3, <3>2
  <2> QED BY <1>1, <2>1, <2>2, <2>3
<1>5. ASSUME NEW k \in 1..l
      PROVE  \E i \in 1..l : from[i] = k
  <2>1. CASE k \in K
    <3>1. PICK i \in 1..c : p[i] = k
      BY <2>1
    <3>2. i \in 1..l /\ from[i] = p[i]
      BY <1>a
    <3> QED BY <3>1, <3>2
  <2>2. CASE k \in (1..n) \ K
    <3>1. PICK j \in 1..h : g[j] = k
      BY <2>2
    <3> DEFINE i == c + j
    <3>2. i \in 1..l /\ ~(i <= c) /\ i <= n /\ i - c = j
      OBVIOUS
    <3> HIDE DEF i
    <3>3. from[i] = g[j]
      BY <1>a, <3>2
    <3> QED BY <3>1, <3>2, <3>3
  <2>3. CASE k \in (n + 1)..l
    <3>1. from[k] = k
      BY <1>a, <2>3
    <3> QED BY <3>1
  <2>4. k \in 1..n \/ k \in (n + 1)..l
    OBVIOUS
  <2> QED BY <2>1, <2>2, <2>3, <2>4
<1> QED BY <1>3, <1>4, <1>5 DEF Permutes, from

LEMMA IntervalCardinality ==
  ASSUME NEW n \in Nat
  PROVE  IsFiniteSet(1..n) /\ Cardinality(1..n) = n
<1>1. IsFiniteSet(1..n) /\ Cardinality(1..n) = IF 1 > n THEN 0 ELSE n - 1 + 1
  BY FS_Interval
<1> QED BY <1>1

InThree(w, u, v, r, c, n) ==
  /\ w \in Seq(Nat) /\ Len(w) = n + Len(r)
  /\ \A i \in 1..c : w[i] = u[i]
  /\ \A i \in 1..Len(v) : w[c + i] = v[i]
  /\ \A i \in 1..Len(r) : w[n + i] = r[i]

LEMMA ConcatThree ==
  ASSUME NEW u \in Seq(Nat), NEW v \in Seq(Nat), NEW r \in Seq(Nat),
         NEW c, c = Len(u), NEW n, n = c + Len(v), NEW all, all = u \o v \o r
  PROVE  InThree(all, u, v, r, c, n)
<1> DEFINE w == u \o v
<1>1. /\ w \in Seq(Nat) /\ Len(w) = n /\ \A i \in 1..c : w[i] = u[i]
      /\ \A i \in 1..Len(v) : w[c + i] = v[i]
  BY ConcatParts
<1>2. /\ Len(u) \in Nat /\ Len(v) \in Nat
  BY SeqParts
<1>3. (\A i \in 1..c : i \in 1..n) /\ (\A i \in 1..Len(v) : c + i \in 1..n)
  BY <1>2
<1> HIDE DEF w
<1>4. /\ w \o r \in Seq(Nat) /\ Len(w \o r) = Len(w) + Len(r) /\ \A i \in 1..Len(w) : (w \o r)[i] = w[i]
      /\ \A i \in 1..Len(r) : (w \o r)[Len(w) + i] = r[i]
  <2>1. w \in Seq(Nat) /\ r \in Seq(Nat)
    BY <1>1
  <2> QED BY <2>1, ConcatParts
<1>5. /\ w \o r \in Seq(Nat) /\ Len(w \o r) = n + Len(r)
      /\ \A i \in 1..c : (w \o r)[i] = u[i]
      /\ \A i \in 1..Len(v) : (w \o r)[c + i] = v[i]
      /\ \A i \in 1..Len(r) : (w \o r)[n + i] = r[i]
  BY <1>1, <1>3, <1>4
<1>6. w \o r = all
  BY DEF w
<1> QED BY <1>5, <1>6 DEF InThree

(* reorderInterruptedBatch changes the order of the queue, and puts what is  *)
(* to be committed first.                                                    *)
LEMMA AcceptPermutes ==
  ASSUME TypeInv, AllReturned, Accepted, \A i \in 1..Len(batch) : batch[i].act = st.queue[i]
  PROVE  /\ Len(st'.queue) = Len(st.queue)
         /\ \A k \in 1..Len(Kept) : Kept[k].act = st'.queue[k]
         /\ \E from : /\ Permutes(from, Len(st.queue))
                      /\ \A i \in 1..Len(st.queue) : st'.queue[i] = st.queue[from[i]]
         /\ \A k \in 1..Len(Kept) : \E i \in 1..Len(batch) :
               Kept[k] = batch[i] /\ batch[i].answer # "interrupted"
<1> DEFINE q == st.queue
           n == Len(batch)
           l == Len(q)
           K == DOMAIN batch \ Answered("interrupted")
           G == Answered("interrupted")
           c == Cardinality(K)
           h == Cardinality(G)
           rest == SubSeq(st.queue, Len(batch) + 1, Len(st.queue))
           new == Ids(Kept) \o Ids(Gone) \o rest
<1>1. /\ batch \in Seq(Results) /\ DOMAIN batch = 1..n /\ n \in Nat /\ q \in Seq(Nat) /\ l \in Nat /\ n <= l
  BY TypeParts, RunStateParts DEF TypeInv, ControlInv, Accepted
<1>2. K \in SUBSET (1..n) /\ G = (1..n) \ K /\ K \in SUBSET DOMAIN batch /\ G \in SUBSET DOMAIN batch
  BY <1>1 DEF Answered
<1>3. Kept \in Seq(Results) /\ Gone \in Seq(Results)
  BY KeptAndGone
<1>4. Kept = At(batch, K) /\ Gone = At(batch, G)
  BY DEF Kept, Gone
<1>5. \A i \in 1..n : batch[i].act = q[i] /\ (i \in K => batch[i].answer # "interrupted")
  BY <1>1 DEF Answered
<1> HIDE DEF K, G
<1>6. PICK p : Places(batch, K, p)
  BY <1>1, <1>2, PlacesExist
<1>7. PICK g : Places(batch, G, g)
  BY <1>1, <1>2, PlacesExist
<1>8. /\ c \in Nat /\ h \in Nat /\ Len(Kept) = c /\ Len(Gone) = h
      /\ \A k \in 1..c : p[k] \in K /\ Kept[k] = batch[p[k]]
      /\ \A j, k \in 1..c : p[j] = p[k] => j = k
      /\ \A x \in K : \E k \in 1..c : p[k] = x
      /\ \A k \in 1..h : g[k] \in (1..n) \ K /\ Gone[k] = batch[g[k]]
      /\ \A j, k \in 1..h : g[j] = g[k] => j = k
      /\ \A x \in (1..n) \ K : \E k \in 1..h : g[k] = x
  BY <1>2, <1>4, <1>6, <1>7 DEF Places
<1>9. n = c + h
  <2> HIDE DEF c, h, n, l
  <2>1. IsFiniteSet(1..n) /\ Cardinality(1..n) = n
    BY <1>1, IntervalCardinality
  <2>2. IsFiniteSet(K) /\ IsFiniteSet(G)
    BY <1>2, <2>1, FS_Subset
  <2>3. K \cap G = {} /\ K \cup G = 1..n
    BY <1>2
  <2>4. Cardinality(K \cup G) = c + h - Cardinality(K \cap G)
    BY <2>2, FS_Union DEF c, h
  <2>5. Cardinality({}) = 0
    BY FS_EmptySet
  <2>6. n = c + h - 0 /\ c \in Nat /\ h \in Nat
    <3>1. Cardinality(K \cup G) = n /\ Cardinality(K \cap G) = 0
      BY <2>1, <2>3, <2>5
    <3>2. c \in Nat /\ h \in Nat
      BY <1>8
    <3> QED BY <2>4, <3>1, <3>2
  <2> HIDE DEF K, G
  <2> QED BY <2>6
<1>10. /\ rest \in Seq(Nat) /\ Len(rest) = l - n /\ \A i \in 1..(l - n) : rest[i] = q[n + i]
  <2>1. n \in 0..l
    BY <1>1
  <2> QED BY <1>1, <2>1, SubSeqToParts DEF SubSeqTo
<1>11. /\ Ids(Kept) \in Seq(Nat) /\ Len(Ids(Kept)) = c /\ \A k \in 1..c : Ids(Kept)[k] = Kept[k].act
       /\ Ids(Gone) \in Seq(Nat) /\ Len(Ids(Gone)) = h /\ \A k \in 1..h : Ids(Gone)[k] = Gone[k].act
  BY <1>3, <1>8, IdsParts
<1>12. st' = [st EXCEPT !.queue = new]
  BY DEF Accepted
<1> HIDE DEF rest, c, h, n, l
<1>13. /\ Len(new) = l
       /\ \A k \in 1..c : new[k] = Kept[k].act
       /\ \A k \in 1..h : new[c + k] = Gone[k].act
       /\ \A k \in 1..(l - n) : new[n + k] = q[n + k]
       /\ new \in Seq(Nat)
  <2> DEFINE u == Ids(Kept)  v == Ids(Gone)
  <2>1. /\ u \in Seq(Nat) /\ v \in Seq(Nat) /\ c = Len(u) /\ Len(v) = h /\ n = c + Len(v)
        /\ \A k \in 1..c : u[k] = Kept[k].act
        /\ \A k \in 1..h : v[k] = Gone[k].act
    BY <1>9, <1>11
  <2>2. new = u \o v \o rest /\ rest \in Seq(Nat) /\ Len(rest) = l - n
    BY <1>10
  <2> HIDE DEF u, v, new
  <2> HIDE DEF rest
  <2>3. u \in Seq(Nat) /\ v \in Seq(Nat) /\ c = Len(u) /\ n = c + Len(v) /\ rest \in Seq(Nat)
    BY <2>1, <2>2
  <2>4. InThree(new, u, v, rest, c, n)
    BY <2>2, <2>3, ConcatThree
  <2>5. /\ new \in Seq(Nat) /\ Len(new) = n + Len(rest)
        /\ \A i \in 1..c : new[i] = u[i]
        /\ \A i \in 1..Len(v) : new[c + i] = v[i]
        /\ \A i \in 1..Len(rest) : new[n + i] = rest[i]
    BY <2>4 DEF InThree
  <2>6. n + (l - n) = l
    BY <1>1 DEF n, l
  <2> QED BY ZenonT(60), <1>10, <2>1, <2>2, <2>5, <2>6
<1>14. st'.queue = new
  <2>1. st \in RunStates
    BY TypeParts
  <2> HIDE DEF new
  <2> QED BY <1>12, <2>1 DEF RunStates
<1> HIDE DEF new
<1> DEFINE from == Shuffle(c, n, l, p, g)
<1>15. c \in Nat /\ h \in Nat /\ n \in Nat /\ l \in Nat /\ n <= l /\ K \in SUBSET (1..n)
  BY <1>1, <1>2, <1>8 DEF n, l
<1>16. Permutes(from, l)
  <2>1. Halves(c, h, n, l, K, p, g)
    BY <1>8, <1>9, <1>15 DEF Halves
  <2> QED BY <2>1, Merged
<1>17. ASSUME NEW i \in 1..l
       PROVE  new[i] = q[from[i]]
  <2>0. from[i] = IF i <= c THEN p[i] ELSE IF i <= n THEN g[i - c] ELSE i
    BY DEF Shuffle
  <2> HIDE DEF from
  <2>1. CASE i <= c
    <3>1. i \in 1..c /\ from[i] = p[i]
      BY <1>15, <2>0, <2>1
    <3>2. p[i] \in K /\ p[i] \in 1..n /\ Kept[i] = batch[p[i]]
      BY <1>8, <1>15, <3>1
    <3>3. batch[p[i]].act = q[p[i]]
      BY <1>5, <3>2
    <3> QED BY <1>13, <3>1, <3>2, <3>3
  <2>2. CASE ~(i <= c) /\ i <= n
    <3> DEFINE j == i - c
    <3>1. j \in 1..h /\ c + j = i /\ from[i] = g[j]
      BY <1>9, <1>15, <2>0, <2>2
    <3> HIDE DEF j
    <3>2. g[j] \in 1..n /\ Gone[j] = batch[g[j]]
      BY <1>8, <3>1
    <3>3. batch[g[j]].act = q[g[j]]
      BY <1>5, <3>2
    <3>4. new[c + j] = Gone[j].act
      BY <1>13, <3>1
    <3> QED BY <3>1, <3>2, <3>3, <3>4
  <2>3. CASE ~(i <= n)
    <3> DEFINE j == i - n
    <3>1. j \in 1..(l - n) /\ n + j = i /\ from[i] = i
      BY <1>9, <1>15, <2>0, <2>3
    <3> HIDE DEF j
    <3>2. new[n + j] = q[n + j]
      BY <1>13, <3>1
    <3> QED BY <3>1, <3>2
  <2> QED BY <2>1, <2>2, <2>3
<1>18. \A k \in 1..c : \E i \in 1..n : Kept[k] = batch[i] /\ batch[i].answer # "interrupted"
  <2> TAKE k \in 1..c
  <2>1. p[k] \in K /\ p[k] \in 1..n /\ Kept[k] = batch[p[k]]
    BY <1>8, <1>15
  <2> QED BY <1>5, <2>1
<1> HIDE DEF from
<1>19. Len(st'.queue) = Len(st.queue) /\ Len(Kept) = c /\ \A k \in 1..Len(Kept) : Kept[k].act = st'.queue[k]
  BY <1>8, <1>13, <1>14 DEF l, q
<1>20. \E f : Permutes(f, l) /\ \A i \in 1..l : st'.queue[i] = q[f[i]]
  <2> WITNESS from
  <2> QED BY <1>14, <1>16, <1>17
<1> QED BY <1>18, <1>19, <1>20 DEF l, n, q

LEMMA NotFailedBefore ==
  ASSUME TypeInv, Moves, status' # "failed"
  PROVE  status # "failed"
<1>1. pc # "ended" => status = "running"
  BY DEF TypeInv, ControlInv
<1>2. Stays => status # "failed"
  BY <1>1 DEF Stays, BatchDone, vars
<1>3. ~Failed
  BY DEF Failed
<1>4. (\E r : Committed(r)) \/ (\E s : Settling(s) /\ SettleStep(s)) => status # "failed"
  BY <1>1 DEF Committed, Committing, Settling
<1>5. Interrupted \/ Crashed \/ Restarted => status # "failed"
  BY <1>1 DEF Interrupted, BatchDone, Crashed, Restarted
<1>6. (Accepted /\ AllReturned) \/ (Scheduled /\ pc = "schedule") => status # "failed"
  BY <1>1 DEF AllReturned
<1>7. (\E i : Started(i)) \/ (\E i : Returned(i)) \/ (\E i, g, b : Pulled(i, g, b))
        \/ (\E i, g : Ended(i, g)) => status # "failed"
  BY ZenonT(60), <1>1 DEF Started, Returned, Pulled, Ended, Pulling
<1> QED BY <1>2, <1>3, <1>4, <1>5, <1>6, <1>7 DEF Moves

(* Nobody is in the middle of a batch.                                       *)
LEMMA IdleKeepsQueue ==
  ASSUME Once(st)', Once(saved)', batch' = <<>>, todo' = <<>>
  PROVE  QueueInv'
<1>1. Len(batch') = 0 /\ Len(todo') = 0
  BY EmptyParts
<1> QED BY <1>1 DEF QueueInv

LEMMA StaysKeepsQueue ==
  ASSUME TypeInv, QueueInv, status # "failed", Stays
  PROVE  QueueInv'
<1>1. Once(st)' /\ Once(saved)'
  <2>1. st' = st /\ saved' \in {saved, st}
    BY DEF Stays
  <2>2. Once(st) /\ Once(saved)
    BY DEF QueueInv
  <2> QED BY <2>1, <2>2 DEF Once
<1>2. CASE UNCHANGED vars
  BY <1>2 DEF vars, QueueInv, Once
<1>3. CASE (\E s : Settling(s)) /\ UNCHANGED <<status, pc, batch>>
  <2>1. st' = st /\ todo' = todo /\ batch' = batch /\ pc' = pc
    BY <1>3 DEF Stays
  <2> QED BY <1>1, <2>1 DEF QueueInv
<1>4. CASE \/ BatchDone /\ batch' = <<>>
           \/ pc = "schedule" /\ UNCHANGED batch
  <2>1. batch' = <<>> /\ todo' = <<>>
    BY <1>4 DEF Stays, BatchDone, TypeInv, ControlInv
  <2> QED BY <1>1, <2>1, IdleKeepsQueue
<1> QED BY <1>2, <1>3, <1>4 DEF Stays

LEMMA CrashKeepsQueue ==
  ASSUME TypeInv, QueueInv, status # "failed", Crashed
  PROVE  QueueInv'
<1>1. Once(st)' /\ Once(saved)'
  BY DEF Crashed, QueueInv, Once
<1> QED BY <1>1, IdleKeepsQueue DEF Crashed

LEMMA RestartKeepsQueue ==
  ASSUME TypeInv, QueueInv, status # "failed", Restarted
  PROVE  QueueInv'
<1>1. WellTyped(saved) /\ Once(saved)
  BY DEF TypeInv, QueueInv
<1>2. st'.queue = saved.queue /\ Len(st'.act) = Len(saved.act)
      /\ \A a \in 1..Len(saved.act) : (st'.act[a].phase \in Over) <=> (saved.act[a].phase \in Over)
  BY DEF Restarted, Resumed, Rephased, Over
<1>3. Once(st)'
  BY <1>1, <1>2, OnceRephased
<1>4. Once(saved)'
  BY <1>3 DEF Restarted, Once
<1> QED BY <1>3, <1>4, IdleKeepsQueue DEF Restarted

(* What waits for a resolution was running.                                  *)
LEMMA WaitingRuns ==
  ASSUME TypeInv, QueueInv, status # "failed", Interrupted
  PROVE  \A a \in Waiting : st.act[a].phase = "running"
<1>1. pc = "commit" /\ DOMAIN batch = 1..Len(batch)
  BY TypeParts DEF Interrupted, BatchDone
<1>2. \A i \in 1..Len(batch) : batch[i].answer = "interrupted" => st.act[batch[i].act].phase = "running"
  BY <1>1 DEF QueueInv
<1>3. TAKE a \in Waiting
<1>4. PICK i \in 1..Len(batch) : batch[i].answer = "interrupted" /\ a = batch[i].act
  BY <1>1 DEF Waiting, Answered
<1> QED BY <1>2, <1>4

LEMMA InterruptKeepsQueue ==
  ASSUME TypeInv, QueueInv, status # "failed", Interrupted
  PROVE  QueueInv'
<1>1. WellTyped(st) /\ Once(st) /\ todo = <<>> /\ pc = "commit"
  BY DEF TypeInv, QueueInv, Interrupted, BatchDone
<1>2. \A a \in Waiting : st.act[a].phase = "running"
  BY WaitingRuns
<1>3. st'.queue = st.queue /\ Len(st'.act) = Len(st.act)
      /\ \A a \in 1..Len(st.act) : (st'.act[a].phase \in Over) <=> (st.act[a].phase \in Over)
  BY <1>2 DEF Interrupted, Rephased, Over
<1>4. Once(st)'
  BY <1>1, <1>3, OnceRephased
<1>5. Once(saved)'
  BY <1>4 DEF Interrupted, Once
<1> QED BY <1>1, <1>4, <1>5, IdleKeepsQueue DEF Interrupted

LEMMA ScheduleKeepsQueue ==
  ASSUME TypeInv, QueueInv, status # "failed", Scheduled, pc = "schedule"
  PROVE  QueueInv'
<1>1. Once(st)' /\ Once(saved)'
  BY DEF Scheduled, QueueInv, Once
<1> QED BY <1>1 DEF Scheduled, QueueInv

LEMMA StartKeepsQueue ==
  ASSUME TypeInv, QueueInv, status # "failed", NEW i, Started(i)
  PROVE  QueueInv'
<1> DEFINE a == batch[i].act
<1>1. WellTyped(st) /\ Once(st) /\ a \in 1..Len(st.act) /\ i \in 1..Len(batch) /\ Len(batch) \in Nat
      /\ \A j \in 1..Len(batch) : batch[j].act \in 1..Len(st.act)
  BY TypeParts DEF TypeInv, QueueInv, Started
<1>2. /\ st'.queue = st.queue /\ Len(st'.act) = Len(st.act) /\ st'.act[a].phase = "running"
      /\ \A c \in 1..Len(st.act) : c # a => st'.act[c] = st.act[c]
      /\ saved' = st' /\ batch' = batch /\ todo' = todo
  BY DEF Started, InPhaseNow, Rephased
<1>3. st.act[a].phase = "ready"
  BY DEF Started
<1> HIDE DEF a
<1>4. \A c \in 1..Len(st.act) : (st'.act[c].phase \in Over) <=> (st.act[c].phase \in Over)
  BY <1>2, <1>3 DEF Over
<1>5. Once(st)'
  BY <1>1, <1>2, <1>4, OnceRephased
<1>6. Once(saved)'
  BY <1>2, <1>5 DEF Once
<1>7. pc' \in {"start", "execute"} /\ \A j \in 1..Len(batch) : batch[j].act = st.queue[j]
  BY DEF Started, QueueInv
<1>8. pc' = "execute" => \A j \in 1..Len(batch) : st'.act[batch[j].act].phase = "running"
  <2> SUFFICES ASSUME pc' = "execute", NEW j \in 1..Len(batch)
               PROVE  st'.act[batch[j].act].phase = "running"
    OBVIOUS
  <2>1. i = Len(batch)
    BY DEF Started
  <2>2. CASE j = i
    BY <1>2, <2>2 DEF a
  <2>3. CASE j \in 1..(i - 1)
    <3>1. st.act[batch[j].act].phase = "running"
      BY <2>3 DEF Started
    <3> QED BY <1>1, <1>2, <3>1
  <2>4. j = i \/ j \in 1..(i - 1)
    BY <1>1, <2>1
  <2> QED BY <2>2, <2>3, <2>4
<1> QED BY <1>2, <1>5, <1>6, <1>7, <1>8 DEF QueueInv

LEMMA ReturnKeepsQueue ==
  ASSUME TypeInv, QueueInv, status # "failed", NEW i, Returned(i)
  PROVE  QueueInv'
<1>1. st \in RunStates
  BY TypeParts
<1>2. OnlyTicks(st, st')
  BY <1>1, ClockFields DEF Returned
<1>3. st'.act = st.act /\ st'.queue = st.queue /\ saved' = saved /\ pc' = "execute" /\ pc = "execute"
  BY <1>2 DEF OnlyTicks, Returned
<1>4. Once(st)' /\ Once(saved)'
  BY <1>3 DEF Once, QueueInv
<1>5. Len(batch') = Len(batch) /\ \A j \in 1..Len(batch) : batch'[j].act = batch[j].act
  BY DEF Returned
<1> QED BY <1>3, <1>4, <1>5 DEF QueueInv

LEMMA AcceptKeepsQueue ==
  ASSUME TypeInv, QueueInv, status # "failed", Accepted, AllReturned
  PROVE  QueueInv'
<1>1. WellTyped(st) /\ Once(st) /\ pc = "execute" /\ \A i \in 1..Len(batch) : batch[i].act = st.queue[i]
  BY DEF TypeInv, QueueInv, Accepted
<1>2. /\ Len(st'.queue) = Len(st.queue)
      /\ \A k \in 1..Len(Kept) : Kept[k].act = st'.queue[k]
      /\ \E from : /\ Permutes(from, Len(st.queue))
                   /\ \A i \in 1..Len(st.queue) : st'.queue[i] = st.queue[from[i]]
      /\ \A k \in 1..Len(Kept) : \E i \in 1..Len(batch) :
            Kept[k] = batch[i] /\ batch[i].answer # "interrupted"
  BY <1>1, AcceptPermutes
<1>3. st'.act = st.act /\ todo' = Kept /\ batch' = batch /\ saved' = saved /\ pc' = "commit"
  BY TypeParts DEF Accepted, RunStates
<1>4. Once(st)'
  <2>1. PICK from : /\ Permutes(from, Len(st.queue))
                    /\ \A i \in 1..Len(st.queue) : st'.queue[i] = st.queue[from[i]]
    BY <1>2
  <2>3. WellTyped(st) /\ Once(st) /\ st'.act = st.act /\ Len(st'.queue) = Len(st.queue)
    BY <1>1, <1>2, <1>3
  <2> QED BY <2>1, <2>3, OncePermuted
<1>5. Once(saved)'
  BY <1>3 DEF QueueInv, Once
<1>6. ASSUME NEW i \in 1..Len(batch), batch[i].answer = "interrupted", NEW k \in 1..Len(Kept)
      PROVE  Kept[k].act # batch[i].act
  <2>1. PICK j \in 1..Len(batch) : Kept[k] = batch[j] /\ batch[j].answer # "interrupted"
    BY <1>2
  <2>2. i \in 1..Len(st.queue) /\ j \in 1..Len(st.queue) /\ i # j
    <3>1. Len(batch) <= Len(st.queue) /\ Len(batch) \in Nat /\ Len(st.queue) \in Nat
      BY <1>1, TypeParts, RunStateParts DEF TypeInv, ControlInv
    <3> QED BY <1>6, <2>1, <3>1
  <2>3. st.queue[i] # st.queue[j]
    BY <1>1, <2>2 DEF Once
  <2> QED BY <1>1, <2>1, <2>3
<1>7. \A i \in 1..Len(batch) : st.act[batch[i].act].phase = "running"
  BY <1>1 DEF QueueInv
<1> QED BY <1>2, <1>3, <1>4, <1>5, <1>6, <1>7 DEF QueueInv

(* The head of the queue is done with; what else happens adds to the queue.  *)
TailFirst(q, p) ==
  /\ q # <<>> /\ Len(q) - 1 <= Len(p) /\ Len(p) \in Nat
  /\ \A k \in 1..(Len(q) - 1) : p[k] = q[k + 1]

LEMMA TailFirstParts ==
  ASSUME NEW q \in Seq(Nat), q # <<>>
  PROVE  TailFirst(q, Tail(q)) /\ \A x \in Nat : TailFirst(q, Append(Tail(q), x))
<1>1. /\ Tail(q) \in Seq(Nat) /\ Len(Tail(q)) = Len(q) - 1 /\ Len(q) \in Nat \ {0}
      /\ \A i \in 1..(Len(q) - 1) : Tail(q)[i] = q[i + 1]
  BY TailParts
<1> DEFINE p == Tail(q)
<1> HIDE DEF p
<1>2. ASSUME NEW x \in Nat
      PROVE  TailFirst(q, Append(p, x))
  <2>1. p \in Seq(Nat)
    BY <1>1 DEF p
  <2>2. Len(Append(p, x)) = Len(p) + 1 /\ \A i \in 1..Len(p) : Append(p, x)[i] = p[i]
    BY <2>1
  <2>3. Len(p) = Len(q) - 1 /\ \A i \in 1..(Len(q) - 1) : p[i] = q[i + 1]
    BY <1>1 DEF p
  <2> QED BY <1>1, <2>2, <2>3 DEF TailFirst
<1> QED BY <1>1, <1>2 DEF TailFirst, p

LEMMA TailFirstExtends ==
  ASSUME NEW q, NEW f, NEW p, TailFirst(q, f), Len(q) \in Nat, Len(f) <= Len(p), Len(p) \in Nat,
         \A k \in 1..Len(f) : p[k] = f[k]
  PROVE  TailFirst(q, p)
<1>1. Len(q) - 1 <= Len(p) /\ \A k \in 1..(Len(q) - 1) : k \in 1..Len(f)
  BY DEF TailFirst
<1> QED BY <1>1 DEF TailFirst

(* What a commit of result r does to the queue.                              *)
LEMMA CommitParts ==
  ASSUME TypeInv, QueueInv, status # "failed", NEW r, Committed(r)
  PROVE  /\ Once(st)' /\ Len(st.act) <= Len(st'.act) /\ TailFirst(st.queue, st'.queue)
         /\ \A c \in 1..Len(st.act) : c # r.act => st'.act[c] = st.act[c]
         /\ saved' = st' /\ todo' = Tail(todo) /\ batch' = batch /\ pc' = pc
<1>1. WellTyped(st) /\ Once(st) /\ st.queue # <<>> /\ Head(st.queue) = r.act /\ Committing(r)
      /\ r.act \in 1..Len(st.act) /\ Len(st.act) \in Nat /\ st.queue \in Seq(Nat) /\ Len(st.queue) \in Nat
  BY HeadTodo, QueueIsNotEmpty, TypeParts, RunStateParts DEF TypeInv, QueueInv, Committed
<1>t. TailFirst(st.queue, Tail(st.queue)) /\ TailFirst(st.queue, Append(Tail(st.queue), r.act))
  <2>1. r.act \in Nat
    BY <1>1
  <2> QED BY <1>1, <2>1, TailFirstParts
<1>2. CASE Retried(r)
  <2>1. /\ Len(st'.act) = Len(st.act) /\ st'.queue = Append(Tail(st.queue), r.act)
        /\ st'.act[r.act].phase = "ready" /\ \A c \in 1..Len(st.act) : c # r.act => st'.act[c] = st.act[c]
        /\ saved' = st' /\ todo' = Tail(todo) /\ batch' = batch /\ pc' = pc
    BY <1>2 DEF Retried, Rephased
  <2>2. st'.act[Head(st.queue)].phase \notin Over
    BY <1>1, <2>1 DEF Over
  <2>3. Once(st')
    BY <1>1, <2>1, <2>2, OnceRotated
  <2> QED BY <1>1, <1>t, <2>1, <2>3
<1>3. CASE BranchDone(r)
  <2>1. /\ Len(st'.act) = Len(st.act) /\ st'.queue = Tail(st.queue)
        /\ st'.act[r.act].phase \in Over /\ \A c \in 1..Len(st.act) : c # r.act => st'.act[c] = st.act[c]
        /\ saved' = st' /\ todo' = Tail(todo) /\ batch' = batch /\ pc' = pc
    BY <1>3 DEF BranchDone, Rephased
  <2>3. Once(st')
    BY <1>1, <2>1, OnceDone
  <2> QED BY <1>1, <1>t, <2>1, <2>3
<1>4. CASE \E f, x, n, k : ActivationDone(r, f, x, n, k)
  <2>1. PICK f, x, n, k : ActivationDone(r, f, x, n, k)
    BY <1>4
  <2>2. /\ WellTyped(f) /\ Len(f.act) = Len(st.act) /\ f.queue = Tail(st.queue)
        /\ f.act[r.act].phase \in Over /\ \A c \in 1..Len(st.act) : c # r.act => f.act[c] = st.act[c]
        /\ saved' = st' /\ todo' = Tail(todo) /\ batch' = batch /\ pc' = pc
        /\ st'.act = x.act /\ st'.queue = x.queue
    BY <2>1 DEF ActivationDone, Done, Rephased, Stepped, Over
  <2>3. Once(f)
    BY <1>1, <2>2, OnceDone
  <2>4. /\ x \in RunStates /\ \E l \in Nat : Adds(f, x, l)
        /\ \A a \in (Len(f.act) + 1)..Len(x.act) : x.act[a].phase = "ready"
    BY <2>1 DEF ActivationDone, Extended
  <2>5. Once(x)
    BY <2>2, <2>3, <2>4, OnceAdded
  <2>6. Once(st')
    BY <2>2, <2>5 DEF Once
  <2>7. Len(f.act) <= Len(x.act) /\ (\A a \in 1..Len(f.act) : x.act[a] = f.act[a])
    BY <2>1, <2>2, ExtendedParts DEF ActivationDone
  <2>8. TailFirst(st.queue, x.queue)
    <3>1. PICK l \in Nat : Adds(f, x, l)
      BY <2>4
    <3>2. Len(f.queue) \in Nat /\ Len(x.queue) \in Nat /\ Len(x.queue) = Len(f.queue) + l
          /\ \A i \in 1..Len(f.queue) : x.queue[i] = f.queue[i]
      BY <2>1, <2>2, <3>1, ExtendedParts DEF ActivationDone, Adds
    <3>3. TailFirst(st.queue, f.queue)
      BY <1>t, <2>2
    <3>4. Len(f.queue) <= Len(x.queue)
      BY <3>2
    <3> QED BY <1>1, <3>2, <3>3, <3>4, TailFirstExtends
  <2>9. Len(st.act) <= Len(st'.act) /\ \A c \in 1..Len(st.act) : c # r.act => st'.act[c] = st.act[c]
    BY <2>2, <2>7
  <2> QED BY <2>2, <2>6, <2>8, <2>9
<1> QED BY <1>2, <1>3, <1>4 DEF Committed

LEMMA CommitKeepsQueue ==
  ASSUME TypeInv, QueueInv, status # "failed", NEW r, Committed(r)
  PROVE  QueueInv'
<1>1. /\ Once(st)' /\ Len(st.act) <= Len(st'.act) /\ TailFirst(st.queue, st'.queue)
      /\ \A c \in 1..Len(st.act) : c # r.act => st'.act[c] = st.act[c]
      /\ saved' = st' /\ todo' = Tail(todo) /\ batch' = batch /\ pc' = pc
  BY CommitParts
<1>2. Once(saved)'
  BY <1>1 DEF Once
<1>3. /\ pc = "commit" /\ todo # <<>> /\ r = todo[1] /\ todo \in Seq(Results) /\ Len(todo) <= Len(st.queue)
      /\ Len(st.queue) \in Nat /\ Len(st.act) \in Nat
      /\ \A i \in 1..Len(batch) : batch[i].act \in 1..Len(st.act)
  BY HeadTodo, QueueIsNotEmpty, TypeParts, RunStateParts DEF TypeInv, Committed
<1>4. /\ Len(Tail(todo)) = Len(todo) - 1 /\ Len(todo) \in Nat \ {0}
      /\ \A i \in 1..(Len(todo) - 1) : Tail(todo)[i] = todo[i + 1]
  BY <1>3, TailParts
<1>5. /\ \A k \in 1..Len(todo) : todo[k].act = st.queue[k]
      /\ \A i \in 1..Len(batch) : batch[i].answer = "interrupted" =>
              /\ st.act[batch[i].act].phase = "running"
              /\ \A k \in 1..Len(todo) : todo[k].act # batch[i].act
  BY <1>3 DEF QueueInv
<1>6. ASSUME NEW k \in 1..Len(todo')
      PROVE  k + 1 \in 1..Len(todo) /\ todo'[k] = todo[k + 1] /\ st'.queue[k] = st.queue[k + 1]
  <2>1. k \in 1..(Len(todo) - 1) /\ k + 1 \in 1..Len(todo) /\ k \in 1..(Len(st.queue) - 1)
    BY <1>1, <1>3, <1>4
  <2> QED BY <1>1, <1>4, <2>1 DEF TailFirst
<1>7. \A k \in 1..Len(todo') : todo'[k].act = st'.queue[k]
  BY <1>5, <1>6
<1>8. ASSUME NEW i \in 1..Len(batch), batch[i].answer = "interrupted"
      PROVE  /\ st'.act[batch[i].act].phase = "running"
             /\ \A k \in 1..Len(todo') : todo'[k].act # batch[i].act
  <2>1. 1 \in 1..Len(todo)
    BY <1>4
  <2>2. batch[i].act # r.act /\ batch[i].act \in 1..Len(st.act)
    BY <1>3, <1>5, <1>8, <2>1
  <2> QED BY <1>1, <1>5, <1>6, <1>8, <2>2
<1> QED BY <1>1, <1>2, <1>3, <1>7, <1>8 DEF QueueInv

(* What a step adds to the run leaves the interrupted activations alone.     *)
LEMMA AddingKeepsQueue ==
  ASSUME TypeInv, QueueInv, status # "failed", Once(st)', saved' \in {saved, st'},
         Len(st.act) <= Len(st'.act), todo = <<>>, todo' = todo, batch' \in {batch, <<>>},
         pc \in {"commit", "schedule"}, pc' \in {pc, "commit"}, pc = "schedule" => batch = <<>>,
         \A a \in 1..Len(st.act) : st.act[a].phase = "running" => st'.act[a].phase = "running"
  PROVE  QueueInv'
<1>1. Once(saved)'
  <2>1. CASE saved' = saved
    BY <2>1 DEF QueueInv, Once
  <2>2. CASE saved' = st'
    BY <2>2 DEF Once
  <2> QED BY <2>1, <2>2
<1>2. CASE batch' = <<>>
  BY <1>1, <1>2, IdleKeepsQueue
<1>3. CASE batch' = batch /\ pc = "commit"
  <2>1. \A i \in 1..Len(batch) : batch[i].act \in 1..Len(st.act)
    BY TypeParts
  <2>2. \A i \in 1..Len(batch) : batch[i].answer = "interrupted" => st.act[batch[i].act].phase = "running"
    BY <1>3 DEF QueueInv
  <2>3. Len(todo') = 0
    BY EmptyParts
  <2> QED BY <1>1, <1>3, <2>1, <2>2, <2>3 DEF QueueInv
<1> QED BY <1>2, <1>3

LEMMA PullKeepsQueue ==
  ASSUME TypeInv, QueueInv, status # "failed", NEW i, NEW g, NEW b, Pulled(i, g, b)
  PROVE  QueueInv'
<1>1. WellTyped(st) /\ Once(st) /\ st' \in RunStates /\ Adds(st, st', 1) /\ b = Len(st.act) + 1
      /\ st'.act[b].phase = "ready" /\ Len(st.act) \in Nat
  BY TypeParts DEF TypeInv, QueueInv, Pulled
<1>2. Len(st'.act) = Len(st.act) + 1 /\ \A a \in 1..Len(st.act) : st'.act[a] = st.act[a]
  BY <1>1 DEF Adds
<1>3. \A a \in (Len(st.act) + 1)..Len(st'.act) : st'.act[a].phase = "ready"
  BY <1>1, <1>2
<1>4. Once(st)'
  BY <1>1, <1>3, OnceAdded
<1>5. /\ pc = "schedule" /\ todo = <<>> /\ batch = <<>> /\ UNCHANGED <<pc, batch, todo>> /\ saved' = st'
  BY DEF Pulled, Pulling, TypeInv, ControlInv
<1> QED BY <1>1, <1>2, <1>4, <1>5, AddingKeepsQueue

LEMMA EndKeepsQueue ==
  ASSUME TypeInv, QueueInv, status # "failed", NEW i, NEW g, Ended(i, g)
  PROVE  QueueInv'
<1>1. /\ st'.act = st.act /\ st'.queue = st.queue /\ saved' = st' /\ pc = "schedule" /\ pc' = "commit"
      /\ UNCHANGED <<batch, todo>> /\ Len(st.act) \in Nat
  BY TypeParts DEF Ended
<1>2. todo = <<>> /\ batch = <<>>
  BY <1>1 DEF TypeInv, ControlInv
<1>3. Once(st)'
  BY <1>1 DEF QueueInv, Once
<1> QED BY <1>1, <1>2, <1>3, AddingKeepsQueue

LEMMA OnceSame ==
  ASSUME NEW s, NEW e, Once(s), e.act = s.act, e.queue = s.queue
  PROVE  Once(e)
BY DEF Once

LEMMA SettleKeepsQueue ==
  ASSUME TypeInv, QueueInv, status # "failed", NEW s, Settling(s), SettleStep(s)
  PROVE  QueueInv'
<1>1. WellTyped(st) /\ Once(st) /\ Len(st.act) \in Nat /\ pc = "commit" /\ todo = <<>>
  BY TypeParts DEF TypeInv, QueueInv, Settling
<1>2. CASE \E d : Resolved(s, d)
  <2>1. st'.act = st.act /\ st'.queue = st.queue /\ saved' = saved /\ UNCHANGED <<pc, batch, todo>>
    BY <1>2 DEF Resolved
  <2>2. Once(st)'
    BY <1>1, <2>1, OnceSame
  <2> QED BY <1>1, <2>1, <2>2, AddingKeepsQueue
<1>3. CASE \E b : Superseded(s, b)
  <2>1. st'.act = st.act /\ st'.queue = st.queue /\ saved' = st' /\ UNCHANGED <<pc, batch, todo>>
    BY <1>3 DEF Superseded
  <2>2. Once(st)'
    BY <1>1, <2>1, OnceSame
  <2> QED BY <1>1, <2>1, <2>2, AddingKeepsQueue
<1>4. CASE \E i : Canceled(s, i)
  <2>1. PICK i : Canceled(s, i)
    BY <1>4
  <2>2. /\ i \in 1..Len(st.queue) /\ Removed(st.queue, st'.queue, i) /\ Len(st'.act) = Len(st.act)
        /\ st'.act[st.queue[i]].phase \in Over /\ st.act[st.queue[i]].phase = "ready"
        /\ \A a \in 1..Len(st.act) : a # st.queue[i] => st'.act[a] = st.act[a]
        /\ saved' = st' /\ UNCHANGED <<pc, batch, todo>>
    BY <2>1 DEF Canceled, Rephased, Over
  <2>3. Once(st')
    BY <1>1, <2>2, OnceRemoved
  <2>4. \A a \in 1..Len(st.act) : st.act[a].phase = "running" => st'.act[a].phase = "running"
    BY <2>2
  <2> QED BY <1>1, <2>2, <2>3, <2>4, AddingKeepsQueue
<1>5. CASE \E b, c, x : BranchReleased(s, b, c, x)
  <2>1. PICK b, c, x : BranchReleased(s, b, c, x)
    BY <1>5
  <2>2. /\ st'.act = x.act /\ st'.queue = x.queue /\ saved' = st' /\ UNCHANGED <<pc, batch, todo>>
        /\ st' \in RunStates
    BY <2>1 DEF BranchReleased
  <2>3. WellTyped(c) /\ c.act = st.act /\ c.queue = st.queue
        /\ \E n, k : Extended(c, x, n, k)
    BY <2>1, ReleasedParts
  <2>4. PICK n, k : Extended(c, x, n, k)
    BY <2>3
  <2>5. /\ x \in RunStates /\ \E l \in Nat : Adds(c, x, l)
        /\ \A a \in (Len(c.act) + 1)..Len(x.act) : x.act[a].phase = "ready"
    BY <2>4 DEF Extended
  <2>6. Once(c)
    BY <1>1, <2>3, OnceSame
  <2>7. Once(x)
    BY <2>3, <2>5, <2>6, OnceAdded
  <2>8. Once(st)'
    BY <2>2, <2>7, OnceSame
  <2>9. Len(c.act) <= Len(x.act) /\ \A a \in 1..Len(c.act) : x.act[a] = c.act[a]
    BY <2>3, <2>4, ExtendedParts
  <2> QED BY <1>1, <2>2, <2>3, <2>8, <2>9, AddingKeepsQueue
<1>6. CASE \E c, x : SetSettled(s, c, x)
  <2>1. PICK c, x : SetSettled(s, c, x)
    BY <1>6
  <2>2. /\ st'.act = x.act /\ st'.queue = x.queue /\ saved' = saved /\ UNCHANGED <<pc, batch, todo>>
        /\ st' \in RunStates /\ OnlyCloses(st, c) /\ Grown(c, x)
    BY <2>1 DEF SetSettled
  <2>3. WellTyped(c) /\ c.act = st.act /\ c.queue = st.queue
    BY <1>1, <2>2, OnlyClosesIsUpdated DEF OnlyCloses
  <2>5. /\ x \in RunStates /\ \E l \in Nat : Adds(c, x, l)
        /\ \A a \in (Len(c.act) + 1)..Len(x.act) : x.act[a].phase = "ready"
    BY <2>2 DEF Grown
  <2>6. Once(c)
    BY <1>1, <2>3, OnceSame
  <2>7. Once(x)
    BY <2>3, <2>5, <2>6, OnceAdded
  <2>8. Once(st)'
    BY <2>2, <2>7, OnceSame
  <2>9. Len(c.act) <= Len(x.act)
    BY <2>2, <2>3, GrownIsTyped
  <2>10. \A a \in 1..Len(c.act) : x.act[a] = c.act[a]
    BY <2>5 DEF Adds
  <2> QED BY <1>1, <2>2, <2>3, <2>8, <2>9, <2>10, AddingKeepsQueue
<1> QED BY <1>2, <1>3, <1>4, <1>5, <1>6 DEF SettleStep

LEMMA MovesKeepQueue ==
  ASSUME TypeInv, QueueInv, Moves
  PROVE  QueueInv'
<1> SUFFICES ASSUME status' # "failed"
             PROVE  QueueInv'
  BY DEF QueueInv
<1>1. status # "failed"
  BY NotFailedBefore
<1>2. ~Failed
  BY DEF Failed
<1> QED BY <1>1, <1>2, StaysKeepsQueue, CrashKeepsQueue, RestartKeepsQueue, InterruptKeepsQueue,
           ScheduleKeepsQueue, StartKeepsQueue, ReturnKeepsQueue, AcceptKeepsQueue, CommitKeepsQueue,
           PullKeepsQueue, EndKeepsQueue, SettleKeepsQueue DEF Moves

LEMMA InitQueue ==
  ASSUME Init
  PROVE  QueueInv
<1>1. PICK entry \in Entries : st = Fresh(entry)
  BY DEF Init
<1>2. st.queue = <<1>> /\ st.act = <<NewActivation(entry, 1, 0, <<>>)>>
  BY <1>1 DEF Fresh
<1>3. Len(st.queue) = 1 /\ st.queue[1] = 1 /\ Len(st.act) = 1 /\ st.act[1].phase \notin Over
  BY <1>2 DEF NewActivation, Over
<1>4. Once(st)
  BY <1>3 DEF Once
<1>5. saved = st /\ batch = <<>> /\ todo = <<>>
  BY DEF Init
<1>6. Len(batch) = 0 /\ Len(todo) = 0
  BY <1>5, EmptyParts
<1> QED BY <1>4, <1>5, <1>6 DEF QueueInv

LEMMA OnceIsTheWork ==
  ASSUME NEW s, WellTyped(s), Once(s)
  PROVE  /\ ToSet(s.queue) = {a \in DOMAIN s.act : s.act[a].phase \notin Over}
         /\ Cardinality(ToSet(s.queue)) = Len(s.queue)
<1> DEFINE q == s.queue  n == Len(q)  S == ToSet(q)
<1>1. q \in Seq(Nat) /\ n \in Nat /\ DOMAIN q = 1..n /\ DOMAIN s.act = 1..Len(s.act)
      /\ \A i \in 1..n : q[i] \in 1..Len(s.act)
  BY WellTypedParts, RunStateParts, SeqParts DEF Refs
<1>2. S = {q[i] : i \in 1..n}
  BY <1>1 DEF ToSet
<1>3. S = {a \in DOMAIN s.act : s.act[a].phase \notin Over}
  <2>1. \A x \in S : x \in DOMAIN s.act /\ s.act[x].phase \notin Over
    BY <1>1, <1>2 DEF Once
  <2>2. \A a \in DOMAIN s.act : s.act[a].phase \notin Over => a \in S
    BY <1>1, <1>2 DEF Once
  <2> HIDE DEF S
  <2> QED BY <2>1, <2>2
<1>4. \A i, j \in 1..n : q[i] = q[j] => i = j
  BY DEF Once
<1> HIDE DEF q, n, S
<1>5. Cardinality(S) = n
  <2>1. IsFiniteSet(1..n) /\ Cardinality(1..n) = n
    BY <1>1, IntervalCardinality
  <2>2. q \in [1..n -> S]
    <3>1. q = [i \in 1..n |-> q[i]]
      BY <1>1
    <3> QED BY <1>2, <3>1
  <2>3. q \in Bijection(1..n, S)
    BY <1>2, <1>4, <2>2 DEF Bijection, Injection, Surjection, IsInjective
  <2>4. ExistsBijection(1..n, S)
    BY <2>3 DEF ExistsBijection
  <2>5. IsFiniteSet(S) /\ Cardinality(S) = Cardinality(1..n)
    BY <2>1, <2>4, FS_Bijection
  <2> QED BY <2>1, <2>5
<1> QED BY <1>3, <1>5 DEF q, n, S

THEOREM Queues == Spec => []QueueInv
<1>1. Init => QueueInv
  BY InitQueue
<1>2. TypeInv /\ QueueInv /\ [Next]_vars => QueueInv'
  BY StepsMove, MovesKeepQueue
<1> QED BY <1>1, <1>2, Types, PTL DEF Spec

THEOREM QueueHoldsTheWork == Spec => []QueueIsTheWork
<1>1. TypeInv /\ QueueInv => QueueIsTheWork
  BY OnceIsTheWork DEF TypeInv, QueueInv, QueueIsTheWork, States
<1> QED BY <1>1, Types, Queues, PTL

=============================================================================
