----------------------- MODULE SchedulerSafetyProofs ------------------------
(***************************************************************************)
(* The safety of Scheduler, for any workflow: a decision stays final, an   *)
(* update of the context is neither lost nor repeated, an item of an       *)
(* iterator goes out once, a payload reaches a join only when it was       *)
(* released, as often as its dispatch says, and an undisturbed run fails   *)
(* only for a reason its nodes, its iterators or its limits gave.          *)
(***************************************************************************)
EXTENDS SchedulerProofs

-----------------------------------------------------------------------------
(* What a set decided *)

(* A set that decided has not failed; what has an outcome, was selected or   *)
(* released is over.                                                         *)
SetSound(x, act) ==
  /\ x.decided => ~x.failed
  /\ \A b \in DOMAIN x.out : x.out[b].phase # "none" \/ x.out[b].committed => act[b].phase \in Over
  /\ \A k \in 1..Len(x.selected) : act[x.selected[k]].phase \in Over

SetsSound(s) ==
  /\ \A i \in 1..Len(s.sets) : SetSound(s.sets[i], s.act)
  /\ \A k \in 1..Len(s.sources) : s.sources[k].open => ~s.sets[s.sources[k].set].decided

(* y is x later on.                                                          *)
SetKept(x, y) ==
  /\ DOMAIN x.out \subseteq DOMAIN y.out
  /\ x.decided => y.decided /\ ~y.failed /\ y.selected = x.selected
  /\ x.failed => y.failed
  /\ \A b \in DOMAIN x.out : x.out[b].committed => y.out[b].committed

DecisionsKept(s, e) ==
  Len(s.sets) <= Len(e.sets) /\ \A i \in 1..Len(s.sets) : SetKept(s.sets[i], e.sets[i])

(* What is over in s is over in e.                                           *)
OverStays(s, e) ==
  Len(s.act) <= Len(e.act) /\ \A a \in 1..Len(s.act) : s.act[a].phase \in Over => e.act[a].phase \in Over

(* What the checkpoint has decided, the process keeps.                       *)
DecisionInv ==
  status # "failed" => SetsSound(st) /\ SetsSound(saved) /\ DecisionsKept(saved, st)

LEMMA SetKeptIsTransitive ==
  ASSUME NEW x, NEW y, NEW z, SetKept(x, y), SetKept(y, z)
  PROVE  SetKept(x, z)
BY DEF SetKept

LEMMA KeptIsTransitive ==
  ASSUME NEW s \in RunStates, NEW m \in RunStates, NEW e \in RunStates, DecisionsKept(s, m), DecisionsKept(m, e)
  PROVE  DecisionsKept(s, e)
<1>1. Len(s.sets) \in Nat /\ Len(m.sets) \in Nat /\ Len(e.sets) \in Nat
  BY RunStateParts
<1>2. Len(s.sets) <= Len(e.sets) /\ \A i \in 1..Len(s.sets) : i \in 1..Len(m.sets)
  BY <1>1 DEF DecisionsKept
<1>3. \A i \in 1..Len(s.sets) : SetKept(s.sets[i], m.sets[i]) /\ SetKept(m.sets[i], e.sets[i])
  BY <1>2 DEF DecisionsKept
<1> QED BY <1>2, <1>3, SetKeptIsTransitive DEF DecisionsKept

LEMMA KeptIsReflexive ==
  ASSUME NEW s, WellTyped(s), SetsSound(s)
  PROVE  DecisionsKept(s, s)
<1>1. Len(s.sets) \in Nat
  BY RunStateParts DEF WellTyped
<1> QED BY <1>1 DEF SetsSound, SetSound, DecisionsKept, SetKept

(* The members of a set, and what it selected, are activations.              *)
LEMMA SetRefs ==
  ASSUME NEW s, WellTyped(s), NEW i \in 1..Len(s.sets)
  PROVE  /\ \A b \in DOMAIN s.sets[i].out : b \in 1..Len(s.act)
         /\ \A k \in 1..Len(s.sets[i].selected) : s.sets[i].selected[k] \in 1..Len(s.act)
                                                 /\ s.sets[i].selected[k] \in DOMAIN s.sets[i].out
BY DEF WellTyped, SetsKnown

LEMMA SetStaysSound ==
  ASSUME NEW s, WellTyped(s), SetsSound(s), NEW e, OverStays(s, e), NEW i \in 1..Len(s.sets)
  PROVE  SetSound(s.sets[i], e.act) /\ SetKept(s.sets[i], s.sets[i])
<1>1. SetSound(s.sets[i], s.act)
  BY DEF SetsSound
<1>2. /\ \A b \in DOMAIN s.sets[i].out : s.act[b].phase \in Over => e.act[b].phase \in Over
      /\ \A k \in 1..Len(s.sets[i].selected) :
           s.act[s.sets[i].selected[k]].phase \in Over => e.act[s.sets[i].selected[k]].phase \in Over
  BY SetRefs DEF OverStays
<1> QED BY <1>1, <1>2 DEF SetSound, SetKept

(* One set changes, and an iterator may close.                               *)
LEMMA OneSetChanges ==
  ASSUME NEW s, WellTyped(s), SetsSound(s), NEW e, OverStays(s, e), Len(e.sets) = Len(s.sets),
         Len(e.sources) = Len(s.sources), NEW g \in 1..Len(s.sets),
         \A j \in 1..Len(s.sets) : j # g => e.sets[j] = s.sets[j],
         SetSound(e.sets[g], e.act), SetKept(s.sets[g], e.sets[g]),
         \A k \in 1..Len(s.sources) :
            /\ e.sources[k].set = s.sources[k].set
            /\ e.sources[k].open => s.sources[k].open /\ (s.sources[k].set = g => ~e.sets[g].decided)
  PROVE  SetsSound(e) /\ DecisionsKept(s, e)
<1>1. Len(s.sets) \in Nat
  BY RunStateParts DEF WellTyped
<1>2. \A j \in 1..Len(s.sets) : SetSound(e.sets[j], e.act) /\ SetKept(s.sets[j], e.sets[j])
  BY SetStaysSound
<1>3. ASSUME NEW k \in 1..Len(s.sources), e.sources[k].open
      PROVE  ~e.sets[e.sources[k].set].decided
  <2>1. s.sources[k].set \in 1..Len(s.sets) /\ ~s.sets[s.sources[k].set].decided
    BY <1>3 DEF WellTyped, SetsKnown, SetsSound
  <2> QED BY <1>3, <2>1
<1> QED BY <1>1, <1>2, <1>3 DEF SetsSound, DecisionsKept

(* Nothing happens to the sets.                                              *)
LEMMA NoSetChanges ==
  ASSUME NEW s, WellTyped(s), SetsSound(s), NEW e, OverStays(s, e), SameSets(s, e)
  PROVE  SetsSound(e) /\ DecisionsKept(s, e)
<1>1. Len(s.sets) \in Nat
  BY RunStateParts DEF WellTyped
<1>2. \A j \in 1..Len(s.sets) : SetSound(s.sets[j], e.act) /\ SetKept(s.sets[j], s.sets[j])
  BY SetStaysSound
<1> QED BY <1>1, <1>2 DEF SetsSound, DecisionsKept, SameSets

(* A set, its branches and its iterators are added.                          *)
LEMMA SetIsAdded ==
  ASSUME NEW s, WellTyped(s), SetsSound(s), NEW m, NEW n, NEW k, Extended(s, m, n, k)
  PROVE  SetsSound(m) /\ DecisionsKept(s, m) /\ OverStays(s, m)
<1>1. /\ Len(s.act) \in Nat /\ Len(m.act) \in Nat /\ Len(s.sets) \in Nat /\ Len(m.sets) \in Nat
      /\ Len(s.sources) \in Nat /\ Len(m.sources) \in Nat
      /\ Len(s.act) <= Len(m.act) /\ Len(s.sets) <= Len(m.sets)
      /\ \A a \in 1..Len(s.act) : m.act[a] = s.act[a]
      /\ \A i \in 1..Len(s.sets) : m.sets[i] = s.sets[i]
  BY ExtendedParts
<1>2. OverStays(s, m)
  BY <1>1 DEF OverStays
<1>3. \A j \in 1..Len(s.sets) : SetSound(s.sets[j], m.act) /\ SetKept(s.sets[j], s.sets[j])
  BY <1>2, SetStaysSound
<1>4. DecisionsKept(s, m)
  BY <1>1, <1>3 DEF DecisionsKept
<1>5. CASE n = 0 /\ k = 0
  BY <1>2, <1>5, NoSetChanges DEF Extended
<1>6. CASE n # 0 \/ k # 0
  <2> DEFINE g == Len(s.sets) + 1
  <2>1. /\ Len(m.sets) = g /\ Opened(m.sets[g], Len(s.act), n)
        /\ Len(m.sources) = Len(s.sources) + k /\ k \in Nat
        /\ \A i \in 1..Len(s.sources) : m.sources[i] = s.sources[i]
        /\ \A i \in (Len(s.sources) + 1)..Len(m.sources) : m.sources[i].set = g
    BY <1>6 DEF Extended
  <2>2. SetSound(m.sets[g], m.act) /\ ~m.sets[g].decided
    BY <2>1 DEF Opened, SetSound, NoOutcome
  <2>3. \A i \in 1..Len(m.sets) : i \in 1..Len(s.sets) \/ i = g
    BY <1>1, <2>1
  <2>4. ASSUME NEW i \in 1..Len(m.sources), m.sources[i].open
        PROVE  ~m.sets[m.sources[i].set].decided
    <3>1. CASE i \in 1..Len(s.sources)
      <4>1. s.sources[i].set \in 1..Len(s.sets) /\ (s.sources[i].open => ~s.sets[s.sources[i].set].decided)
        BY <3>1 DEF WellTyped, SetsKnown, SetsSound
      <4> QED BY <1>1, <2>1, <2>4, <3>1, <4>1
    <3>2. CASE i \in (Len(s.sources) + 1)..Len(m.sources)
      BY <2>1, <2>2, <3>2
    <3> QED BY <1>1, <3>1, <3>2
  <2>5. \A i \in 1..Len(m.sets) : SetSound(m.sets[i], m.act)
    BY <1>1, <1>3, <2>2, <2>3
  <2>6. SetsSound(m)
    BY <2>4, <2>5 DEF SetsSound
  <2> QED BY <1>2, <1>4, <2>6
<1>7. n \in Nat /\ k \in Nat
  BY DEF Extended
<1> QED BY <1>2, <1>4, <1>5, <1>6

(* What a move of the running process does to the sets, and to the           *)
(* activations that are over.                                                *)
SetsMove(s, e) == SetsSound(e) /\ DecisionsKept(s, e)

LEMMA QuietMoves ==
  ASSUME TypeInv, QueueInv, DecisionInv, status # "failed"
  PROVE  /\ (Accepted /\ AllReturned) \/ Interrupted => SetsMove(st, st')
         /\ \A i : Started(i) \/ Returned(i) => SetsMove(st, st')
<1>1. WellTyped(st) /\ SetsSound(st) /\ Len(st.act) \in Nat /\ st \in RunStates
  BY TypeParts DEF TypeInv, DecisionInv
<1>2. ASSUME Accepted
      PROVE  SetsMove(st, st')
  <2>1. st'.act = st.act /\ SameSets(st, st')
    BY <1>1, <1>2 DEF Accepted, RunStates, SameSets
  <2>2. OverStays(st, st')
    BY <1>1, <2>1 DEF OverStays
  <2> QED BY <1>1, <2>1, <2>2, NoSetChanges DEF SetsMove
<1>3. ASSUME Interrupted
      PROVE  SetsMove(st, st')
  <2>1. \A a \in Waiting : st.act[a].phase = "running"
    BY <1>3, WaitingRuns
  <2>2. SameSets(st, st') /\ Len(st'.act) = Len(st.act)
        /\ \A a \in 1..Len(st.act) : st'.act[a].phase = st.act[a].phase \/ a \in Waiting
    BY <1>3 DEF Interrupted, Rephased
  <2>3. OverStays(st, st')
    BY <1>1, <2>1, <2>2 DEF OverStays, Over
  <2> QED BY <1>1, <2>2, <2>3, NoSetChanges DEF SetsMove
<1>4. ASSUME NEW i, Started(i)
      PROVE  SetsMove(st, st')
  <2> DEFINE a == batch[i].act
  <2>1. SameSets(st, st') /\ Len(st'.act) = Len(st.act) /\ st.act[a].phase = "ready"
        /\ \A c \in 1..Len(st.act) : c # a => st'.act[c] = st.act[c]
    BY <1>4 DEF Started, InPhaseNow, Rephased
  <2> HIDE DEF a
  <2>2. OverStays(st, st')
    BY <1>1, <2>1 DEF OverStays, Over
  <2> QED BY <1>1, <2>1, <2>2, NoSetChanges DEF SetsMove
<1>5. ASSUME NEW i, Returned(i)
      PROVE  SetsMove(st, st')
  <2>1. OnlyTicks(st, st')
    BY <1>1, <1>5, ClockFields DEF Returned
  <2>2. st'.act = st.act /\ SameSets(st, st')
    BY <2>1 DEF OnlyTicks
  <2>3. OverStays(st, st')
    BY <1>1, <2>2 DEF OverStays
  <2> QED BY <1>1, <2>2, <2>3, NoSetChanges DEF SetsMove
<1> QED BY <1>2, <1>3, <1>4, <1>5

LEMMA PullKeepsDecisions ==
  ASSUME TypeInv, QueueInv, DecisionInv, status # "failed", NEW i, NEW g, NEW b, Pulled(i, g, b)
  PROVE  SetsMove(st, st')
<1>1. WellTyped(st) /\ SetsSound(st) /\ Len(st.act) \in Nat /\ st \in RunStates
  BY TypeParts DEF TypeInv, DecisionInv
<1>2. /\ i \in 1..Len(st.sources) /\ g \in 1..Len(st.sets) /\ st.sources[i].open /\ st.sources[i].set = g
      /\ st.sets[g] \in SourceSets
  BY PullingParts DEF Pulled
<1>3. /\ Len(st'.act) = Len(st.act) + 1 /\ \A a \in 1..Len(st.act) : st'.act[a] = st.act[a]
  BY DEF Pulled, Adds
<1>4. /\ Len(st'.sets) = Len(st.sets) /\ \A j \in 1..Len(st.sets) : j # g => st'.sets[j] = st.sets[j]
      /\ WithBranch(st.sets[g], st'.sets[g], b) /\ Len(st'.sources) = Len(st.sources)
      /\ \A j \in 1..Len(st.sources) : /\ st'.sources[j].set = st.sources[j].set
                                       /\ st'.sources[j].open = st.sources[j].open
  BY DEF Pulled
<1>5. OverStays(st, st')
  BY <1>1, <1>3 DEF OverStays
<1>6. SetSound(st.sets[g], st'.act) /\ ~st.sets[g].decided
  BY <1>1, <1>2, <1>5, SetStaysSound DEF SetsSound
<1>7. SetSound(st'.sets[g], st'.act) /\ SetKept(st.sets[g], st'.sets[g]) /\ ~st'.sets[g].decided
  <2> DEFINE x == st.sets[g]  y == st'.sets[g]
  <2>1. /\ DOMAIN y.out = DOMAIN x.out \cup {b} /\ y.out[b].phase = "none" /\ ~y.out[b].committed
        /\ \A c \in DOMAIN x.out : c # b => y.out[c] = x.out[c]
        /\ y.selected = x.selected /\ y.decided = x.decided /\ y.failed = x.failed
    BY <1>4 DEF WithBranch, NoOutcome
  <2>2. b \notin DOMAIN x.out
    <3>1. b = Len(st.act) + 1 /\ b \notin 1..Len(st.act)
      BY <1>1 DEF Pulled
    <3>2. \A c \in DOMAIN x.out : c \in 1..Len(st.act)
      BY <1>1, <1>2, SetRefs
    <3> HIDE DEF x
    <3> QED BY <3>1, <3>2
  <2> HIDE DEF x, y
  <2>3. SetSound(x, st'.act) /\ ~x.decided
    BY <1>6 DEF x
  <2>4. SetSound(y, st'.act) /\ SetKept(x, y) /\ ~y.decided
    BY <2>1, <2>2, <2>3 DEF SetSound, SetKept
  <2> QED BY <2>4 DEF x, y
<1> QED BY <1>1, <1>2, <1>4, <1>5, <1>7, OneSetChanges DEF SetsMove

LEMMA EndKeepsDecisions ==
  ASSUME TypeInv, QueueInv, DecisionInv, status # "failed", NEW i, NEW g, Ended(i, g)
  PROVE  SetsMove(st, st')
<1>1. WellTyped(st) /\ SetsSound(st) /\ Len(st.act) \in Nat /\ st \in RunStates
  BY TypeParts DEF TypeInv, DecisionInv
<1>2. /\ i \in 1..Len(st.sources) /\ g \in 1..Len(st.sets) /\ st.sources[i].open /\ st.sources[i].set = g
  BY PullingParts DEF Ended
<1>3. st'.act = st.act /\ SetChange(st.sets, st'.sets, g)
      /\ st'.sets[g].decided = st.sets[g].decided /\ st'.sets[g].selected = st.sets[g].selected
      /\ (st'.sets[g].failed = st.sets[g].failed \/ st'.sets[g].failed)
  BY DEF Ended
<1>4. /\ Len(st'.sources) = Len(st.sources)
      /\ \A k \in 1..Len(st.sources) : /\ st'.sources[k].set = st.sources[k].set
                                       /\ st'.sources[k].open => st.sources[k].open
  <2>1. CASE /\ st'.sources[i] = [st.sources[i] EXCEPT !.open = FALSE]
             /\ \A j \in 1..Len(st.sources) : j # i => st'.sources[j] = st.sources[j]
    <3>1. st.sources[i] \in Sources
      BY <1>2, RunStateParts, <1>1
    <3>2. st'.sources[i].open = FALSE
      BY <2>1, <3>1 DEF Sources
    <3> QED BY <2>1, <3>2 DEF Ended, SameOwners
  <2>2. CASE ClosedSources(st.sources, st'.sources, g)
    BY <2>2 DEF ClosedSources
  <2> QED BY <2>1, <2>2 DEF Ended
<1>5. OverStays(st, st')
  BY <1>1, <1>3 DEF OverStays
<1>6. SetSound(st.sets[g], st'.act) /\ ~st.sets[g].decided
  BY <1>1, <1>2, <1>5, SetStaysSound DEF SetsSound
<1>7. SetSound(st'.sets[g], st'.act) /\ SetKept(st.sets[g], st'.sets[g]) /\ ~st'.sets[g].decided
  BY <1>3, <1>6 DEF SetSound, SetKept, SetChange
<1>8. Len(st'.sets) = Len(st.sets) /\ \A j \in 1..Len(st.sets) : j # g => st'.sets[j] = st.sets[j]
  BY <1>3 DEF SetChange
<1> QED BY <1>1, <1>2, <1>4, <1>5, <1>7, <1>8, OneSetChanges DEF SetsMove

(* The outcome of a branch that was not over is set.                         *)
LEMMA OutcomeKeepsDecisions ==
  ASSUME NEW s, WellTyped(s), SetsSound(s), NEW e, OverStays(s, e), NEW g, NEW b, NEW o,
         OutcomeSet(s.sets, e.sets, g, b, o), e.sources = s.sources, b \in DOMAIN s.sets[g].out,
         e.act[b].phase \in Over, s.sets[g].out[b].committed => o.committed
  PROVE  SetsSound(e) /\ DecisionsKept(s, e)
<1> DEFINE x == s.sets[g]  y == e.sets[g]
<1>1. /\ g \in 1..Len(s.sets) /\ Len(e.sets) = Len(s.sets)
      /\ \A j \in 1..Len(s.sets) : j # g => e.sets[j] = s.sets[j]
      /\ y.selected = x.selected /\ y.decided = x.decided /\ y.failed = x.failed
      /\ DOMAIN y.out = DOMAIN x.out /\ y.out[b] = o
      /\ \A c \in DOMAIN x.out : c # b => y.out[c] = x.out[c]
  BY DEF OutcomeSet
<1>2. SetSound(x, e.act)
  BY <1>1, SetStaysSound
<1>3. b \in DOMAIN x.out /\ (x.out[b].committed => o.committed)
  OBVIOUS
<1>a. \A k \in 1..Len(s.sources) : s.sources[k].open /\ s.sources[k].set = g => ~x.decided
  BY DEF SetsSound
<1> HIDE DEF x, y
<1>4. SetSound(y, e.act) /\ SetKept(x, y)
  <2>1. x.decided => ~x.failed
    BY <1>2 DEF SetSound
  <2> QED BY <1>1, <1>2, <1>3, <2>1 DEF SetSound, SetKept
<1>5. SetSound(e.sets[g], e.act) /\ SetKept(s.sets[g], e.sets[g])
  BY <1>4 DEF x, y
<1>6. \A k \in 1..Len(s.sources) :
         /\ e.sources[k].set = s.sources[k].set
         /\ e.sources[k].open => s.sources[k].open /\ (s.sources[k].set = g => ~e.sets[g].decided)
  BY <1>1, <1>a DEF y
<1> QED BY <1>1, <1>5, <1>6, OneSetChanges

LEMMA CommitKeepsDecisions ==
  ASSUME TypeInv, QueueInv, DecisionInv, status # "failed", NEW r, Committed(r)
  PROVE  SetsMove(st, st')
<1>1. WellTyped(st) /\ SetsSound(st) /\ Len(st.act) \in Nat /\ st \in RunStates
  BY TypeParts DEF TypeInv, DecisionInv
<1>2. r.act \in 1..Len(st.act) /\ st.act[r.act].phase \notin Over
  <2>1. r.act \in 1..Len(st.act) /\ st.queue # <<>> /\ Head(st.queue) = r.act
    BY HeadTodo, QueueIsNotEmpty DEF Committed
  <2>2. Head(st.queue) = st.queue[1] /\ 1 \in 1..Len(st.queue)
    <3>1. st.queue \in Seq(Nat)
      BY <1>1, RunStateParts
    <3> QED BY <2>1, <3>1, TailParts
  <2> QED BY <2>1, <2>2 DEF QueueInv, Once
<1>3. CASE Retried(r)
  <2>1. SameSets(st, st') /\ Len(st'.act) = Len(st.act)
        /\ \A c \in 1..Len(st.act) : c # r.act => st'.act[c] = st.act[c]
    BY <1>3 DEF Retried, Rephased
  <2>2. OverStays(st, st')
    BY <1>1, <1>2, <2>1 DEF OverStays
  <2> QED BY <1>1, <2>1, <2>2, NoSetChanges DEF SetsMove
<1>4. CASE BranchDone(r)
  <2> DEFINE g == SetOf(r)
  <2>1. /\ OutcomeSet(st.sets, st'.sets, g, r.act, OutcomeOf(r)) /\ st'.sources = st.sources
        /\ Len(st'.act) = Len(st.act) /\ st'.act[r.act].phase \in Over
        /\ \A c \in 1..Len(st.act) : c # r.act => st'.act[c] = st.act[c]
    BY <1>4 DEF BranchDone, Rephased
  <2>2. OverStays(st, st')
    BY <1>1, <1>2, <2>1 DEF OverStays
  <2>3. r.act \in DOMAIN st.sets[g].out /\ g \in 1..Len(st.sets)
    BY <1>1, <1>2, <1>4, BranchMember DEF BranchDone, SetOf
  <2>4. ~st.sets[g].out[r.act].committed
    BY <1>1, <1>2, <2>3 DEF SetsSound, SetSound
  <2> HIDE DEF g
  <2> QED BY <1>1, <2>1, <2>2, <2>3, <2>4, OutcomeKeepsDecisions DEF SetsMove
<1>5. CASE \E f, x, n, k : ActivationDone(r, f, x, n, k)
  <2>1. PICK f, x, n, k : ActivationDone(r, f, x, n, k)
    BY <1>5
  <2>2. /\ WellTyped(f) /\ Len(f.act) = Len(st.act) /\ SameSets(st, f) /\ Extended(f, x, n, k)
        /\ \A c \in 1..Len(st.act) : c # r.act => f.act[c] = st.act[c]
        /\ st'.act = x.act /\ SameSets(x, st')
    BY <2>1 DEF ActivationDone, Done, Rephased, Stepped
  <2>3. OverStays(st, f)
    BY <1>1, <1>2, <2>2 DEF OverStays
  <2>4. SetsSound(f) /\ DecisionsKept(st, f)
    BY <1>1, <2>2, <2>3, NoSetChanges
  <2>5. SetsSound(x) /\ DecisionsKept(f, x)
    BY <2>2, <2>4, SetIsAdded
  <2>6. x \in RunStates /\ f \in RunStates
    BY <2>2 DEF Extended, WellTyped
  <2>7. DecisionsKept(st, x)
    BY <1>1, <2>2, <2>4, <2>5, <2>6, KeptIsTransitive
  <2>8. SetsSound(st') /\ DecisionsKept(st, st')
    BY <2>2, <2>5, <2>7 DEF SetsSound, DecisionsKept, SameSets
  <2> QED BY <2>8 DEF SetsMove
<1> QED BY <1>3, <1>4, <1>5 DEF Committed

LEMMA DecideKeepsDecisions ==
  ASSUME TypeInv, QueueInv, DecisionInv, status # "failed", NEW s, NEW d, Resolved(s, d)
  PROVE  SetsMove(st, st')
<1>1. WellTyped(st) /\ SetsSound(st) /\ Len(st.act) \in Nat /\ st \in RunStates
  BY TypeParts DEF TypeInv, DecisionInv
<1>2. s \in 1..Len(st.sets) /\ st'.act = st.act /\ SetChange(st.sets, st'.sets, s)
  BY SettlingParts DEF Resolved
<1>3. OverStays(st, st')
  BY <1>1, <1>2 DEF OverStays
<1> DEFINE x == st.sets[s]  y == st'.sets[s]
<1>4. SetSound(x, st'.act)
  BY <1>1, <1>2, <1>3, SetStaysSound
<1>5. /\ ~x.decided /\ ~x.failed /\ y.decided = ~d.failed /\ y.failed = d.failed /\ y.selected = d.selected
      /\ Decides(x, d) /\ y.out = x.out
  BY DEF Resolved, SetChange
<1>6. InPhase(x, {"completed"}) \subseteq {b \in DOMAIN x.out : x.out[b].phase = "completed"}
  BY <1>1, <1>2 DEF InPhase, WellTyped, SetsKnown
<1>7. /\ Len(st'.sets) = Len(st.sets) /\ \A j \in 1..Len(st.sets) : j # s => st'.sets[j] = st.sets[j]
      /\ Len(st'.sources) = Len(st.sources)
      /\ \A k \in 1..Len(st.sources) :
           /\ st'.sources[k].set = st.sources[k].set
           /\ st'.sources[k].open => st.sources[k].open /\ st.sources[k].set # s
  BY DEF Resolved, SetChange, ClosedSources
<1> HIDE DEF x, y
<1>8. SetSound(y, st'.act) /\ SetKept(x, y)
  <2>1. \A k \in 1..Len(y.selected) : st'.act[y.selected[k]].phase \in Over
    BY <1>4, <1>5, <1>6 DEF Decides, SetSound
  <2> QED BY <1>4, <1>5, <2>1 DEF SetSound, SetKept, Decides
<1>9. SetSound(st'.sets[s], st'.act) /\ SetKept(st.sets[s], st'.sets[s])
  BY <1>8 DEF x, y
<1> QED BY <1>1, <1>2, <1>3, <1>7, <1>9, OneSetChanges DEF SetsMove

LEMMA ClearKeepsDecisions ==
  ASSUME TypeInv, QueueInv, DecisionInv, status # "failed", NEW s
  PROVE  /\ \A i : Canceled(s, i) => SetsMove(st, st')
         /\ \A b : Superseded(s, b) => SetsMove(st, st')
<1>1. WellTyped(st) /\ SetsSound(st) /\ Len(st.act) \in Nat /\ st \in RunStates
  BY TypeParts DEF TypeInv, DecisionInv
<1>2. ASSUME NEW i, Canceled(s, i)
      PROVE  SetsMove(st, st')
  <2> DEFINE b == st.queue[i]
  <2>1. /\ OutcomeSet(st.sets, st'.sets, s, b, Cancellation) /\ st'.sources = st.sources
        /\ Len(st'.act) = Len(st.act) /\ st'.act[b].phase \in Over /\ st.act[b].phase = "ready"
        /\ b \in 1..Len(st.act) /\ st.act[b].set = s
        /\ \A c \in 1..Len(st.act) : c # b => st'.act[c] = st.act[c]
    BY <1>2 DEF Canceled, Rephased, Over
  <2> HIDE DEF b
  <2>2. OverStays(st, st')
    BY <1>1, <2>1 DEF OverStays
  <2>3. s \in 1..Len(st.sets) /\ b \in DOMAIN st.sets[s].out
    <3>1. s \in 1..Len(st.sets)
      BY <2>1 DEF OutcomeSet
    <3> QED BY <1>1, <2>1, <3>1 DEF WellTyped, SetsKnown
  <2>4. ~st.sets[s].out[b].committed
    BY <1>1, <2>1, <2>3 DEF SetsSound, SetSound, Over
  <2> QED BY <1>1, <2>1, <2>2, <2>3, <2>4, OutcomeKeepsDecisions DEF SetsMove
<1>3. ASSUME NEW b, Superseded(s, b)
      PROVE  SetsMove(st, st')
  <2> DEFINE o == [st.sets[s].out[b] EXCEPT !.phase = "superseded"]
  <2>1. /\ OutcomeSet(st.sets, st'.sets, s, b, o) /\ st'.sources = st.sources /\ st'.act = st.act
        /\ b \in Members(st.sets[s]) /\ st.sets[s].out[b].phase = "completed" /\ s \in 1..Len(st.sets)
    BY <1>3 DEF Superseded, OutcomeSet
  <2>2. OverStays(st, st')
    BY <1>1, <2>1 DEF OverStays
  <2>3. b \in DOMAIN st.sets[s].out /\ st.sets[s] \in SourceSets
    BY <1>1, <2>1, RunStateParts DEF WellTyped, SetsKnown
  <2>4. st.sets[s].out[b] \in Outcomes
    BY <2>3, OutcomeMapIsFunction DEF SourceSets
  <2>5. o.committed = st.sets[s].out[b].committed
    BY <2>4 DEF Outcomes
  <2>6. st'.act[b].phase \in Over
    BY <1>1, <2>1, <2>3 DEF SetsSound, SetSound
  <2> HIDE DEF o
  <2> QED BY <1>1, <2>1, <2>2, <2>3, <2>5, <2>6, OutcomeKeepsDecisions DEF SetsMove
<1> QED BY <1>2, <1>3

LEMMA ReleaseKeepsDecisions ==
  ASSUME TypeInv, QueueInv, DecisionInv, status # "failed", NEW s, NEW b, NEW c, NEW x, BranchReleased(s, b, c, x)
  PROVE  SetsMove(st, st')
<1>1. WellTyped(st) /\ SetsSound(st) /\ Len(st.act) \in Nat /\ st \in RunStates
  BY TypeParts DEF TypeInv, DecisionInv
<1>2. /\ WellTyped(c) /\ c.act = st.act /\ c.sets = st.sets /\ c.sources = st.sources
      /\ (\E n, k : Extended(c, x, n, k)) /\ WellTyped(x) /\ Settling(s)
  BY ReleasedParts
<1>3. SetsSound(c) /\ DecisionsKept(st, c)
  <2>1. OverStays(st, c)
    BY <1>1, <1>2 DEF OverStays
  <2> QED BY <1>1, <1>2, <2>1, NoSetChanges DEF SameSets
<1>4. PICK n, k : Extended(c, x, n, k)
  BY <1>2
<1>5. SetsSound(x) /\ DecisionsKept(c, x) /\ OverStays(c, x)
  BY <1>2, <1>3, <1>4, SetIsAdded
<1>6. c \in RunStates /\ x \in RunStates /\ DecisionsKept(st, x)
  <2>1. c \in RunStates /\ x \in RunStates
    BY <1>2 DEF WellTyped
  <2> QED BY <1>1, <1>3, <1>5, <2>1, KeptIsTransitive
<1> DEFINE o == [st.sets[s].out[b] EXCEPT !.committed = TRUE]
<1>7. /\ OutcomeSet(x.sets, st'.sets, s, b, o) /\ st'.sources = x.sources /\ st'.act = x.act
      /\ b \in Members(st.sets[s]) /\ b \in Selected(s) /\ st' \in RunStates
  BY DEF BranchReleased
<1>8. s \in 1..Len(st.sets) /\ st.sets[s] \in SourceSets /\ x.sets[s] = st.sets[s]
      /\ b \in DOMAIN st.sets[s].out /\ b \in 1..Len(st.act)
  <2>1. s \in 1..Len(st.sets)
    BY <1>2, SettlingParts
  <2>2. x.sets[s] = c.sets[s]
    BY <1>2, <1>4, <2>1, ExtendedParts
  <2>3. DOMAIN st.sets[s].out = Members(st.sets[s]) /\ \A a \in Members(st.sets[s]) : a \in 1..Len(st.act)
    BY <1>1, <2>1 DEF WellTyped, SetsKnown
  <2> QED BY <1>1, <1>2, <1>7, <2>1, <2>2, <2>3, RunStateParts
<1>9. o.committed
  <2>1. st.sets[s].out[b] \in Outcomes
    BY <1>8, OutcomeMapIsFunction DEF SourceSets
  <2> QED BY <2>1 DEF Outcomes
<1>10. st'.act[b].phase \in Over
  <2>1. \E h \in DOMAIN st.sets[s].selected : st.sets[s].selected[h] = b
    BY <1>7 DEF Selected, ToSet
  <2>2. DOMAIN st.sets[s].selected = 1..Len(st.sets[s].selected)
    BY <1>8, SeqParts DEF SourceSets
  <2>3. st.act[b].phase \in Over
    BY <1>1, <1>8, <2>1, <2>2 DEF SetsSound, SetSound
  <2> QED BY <1>2, <1>5, <1>7, <1>8, <2>3 DEF OverStays
<1>11. OverStays(x, st')
  BY <1>6, <1>7, RunStateParts DEF OverStays
<1> HIDE DEF o
<1>12. SetsSound(st') /\ DecisionsKept(x, st')
  BY <1>2, <1>5, <1>7, <1>8, <1>9, <1>10, <1>11, OutcomeKeepsDecisions
<1>13. DecisionsKept(st, st')
  BY <1>1, <1>6, <1>7, <1>12, KeptIsTransitive
<1> QED BY <1>12, <1>13 DEF SetsMove

LEMMA SettleSetKeepsDecisions ==
  ASSUME TypeInv, QueueInv, DecisionInv, status # "failed", NEW s, NEW c, NEW x, Settling(s), SetSettled(s, c, x)
  PROVE  SetsMove(st, st')
<1>1. WellTyped(st) /\ SetsSound(st) /\ Len(st.act) \in Nat /\ st \in RunStates
  BY TypeParts DEF TypeInv, DecisionInv
<1>2. s \in 1..Len(st.sets) /\ st.sets[s] \in SourceSets
  BY SettlingParts
<1>3. /\ c.act = st.act /\ SameSets(st, c) /\ SameSets(c, x) /\ st'.act = x.act /\ st'.sources = x.sources
      /\ x \in RunStates /\ \E n \in Nat : Adds(c, x, n)
      /\ Len(st'.sets) = Len(st.sets) /\ \A j \in 1..Len(st.sets) : j # s => st'.sets[j] = st.sets[j]
      /\ st'.sets[s] = [st.sets[s] EXCEPT !.settled = TRUE]
  BY DEF SetSettled, OnlyCloses, Grown
<1>4. OverStays(st, st')
  <2>1. PICK n \in Nat : Adds(c, x, n)
    BY <1>3
  <2>2. Len(x.act) = Len(st.act) + n /\ \A a \in 1..Len(st.act) : x.act[a] = st.act[a]
    BY <1>3, <2>1 DEF Adds
  <2> QED BY <1>1, <1>3, <2>2 DEF OverStays
<1>5. SetSound(st.sets[s], st'.act) /\ SetKept(st.sets[s], st.sets[s])
  BY <1>1, <1>2, <1>4, SetStaysSound
<1> DEFINE u == st.sets[s]  y == st'.sets[s]
<1>6. y.out = u.out /\ y.selected = u.selected /\ y.decided = u.decided /\ y.failed = u.failed
  BY <1>2, <1>3 DEF SourceSets
<1>7. SetSound(y, st'.act) /\ SetKept(u, y)
  <2> HIDE DEF u, y
  <2>1. SetSound(u, st'.act) /\ SetKept(u, u)
    BY <1>5 DEF u
  <2> QED BY <1>6, <2>1 DEF SetSound, SetKept
<1>8. \A k \in 1..Len(st.sources) :
         /\ st'.sources[k].set = st.sources[k].set
         /\ st'.sources[k].open => st.sources[k].open /\ (st.sources[k].set = s => ~y.decided)
  BY <1>1, <1>3, <1>6 DEF SameSets, SetsSound
<1>9. Len(st'.sources) = Len(st.sources)
  BY <1>3 DEF SameSets
<1> QED BY <1>1, <1>2, <1>3, <1>4, <1>7, <1>8, <1>9, OneSetChanges DEF SetsMove

LEMMA RunningMoves ==
  ASSUME TypeInv, QueueInv, DecisionInv, status # "failed",
         \/ Accepted /\ AllReturned
         \/ Interrupted
         \/ \E i : Started(i)
         \/ \E i : Returned(i)
         \/ \E i, g, b : Pulled(i, g, b)
         \/ \E i, g : Ended(i, g)
         \/ \E r : Committed(r)
         \/ \E s : Settling(s) /\ SettleStep(s)
  PROVE  SetsMove(st, st') /\ saved' \in {saved, st'}
<1>1. CASE Accepted /\ AllReturned
  BY <1>1, QuietMoves DEF Accepted
<1>2. CASE Interrupted
  BY <1>2, QuietMoves DEF Interrupted
<1>3. CASE \E i : Started(i)
  BY <1>3, QuietMoves DEF Started
<1>4. CASE \E i : Returned(i)
  BY <1>4, QuietMoves DEF Returned
<1>5. CASE \E i, g, b : Pulled(i, g, b)
  <2>1. PICK i, g, b : Pulled(i, g, b)
    BY <1>5
  <2>2. saved' = st'
    BY <2>1 DEF Pulled
  <2> QED BY <2>1, <2>2, PullKeepsDecisions
<1>6. CASE \E i, g : Ended(i, g)
  BY <1>6, EndKeepsDecisions DEF Ended
<1>7. CASE \E r : Committed(r)
  BY <1>7, CommitKeepsDecisions, CommitParts
<1>8. CASE \E s : Settling(s) /\ SettleStep(s)
  <2>1. PICK s : Settling(s) /\ SettleStep(s)
    BY <1>8
  <2>2. \A d : Resolved(s, d) => SetsMove(st, st') /\ saved' \in {saved, st'}
    BY DecideKeepsDecisions DEF Resolved
  <2>3. \A i : Canceled(s, i) => SetsMove(st, st') /\ saved' \in {saved, st'}
    BY ClearKeepsDecisions DEF Canceled
  <2>4. \A b : Superseded(s, b) => SetsMove(st, st') /\ saved' \in {saved, st'}
    BY ClearKeepsDecisions DEF Superseded
  <2>5. \A b, c, x : BranchReleased(s, b, c, x) => SetsMove(st, st') /\ saved' \in {saved, st'}
    BY ReleaseKeepsDecisions DEF BranchReleased
  <2>6. \A c, x : SetSettled(s, c, x) => SetsMove(st, st') /\ saved' \in {saved, st'}
    BY <2>1, SettleSetKeepsDecisions DEF SetSettled
  <2> QED BY <2>1, <2>2, <2>3, <2>4, <2>5, <2>6 DEF SettleStep
<1> QED BY <1>1, <1>2, <1>3, <1>4, <1>5, <1>6, <1>7, <1>8

(* A resume reads the sets back as they were saved.                          *)
LEMMA RestartKeepsDecisions ==
  ASSUME TypeInv, DecisionInv, status # "failed", Restarted
  PROVE  SetsMove(saved, st') /\ saved' = st'
<1>1. WellTyped(saved) /\ SetsSound(saved) /\ Resumed(saved, st') /\ saved' = st' /\ Len(saved.act) \in Nat
      /\ Len(saved.sets) \in Nat /\ saved \in RunStates
  BY RunStateParts DEF TypeInv, DecisionInv, Restarted, WellTyped
<1>2. OverStays(saved, st')
  BY <1>1 DEF OverStays, Resumed, Rephased, Over
<1>3. /\ Len(st'.sets) = Len(saved.sets)
      /\ \A i \in 1..Len(saved.sets) : Reread(saved.sets[i], st'.sets[i])
      /\ Len(st'.sources) = Len(saved.sources)
      /\ \A i \in 1..Len(saved.sources) : /\ st'.sources[i].set = saved.sources[i].set
                                          /\ st'.sources[i].open = saved.sources[i].open
  BY <1>1 DEF Resumed, Rebound
<1>4. ASSUME NEW i \in 1..Len(saved.sets)
      PROVE  SetSound(st'.sets[i], st'.act) /\ SetKept(saved.sets[i], st'.sets[i])
  <2> DEFINE x == saved.sets[i]  y == st'.sets[i]
  <2>1. SetSound(x, st'.act) /\ SetKept(x, x) /\ Reread(x, y)
    BY <1>1, <1>2, <1>3, SetStaysSound
  <2> HIDE DEF x, y
  <2>2. SetSound(y, st'.act) /\ SetKept(x, y)
    BY <2>1 DEF SetSound, SetKept, Reread
  <2> QED BY <2>2 DEF x, y
<1>5. ASSUME NEW k \in 1..Len(saved.sources), st'.sources[k].open
      PROVE  ~st'.sets[st'.sources[k].set].decided
  <2> DEFINE g == saved.sources[k].set
  <2>1. g \in 1..Len(saved.sets) /\ ~saved.sets[g].decided /\ st'.sources[k].set = g
    BY <1>1, <1>3, <1>5 DEF WellTyped, SetsKnown, SetsSound
  <2> HIDE DEF g
  <2>2. ~st'.sets[g].decided
    BY <1>3, <2>1 DEF Reread
  <2> QED BY <2>1, <2>2
<1>6. SetsSound(st')
  <2>1. \A i \in 1..Len(st'.sets) : SetSound(st'.sets[i], st'.act)
    BY <1>3, <1>4
  <2>2. \A k \in 1..Len(st'.sources) : st'.sources[k].open => ~st'.sets[st'.sources[k].set].decided
    BY <1>3, <1>5
  <2> QED BY <2>1, <2>2 DEF SetsSound
<1>7. DecisionsKept(saved, st')
  BY <1>1, <1>3, <1>4 DEF DecisionsKept
<1> QED BY <1>1, <1>6, <1>7 DEF SetsMove

LEMMA MovesKeepDecisions ==
  ASSUME TypeInv, TypeInv', QueueInv, DecisionInv, Moves, status # "failed"
  PROVE  DecisionsKept(saved, saved') /\ DecisionInv'
<1>1. /\ WellTyped(st) /\ WellTyped(saved) /\ st \in RunStates /\ saved \in RunStates /\ st' \in RunStates
      /\ SetsSound(st) /\ SetsSound(saved) /\ DecisionsKept(saved, st)
  BY DEF TypeInv, WellTyped, DecisionInv
<1>2. DecisionsKept(saved, saved) /\ DecisionsKept(st, st)
  BY <1>1, KeptIsReflexive
<1>3. ASSUME SetsMove(st, st'), saved' \in {saved, st'}
      PROVE  DecisionsKept(saved, saved') /\ DecisionInv'
  <2>1. SetsSound(st') /\ DecisionsKept(saved, st')
    BY <1>1, <1>3, KeptIsTransitive DEF SetsMove
  <2>2. DecisionsKept(st', st')
    BY <2>1, KeptIsReflexive DEF TypeInv
  <2>3. CASE saved' = saved
    BY <1>1, <1>2, <2>1, <2>3 DEF DecisionInv
  <2>4. CASE saved' = st'
    BY <2>1, <2>2, <2>4 DEF DecisionInv
  <2> QED BY <1>3, <2>3, <2>4
<1>4. CASE Stays \/ (Scheduled /\ pc = "schedule")
  <2>1. st' = st /\ saved' \in {saved, st'}
    BY <1>4 DEF Stays, Scheduled
  <2>2. SetsMove(st, st')
    BY <1>1, <1>2, <2>1 DEF SetsMove
  <2> QED BY <1>3, <2>1, <2>2
<1>5. CASE Crashed
  BY <1>1, <1>2, <1>5 DEF Crashed, DecisionInv
<1>6. CASE Restarted
  <2>1. SetsSound(st') /\ DecisionsKept(saved, st') /\ saved' = st'
    BY <1>6, RestartKeepsDecisions DEF SetsMove
  <2>2. DecisionsKept(st', st')
    BY <2>1, KeptIsReflexive DEF TypeInv
  <2> QED BY <2>1, <2>2 DEF DecisionInv
<1>7. CASE Failed
  <2>1. status' = "failed" /\ saved' = st' /\ st'.sets = st.sets
    BY <1>7 DEF Failed, SameSets
  <2> QED BY <1>1, <2>1 DEF DecisionInv, DecisionsKept
<1>8. CASE \/ Accepted /\ AllReturned
           \/ Interrupted
           \/ \E i : Started(i)
           \/ \E i : Returned(i)
           \/ \E i, g, b : Pulled(i, g, b)
           \/ \E i, g : Ended(i, g)
           \/ \E r : Committed(r)
           \/ \E s : Settling(s) /\ SettleStep(s)
  BY <1>3, <1>8, RunningMoves
<1> QED BY <1>4, <1>5, <1>6, <1>7, <1>8 DEF Moves

LEMMA InitDecisions ==
  ASSUME Init
  PROVE  DecisionInv
<1>1. TypeInv
  BY InitTypes
<1>2. saved = st /\ Len(st.sets) = 0 /\ Len(st.sources) = 0
  <2>1. PICK entry \in Entries : st = Fresh(entry)
    BY DEF Init
  <2>2. st.sets = <<>> /\ st.sources = <<>>
    BY <2>1 DEF Fresh
  <2> QED BY <2>2, EmptyParts DEF Init
<1> QED BY <1>2 DEF DecisionInv, SetsSound, DecisionsKept

THEOREM Decisions == Spec => []DecisionInv
<1>1. Init => DecisionInv
  BY InitDecisions
<1>2. TypeInv /\ TypeInv' /\ QueueInv /\ DecisionInv /\ [Next]_vars => DecisionInv'
  <2> SUFFICES ASSUME TypeInv, TypeInv', QueueInv, DecisionInv, Moves
               PROVE  DecisionInv'
    BY StepsMove
  <2>1. CASE status' = "failed"
    BY <2>1 DEF DecisionInv
  <2>2. CASE status' # "failed"
    <3>1. status # "failed"
      BY <2>2, NotFailedBefore
    <3> QED BY <3>1, MovesKeepDecisions
  <2> QED BY <2>1, <2>2
<1> QED BY <1>1, <1>2, Types, Queues, PTL DEF Spec

THEOREM DecisionsStayFinal == Spec => DecisionsAreFinal
<1>1. TypeInv /\ TypeInv' /\ QueueInv /\ DecisionInv /\ [Next]_vars =>
        [status # "failed" => \A i \in DOMAIN saved.sets :
           LET old == saved.sets[i]
               new == saved'.sets[i]
           IN /\ old.decided => new.decided /\ ~new.failed /\ new.selected = old.selected
              /\ old.failed => new.failed
              /\ \A b \in Members(old) : old.out[b].committed => new.out[b].committed]_vars
  <2> SUFFICES ASSUME TypeInv, TypeInv', QueueInv, DecisionInv, Moves, status # "failed",
                      NEW i \in DOMAIN saved.sets
               PROVE  LET old == saved.sets[i]
                          new == saved'.sets[i]
                      IN /\ old.decided => new.decided /\ ~new.failed /\ new.selected = old.selected
                         /\ old.failed => new.failed
                         /\ \A b \in Members(old) : old.out[b].committed => new.out[b].committed
    BY StepsMove
  <2>1. DecisionsKept(saved, saved')
    BY MovesKeepDecisions
  <2>2. WellTyped(saved) /\ DOMAIN saved.sets = 1..Len(saved.sets)
    BY RunStateParts DEF TypeInv, WellTyped
  <2>3. SetKept(saved.sets[i], saved'.sets[i]) /\ DOMAIN saved.sets[i].out = Members(saved.sets[i])
    BY <2>1, <2>2 DEF DecisionsKept, WellTyped, SetsKnown
  <2> QED BY <2>3 DEF SetKept
<1> QED BY <1>1, Types, Queues, Decisions, PTL DEF Spec, DecisionsAreFinal

-----------------------------------------------------------------------------
(* The WorkflowContext *)

(* q is how p begins.                                                        *)
Begins(q, p) == Len(q) <= Len(p) /\ \A i \in 1..Len(q) : p[i] = q[i]

(* What an attempt set is the context it found, followed by itself, as long  *)
(* as nobody has committed since.                                            *)
SetsFound(r, s) == r.base # 0 => r.base = s.revision /\ r.context = Append(s.context, r.act)

MaySetLater(r, s) ==
  r.base # 0 => r.base <= s.revision /\ (r.base = s.revision => r.context = Append(s.context, r.act))

(* The checkpoint's context is how the process's begins, and no update at    *)
(* hand is ahead of it.                                                      *)
ContextInv ==
  status # "failed" =>
    /\ Begins(saved.context, st.context)
    /\ pc = "start" => \A i \in 1..Len(batch) : batch[i].base = 0
    /\ pc = "execute" => \A i \in 1..Len(batch) : SetsFound(batch[i], st)
    /\ pc = "commit" => \A k \in 1..Len(todo) : MaySetLater(todo[k], st)

LEMMA BeginsParts ==
  ASSUME NEW q \in Seq(Nat), NEW p \in Seq(Nat), NEW r \in Seq(Nat), NEW x \in Nat
  PROVE  /\ Begins(q, q) /\ Begins(q, Append(q, x))
         /\ Begins(q, p) /\ Begins(p, r) => Begins(q, r)
<1>1. Len(q) \in Nat /\ Len(p) \in Nat /\ Len(r) \in Nat
  BY SeqParts
<1>2. Len(Append(q, x)) = Len(q) + 1 /\ \A i \in 1..Len(q) : Append(q, x)[i] = q[i]
  OBVIOUS
<1>3. Begins(q, q) /\ Begins(q, Append(q, x))
  BY <1>1, <1>2 DEF Begins
<1>4. ASSUME Begins(q, p), Begins(p, r)
      PROVE  Begins(q, r)
  <2>1. Len(q) <= Len(r) /\ \A i \in 1..Len(q) : i \in 1..Len(p)
    BY <1>1, <1>4 DEF Begins
  <2> QED BY <1>4, <2>1 DEF Begins
<1> QED BY <1>3, <1>4

LEMMA BeginsIsPrefix ==
  ASSUME NEW q \in Seq(Nat), NEW p \in Seq(Nat), Begins(q, p)
  PROVE  IsPrefix(q, p)
<1>1. Len(q) \in Nat /\ Len(p) \in Nat /\ Len(q) <= Len(p) /\ \A i \in 1..Len(q) : p[i] = q[i]
  BY SeqParts DEF Begins
<1>2. /\ SubSeq(q, 1, Len(q)) \in Seq(Nat) /\ Len(SubSeq(q, 1, Len(q))) = Len(q)
      /\ \A i \in 1..Len(q) : SubSeq(q, 1, Len(q))[i] = q[i]
  BY <1>1, SubSeqFrom1
<1>3. /\ SubSeq(p, 1, Len(q)) \in Seq(Nat) /\ Len(SubSeq(p, 1, Len(q))) = Len(q)
      /\ \A i \in 1..Len(q) : SubSeq(p, 1, Len(q))[i] = p[i]
  <2>1. Len(q) \in 0..Len(p)
    BY <1>1
  <2> QED BY <2>1, SubSeqFrom1
<1> DEFINE u == SubSeq(q, 1, Len(q))  v == SubSeq(p, 1, Len(q))
<1> HIDE DEF u, v
<1>4. u \in Seq(Nat) /\ v \in Seq(Nat) /\ Len(u) = Len(v) /\ \A i \in 1..Len(u) : u[i] = v[i]
  BY <1>1, <1>2, <1>3 DEF u, v
<1>5. u = v
  BY <1>4, SeqEqual
<1> QED BY <1>1, <1>5 DEF IsPrefix, u, v

(* What the commit of result r does to the context.                          *)
LEMMA ContextOfCommit ==
  ASSUME TypeInv, ContextInv, status # "failed", NEW r, Committing(r), MayCommitContext(r),
         NEW e, ContextDone(r, e)
  PROVE  /\ Begins(st.context, e.context)
         /\ \A k \in 1..Len(todo) : MaySetLater(todo[k], e)
<1>1. /\ st.context \in Seq(Nat) /\ st.revision \in Nat /\ todo[1] = r /\ 1 \in 1..Len(todo) /\ pc = "commit"
      /\ r.act \in Nat /\ r.base \in Nat /\ \A k \in 1..Len(todo) : todo[k] \in Results
  BY TypeParts, HeadTodo DEF RunStates, Results
<1>2. \A k \in 1..Len(todo) : MaySetLater(todo[k], st)
  BY <1>1 DEF ContextInv
<1>3. CASE r.base = 0
  <2>1. e.context = st.context /\ e.revision = st.revision
    BY <1>3 DEF ContextDone
  <2> QED BY <1>1, <1>2, <2>1, BeginsParts DEF MaySetLater
<1>4. CASE r.base # 0
  <2>1. r.base = st.revision
    BY <1>4 DEF MayCommitContext
  <2>2. e.context = Append(st.context, r.act) /\ e.revision = st.revision + 1
    BY <1>1, <1>2, <1>4, <2>1 DEF ContextDone, MaySetLater
  <2>3. Begins(st.context, e.context)
    BY <1>1, <2>2, BeginsParts
  <2>4. ASSUME NEW k \in 1..Len(todo)
        PROVE  MaySetLater(todo[k], e)
    <3> DEFINE b == todo[k].base
    <3>1. b \in Nat /\ (b # 0 => b <= st.revision)
      BY <1>1, <1>2 DEF Results, MaySetLater
    <3> HIDE DEF b
    <3>2. b # 0 => b <= e.revision /\ b # e.revision
      BY <1>1, <2>2, <3>1
    <3> QED BY <3>2 DEF MaySetLater, b
  <2> QED BY <2>3, <2>4
<1> QED BY <1>3, <1>4

SameContext(s, e) == e.context = s.context /\ e.revision = s.revision

LEMMA SavedBegins ==
  ASSUME TypeInv, TypeInv', Begins(saved.context, st.context), Begins(st.context, st'.context),
         saved' \in {saved, st'}
  PROVE  Begins(saved.context, saved'.context) /\ Begins(saved'.context, st'.context)
<1>1. saved.context \in Seq(Nat) /\ st.context \in Seq(Nat) /\ st'.context \in Seq(Nat)
  BY DEF TypeInv, WellTyped, RunStates
<1>2. Begins(saved.context, st'.context)
  BY <1>1, BeginsParts
<1>3. Begins(saved.context, saved.context) /\ Begins(st'.context, st'.context)
  BY <1>1, BeginsParts
<1> QED BY <1>2, <1>3

LEMMA SettlingKeepsContext ==
  ASSUME TypeInv, NEW s, Settling(s), SettleStep(s)
  PROVE  SameContext(st, st') /\ saved' \in {saved, st'} /\ todo' = todo /\ pc' = pc
<1>1. CASE \E d : Resolved(s, d)
  BY <1>1 DEF Resolved, SameContext, SameCounters
<1>2. CASE \E i : Canceled(s, i)
  BY <1>2 DEF Canceled, SameContext
<1>3. CASE \E b : Superseded(s, b)
  BY <1>3 DEF Superseded, SameContext, SameCounters
<1>4. CASE \E b, c, x : BranchReleased(s, b, c, x)
  <2>1. PICK b, c, x : BranchReleased(s, b, c, x)
    BY <1>4
  <2>2. \E n, k : Extended(c, x, n, k)
    BY <2>1, ReleasedParts
  <2>3. SameCounters(st, c) /\ SameCounters(c, x) /\ SameCounters(x, st')
    BY <2>1, <2>2 DEF BranchReleased, OnlyCloses, Extended
  <2> QED BY <2>1, <2>3 DEF SameCounters, SameContext, BranchReleased
<1>5. CASE \E c, x : SetSettled(s, c, x)
  BY <1>5 DEF SetSettled, OnlyCloses, Grown, SameCounters, SameContext
<1> QED BY <1>1, <1>2, <1>3, <1>4, <1>5 DEF SettleStep

(* What a move does to the context.                                          *)
LEMMA CommittedContext ==
  ASSUME TypeInv, ContextInv, status # "failed", NEW r, Committed(r)
  PROVE  /\ Begins(st.context, st'.context) /\ saved' = st' /\ todo' = Tail(todo) /\ pc' = pc
         /\ \A k \in 1..Len(todo) : MaySetLater(todo[k], st')
<1>1. Committing(r) /\ pc = "commit" /\ st.context \in Seq(Nat)
  BY TypeParts, HeadTodo DEF Committed, RunStates
<1>2. \A k \in 1..Len(todo) : MaySetLater(todo[k], st)
  BY <1>1 DEF ContextInv
<1>3. CASE Retried(r)
  <2>1. st'.context = st.context /\ st'.revision = st.revision
        /\ saved' = st' /\ todo' = Tail(todo) /\ pc' = pc
    BY <1>3 DEF Retried
  <2>2. Begins(st.context, st.context)
    BY <1>1, BeginsParts
  <2> QED BY <1>2, <2>1, <2>2 DEF MaySetLater
<1>4. CASE BranchDone(r) /\ MayCommitContext(r)
  BY <1>1, <1>4, ContextOfCommit DEF BranchDone
<1>5. CASE \E f, x, n, k : ActivationDone(r, f, x, n, k)
  <2>1. PICK f, x, n, k : ActivationDone(r, f, x, n, k)
    BY <1>5
  <2>2. Begins(st.context, f.context) /\ \A i \in 1..Len(todo) : MaySetLater(todo[i], f)
    BY <1>1, <2>1, ContextOfCommit DEF ActivationDone
  <2>3. st'.context = f.context /\ st'.revision = f.revision
    BY <2>1 DEF ActivationDone, Extended, Stepped, SameCounters
  <2>4. saved' = st' /\ todo' = Tail(todo) /\ pc' = pc
    BY <2>1 DEF ActivationDone
  <2> QED BY <2>2, <2>3, <2>4 DEF MaySetLater
<1> QED BY <1>3, <1>4, <1>5 DEF Committed

LEMMA OtherContexts ==
  ASSUME TypeInv
  PROVE  /\ Accepted \/ Interrupted \/ Scheduled => SameContext(st, st') /\ saved' \in {saved, st'}
         /\ Stays => SameContext(st, st') /\ saved' \in {saved, st'}
         /\ \A i : Started(i) \/ Returned(i) => SameContext(st, st') /\ saved' \in {saved, st'}
         /\ \A i, g : Ended(i, g) => SameContext(st, st') /\ saved' \in {saved, st'}
         /\ \A i, g, b : Pulled(i, g, b) => SameContext(st, st') /\ saved' \in {saved, st'}
<1>1. st \in RunStates
  BY TypeParts
<1>2. Accepted => SameContext(st, st') /\ saved' \in {saved, st'}
  BY <1>1 DEF Accepted, RunStates, SameContext
<1>3. Interrupted => SameContext(st, st') /\ saved' \in {saved, st'}
  BY DEF Interrupted, SameContext, SameCounters
<1>4. Scheduled => SameContext(st, st') /\ saved' \in {saved, st'}
  BY DEF Scheduled, SameContext
<1>5. Stays => SameContext(st, st') /\ saved' \in {saved, st'}
  BY DEF Stays, SameContext
<1>6. ASSUME NEW i, Started(i)
      PROVE  SameContext(st, st') /\ saved' \in {saved, st'}
  BY <1>6 DEF Started, InPhaseNow, SameContext, SameCounters
<1>7. ASSUME NEW i, Returned(i)
      PROVE  SameContext(st, st') /\ saved' \in {saved, st'}
  <2>1. OnlyTicks(st, st')
    BY <1>1, <1>7, ClockFields DEF Returned
  <2> QED BY <1>7, <2>1 DEF OnlyTicks, Returned, SameContext
<1>8. ASSUME NEW i, NEW g, Ended(i, g)
      PROVE  SameContext(st, st') /\ saved' \in {saved, st'}
  <2>1. SameCounters(st, st') /\ saved' = st'
    BY <1>8 DEF Ended
  <2> QED BY <2>1 DEF SameContext, SameCounters
<1>9. ASSUME NEW i, NEW g, NEW b, Pulled(i, g, b)
      PROVE  SameContext(st, st') /\ saved' \in {saved, st'}
  <2>1. SameCounters(st, st') /\ saved' = st'
    BY <1>9 DEF Pulled
  <2> QED BY <2>1 DEF SameContext, SameCounters
<1> QED BY <1>2, <1>3, <1>4, <1>5, <1>6, <1>7, <1>8, <1>9

(* Whatever happens, the saved context begins the one saved next.            *)
LEMMA MovesKeepContext ==
  ASSUME TypeInv, TypeInv', ContextInv, Moves, status # "failed"
  PROVE  /\ Begins(saved.context, saved'.context)
         /\ status' # "failed" => Begins(saved'.context, st'.context)
<1>1. saved.context \in Seq(Nat) /\ st.context \in Seq(Nat) /\ st'.context \in Seq(Nat)
      /\ Begins(saved.context, st.context)
  BY DEF TypeInv, WellTyped, RunStates, ContextInv
<1>2. ASSUME Begins(st.context, st'.context), saved' \in {saved, st'}
      PROVE  Begins(saved.context, saved'.context) /\ Begins(saved'.context, st'.context)
  BY <1>1, <1>2, SavedBegins
<1>3. Begins(st.context, st.context) /\ Begins(saved.context, saved.context)
  BY <1>1, BeginsParts
<1>4. ASSUME SameContext(st, st'), saved' \in {saved, st'}
      PROVE  Begins(saved.context, saved'.context) /\ Begins(saved'.context, st'.context)
  BY <1>2, <1>3, <1>4 DEF SameContext
<1>5. CASE Stays \/ Interrupted \/ (Scheduled /\ pc = "schedule") \/ (Accepted /\ AllReturned)
  BY <1>4, <1>5, OtherContexts
<1>6. CASE (\E i : Started(i)) \/ (\E i : Returned(i)) \/ (\E i, g : Ended(i, g))
           \/ (\E i, g, b : Pulled(i, g, b))
  BY <1>4, <1>6, OtherContexts
<1>7. CASE \E s : Settling(s) /\ SettleStep(s)
  BY <1>4, <1>7, SettlingKeepsContext
<1>8. CASE \E r : Committed(r)
  BY <1>2, <1>8, CommittedContext
<1>9. CASE Crashed
  BY <1>3, <1>9 DEF Crashed
<1>10. CASE Restarted
  <2>1. st'.context = saved.context /\ saved' = st'
    BY <1>10 DEF Restarted, Resumed, SameCounters
  <2> QED BY <1>3, <2>1
<1>11. CASE Failed
  <2>1. saved' = st' /\ status' = "failed"
    BY <1>11 DEF Failed
  <2>2. Begins(st.context, st'.context)
    <3>1. CASE st'.context = st.context
      BY <1>3, <3>1
    <3>2. CASE \E r : Committing(r) /\ MayCommitContext(r) /\ ContextDone(r, st')
      BY <3>2, ContextOfCommit
    <3> QED BY <1>11, <3>1, <3>2 DEF Failed
  <2> QED BY <1>2, <2>1, <2>2
<1> QED BY <1>5, <1>6, <1>7, <1>8, <1>9, <1>10, <1>11 DEF Moves

LEMMA IdleKeepsContext ==
  ASSUME status' # "failed" => Begins(saved.context, st.context)',
         (batch' = <<>> /\ todo' = <<>>) \/ (pc' \in {"schedule", "ended"})
  PROVE  ContextInv'
<1>1. batch' = <<>> /\ todo' = <<>> => Len(batch') = 0 /\ Len(todo') = 0
  BY EmptyParts
<1> QED BY <1>1 DEF ContextInv

LEMMA BatchKeepsContext ==
  ASSUME TypeInv, TypeInv', ContextInv, status # "failed", Begins(saved.context, st.context)'
  PROVE  /\ Scheduled => ContextInv'
         /\ \A i : Started(i) => ContextInv'
         /\ \A i : Returned(i) => ContextInv'
<1>1. ASSUME Scheduled
      PROVE  ContextInv'
  BY <1>1 DEF Scheduled, ContextInv
<1>2. ASSUME NEW i, Started(i)
      PROVE  ContextInv'
  <2>1. batch' = batch /\ pc = "start" /\ pc' \in {"start", "execute"}
    BY <1>2 DEF Started
  <2>2. \A j \in 1..Len(batch) : batch[j].base = 0
    BY <2>1 DEF ContextInv
  <2> QED BY <2>1, <2>2 DEF ContextInv, SetsFound
<1>3. ASSUME NEW i, Returned(i)
      PROVE  ContextInv'
  <2>1. SameContext(st, st')
    BY <1>3, OtherContexts
  <2>2. /\ pc = "execute" /\ pc' = "execute" /\ Len(batch') = Len(batch)
        /\ \A j \in 1..Len(batch) : j # i => batch'[j] = batch[j]
        /\ batch'[i].act = batch[i].act
        /\ batch'[i].base # 0 => /\ batch'[i].base = st.revision
                                 /\ batch'[i].context = Append(st.context, batch[i].act)
    BY <1>3 DEF Returned
  <2>3. \A j \in 1..Len(batch) : SetsFound(batch[j], st)
    BY <2>2 DEF ContextInv
  <2>4. \A j \in 1..Len(batch) : SetsFound(batch'[j], st)
    BY <2>2, <2>3 DEF SetsFound
  <2>5. \A j \in 1..Len(batch) : SetsFound(batch'[j], st')
    BY <2>1, <2>4 DEF SetsFound, SameContext
  <2> QED BY <2>2, <2>5 DEF ContextInv
<1> QED BY <1>1, <1>2, <1>3

LEMMA AcceptKeepsContext ==
  ASSUME TypeInv, QueueInv, ContextInv, status # "failed", Accepted, AllReturned,
         Begins(saved.context, st.context)'
  PROVE  ContextInv'
<1>1. pc = "execute" /\ pc' = "commit" /\ todo' = Kept /\ SameContext(st, st')
      /\ \A i \in 1..Len(batch) : batch[i].act = st.queue[i]
  BY OtherContexts DEF Accepted, QueueInv
<1>2. \A k \in 1..Len(Kept) : \E i \in 1..Len(batch) : Kept[k] = batch[i] /\ batch[i].answer # "interrupted"
  BY <1>1, AcceptPermutes
<1>3. \A i \in 1..Len(batch) : SetsFound(batch[i], st)
  BY <1>1 DEF ContextInv
<1>4. st.revision \in Nat
  BY TypeParts DEF RunStates
<1>5. \A i \in 1..Len(batch) : MaySetLater(batch[i], st)
  BY <1>3, <1>4 DEF SetsFound, MaySetLater
<1>6. \A k \in 1..Len(todo') : MaySetLater(todo'[k], st)
  BY <1>1, <1>2, <1>5
<1>7. \A k \in 1..Len(todo') : MaySetLater(todo'[k], st')
  BY <1>1, <1>6 DEF MaySetLater, SameContext
<1> QED BY <1>1, <1>7 DEF ContextInv

LEMMA CommitKeepsContext ==
  ASSUME TypeInv, ContextInv, status # "failed", NEW r, Committed(r), Begins(saved.context, st.context)'
  PROVE  ContextInv'
<1>1. todo' = Tail(todo) /\ pc' = pc /\ \A k \in 1..Len(todo) : MaySetLater(todo[k], st')
  BY CommittedContext
<1>2. pc = "commit" /\ todo \in Seq(Results) /\ todo # <<>>
  BY HeadTodo, TypeParts DEF Committed
<1>3. /\ Len(Tail(todo)) = Len(todo) - 1 /\ Len(todo) \in Nat \ {0}
      /\ \A i \in 1..(Len(todo) - 1) : Tail(todo)[i] = todo[i + 1]
  BY <1>2, TailParts
<1>4. ASSUME NEW k \in 1..Len(todo')
      PROVE  MaySetLater(todo'[k], st')
  <2>1. k \in 1..(Len(todo) - 1) /\ k + 1 \in 1..Len(todo)
    BY <1>1, <1>3
  <2> QED BY <1>1, <1>3, <2>1
<1> QED BY <1>1, <1>2, <1>4 DEF ContextInv

LEMMA MovesKeepContextInv ==
  ASSUME TypeInv, TypeInv', QueueInv, ContextInv, Moves
  PROVE  ContextInv'
<1> SUFFICES ASSUME status' # "failed"
             PROVE  ContextInv'
  BY DEF ContextInv
<1>1. status # "failed"
  BY NotFailedBefore
<1>2. Begins(saved.context, st.context)'
  BY <1>1, MovesKeepContext
<1>3. pc = "schedule" => batch = <<>> /\ todo = <<>>
  BY DEF TypeInv, ControlInv
<1>4. CASE Crashed \/ Restarted
  BY <1>2, <1>4, IdleKeepsContext DEF Crashed, Restarted
<1>5. CASE Interrupted
  BY <1>2, <1>5, IdleKeepsContext DEF Interrupted
<1>6. CASE Stays
  <2>1. CASE UNCHANGED vars
    BY <1>2, <2>1 DEF vars, ContextInv, SetsFound, MaySetLater
  <2>2. CASE (\E s : Settling(s)) /\ UNCHANGED <<status, pc, batch>>
    <3>1. todo' = <<>> /\ pc' = "commit"
      BY <1>6, <2>2 DEF Stays, Settling
    <3>2. Len(todo') = 0
      BY <3>1, EmptyParts
    <3> QED BY <1>2, <3>1, <3>2 DEF ContextInv
  <2>3. CASE pc' \in {"schedule", "ended"}
    BY <1>2, <2>3, IdleKeepsContext
  <2> QED BY <1>6, <2>1, <2>2, <2>3 DEF Stays
<1>7. CASE (\E i, g, b : Pulled(i, g, b))
  <2>1. pc = "schedule" /\ pc' = pc
    BY <1>7 DEF Pulled, Pulling
  <2> QED BY <1>2, <2>1, IdleKeepsContext
<1>8. CASE (\E i, g : Ended(i, g))
  <2>1. pc = "schedule" /\ UNCHANGED <<batch, todo>>
    BY <1>8 DEF Ended
  <2> QED BY <1>2, <1>3, <2>1, IdleKeepsContext
<1>9. CASE \E s : Settling(s) /\ SettleStep(s)
  <2>1. todo' = <<>> /\ pc' = "commit"
    BY <1>9, SettlingKeepsContext DEF Settling
  <2>2. Len(todo') = 0
    BY <2>1, EmptyParts
  <2> QED BY <1>2, <2>1, <2>2 DEF ContextInv
<1>10. CASE (Scheduled /\ pc = "schedule") \/ (\E i : Started(i)) \/ (\E i : Returned(i))
  BY <1>1, <1>2, <1>10, BatchKeepsContext
<1>11. CASE Accepted /\ AllReturned
  BY <1>1, <1>2, <1>11, AcceptKeepsContext
<1>12. CASE \E r : Committed(r)
  BY <1>1, <1>2, <1>12, CommitKeepsContext
<1>13. ~Failed
  BY DEF Failed
<1> QED BY <1>4, <1>5, <1>6, <1>7, <1>8, <1>9, <1>10, <1>11, <1>12, <1>13 DEF Moves

LEMMA InitContext ==
  ASSUME Init
  PROVE  ContextInv
<1>1. saved = st /\ batch = <<>> /\ todo = <<>> /\ st.context \in Seq(Nat)
  BY InitTypes, TypeParts DEF Init, RunStates
<1>2. Len(batch) = 0 /\ Len(todo) = 0
  BY <1>1, EmptyParts
<1> QED BY <1>1, <1>2, BeginsParts DEF ContextInv

THEOREM Contexts == Spec => []ContextInv
<1>1. Init => ContextInv
  BY InitContext
<1>2. TypeInv /\ TypeInv' /\ QueueInv /\ ContextInv /\ [Next]_vars => ContextInv'
  BY StepsMove, MovesKeepContextInv
<1> QED BY <1>1, <1>2, Types, Queues, PTL DEF Spec

THEOREM UpdatesAreKept == Spec => NoUpdateIsLost
<1>1. TypeInv /\ TypeInv' /\ ContextInv /\ [Next]_vars =>
        [status # "failed" => IsPrefix(saved.context, saved'.context)]_vars
  <2> SUFFICES ASSUME TypeInv, TypeInv', ContextInv, Moves, status # "failed"
               PROVE  IsPrefix(saved.context, saved'.context)
    BY StepsMove
  <2>1. Begins(saved.context, saved'.context)
    BY MovesKeepContext
  <2>2. saved.context \in Seq(Nat) /\ saved'.context \in Seq(Nat)
    BY DEF TypeInv, WellTyped, RunStates
  <2> QED BY <2>1, <2>2, BeginsIsPrefix
<1> QED BY <1>1, Types, Contexts, PTL DEF Spec, NoUpdateIsLost

-----------------------------------------------------------------------------
(* The items of the iterators *)

(* The branches of iterator i are the items it has yielded, one each.        *)
ItemsOf(s, i) ==
  LET x == s.sources[i]
  IN /\ x.at = x.pulled
     /\ \A a \in 1..Len(s.act) : s.act[a].source = i =>
          s.act[a].set = x.set /\ s.act[a].node = x.of.target /\ s.act[a].item \in 1..x.pulled
     /\ \A a, b \in 1..Len(s.act) :
          s.act[a].source = i /\ s.act[b].source = i /\ s.act[a].item = s.act[b].item => a = b
     /\ \A k \in 1..x.pulled : \E a \in 1..Len(s.act) : s.act[a].source = i /\ s.act[a].item = k

(* The iterators of set g that are not at their end                          *)
OpenOf(s, g) == {k \in 1..Len(s.sources) : s.sources[k].set = g /\ s.sources[k].open}

(* A set counts its open iterators, and is not settled while there are any.  *)
OpenSound(s) ==
  /\ \A g \in 1..Len(s.sets) : s.sets[g].open = Cardinality(OpenOf(s, g))
  /\ \A k \in 1..Len(s.sources) : s.sources[k].open => ~s.sets[s.sources[k].set].settled

SourcesSound(s) == (\A i \in 1..Len(s.sources) : ItemsOf(s, i)) /\ OpenSound(s)

SourceInv == SourcesSound(st) /\ SourcesSound(saved)

(* What every step leaves of an iterator but for the pull of an item         *)
SameItems(x, y) == y.set = x.set /\ y.of = x.of /\ y.pulled = x.pulled /\ y.at \in {x.at, x.pulled}

LEMMA ItemsStay ==
  ASSUME NEW s, NEW e, Rephased(s.act, e.act), NEW i, ItemsOf(s, i), SameItems(s.sources[i], e.sources[i])
  PROVE  ItemsOf(e, i)
<1> DEFINE x == s.sources[i]  y == e.sources[i]
<1>1. y.set = x.set /\ y.of = x.of /\ y.pulled = x.pulled /\ y.at = y.pulled
  BY DEF SameItems, ItemsOf
<1>2. /\ Len(e.act) = Len(s.act)
      /\ \A a \in 1..Len(s.act) : /\ e.act[a].source = s.act[a].source /\ e.act[a].item = s.act[a].item
                                  /\ e.act[a].set = s.act[a].set /\ e.act[a].node = s.act[a].node
  BY DEF Rephased, SameActivation
<1>3. /\ \A a \in 1..Len(s.act) : s.act[a].source = i =>
           s.act[a].set = x.set /\ s.act[a].node = x.of.target /\ s.act[a].item \in 1..x.pulled
      /\ \A a, b \in 1..Len(s.act) :
           s.act[a].source = i /\ s.act[b].source = i /\ s.act[a].item = s.act[b].item => a = b
      /\ \A k \in 1..x.pulled : \E a \in 1..Len(s.act) : s.act[a].source = i /\ s.act[a].item = k
  BY DEF ItemsOf
<1> HIDE DEF x, y
<1>4. /\ \A a \in 1..Len(e.act) : e.act[a].source = i =>
           e.act[a].set = y.set /\ e.act[a].node = y.of.target /\ e.act[a].item \in 1..y.pulled
      /\ \A a, b \in 1..Len(e.act) :
           e.act[a].source = i /\ e.act[b].source = i /\ e.act[a].item = e.act[b].item => a = b
      /\ \A k \in 1..y.pulled : \E a \in 1..Len(e.act) : e.act[a].source = i /\ e.act[a].item = k
  BY SMTT(30), <1>1, <1>2, <1>3
<1> QED BY <1>1, <1>4 DEF ItemsOf, y

(* The sets keep their open iterators and stay unsettled, but for set g.     *)
OpenKept(s, e, g) ==
  /\ Len(e.sets) = Len(s.sets) /\ Len(e.sources) = Len(s.sources)
  /\ \A j \in 1..Len(s.sets) : j # g => /\ e.sets[j].open = s.sets[j].open
                                        /\ e.sets[j].settled = s.sets[j].settled
  /\ \A k \in 1..Len(s.sources) : /\ e.sources[k].set = s.sources[k].set
                                  /\ s.sources[k].set # g => e.sources[k].open = s.sources[k].open
  /\ g \in 1..Len(s.sets) => /\ e.sets[g].open = Cardinality(OpenOf(e, g))
                             /\ e.sets[g].settled => OpenOf(e, g) = {}

LEMMA OpenStays ==
  ASSUME NEW s, WellTyped(s), OpenSound(s), NEW e, NEW g, OpenKept(s, e, g)
  PROVE  OpenSound(e)
<1>1. ASSUME NEW j \in 1..Len(e.sets)
      PROVE  e.sets[j].open = Cardinality(OpenOf(e, j))
  <2>1. CASE j = g
    BY <2>1 DEF OpenKept
  <2>2. CASE j # g
    <3>1. OpenOf(e, j) = OpenOf(s, j) /\ e.sets[j].open = s.sets[j].open
      BY <2>2 DEF OpenOf, OpenKept
    <3>2. j \in 1..Len(s.sets)
      BY DEF OpenKept
    <3> QED BY <3>1, <3>2 DEF OpenSound
  <2> QED BY <2>1, <2>2
<1>2. ASSUME NEW k \in 1..Len(e.sources), e.sources[k].open
      PROVE  ~e.sets[e.sources[k].set].settled
  <2> DEFINE j == s.sources[k].set
  <2>1. j \in 1..Len(s.sets) /\ e.sources[k].set = j
    BY DEF WellTyped, SetsKnown, OpenKept
  <2>2. CASE j = g
    <3>1. k \in OpenOf(e, g)
      BY <1>2, <2>1, <2>2 DEF OpenOf
    <3> QED BY <2>1, <2>2, <3>1 DEF OpenKept
  <2>3. CASE j # g
    <3>1. s.sources[k].open /\ ~s.sets[j].settled
      BY <1>2, <2>3 DEF OpenSound, OpenKept
    <3> QED BY <2>1, <2>3, <3>1 DEF OpenKept
  <2> QED BY <2>2, <2>3
<1> QED BY <1>1, <1>2 DEF OpenSound

(* The iterators and the sets stay what they are, but for the outcomes.      *)
LEMMA SourcesStay ==
  ASSUME NEW s, WellTyped(s), SourcesSound(s), NEW e, Rephased(s.act, e.act), e.sources = s.sources,
         Len(e.sets) = Len(s.sets),
         \A j \in 1..Len(s.sets) : e.sets[j].open = s.sets[j].open /\ e.sets[j].settled = s.sets[j].settled
  PROVE  SourcesSound(e)
<1>1. \A i \in 1..Len(e.sources) : ItemsOf(e, i)
  BY ItemsStay DEF SourcesSound, SameItems
<1>2. OpenSound(e)
  <2>1. OpenKept(s, e, 0)
    BY DEF OpenKept
  <2> QED BY <2>1, OpenStays DEF SourcesSound
<1> QED BY <1>1, <1>2 DEF SourcesSound

LEMMA OutcomeKeepsSources ==
  ASSUME NEW s, WellTyped(s), SourcesSound(s), NEW e, Rephased(s.act, e.act), e.sources = s.sources,
         NEW g, NEW b, NEW o, OutcomeSet(s.sets, e.sets, g, b, o)
  PROVE  SourcesSound(e)
<1>1. /\ Len(e.sets) = Len(s.sets)
      /\ \A j \in 1..Len(s.sets) : e.sets[j].open = s.sets[j].open /\ e.sets[j].settled = s.sets[j].settled
  BY DEF OutcomeSet
<1> QED BY <1>1, SourcesStay

LEMMA SourcesAreAdded ==
  ASSUME NEW s, WellTyped(s), SourcesSound(s), NEW m, NEW n, NEW k, Extended(s, m, n, k)
  PROVE  SourcesSound(m)
<1>1. /\ Len(s.act) \in Nat /\ Len(m.act) \in Nat /\ Len(s.sets) \in Nat /\ Len(m.sets) \in Nat
      /\ Len(s.sources) \in Nat /\ Len(m.sources) \in Nat /\ n \in Nat /\ k \in Nat
      /\ Len(s.act) <= Len(m.act) /\ Len(s.sets) <= Len(m.sets) /\ Len(s.sources) <= Len(m.sources)
      /\ \A a \in 1..Len(s.act) : m.act[a] = s.act[a]
      /\ \A i \in 1..Len(s.sets) : m.sets[i] = s.sets[i]
      /\ \A i \in 1..Len(s.sources) : m.sources[i] = s.sources[i]
      /\ n = 0 /\ k = 0 => Len(m.sets) = Len(s.sets) /\ Len(m.sources) = Len(s.sources)
  BY ExtendedParts
<1>2. /\ \A a \in (Len(s.act) + 1)..Len(m.act) : m.act[a].source = 0
      /\ \A a \in 1..Len(s.act) : s.act[a].source <= Len(s.sources)
  BY DEF Extended, WellTyped, ActsKnown
<1>3. ASSUME NEW i \in 1..Len(s.sources)
      PROVE  ItemsOf(m, i)
  <2>1. ItemsOf(s, i) /\ m.sources[i] = s.sources[i]
    BY <1>1 DEF SourcesSound
  <2>2. \A a \in 1..Len(m.act) : m.act[a].source = i => a \in 1..Len(s.act)
    BY SMTT(30), <1>1, <1>2
  <2> DEFINE x == s.sources[i]  A == 1..Len(s.act)  M == 1..Len(m.act)
  <2>3. /\ x.at = x.pulled
        /\ \A a \in A : s.act[a].source = i =>
             s.act[a].set = x.set /\ s.act[a].node = x.of.target /\ s.act[a].item \in 1..x.pulled
        /\ \A a, b \in A :
             s.act[a].source = i /\ s.act[b].source = i /\ s.act[a].item = s.act[b].item => a = b
        /\ \A h \in 1..x.pulled : \E a \in A : s.act[a].source = i /\ s.act[a].item = h
    BY <2>1 DEF ItemsOf
  <2>4. /\ A \subseteq M /\ (\A a \in A : m.act[a] = s.act[a])
        /\ \A a \in M : m.act[a].source = i => a \in A
    BY <1>1, <2>2
  <2> HIDE DEF x, A, M
  <2>5. /\ x.at = x.pulled
        /\ \A a \in M : m.act[a].source = i =>
             m.act[a].set = x.set /\ m.act[a].node = x.of.target /\ m.act[a].item \in 1..x.pulled
    BY <2>3, <2>4
  <2>6. \A a, b \in M :
          m.act[a].source = i /\ m.act[b].source = i /\ m.act[a].item = m.act[b].item => a = b
    BY <2>3, <2>4
  <2>7. \A h \in 1..x.pulled : \E a \in M : m.act[a].source = i /\ m.act[a].item = h
    BY <2>3, <2>4
  <2> QED BY <2>1, <2>5, <2>6, <2>7 DEF ItemsOf, x, M
<1>4. CASE n = 0 /\ k = 0
  <2>1. \A i \in 1..Len(m.sources) : ItemsOf(m, i)
    BY <1>1, <1>3, <1>4
  <2>2. OpenKept(s, m, 0)
    BY <1>1, <1>4 DEF OpenKept
  <2>3. OpenSound(m)
    BY <2>2, OpenStays DEF SourcesSound
  <2> QED BY <2>1, <2>3 DEF SourcesSound
<1>5. CASE n # 0 \/ k # 0
  <2> DEFINE g == Len(s.sets) + 1
  <2>1. /\ Len(m.sets) = g /\ Opened(m.sets[g], Len(s.act), n) /\ m.sets[g].open = k
        /\ Len(m.sources) = Len(s.sources) + k
        /\ \A i \in (Len(s.sources) + 1)..Len(m.sources) :
             /\ m.sources[i].set = g /\ m.sources[i].open
             /\ m.sources[i].pulled = 0 /\ m.sources[i].at = 0
    BY <1>5 DEF Extended
  <2>2. g \notin 1..Len(s.sets) /\ (\A j \in 1..Len(m.sets) : j \in 1..Len(s.sets) \/ j = g)
        /\ \A i \in 1..Len(s.sources) : s.sources[i].set \in 1..Len(s.sets)
    BY <1>1, <2>1 DEF WellTyped, SetsKnown
  <2> HIDE DEF g
  <2>3. ASSUME NEW i \in (Len(s.sources) + 1)..Len(m.sources)
        PROVE  ItemsOf(m, i)
    <3>1. ASSUME NEW a \in 1..Len(m.act)
          PROVE  m.act[a].source # i
      <4>1. i > Len(s.sources) /\ i # 0 /\ i \in Nat
        BY <1>1
      <4>2. CASE a \in 1..Len(s.act)
        <5>1. s.act[a].source \in Nat /\ s.act[a].source <= Len(s.sources) /\ m.act[a] = s.act[a]
          BY <1>1, <1>2, <4>2, RunStateParts DEF WellTyped, Activations
        <5> QED BY <1>1, <4>1, <5>1
      <4>3. CASE a \in (Len(s.act) + 1)..Len(m.act)
        BY <1>2, <4>1, <4>3
      <4> QED BY <1>1, <4>2, <4>3
    <3>2. m.sources[i].pulled = 0 /\ m.sources[i].at = 0
      BY <2>1
    <3> QED BY <3>1, <3>2 DEF ItemsOf
  <2>4. \A i \in 1..Len(m.sources) : ItemsOf(m, i)
    BY <1>1, <1>3, <2>3
  <2>5. OpenOf(m, g) = (Len(s.sources) + 1)..(Len(s.sources) + k)
    <3>1. \A i \in 1..Len(s.sources) : m.sources[i].set # g
      BY <1>1, <2>2
    <3>2. \A i \in (Len(s.sources) + 1)..(Len(s.sources) + k) :
             i \in 1..Len(m.sources) /\ m.sources[i].set = g /\ m.sources[i].open
      BY <1>1, <2>1
    <3>3. \A i \in 1..Len(m.sources) : i \in 1..Len(s.sources) \/ i \in (Len(s.sources) + 1)..(Len(s.sources) + k)
      BY <1>1, <2>1
    <3> QED BY <3>1, <3>2, <3>3 DEF OpenOf
  <2>6. Cardinality(OpenOf(m, g)) = k
    <3> DEFINE l == Len(s.sources) + 1  h == Len(s.sources) + k
    <3>1. l \in Int /\ h \in Int /\ h - l + 1 = k /\ (l > h <=> k = 0)
      BY <1>1
    <3>2. Cardinality(l..h) = IF l > h THEN 0 ELSE h - l + 1
      BY <3>1, FS_Interval
    <3> HIDE DEF l, h
    <3>3. Cardinality(l..h) = k
      BY <3>1, <3>2
    <3> QED BY <2>5, <3>3 DEF l, h
  <2>7. ASSUME NEW j \in 1..Len(s.sets)
        PROVE  m.sets[j].open = Cardinality(OpenOf(m, j))
    <3>1. j # g
      BY <2>2
    <3> DEFINE S == 1..Len(s.sources)  M == 1..Len(m.sources)
    <3>2. /\ S \subseteq M /\ \A i \in S : m.sources[i] = s.sources[i]
      BY <1>1
    <3>3. ASSUME NEW i \in M, m.sources[i].set = j
          PROVE  i \in S
      <4>1. i \in S \/ i \in (Len(s.sources) + 1)..Len(m.sources)
        BY <1>1
      <4>2. i \in (Len(s.sources) + 1)..Len(m.sources) => m.sources[i].set = g
        BY <2>1
      <4> HIDE DEF S, M
      <4> QED BY <3>1, <3>3, <4>1, <4>2
    <3> HIDE DEF S, M
    <3>4. {i \in M : m.sources[i].set = j /\ m.sources[i].open} = {i \in S : s.sources[i].set = j /\ s.sources[i].open}
      BY <3>2, <3>3
    <3>5. OpenOf(m, j) = OpenOf(s, j)
      BY <3>4 DEF OpenOf, S, M
    <3> QED BY <1>1, <3>5 DEF SourcesSound, OpenSound
  <2>8. ASSUME NEW i \in 1..Len(m.sources), m.sources[i].open
        PROVE  ~m.sets[m.sources[i].set].settled
    <3>1. CASE i \in 1..Len(s.sources)
      <4>1. s.sources[i].set \in 1..Len(s.sets) /\ (s.sources[i].open => ~s.sets[s.sources[i].set].settled)
        BY <2>2, <3>1 DEF SourcesSound, OpenSound
      <4> QED BY <1>1, <2>8, <3>1, <4>1
    <3>2. CASE i \in (Len(s.sources) + 1)..Len(m.sources)
      BY <2>1, <3>2 DEF Opened
    <3> QED BY <1>1, <3>1, <3>2
  <2>9. OpenSound(m)
    BY <2>1, <2>2, <2>6, <2>7, <2>8 DEF OpenSound
  <2> QED BY <2>4, <2>9 DEF SourcesSound
<1> QED BY <1>1, <1>4, <1>5

(* The steps that pull no item and end no iterator                           *)
LEMMA QuietKeepsSources ==
  ASSUME TypeInv, SourcesSound(st)
  PROVE  /\ Accepted \/ Interrupted \/ Failed => SourcesSound(st')
         /\ \A i : Started(i) \/ Returned(i) => SourcesSound(st')
         /\ \A r : Retried(r) => SourcesSound(st')
<1>1. WellTyped(st) /\ Rephased(st.act, st.act) /\ st \in RunStates
  BY TypeParts, WellTypedParts DEF TypeInv
<1>2. ASSUME Rephased(st.act, st'.act), SameSets(st, st')
      PROVE  SourcesSound(st')
  <2>1. Len(st'.sets) = Len(st.sets) /\ st'.sources = st.sources
        /\ \A j \in 1..Len(st.sets) : st'.sets[j].open = st.sets[j].open /\ st'.sets[j].settled = st.sets[j].settled
    BY <1>2 DEF SameSets
  <2> QED BY <1>1, <1>2, <2>1, SourcesStay
<1>3. Accepted => Rephased(st.act, st'.act) /\ SameSets(st, st')
  BY <1>1 DEF Accepted, RunStates, SameSets
<1>4. Interrupted \/ Failed => Rephased(st.act, st'.act) /\ SameSets(st, st')
  BY DEF Interrupted, Failed
<1>5. \A i : Started(i) => Rephased(st.act, st'.act) /\ SameSets(st, st')
  BY DEF Started, InPhaseNow
<1>6. ASSUME NEW i, Returned(i)
      PROVE  Rephased(st.act, st'.act) /\ SameSets(st, st')
  <2>1. OnlyTicks(st, st')
    BY <1>1, <1>6, ClockFields DEF Returned
  <2> QED BY <1>1, <2>1 DEF OnlyTicks
<1>7. \A r : Retried(r) => Rephased(st.act, st'.act) /\ SameSets(st, st')
  BY DEF Retried
<1> QED BY <1>2, <1>3, <1>4, <1>5, <1>6, <1>7

LEMMA CommitKeepsSources ==
  ASSUME TypeInv, SourcesSound(st), NEW r, Committed(r)
  PROVE  SourcesSound(st')
<1>1. WellTyped(st)
  BY DEF TypeInv
<1>2. CASE Retried(r)
  BY <1>2, QuietKeepsSources
<1>3. CASE BranchDone(r)
  <2>1. OutcomeSet(st.sets, st'.sets, SetOf(r), r.act, OutcomeOf(r)) /\ st'.sources = st.sources
        /\ Rephased(st.act, st'.act)
    BY <1>3 DEF BranchDone
  <2> QED BY <1>1, <2>1, OutcomeKeepsSources
<1>4. CASE \E f, x, n, k : ActivationDone(r, f, x, n, k)
  <2>1. PICK f, x, n, k : ActivationDone(r, f, x, n, k)
    BY <1>4
  <2>2. /\ WellTyped(f) /\ Rephased(st.act, f.act) /\ SameSets(st, f) /\ Extended(f, x, n, k)
        /\ st'.act = x.act /\ SameSets(x, st')
    BY <2>1 DEF ActivationDone, Done, Stepped
  <2>3. Len(f.sets) = Len(st.sets) /\ f.sources = st.sources
        /\ \A j \in 1..Len(st.sets) : f.sets[j].open = st.sets[j].open /\ f.sets[j].settled = st.sets[j].settled
    BY <2>2 DEF SameSets
  <2>4. SourcesSound(f)
    BY <1>1, <2>2, <2>3, SourcesStay
  <2>5. SourcesSound(x)
    BY <2>2, <2>4, SourcesAreAdded
  <2>6. \A i : ItemsOf(x, i) => ItemsOf(st', i)
    BY <2>2 DEF ItemsOf, SameSets
  <2>7. \A g : OpenOf(st', g) = OpenOf(x, g)
    BY <2>2 DEF OpenOf, SameSets
  <2> QED BY <2>2, <2>5, <2>6, <2>7 DEF SourcesSound, OpenSound, SameSets
<1> QED BY <1>2, <1>3, <1>4 DEF Committed

(* An iterator yields its next item, which becomes a branch of its set.      *)
LEMMA PullKeepsSources ==
  ASSUME TypeInv, SourcesSound(st), NEW i, NEW g, NEW b, Pulled(i, g, b)
  PROVE  SourcesSound(st')
<1>1. WellTyped(st) /\ st \in RunStates /\ Len(st.act) \in Nat /\ Len(st.sources) \in Nat
  BY TypeParts, RunStateParts DEF TypeInv
<1>2. /\ i \in 1..Len(st.sources) /\ g \in 1..Len(st.sets) /\ st.sources[i] \in Sources
  BY PullingParts DEF Pulled
<1>3. /\ Len(st'.act) = Len(st.act) + 1 /\ \A a \in 1..Len(st.act) : st'.act[a] = st.act[a]
      /\ b = Len(st.act) + 1 /\ st'.act[b].source = i /\ st'.act[b].item = st.sources[i].at + 1
      /\ st'.act[b].node = st.sources[i].of.target /\ st'.act[b].set = g /\ g = st.sources[i].set
  BY DEF Pulled, Adds
<1>4. /\ Len(st'.sets) = Len(st.sets) /\ Len(st'.sources) = Len(st.sources)
      /\ \A j \in 1..Len(st.sources) : j # i => st'.sources[j] = st.sources[j]
      /\ \A j \in 1..Len(st.sets) : st'.sets[j].open = st.sets[j].open /\ st'.sets[j].settled = st.sets[j].settled
  BY DEF Pulled, WithBranch
<1> DEFINE x == st.sources[i]  y == st'.sources[i]
<1>5. y.set = x.set /\ y.of = x.of /\ y.pulled = x.pulled + 1 /\ y.at = x.at + 1 /\ y.open = x.open
      /\ x.pulled \in Nat
  BY <1>2 DEF Pulled, Sources
<1>6. OpenSound(st')
  <2>1. \A k \in 1..Len(st.sources) : st'.sources[k].set = st.sources[k].set /\ st'.sources[k].open = st.sources[k].open
    BY <1>4, <1>5
  <2> HIDE DEF x, y
  <2>2. OpenKept(st, st', 0)
    BY <1>4, <2>1 DEF OpenKept
  <2> QED BY <1>1, <2>2, OpenStays DEF SourcesSound
<1> DEFINE A == 1..Len(st.act)  M == 1..Len(st'.act)
<1>7. A \subseteq M /\ b \in M /\ b \notin A /\ \A a \in M : a \in A \/ a = b
  BY <1>1, <1>3
<1>8. \A a \in A : st'.act[a] = st.act[a]
  BY <1>3
<1>9. ASSUME NEW j \in 1..Len(st.sources), j # i
      PROVE  ItemsOf(st', j)
  <2> DEFINE u == st.sources[j]
  <2>1. /\ u.at = u.pulled
        /\ \A a \in A : st.act[a].source = j =>
             st.act[a].set = u.set /\ st.act[a].node = u.of.target /\ st.act[a].item \in 1..u.pulled
        /\ \A a, c \in A :
             st.act[a].source = j /\ st.act[c].source = j /\ st.act[a].item = st.act[c].item => a = c
        /\ \A h \in 1..u.pulled : \E a \in A : st.act[a].source = j /\ st.act[a].item = h
    BY DEF SourcesSound, ItemsOf
  <2>2. st'.sources[j] = u
    BY <1>4, <1>9
  <2> HIDE DEF u, A, M
  <2>3. \A a \in M : st'.act[a].source = j => a \in A
    BY <1>3, <1>7, <1>9
  <2>4. /\ u.at = u.pulled
        /\ \A a \in M : st'.act[a].source = j =>
             st'.act[a].set = u.set /\ st'.act[a].node = u.of.target /\ st'.act[a].item \in 1..u.pulled
    BY <1>8, <2>1, <2>3
  <2>5. \A a, c \in M :
             st'.act[a].source = j /\ st'.act[c].source = j /\ st'.act[a].item = st'.act[c].item => a = c
    BY <1>8, <2>1, <2>3
  <2>6. \A h \in 1..u.pulled : \E a \in M : st'.act[a].source = j /\ st'.act[a].item = h
    BY <1>7, <1>8, <2>1
  <2> QED BY <2>2, <2>4, <2>5, <2>6 DEF ItemsOf, M
<1>10. ItemsOf(st', i)
  <2> DEFINE p == x.pulled
  <2>1. /\ x.at = p
        /\ \A a \in A : st.act[a].source = i =>
             st.act[a].set = g /\ st.act[a].node = x.of.target /\ st.act[a].item \in 1..p
        /\ \A a, c \in A :
             st.act[a].source = i /\ st.act[c].source = i /\ st.act[a].item = st.act[c].item => a = c
        /\ \A h \in 1..p : \E a \in A : st.act[a].source = i /\ st.act[a].item = h
    BY <1>2, <1>3 DEF SourcesSound, ItemsOf
  <2>2. /\ p \in Nat /\ st'.act[b].item = p + 1 /\ st'.act[b].source = i /\ st'.act[b].set = g
        /\ st'.act[b].node = x.of.target /\ y.at = p + 1 /\ y.pulled = p + 1 /\ y.set = g /\ y.of = x.of
    BY <1>3, <1>5, <2>1
  <2>3. p + 1 \notin 1..p /\ 1..p \subseteq 1..(p + 1) /\ p + 1 \in 1..(p + 1)
        /\ \A h \in 1..(p + 1) : h \in 1..p \/ h = p + 1
    BY <2>2
  <2> DEFINE P == 1..p  Q == 1..(p + 1)  z == p + 1
  <2>4. z \notin P /\ P \subseteq Q /\ z \in Q /\ \A h \in Q : h \in P \/ h = z
    BY <2>3
  <2>5. /\ \A a \in A : st.act[a].source = i =>
             st.act[a].set = g /\ st.act[a].node = x.of.target /\ st.act[a].item \in P
        /\ \A a, c \in A :
             st.act[a].source = i /\ st.act[c].source = i /\ st.act[a].item = st.act[c].item => a = c
        /\ \A h \in P : \E a \in A : st.act[a].source = i /\ st.act[a].item = h
    BY <2>1
  <2>6. /\ st'.act[b].item = z /\ st'.act[b].source = i /\ st'.act[b].set = g
        /\ st'.act[b].node = x.of.target
    BY <2>2
  <2> HIDE DEF P, Q, z, A, M, p, x, y
  <2>7. \A a \in M : st'.act[a].source = i =>
          st'.act[a].set = g /\ st'.act[a].node = x.of.target /\ st'.act[a].item \in Q
    BY <1>7, <1>8, <2>4, <2>5, <2>6
  <2>8. \A a, c \in M :
          st'.act[a].source = i /\ st'.act[c].source = i /\ st'.act[a].item = st'.act[c].item => a = c
    BY <1>7, <1>8, <2>4, <2>5, <2>6
  <2>9. \A h \in Q : \E a \in M : st'.act[a].source = i /\ st'.act[a].item = h
    BY <1>7, <1>8, <2>4, <2>5, <2>6
  <2>10. y.at = z /\ y.pulled = z /\ y.set = g /\ y.of = x.of /\ Q = 1..z
    BY <2>2 DEF z, Q
  <2>11. /\ y.at = y.pulled
         /\ \A a \in M : st'.act[a].source = i =>
              st'.act[a].set = y.set /\ st'.act[a].node = y.of.target /\ st'.act[a].item \in 1..y.pulled
         /\ \A h \in 1..y.pulled : \E a \in M : st'.act[a].source = i /\ st'.act[a].item = h
    BY <2>7, <2>9, <2>10
  <2> QED BY <2>8, <2>11 DEF ItemsOf, M, y
<1> QED BY <1>4, <1>6, <1>9, <1>10 DEF SourcesSound

(* The iterators of set g are closed.                                        *)
LEMMA ClosedSourcesStay ==
  ASSUME NEW s, WellTyped(s), SourcesSound(s), NEW e, e.act = s.act, NEW g, SetChange(s.sets, e.sets, g),
         e.sets[g].open = 0, ClosedSources(s.sources, e.sources, g),
         \A j \in 1..Len(s.sets) : j # g => e.sets[j].open = s.sets[j].open
                                            /\ e.sets[j].settled = s.sets[j].settled
  PROVE  SourcesSound(e)
<1>1. /\ Len(e.sources) = Len(s.sources)
      /\ \A k \in 1..Len(s.sources) :
           /\ SameItems(s.sources[k], e.sources[k])
           /\ e.sources[k].set = s.sources[k].set
           /\ e.sources[k].open = (s.sources[k].open /\ s.sources[k].set # g)
  BY DEF ClosedSources, SameItems
<1>2. Rephased(s.act, e.act)
  BY WellTypedParts
<1>3. \A k \in 1..Len(e.sources) : ItemsOf(e, k)
  BY <1>1, <1>2, ItemsStay DEF SourcesSound
<1>4. OpenOf(e, g) = {}
  BY <1>1 DEF OpenOf
<1>5. e.sets[g].open = Cardinality(OpenOf(e, g))
  BY <1>4, FS_EmptySet
<1>6. Len(e.sets) = Len(s.sets)
  BY DEF SetChange
<1>7. \A k \in 1..Len(s.sources) : s.sources[k].set # g => e.sources[k].open = s.sources[k].open
  <2>1. ASSUME NEW k \in 1..Len(s.sources), s.sources[k].set # g
        PROVE  e.sources[k].open = s.sources[k].open
    <3>1. s.sources[k].open \in BOOLEAN
      BY RunStateParts DEF WellTyped, Sources
    <3> QED BY <1>1, <2>1, <3>1
  <2> QED BY <2>1
<1>8. OpenSound(e)
  <2>1. OpenKept(s, e, g)
    BY <1>1, <1>4, <1>5, <1>6, <1>7 DEF OpenKept
  <2> QED BY <2>1, OpenStays DEF SourcesSound
<1> QED BY <1>3, <1>8 DEF SourcesSound

LEMMA DecideKeepsSources ==
  ASSUME TypeInv, SourcesSound(st), NEW s, NEW d, Resolved(s, d)
  PROVE  SourcesSound(st')
<1>1. /\ st'.act = st.act /\ SetChange(st.sets, st'.sets, s) /\ st'.sets[s].open = 0
      /\ ClosedSources(st.sources, st'.sources, s)
      /\ \A j \in 1..Len(st.sets) : j # s => st'.sets[j].open = st.sets[j].open
                                            /\ st'.sets[j].settled = st.sets[j].settled
  BY DEF Resolved, SetChange
<1> QED BY <1>1, ClosedSourcesStay DEF TypeInv

(* An iterator ends, or it fails and ends the others of its set.             *)
LEMMA EndKeepsSources ==
  ASSUME TypeInv, SourcesSound(st), NEW i, NEW g, Ended(i, g)
  PROVE  SourcesSound(st')
<1>1. WellTyped(st) /\ Rephased(st.act, st.act) /\ st \in RunStates /\ Len(st.sources) \in Nat
  BY TypeParts, WellTypedParts, RunStateParts DEF TypeInv
<1>2. /\ i \in 1..Len(st.sources) /\ g \in 1..Len(st.sets) /\ st.sources[i].open /\ st.sources[i].set = g
      /\ st.sources[i] \in Sources
  BY PullingParts DEF Ended
<1>3. /\ st'.act = st.act /\ SetChange(st.sets, st'.sets, g)
      /\ \A j \in 1..Len(st.sets) : j # g => st'.sets[j].open = st.sets[j].open
                                            /\ st'.sets[j].settled = st.sets[j].settled
      /\ st'.sets[g].settled = st.sets[g].settled /\ Len(st'.sets) = Len(st.sets)
  BY DEF Ended, SetChange
<1>4. CASE st'.sets[g].open = 0 /\ ClosedSources(st.sources, st'.sources, g)
  BY <1>1, <1>3, <1>4, ClosedSourcesStay
<1>5. CASE /\ st'.sets[g].open = st.sets[g].open - 1
           /\ st'.sources[i] = [st.sources[i] EXCEPT !.open = FALSE]
           /\ \A j \in 1..Len(st.sources) : j # i => st'.sources[j] = st.sources[j]
  <2>1. /\ SameItems(st.sources[i], st'.sources[i]) /\ st'.sources[i].open = FALSE
        /\ st'.sources[i].set = g
    BY <1>2, <1>5 DEF SameItems, Sources
  <2>2. Len(st'.sources) = Len(st.sources)
    BY DEF Ended, SameOwners
  <2>3. \A k \in 1..Len(st.sources) :
          /\ SameItems(st.sources[k], st'.sources[k]) /\ st'.sources[k].set = st.sources[k].set
          /\ st.sources[k].set # g => st'.sources[k].open = st.sources[k].open
    BY <1>2, <1>5, <2>1 DEF SameItems
  <2>4. \A k \in 1..Len(st'.sources) : ItemsOf(st', k)
    BY <1>1, <1>3, <2>2, <2>3, ItemsStay DEF SourcesSound
  <2>5. OpenOf(st', g) = OpenOf(st, g) \ {i} /\ i \in OpenOf(st, g)
    BY ZenonT(60), <1>2, <1>5, <2>1, <2>2 DEF OpenOf
  <2>6. IsFiniteSet(OpenOf(st, g))
    <3>1. OpenOf(st, g) \subseteq 1..Len(st.sources)
      BY DEF OpenOf
    <3>2. IsFiniteSet(1..Len(st.sources))
      BY <1>1, FS_Interval
    <3> QED BY <3>1, <3>2, FS_Subset
  <2>7. Cardinality(OpenOf(st', g)) = Cardinality(OpenOf(st, g)) - 1
    BY <2>5, <2>6, FS_RemoveElement
  <2>8. st'.sets[g].open = Cardinality(OpenOf(st', g)) /\ ~st'.sets[g].settled /\ OpenSound(st)
    <3>1. st.sets[g].open = Cardinality(OpenOf(st, g)) /\ ~st.sets[g].settled /\ OpenSound(st)
      BY <1>2 DEF SourcesSound, OpenSound
    <3> QED BY <1>3, <1>5, <2>7, <3>1
  <2>9. OpenKept(st, st', g)
    BY <1>3, <2>2, <2>3, <2>8 DEF OpenKept
  <2>10. OpenSound(st')
    BY <1>1, <2>8, <2>9, OpenStays
  <2> QED BY <2>4, <2>10 DEF SourcesSound
<1> QED BY <1>4, <1>5 DEF Ended

(* A set that is settled has decided, so its iterators are closed.           *)
LEMMA SettleKeepsSources ==
  ASSUME TypeInv, DecisionInv, SourcesSound(st), NEW s, NEW c, NEW x, SetSettled(s, c, x)
  PROVE  SourcesSound(st')
<1>1. WellTyped(st) /\ st \in RunStates /\ Settling(s) /\ status # "failed"
  BY TypeParts DEF TypeInv, SetSettled, Cleared, Decided, Unsettled, Settling, ControlInv
<1>2. s \in 1..Len(st.sets) /\ st.sets[s] \in SourceSets
  BY <1>1, SettlingParts
<1>3. Extended(st, c, 0, 0) /\ WellTyped(c) /\ Grown(c, x) /\ SameSets(st, c)
  BY <1>1, ClosesExtends, OnlyClosesIsUpdated DEF SetSettled, OnlyCloses
<1>4. SourcesSound(c)
  BY <1>1, <1>3, SourcesAreAdded
<1>5. Extended(c, c, 0, 0)
  <2>1. OnlyCloses(c, c)
    BY <1>3 DEF OnlyCloses, SetSettled, WellTyped, JoinsKnown, SameSets, SameCounters
  <2> QED BY <1>3, <2>1, ClosesExtends
<1>6. Extended(c, x, 0, 0)
  BY <1>3, <1>5, GrownExtends
<1>7. SourcesSound(x) /\ WellTyped(x)
  BY <1>3, <1>4, <1>6, SourcesAreAdded, ExtendedIsTyped
<1>8. /\ st'.act = x.act /\ st'.sources = x.sources /\ x.sets = st.sets /\ x.sources = st.sources
      /\ Len(st'.sets) = Len(st.sets) /\ \A j \in 1..Len(st.sets) : j # s => st'.sets[j] = st.sets[j]
      /\ st'.sets[s].open = st.sets[s].open /\ st.sets[s].decided
  <2>1. st'.sets[s] = [st.sets[s] EXCEPT !.settled = TRUE] /\ st.sets[s].decided
    BY DEF SetSettled
  <2>2. st'.sets[s].open = st.sets[s].open
    BY <1>2, <2>1 DEF SourceSets
  <2> QED BY <1>3, <2>1, <2>2 DEF SetSettled, SameSets, Grown
<1>9. OpenOf(st', s) = {} /\ OpenOf(x, s) = {}
  <2>1. \A k \in 1..Len(st.sources) : st.sources[k].open => st.sources[k].set # s
    BY <1>1, <1>8 DEF DecisionInv, SetsSound
  <2> QED BY <1>8, <2>1 DEF OpenOf
<1>10. OpenSound(st')
  <2>1. OpenSound(x) /\ x.sets[s].open = Cardinality(OpenOf(x, s))
    BY <1>2, <1>7, <1>8 DEF SourcesSound, OpenSound
  <2>2. st'.sets[s].open = Cardinality(OpenOf(st', s))
    BY <1>8, <1>9, <2>1
  <2>3. OpenKept(x, st', s)
    BY <1>8, <1>9, <2>2 DEF OpenKept
  <2> QED BY <1>7, <2>1, <2>3, OpenStays
<1>11. \A i \in 1..Len(st'.sources) : ItemsOf(st', i)
  <2>1. \A i : ItemsOf(x, i) => ItemsOf(st', i)
    BY <1>8 DEF ItemsOf
  <2> QED BY <1>7, <1>8, <2>1 DEF SourcesSound
<1> QED BY <1>10, <1>11 DEF SourcesSound

LEMMA ClearKeepsSources ==
  ASSUME TypeInv, SourcesSound(st), NEW s
  PROVE  /\ \A i : Canceled(s, i) => SourcesSound(st')
         /\ \A b : Superseded(s, b) => SourcesSound(st')
<1>1. WellTyped(st) /\ Rephased(st.act, st.act)
  BY WellTypedParts DEF TypeInv
<1>2. ASSUME NEW i, Canceled(s, i)
      PROVE  SourcesSound(st')
  <2>1. /\ OutcomeSet(st.sets, st'.sets, s, st.queue[i], Cancellation) /\ st'.sources = st.sources
        /\ Rephased(st.act, st'.act)
    BY <1>2 DEF Canceled
  <2> QED BY <1>1, <2>1, OutcomeKeepsSources
<1>3. ASSUME NEW b, Superseded(s, b)
      PROVE  SourcesSound(st')
  <2>1. /\ OutcomeSet(st.sets, st'.sets, s, b, [st.sets[s].out[b] EXCEPT !.phase = "superseded"])
        /\ st'.sources = st.sources /\ st'.act = st.act
    BY <1>3 DEF Superseded
  <2> QED BY <1>1, <2>1, OutcomeKeepsSources
<1> QED BY <1>2, <1>3

LEMMA ReleaseKeepsSources ==
  ASSUME TypeInv, SourcesSound(st), NEW s, NEW b, NEW c, NEW x, BranchReleased(s, b, c, x)
  PROVE  SourcesSound(st')
<1>1. WellTyped(st) /\ st \in RunStates
  BY DEF TypeInv, WellTyped
<1>2. /\ WellTyped(c) /\ (\E n, k : Extended(c, x, n, k)) /\ WellTyped(x) /\ Settling(s)
  BY ReleasedParts
<1>3. SourcesSound(c)
  <2>1. Extended(st, c, 0, 0)
    BY <1>1, ClosesExtends DEF BranchReleased
  <2> QED BY <1>1, <2>1, SourcesAreAdded
<1>4. SourcesSound(x)
  <2>1. PICK n, k : Extended(c, x, n, k)
    BY <1>2
  <2> QED BY <1>2, <1>3, <2>1, SourcesAreAdded
<1>5. /\ OutcomeSet(x.sets, st'.sets, s, b, [st.sets[s].out[b] EXCEPT !.committed = TRUE])
      /\ st'.sources = x.sources /\ st'.act = x.act
  BY DEF BranchReleased
<1>6. Rephased(x.act, st'.act)
  BY <1>2, <1>5, WellTypedParts
<1> QED BY <1>2, <1>4, <1>5, <1>6, OutcomeKeepsSources

(* A process that starts again binds the iterators behind what they yielded. *)
LEMMA RestartKeepsSources ==
  ASSUME TypeInv, SourcesSound(saved), Restarted
  PROVE  SourcesSound(st')
<1>1. /\ WellTyped(saved) /\ Rephased(saved.act, st'.act)
      /\ Len(st'.sets) = Len(saved.sets) /\ Len(st'.sources) = Len(saved.sources)
      /\ \A i \in 1..Len(saved.sets) : Reread(saved.sets[i], st'.sets[i])
      /\ \A i \in 1..Len(saved.sources) : Rebound(saved.sources[i], st'.sources[i])
  BY DEF TypeInv, Restarted, Resumed
<1>2. \A i \in 1..Len(st'.sources) : ItemsOf(st', i)
  BY <1>1, ItemsStay DEF SourcesSound, Rebound, SameItems
<1>3. OpenSound(st')
  <2>1. OpenKept(saved, st', 0)
    BY <1>1 DEF OpenKept, Rebound, Reread
  <2> QED BY <1>1, <2>1, OpenStays DEF SourcesSound
<1> QED BY <1>2, <1>3 DEF SourcesSound

LEMMA MovesKeepSources ==
  ASSUME TypeInv, DecisionInv, SourceInv, Moves
  PROVE  SourceInv'
<1>1. SourcesSound(st) /\ SourcesSound(saved)
  BY DEF SourceInv
<1>2. ASSUME SourcesSound(st'), saved' \in {saved, st'}
      PROVE  SourceInv'
  BY <1>1, <1>2 DEF SourceInv
<1>3. CASE Stays \/ (Scheduled /\ pc = "schedule") \/ Crashed
  <2>1. st' \in {st, saved} /\ saved' \in {saved, st'}
    BY <1>3 DEF Stays, Scheduled, Crashed
  <2> QED BY <1>1, <1>2, <2>1
<1>4. CASE Restarted
  BY <1>1, <1>2, <1>4, RestartKeepsSources DEF Restarted
<1>5. CASE (Accepted /\ AllReturned) \/ Interrupted \/ Failed
  BY <1>1, <1>2, <1>5, QuietKeepsSources DEF Accepted, Interrupted, Failed
<1>6. CASE \E i : Started(i) \/ Returned(i)
  <2>1. PICK i : Started(i) \/ Returned(i)
    BY <1>6
  <2>2. saved' \in {saved, st'}
    BY <2>1 DEF Started, Returned
  <2> QED BY <1>1, <1>2, <2>1, <2>2, QuietKeepsSources
<1>7. CASE \E i, g, b : Pulled(i, g, b)
  <2>1. PICK i, g, b : Pulled(i, g, b)
    BY <1>7
  <2>2. saved' = st'
    BY <2>1 DEF Pulled
  <2> QED BY <1>1, <1>2, <2>1, <2>2, PullKeepsSources
<1>8. CASE \E i, g : Ended(i, g)
  <2>1. PICK i, g : Ended(i, g)
    BY <1>8
  <2>2. saved' = st'
    BY <2>1 DEF Ended
  <2> QED BY <1>1, <1>2, <2>1, <2>2, EndKeepsSources
<1>9. CASE \E r : Committed(r)
  <2>1. PICK r : Committed(r)
    BY <1>9
  <2>2. saved' = st'
    BY <2>1 DEF Committed, Retried, BranchDone, ActivationDone
  <2> QED BY <1>1, <1>2, <2>1, <2>2, CommitKeepsSources
<1>10. CASE \E s : Settling(s) /\ SettleStep(s)
  <2>1. PICK s : Settling(s) /\ SettleStep(s)
    BY <1>10
  <2>2. \A d : Resolved(s, d) => SourcesSound(st') /\ saved' \in {saved, st'}
    BY <1>1, DecideKeepsSources DEF Resolved
  <2>3. \A i : Canceled(s, i) => SourcesSound(st') /\ saved' \in {saved, st'}
    BY <1>1, ClearKeepsSources DEF Canceled
  <2>4. \A b : Superseded(s, b) => SourcesSound(st') /\ saved' \in {saved, st'}
    BY <1>1, ClearKeepsSources DEF Superseded
  <2>5. \A b, c, x : BranchReleased(s, b, c, x) => SourcesSound(st') /\ saved' \in {saved, st'}
    BY <1>1, ReleaseKeepsSources DEF BranchReleased
  <2>6. \A c, x : SetSettled(s, c, x) => SourcesSound(st') /\ saved' \in {saved, st'}
    BY <1>1, SettleKeepsSources DEF SetSettled
  <2> QED BY <1>2, <2>1, <2>2, <2>3, <2>4, <2>5, <2>6 DEF SettleStep
<1> QED BY <1>3, <1>4, <1>5, <1>6, <1>7, <1>8, <1>9, <1>10 DEF Moves

(* The branches that hold the items of iterator i are as many as the items.  *)
LEMMA ItemsAreOnce ==
  ASSUME NEW s, WellTyped(s), NEW i \in 1..Len(s.sources), ItemsOf(s, i), NEW T,
         T = {a \in DOMAIN s.act : s.act[a].source = i /\ s.act[a].set = s.sources[i].set
                                   /\ s.act[a].node = s.sources[i].of.target}
  PROVE  /\ {s.act[a].item : a \in T} = 1..s.sources[i].pulled
         /\ Cardinality(T) = s.sources[i].pulled
<1> DEFINE x == s.sources[i]  n == s.sources[i].pulled  A == 1..Len(s.act)  N == 1..n
<1>1. /\ \A a \in A : s.act[a].source = i =>
           s.act[a].set = x.set /\ s.act[a].node = x.of.target /\ s.act[a].item \in N
      /\ \A a, b \in A :
           s.act[a].source = i /\ s.act[b].source = i /\ s.act[a].item = s.act[b].item => a = b
      /\ \A k \in N : \E a \in A : s.act[a].source = i /\ s.act[a].item = k
  BY DEF ItemsOf
<1>2. DOMAIN s.act = A /\ n \in Nat
  BY RunStateParts DEF WellTyped, Sources
<1>3. Cardinality(N) = n
  <2> HIDE DEF n
  <2> QED BY <1>2, IntervalCardinality
<1>b. IsFiniteSet(T)
  <2>1. IsFiniteSet(A)
    <3>1. Len(s.act) \in Nat
      BY RunStateParts DEF WellTyped
    <3> QED BY <3>1, IntervalCardinality
  <2> QED BY <1>2, <2>1, FS_Subset
<1>a. T = {a \in A : s.act[a].source = i /\ s.act[a].set = x.set /\ s.act[a].node = x.of.target}
  BY <1>2
<1> HIDE DEF x, n, A, N
<1>4. T = {a \in A : s.act[a].source = i}
  BY <1>1, <1>a
<1>5. {s.act[a].item : a \in T} = N
  BY <1>1, <1>4
<1> DEFINE p == [a \in T |-> s.act[a].item]
<1>6. p \in Bijection(T, N)
  <2>1. p \in [T -> N]
    BY <1>1, <1>4
  <2>2. \A a, b \in T : p[a] = p[b] => a = b
    BY <1>1, <1>4
  <2>3. \A k \in N : \E a \in T : p[a] = k
    BY <1>1, <1>4
  <2> QED BY <2>1, <2>2, <2>3 DEF Bijection, Injection, Surjection, IsInjective
<1>7. IsFiniteSet(T) /\ Cardinality(T) = Cardinality(N)
  <2>1. ExistsBijection(T, N)
    BY <1>6 DEF ExistsBijection
  <2> QED BY <1>b, <2>1, FS_Bijection
<1> QED BY <1>3, <1>5, <1>7 DEF n, N

LEMMA SourcesAreOnce ==
  ASSUME TypeInv, SourceInv
  PROVE  ItemsAreDispatchedOnce
<1> SUFFICES ASSUME NEW s \in States, NEW i \in DOMAIN s.sources, NEW T,
                    T = {a \in DOMAIN s.act : s.act[a].source = i /\ s.act[a].set = s.sources[i].set
                                              /\ s.act[a].node = s.sources[i].of.target}
             PROVE  /\ {s.act[a].item : a \in T} = 1..s.sources[i].pulled
                    /\ Cardinality(T) = s.sources[i].pulled
                    /\ s.sources[i].open => /\ ~s.sets[s.sources[i].set].settled
                                            /\ s.sets[s.sources[i].set].open > 0
  BY DEF ItemsAreDispatchedOnce
<1>1. WellTyped(s) /\ SourcesSound(s)
  BY DEF States, TypeInv, SourceInv
<1>2. i \in 1..Len(s.sources) /\ ItemsOf(s, i) /\ OpenSound(s) /\ Len(s.sources) \in Nat
  BY <1>1, RunStateParts DEF WellTyped, SourcesSound
<1>3. /\ {s.act[a].item : a \in T} = 1..s.sources[i].pulled
      /\ Cardinality(T) = s.sources[i].pulled
  BY <1>1, <1>2, ItemsAreOnce
<1>4. ASSUME s.sources[i].open
      PROVE  ~s.sets[s.sources[i].set].settled /\ s.sets[s.sources[i].set].open > 0
  <2> DEFINE g == s.sources[i].set  O == OpenOf(s, g)
  <2>1. g \in 1..Len(s.sets)
    BY <1>1, <1>2 DEF WellTyped, SetsKnown
  <2>2. i \in O /\ O \subseteq 1..Len(s.sources)
    BY <1>2, <1>4 DEF OpenOf
  <2>3. s.sets[g].open = Cardinality(O) /\ ~s.sets[g].settled
    BY <1>2, <1>4, <2>1 DEF OpenSound
  <2> HIDE DEF g, O
  <2>4. IsFiniteSet(O)
    <3>1. IsFiniteSet(1..Len(s.sources))
      BY <1>2, FS_Interval
    <3> QED BY <2>2, <3>1, FS_Subset
  <2>5. Cardinality(O) \in Nat /\ Cardinality(O) # 0
    BY <2>2, <2>4, FS_CardinalityType, FS_EmptySet
  <2>6. ~s.sets[g].settled /\ s.sets[g].open > 0
    BY <2>3, <2>5
  <2> QED BY <2>6 DEF g
<1> QED BY <1>3, <1>4

LEMMA InitSources ==
  ASSUME Init
  PROVE  SourceInv
<1>1. PICK entry \in Entries : st = Fresh(entry)
  BY DEF Init
<1>2. saved = st /\ st.sets = <<>> /\ st.sources = <<>>
  BY <1>1 DEF Init, Fresh
<1> QED BY <1>2, EmptyParts DEF SourceInv, SourcesSound, OpenSound

THEOREM Items == Spec => []SourceInv
<1>1. Init => SourceInv
  BY InitSources
<1>2. TypeInv /\ DecisionInv /\ SourceInv /\ [Next]_vars => SourceInv'
  BY StepsMove, MovesKeepSources
<1> QED BY <1>1, <1>2, Types, Decisions, PTL DEF Spec

THEOREM ItemsGoOutOnce == Spec => []ItemsAreDispatchedOnce
<1>1. TypeInv /\ SourceInv => ItemsAreDispatchedOnce
  BY SourcesAreOnce
<1> QED BY <1>1, Types, Items, PTL

-----------------------------------------------------------------------------
(* PayloadsFlowOnce: what a step gives to the joins, and takes from them    *)

LEMMA TakenStays ==
  ASSUME NEW s \in RunStates, NEW m \in RunStates, Len(s.act) <= Len(m.act), m.bound = s.bound,
         \A j \in 1..Len(s.act) : m.act[j].node = s.act[j].node /\ m.act[j].input = s.act[j].input,
         \A j \in (Len(s.act) + 1)..Len(m.act) : m.act[j].input = <<>>
  PROVE  KeepsTaken(s, m)
<1> SUFFICES ASSUME NEW t \in Joins, NEW a \in Nat
             PROVE  Taken(m, t, a) = Taken(s, t, a)
  BY DEF KeepsTaken
<1>1. Inputs(m, t, a) = Inputs(s, t, a)
  BY InputsStay
<1> QED BY <1>1, TakenIsSum

LEMMA RephasedKeepsTaken ==
  ASSUME NEW s \in RunStates, NEW m \in RunStates, Rephased(s.act, m.act), m.bound = s.bound
  PROVE  KeepsTaken(s, m)
<1>1. Len(m.act) = Len(s.act) /\ Len(s.act) \in Nat
  BY RunStateParts DEF Rephased
<1>2. \A j \in 1..Len(s.act) : m.act[j].node = s.act[j].node /\ m.act[j].input = s.act[j].input
  BY DEF Rephased, SameActivation
<1> QED BY <1>1, <1>2, TakenStays

Repeated(a, k) == [i \in 1..k |-> a]

(* How often c is in q                                                       *)
Times(q, c) == Cardinality(Positions(q, {c}))

LEMMA RepeatedPositions ==
  ASSUME NEW q \in Seq(Nat), NEW a \in Nat, NEW k \in Nat, NEW c
  PROVE  Times(q \o Repeated(a, k), c) = Times(q, c) + IF c = a THEN k ELSE 0
<1> DEFINE p == q \o Repeated(a, k)
           n == Len(q)
           r == Repeated(a, k)
           old == Positions(q, {c})
           new == IF c = a THEN (n + 1)..(n + k) ELSE {}
<1>0. p = q \o r
  OBVIOUS
<1>1. n \in Nat /\ r \in Seq(Nat) /\ Len(r) = k /\ \A i \in 1..k : r[i] = a
  BY DEF Repeated
<1>2. /\ Len(p) = n + k /\ p \in Seq(Nat)
      /\ \A i \in 1..n : p[i] = q[i]
      /\ \A i \in 1..k : p[n + i] = a
  <2> HIDE DEF r, p
  <2>1. /\ Len(q \o r) = Len(q) + Len(r) /\ q \o r \in Seq(Nat)
        /\ \A i \in 1..Len(q) : (q \o r)[i] = q[i]
        /\ \A i \in 1..Len(r) : (q \o r)[Len(q) + i] = r[i]
    <3>1. r \in Seq(Nat)
      BY <1>1
    <3> QED BY ONLY q \in Seq(Nat), <3>1, ConcatParts
  <2> QED BY <1>0, <1>1, <2>1
<1> HIDE DEF p
<1>3. DOMAIN p = 1..(n + k) /\ DOMAIN q = 1..n
  BY <1>2, SeqParts
<1>4. Positions(p, {c}) = old \cup new
  <2>1. \A i \in (n + 1)..(n + k) : p[i] = a
    <3> TAKE i \in (n + 1)..(n + k)
    <3>1. i - n \in 1..k /\ n + (i - n) = i
      BY <1>1
    <3> QED BY <1>2, <3>1
  <2>2. \A i \in 1..(n + k) : i \in 1..n \/ i \in (n + 1)..(n + k)
    BY <1>1
  <2>3. \A i \in 1..n : i \in 1..(n + k)
    BY <1>1
  <2>4. \A i \in (n + 1)..(n + k) : i \in 1..(n + k)
    BY <1>1
  <2> HIDE DEF n
  <2> QED BY <1>2, <1>3, <2>1, <2>2, <2>3, <2>4 DEF Positions
<1> HIDE DEF r
<1>5. IsFiniteSet(old) /\ old \in SUBSET (1..n)
  <2>1. \A T : Positions(q, T) \in SUBSET (1..Len(q)) /\ IsFiniteSet(Positions(q, T))
    BY PositionsFinite
  <2> QED BY <2>1
<1>6. IsFiniteSet(new) /\ Cardinality(new) = IF c = a THEN k ELSE 0
  <2>1. n + 1 \in Int /\ n + k \in Int /\ (n + 1 > n + k => k = 0) /\ n + k - (n + 1) + 1 = k
    BY <1>1
  <2>2. IsFiniteSet((n + 1)..(n + k)) /\ Cardinality((n + 1)..(n + k)) = k
    BY <2>1, FS_Interval
  <2> HIDE DEF n
  <2> QED BY <2>2, FS_EmptySet
<1>7. old \cap new = {}
  <2>1. \A i \in (n + 1)..(n + k) : i \notin 1..n
    BY <1>1
  <2> HIDE DEF old, n
  <2> QED BY <1>5, <2>1
<1>8. old = Positions(q, {c})
  OBVIOUS
<1> HIDE DEF old, new, n
<1>9. Cardinality(old \cup new) = Cardinality(old) + Cardinality(new)
  BY <1>5, <1>6, <1>7, DisjointSum
<1> QED BY ONLY <1>4, <1>6, <1>8, <1>9 DEF Times, p

(* From s to e each join has got the payload of a as often as d names it.    *)
Gives(s, e, a, d) ==
  \A t \in Joins : \A c \in Nat :
    Taken(e, t, c) = Taken(s, t, c) + IF c = a THEN Named(d, t) ELSE 0

LEMMA RoutesGive ==
  ASSUME NEW s \in RunStates, NEW a \in Nat, NEW d \in Dispatchable, NEW e, Routes(s, e, a, d)
  PROVE  Gives(s, e, a, d)
<1> SUFFICES ASSUME NEW t \in Joins, NEW c \in Nat
             PROVE  Taken(e, t, c) = Taken(s, t, c) + IF c = a THEN Named(d, t) ELSE 0
  BY DEF Gives
<1> DEFINE n == Len(Branches(d))
           k == Named(d, t)
<1>1. /\ e \in RunStates /\ Adds(s, e, n) /\ n \in Nat /\ k \in Nat /\ Len(s.act) \in Nat
      /\ e.bound[t] = s.bound[t] \o Repeated(a, k) /\ s.bound[t] \in Seq(Nat)
  BY BranchesAreNodes, NamedIsNat, RunStateParts DEF Routes, Repeated
<1>2. \A j \in 1..Len(s.act) : e.act[j] = s.act[j]
  BY <1>1 DEF Adds
<1>3. \A j \in (Len(s.act) + 1)..Len(e.act) : e.act[j].input = <<>>
  <2> TAKE j \in (Len(s.act) + 1)..Len(e.act)
  <2>1. j - Len(s.act) \in 1..n /\ Len(s.act) + (j - Len(s.act)) = j
    BY <1>1 DEF Adds
  <2>2. \A i \in 1..n : e.act[Len(s.act) + i]
            = NewActivation(Branches(d)[i], NextEpoch(s, a, Branches(d)[i]), Len(s.sets) + 1, <<>>)
    BY DEF Routes
  <2>3. \A v, w, x : NewActivation(v, w, x, <<>>).input = <<>>
    BY DEF NewActivation
  <2> QED BY ZenonT(60), <2>1, <2>2, <2>3
<1>4. Len(s.act) <= Len(e.act)
  BY <1>1 DEF Adds
<1> HIDE DEF n, k
<1>5. Inputs(e, t, c) = Inputs(s, t, c)
  <2>1. /\ \A j \in 1..Len(s.act) : e.act[j].node = s.act[j].node /\ e.act[j].input = s.act[j].input
        /\ \A j \in (Len(s.act) + 1)..Len(e.act) : e.act[j].node # t \/ e.act[j].input = <<>>
    BY <1>2, <1>3
  <2> QED BY <1>1, <1>4, <2>1, InputsStay
<1>6. Times(e.bound[t], c) = Times(s.bound[t], c) + IF c = a THEN k ELSE 0
  <2> DEFINE p == e.bound[t]
             q == s.bound[t]
  <2>1. p = q \o Repeated(a, k) /\ q \in Seq(Nat) /\ k \in Nat
    BY <1>1
  <2> HIDE DEF p, q
  <2>2. Times(q \o Repeated(a, k), c) = Times(q, c) + IF c = a THEN k ELSE 0
    BY <2>1, RepeatedPositions
  <2> QED BY <2>1, <2>2 DEF p, q
<1>7. /\ Taken(s, t, c) = Times(s.bound[t], c) + Cardinality(Inputs(s, t, c))
      /\ Taken(e, t, c) = Times(e.bound[t], c) + Cardinality(Inputs(e, t, c))
      /\ Times(s.bound[t], c) \in Nat /\ Cardinality(Inputs(s, t, c)) \in Nat
  BY <1>1, TakenIsSum DEF Times
<1>8. Taken(e, t, c) = Taken(s, t, c) + IF c = a THEN k ELSE 0
  BY <1>1, <1>5, <1>6, <1>7
<1> QED BY <1>8 DEF k

(* The output of a goes to the joins: its set, if it has one, selected it.   *)
HandedOn(s, a) ==
  /\ s.act[a].phase = "completed"
  /\ s.act[a].set # 0 => LET x == s.sets[s.act[a].set]
                         IN x.decided /\ a \in ToSet(x.selected) /\ x.out[a].committed

(* Join t has all of what a gives it, and only if the output of a goes out.  *)
FlowOf(s, t, a) ==
  Taken(s, t, a) # 0 =>
    /\ a \in 1..Len(s.act) /\ HandedOn(s, a)
    /\ \E d \in Dispatched(s, a) : Taken(s, t, a) = Named(d, t)

FlowSound(s) == \A t \in Joins : \A a \in Nat : FlowOf(s, t, a)

(* A set selects among its branches that completed, and decides with it.     *)
ChoiceSound(x, act) ==
  /\ \A b \in DOMAIN x.out : x.out[b].phase = "completed" => act[b].phase = "completed"
  /\ \A k \in 1..Len(x.selected) : x.decided /\ act[x.selected[k]].phase = "completed"

ChoicesSound(s) == \A i \in 1..Len(s.sets) : ChoiceSound(s.sets[i], s.act)

(* An activation that completed dispatches what its node may dispatch.       *)
ResultSound(r, act) == r.answer = "completed" => r.dispatch \in Dispatches[act[r.act].node]

ResultsSound(q, act) == \A i \in 1..Len(q) : ResultSound(q[i], act)

FlowInv ==
  /\ FlowSound(st) /\ FlowSound(saved)
  /\ status # "failed" =>
       /\ ChoicesSound(st) /\ ChoicesSound(saved)
       /\ ResultsSound(batch, st.act) /\ ResultsSound(todo, st.act)

(* What s handed on e hands on too.                                          *)
FlowKept(s, e) ==
  \A a \in 1..Len(s.act) : HandedOn(s, a) =>
    a \in 1..Len(e.act) /\ HandedOn(e, a) /\ Dispatched(e, a) = Dispatched(s, a)

LEMMA FlowStays ==
  ASSUME NEW s, FlowSound(s), NEW e, FlowKept(s, e),
         \A t \in Joins : \A a \in Nat : Taken(e, t, a) = Taken(s, t, a) \/ FlowOf(e, t, a)
  PROVE  FlowSound(e)
<1> SUFFICES ASSUME NEW t \in Joins, NEW a \in Nat
             PROVE  FlowOf(e, t, a)
  BY DEF FlowSound
<1>1. CASE Taken(e, t, a) = Taken(s, t, a)
  <2>1. FlowOf(s, t, a)
    BY DEF FlowSound
  <2> QED BY <1>1, <2>1 DEF FlowOf, FlowKept
<1> QED BY <1>1

ActsKept(s, e) ==
  /\ Len(s.act) <= Len(e.act)
  /\ \A a \in 1..Len(s.act) :
       /\ SameActivation(e.act[a], s.act[a])
       /\ s.act[a].phase = "completed" => e.act[a].phase = "completed"

OutcomeKept(x, y) ==
  /\ DOMAIN x.out \subseteq DOMAIN y.out
  /\ x.decided => y.decided /\ y.selected = x.selected
  /\ \A b \in DOMAIN x.out : x.out[b].committed => y.out[b].committed /\ y.out[b].dispatch = x.out[b].dispatch

OutcomesKept(s, e) ==
  Len(s.sets) <= Len(e.sets) /\ \A i \in 1..Len(s.sets) : OutcomeKept(s.sets[i], e.sets[i])

LEMMA KeptFlows ==
  ASSUME NEW s, WellTyped(s), NEW e \in RunStates, ActsKept(s, e), OutcomesKept(s, e)
  PROVE  FlowKept(s, e)
<1> SUFFICES ASSUME NEW a \in 1..Len(s.act), HandedOn(s, a)
             PROVE  a \in 1..Len(e.act) /\ HandedOn(e, a) /\ Dispatched(e, a) = Dispatched(s, a)
  BY DEF FlowKept
<1>1. Len(s.act) \in Nat /\ Len(e.act) \in Nat
  BY RunStateParts DEF WellTyped
<1>2. /\ e.act[a].phase = "completed" /\ e.act[a].node = s.act[a].node /\ e.act[a].set = s.act[a].set
      /\ a \in 1..Len(e.act)
  BY <1>1 DEF ActsKept, SameActivation, HandedOn
<1>3. CASE s.act[a].set = 0
  BY <1>2, <1>3 DEF HandedOn, Dispatched
<1>4. CASE s.act[a].set # 0
  <2> DEFINE i == s.act[a].set
  <2>1. i \in 1..Len(s.sets) /\ a \in DOMAIN s.sets[i].out
    BY <1>4, BranchMember
  <2>2. OutcomeKept(s.sets[i], e.sets[i])
    BY <2>1 DEF OutcomesKept
  <2>3. s.sets[i].decided /\ a \in ToSet(s.sets[i].selected) /\ s.sets[i].out[a].committed
    BY <1>4 DEF HandedOn
  <2>4. /\ e.sets[i].decided /\ a \in ToSet(e.sets[i].selected) /\ e.sets[i].out[a].committed
        /\ e.sets[i].out[a].dispatch = s.sets[i].out[a].dispatch
    BY <2>1, <2>2, <2>3 DEF OutcomeKept
  <2> QED BY <1>2, <1>4, <2>4 DEF HandedOn, Dispatched
<1> QED BY <1>3, <1>4

(* Nothing is given to a join, and nothing that was handed on changes.       *)
LEMMA QuietFlow ==
  ASSUME NEW s, WellTyped(s), FlowSound(s), NEW e \in RunStates, ActsKept(s, e), OutcomesKept(s, e), KeepsTaken(s, e)
  PROVE  FlowSound(e)
<1>1. FlowKept(s, e)
  BY KeptFlows
<1> QED BY <1>1, FlowStays DEF KeepsTaken

LEMMA SameOutcomes ==
  ASSUME NEW s, WellTyped(s), NEW e, SameSets(s, e)
  PROVE  OutcomesKept(s, e)
<1>1. Len(s.sets) \in Nat
  BY RunStateParts DEF WellTyped
<1> QED BY <1>1 DEF SameSets, OutcomesKept, OutcomeKept

(* Activations that have not completed change, and no set.                   *)
LEMMA RephasedFlow ==
  ASSUME NEW s, WellTyped(s), FlowSound(s), NEW e \in RunStates, Rephased(s.act, e.act),
         \A a \in 1..Len(s.act) : s.act[a].phase = "completed" => e.act[a].phase = "completed",
         e.bound = s.bound, OutcomesKept(s, e)
  PROVE  FlowSound(e)
<1>1. s \in RunStates /\ Len(s.act) \in Nat
  BY RunStateParts DEF WellTyped
<1>2. ActsKept(s, e)
  BY <1>1 DEF ActsKept, Rephased
<1> QED BY <1>1, <1>2, RephasedKeepsTaken, QuietFlow

Flows(s) == FlowSound(s) /\ ChoicesSound(s)

CompletedStay(s, e) ==
  \A a \in 1..Len(s.act) : s.act[a].phase = "completed" => e.act[a].phase = "completed"

LEMMA ChoiceStays ==
  ASSUME NEW s, WellTyped(s), ChoicesSound(s), NEW e, CompletedStay(s, e), NEW i \in 1..Len(s.sets)
  PROVE  ChoiceSound(s.sets[i], e.act)
<1>1. ChoiceSound(s.sets[i], s.act)
  BY DEF ChoicesSound
<1>2. /\ \A b \in DOMAIN s.sets[i].out : b \in 1..Len(s.act)
      /\ \A k \in 1..Len(s.sets[i].selected) : s.sets[i].selected[k] \in 1..Len(s.act)
  BY SetRefs
<1> QED BY <1>1, <1>2 DEF ChoiceSound, CompletedStay

(* Activations that have not completed change their phase, and that is all. *)
QuietStep(s, e) ==
  /\ e \in RunStates /\ Rephased(s.act, e.act) /\ CompletedStay(s, e)
  /\ SameSets(s, e) /\ e.bound = s.bound

LEMMA QuietFlows ==
  ASSUME NEW s, WellTyped(s), NEW e, QuietStep(s, e)
  PROVE  /\ FlowSound(s) => FlowSound(e)
         /\ ChoicesSound(s) => ChoicesSound(e)
<1> USE DEF QuietStep
<1>1. OutcomesKept(s, e)
  BY SameOutcomes
<1>2. FlowSound(s) => FlowSound(e)
  BY <1>1, RephasedFlow DEF CompletedStay
<1>3. ASSUME ChoicesSound(s)
      PROVE  ChoicesSound(e)
  <2>1. \A i \in 1..Len(s.sets) : ChoiceSound(s.sets[i], e.act)
    BY <1>3, ChoiceStays
  <2> QED BY <2>1 DEF ChoicesSound, SameSets
<1> QED BY <1>2, <1>3

(* A branch gets an outcome; what has been committed stays.                  *)
LEMMA OutcomeChoices ==
  ASSUME NEW s, WellTyped(s), ChoicesSound(s), NEW e, CompletedStay(s, e),
         NEW g, NEW b, NEW o, OutcomeSet(s.sets, e.sets, g, b, o), b \in DOMAIN s.sets[g].out,
         s.sets[g].out[b].committed => o.committed /\ o.dispatch = s.sets[g].out[b].dispatch,
         o.phase = "completed" => e.act[b].phase = "completed"
  PROVE  OutcomesKept(s, e) /\ ChoicesSound(e)
<1> DEFINE x == s.sets[g]  y == e.sets[g]
<1>1. /\ Len(e.sets) = Len(s.sets) /\ g \in 1..Len(s.sets) /\ \A j \in 1..Len(s.sets) : j # g => e.sets[j] = s.sets[j]
      /\ DOMAIN y.out = DOMAIN x.out /\ y.out[b] = o /\ \A c \in DOMAIN x.out : c # b => y.out[c] = x.out[c]
      /\ y.decided = x.decided /\ y.selected = x.selected
  BY DEF OutcomeSet
<1>2. \A i \in 1..Len(s.sets) : ChoiceSound(s.sets[i], e.act)
  BY ChoiceStays
<1> HIDE DEF x, y
<1>3. OutcomeKept(x, y)
  BY <1>1 DEF OutcomeKept, x
<1>4. ChoiceSound(y, e.act)
  <2>1. ChoiceSound(x, e.act)
    BY <1>1, <1>2 DEF x
  <2> QED BY <1>1, <2>1 DEF ChoiceSound
<1>5. OutcomesKept(s, e)
  <2>1. \A j \in 1..Len(s.sets) : OutcomeKept(s.sets[j], s.sets[j])
    BY DEF OutcomeKept
  <2>2. Len(s.sets) <= Len(e.sets)
    BY <1>1, RunStateParts DEF WellTyped
  <2> QED BY <1>1, <1>3, <2>1, <2>2 DEF OutcomesKept, x, y
<1>6. ChoicesSound(e)
  BY <1>1, <1>2, <1>4 DEF ChoicesSound, y
<1> QED BY <1>5, <1>6

LEMMA OutcomeFlows ==
  ASSUME NEW s, WellTyped(s), Flows(s), NEW e \in RunStates, Rephased(s.act, e.act), CompletedStay(s, e),
         e.bound = s.bound, NEW g, NEW b, NEW o, OutcomeSet(s.sets, e.sets, g, b, o),
         b \in DOMAIN s.sets[g].out,
         s.sets[g].out[b].committed => o.committed /\ o.dispatch = s.sets[g].out[b].dispatch,
         o.phase = "completed" => e.act[b].phase = "completed"
  PROVE  Flows(e)
<1>1. OutcomesKept(s, e) /\ ChoicesSound(e)
  BY OutcomeChoices DEF Flows
<1>2. FlowSound(e)
  BY <1>1, RephasedFlow DEF CompletedStay, Flows
<1> QED BY <1>1, <1>2 DEF Flows

(* The decision of a set changes, its outcomes do not.                       *)
LEMMA DecidedFlows ==
  ASSUME NEW s, WellTyped(s), Flows(s), NEW e \in RunStates, e.act = s.act, e.bound = s.bound,
         NEW g, SetChange(s.sets, e.sets, g),
         s.sets[g].decided => e.sets[g].decided /\ e.sets[g].selected = s.sets[g].selected,
         ChoiceSound(e.sets[g], s.act)
  PROVE  Flows(e)
<1>1. /\ Len(e.sets) = Len(s.sets) /\ g \in 1..Len(s.sets) /\ \A j \in 1..Len(s.sets) : j # g => e.sets[j] = s.sets[j]
      /\ e.sets[g].out = s.sets[g].out
  BY DEF SetChange
<1>2. OutcomesKept(s, e)
  <2>1. \A j \in 1..Len(s.sets) : OutcomeKept(s.sets[j], s.sets[j])
    BY DEF OutcomeKept
  <2>2. Len(s.sets) <= Len(e.sets)
    BY <1>1, RunStateParts DEF WellTyped
  <2>3. OutcomeKept(s.sets[g], e.sets[g])
    BY <1>1 DEF OutcomeKept
  <2> QED BY <1>1, <2>1, <2>2, <2>3 DEF OutcomesKept
<1>3. ChoicesSound(e)
  BY <1>1 DEF ChoicesSound, Flows
<1>4. Rephased(s.act, e.act)
  BY WellTypedParts
<1>5. FlowSound(e)
  BY <1>2, <1>4, RephasedFlow DEF Flows
<1> QED BY <1>3, <1>5 DEF Flows

(* Activations and a set are added.                                          *)
LEMMA ExtendedChoices ==
  ASSUME NEW s, WellTyped(s), NEW m, NEW n, NEW k, Extended(s, m, n, k)
  PROVE  /\ ActsKept(s, m) /\ OutcomesKept(s, m)
         /\ ChoicesSound(s) => ChoicesSound(m)
<1>1. /\ Len(s.sets) \in Nat /\ Len(m.sets) \in Nat /\ Len(s.sets) <= Len(m.sets) /\ Len(s.act) <= Len(m.act)
      /\ \A a \in 1..Len(s.act) : m.act[a] = s.act[a]
      /\ \A i \in 1..Len(s.sets) : m.sets[i] = s.sets[i]
      /\ n = 0 /\ k = 0 => Len(m.sets) = Len(s.sets)
      /\ n # 0 \/ k # 0 => Len(m.sets) = Len(s.sets) + 1
  BY ExtendedParts
<1>2. ActsKept(s, m)
  BY <1>1 DEF ActsKept, SameActivation
<1>3. OutcomesKept(s, m)
  BY <1>1 DEF OutcomesKept, OutcomeKept
<1>4. ASSUME ChoicesSound(s)
      PROVE  ChoicesSound(m)
  <2>1. CompletedStay(s, m)
    BY <1>1 DEF CompletedStay
  <2>2. \A i \in 1..Len(s.sets) : ChoiceSound(m.sets[i], m.act)
    BY <1>1, <1>4, <2>1, ChoiceStays
  <2>3. ASSUME n # 0 \/ k # 0
        PROVE  ChoiceSound(m.sets[Len(s.sets) + 1], m.act)
    <3> DEFINE x == m.sets[Len(s.sets) + 1]
    <3>1. Opened(x, Len(s.act), n)
      BY <2>3 DEF Extended
    <3> HIDE DEF x
    <3>2. \A b \in DOMAIN x.out : x.out[b] = NoOutcome
      BY <3>1 DEF Opened
    <3>3. NoOutcome.phase # "completed" /\ Len(x.selected) = 0
      BY <3>1 DEF NoOutcome, Opened
    <3>4. \A i \in 1..Len(x.selected) : FALSE
      BY <3>3
    <3>5. ChoiceSound(x, m.act)
      BY <3>2, <3>3, <3>4 DEF ChoiceSound
    <3> QED BY <3>5 DEF x
  <2>4. \A i \in 1..Len(m.sets) : i \in 1..Len(s.sets) \/ ((n # 0 \/ k # 0) /\ i = Len(s.sets) + 1)
    BY <1>1
  <2> QED BY <2>2, <2>3, <2>4 DEF ChoicesSound
<1> QED BY <1>2, <1>3, <1>4

LEMMA InHandIsNotOver ==
  ASSUME TypeInv, QueueInv, status # "failed", NEW a \in 1..Len(st.act), InHand(a)
  PROVE  st.act[a].phase \notin Over
<1>1. CASE pc = "execute" /\ \E i \in 1..Len(batch) : a = batch[i].act
  BY <1>1 DEF QueueInv, Over
<1>2. CASE \E r : Committing(r) /\ a = r.act
  <2>1. PICK r : Committing(r) /\ a = r.act
    BY <1>2
  <2>2. /\ r = todo[1] /\ 1 \in 1..Len(todo) /\ pc = "commit" /\ Len(todo) <= Len(st.queue)
        /\ Len(st.queue) \in Nat /\ Len(todo) \in Nat
    BY <2>1, HeadTodo, QueueIsNotEmpty, RunStateParts, TypeParts
  <2>3. 1 \in 1..Len(st.queue) /\ a = st.queue[1]
    BY <2>1, <2>2 DEF QueueInv
  <2> QED BY <2>3 DEF QueueInv, Once
<1> QED BY <1>1, <1>2 DEF InHand

LEMMA QuietSteps ==
  ASSUME TypeInv, TypeInv', QueueInv, status # "failed"
  PROVE  /\ Accepted \/ Interrupted \/ Failed => QuietStep(st, st')
         /\ \A i : Started(i) \/ Returned(i) => QuietStep(st, st')
         /\ \A r : Committing(r) /\ Retried(r) => QuietStep(st, st')
<1>1. WellTyped(st) /\ Rephased(st.act, st.act) /\ st \in RunStates /\ Len(st.act) \in Nat /\ st' \in RunStates
  BY TypeParts, WellTypedParts DEF TypeInv, WellTyped
<1>2. Accepted => QuietStep(st, st')
  <2> HAVE Accepted
  <2>1. st'.act = st.act /\ SameSets(st, st') /\ st'.bound = st.bound
    BY <1>1 DEF Accepted, RunStates, SameSets
  <2> QED BY <1>1, <2>1 DEF QuietStep, CompletedStay
<1>3. Interrupted => QuietStep(st, st')
  <2> HAVE Interrupted
  <2>1. \A a \in Waiting : st.act[a].phase = "running"
    BY WaitingRuns
  <2>2. CompletedStay(st, st')
    BY <2>1 DEF Interrupted, CompletedStay
  <2> QED BY <1>1, <2>2 DEF QuietStep, Interrupted, SameJoins
<1>4. Failed => QuietStep(st, st')
  <2> HAVE Failed
  <2>1. CompletedStay(st, st')
    <3> SUFFICES ASSUME NEW a \in 1..Len(st.act), st.act[a].phase = "completed"
                 PROVE  st'.act[a].phase = "completed"
      BY DEF CompletedStay
    <3>1. ~InHand(a)
      BY InHandIsNotOver DEF Over
    <3> QED BY <3>1 DEF Failed
  <2> QED BY <1>1, <2>1 DEF QuietStep, Failed
<1>5. ASSUME NEW i, Started(i)
      PROVE  QuietStep(st, st')
  <2> DEFINE b == batch[i].act
  <2>1. InPhaseNow(st, st', b, "running") /\ st.act[b].phase = "ready"
    BY <1>5 DEF Started
  <2> HIDE DEF b
  <2>2. CompletedStay(st, st')
    BY <2>1 DEF CompletedStay, InPhaseNow
  <2> QED BY <1>1, <2>1, <2>2 DEF QuietStep, InPhaseNow, SameJoins
<1>6. ASSUME NEW i, Returned(i)
      PROVE  QuietStep(st, st')
  <2>1. OnlyTicks(st, st')
    BY <1>1, <1>6, ClockFields DEF Returned
  <2> QED BY <1>1, <2>1 DEF OnlyTicks, QuietStep, CompletedStay, SameJoins
<1>7. ASSUME NEW r, Committing(r), Retried(r)
      PROVE  QuietStep(st, st')
  <2>1. r.act \in 1..Len(st.act) /\ st.act[r.act].phase \notin Over
    BY <1>7, HeadTodo, InHandIsNotOver DEF InHand
  <2>2. CompletedStay(st, st')
    BY <1>7, <2>1 DEF CompletedStay, Retried, Over
  <2> QED BY <1>1, <1>7, <2>2 DEF QuietStep, Retried, SameJoins
<1> QED BY <1>2, <1>3, <1>4, <1>5, <1>6, <1>7

LEMMA BranchStepsFlow ==
  ASSUME TypeInv, TypeInv', QueueInv, DecisionInv, status # "failed", Flows(st)
  PROVE  /\ \A r : Committing(r) /\ BranchDone(r) => Flows(st')
         /\ \A s, i : Canceled(s, i) => Flows(st')
         /\ \A s, b : Superseded(s, b) => Flows(st')
<1>1. WellTyped(st) /\ Rephased(st.act, st.act) /\ st \in RunStates /\ st' \in RunStates /\ SetsSound(st)
  BY TypeParts, WellTypedParts DEF TypeInv, WellTyped, DecisionInv
<1>2. ASSUME NEW a \in 1..Len(st.act), st.act[a].set # 0, st.act[a].phase \notin Over
      PROVE  /\ a \in DOMAIN st.sets[st.act[a].set].out
             /\ ~st.sets[st.act[a].set].out[a].committed
  BY <1>1, <1>2, BranchMember DEF SetsSound, SetSound
<1>3. ASSUME NEW r, Committing(r), BranchDone(r)
      PROVE  Flows(st')
  <2>1. r.act \in 1..Len(st.act) /\ st.act[r.act].phase \notin Over /\ r \in Results
    BY <1>3, HeadTodo, InHandIsNotOver DEF InHand
  <2>2. CompletedStay(st, st')
    BY <1>3, <2>1 DEF CompletedStay, BranchDone, Over
  <2>3. /\ r.act \in DOMAIN st.sets[SetOf(r)].out /\ ~st.sets[SetOf(r)].out[r.act].committed
    BY <1>2, <1>3, <2>1 DEF SetOf, BranchDone
  <2>4. OutcomeOf(r).phase = r.answer
    <3>1. \A phase, cause, completion, dispatch :
            Outcome(phase, cause, completion, dispatch).phase = phase
      BY DEF Outcome, NoOutcome
    <3> QED BY <3>1 DEF OutcomeOf
  <2>5. /\ OutcomeSet(st.sets, st'.sets, SetOf(r), r.act, OutcomeOf(r))
        /\ Rephased(st.act, st'.act) /\ st'.bound = st.bound /\ st'.act[r.act].phase = r.answer
    BY <1>3 DEF BranchDone, SameJoins
  <2> QED BY <1>1, <2>2, <2>3, <2>4, <2>5, OutcomeFlows
<1>4. ASSUME NEW s, NEW i, Canceled(s, i)
      PROVE  Flows(st')
  <2> DEFINE b == st.queue[i]
  <2>1. /\ b \in 1..Len(st.act) /\ st.act[b].phase = "ready" /\ st.act[b].set = s
        /\ OutcomeSet(st.sets, st'.sets, s, b, Cancellation)
        /\ Rephased(st.act, st'.act) /\ st'.bound = st.bound
        /\ \A c \in 1..Len(st.act) : c # b => st'.act[c] = st.act[c]
    BY <1>4 DEF Canceled, SameJoins
  <2>2. s # 0
    <3>1. s \in 1..Len(st.sets)
      BY <2>1 DEF OutcomeSet
    <3> QED BY <3>1
  <2>3. Cancellation.phase = "canceled"
    BY <1>1 DEF Cancellation, Outcome, NoOutcome
  <2> HIDE DEF b
  <2>4. CompletedStay(st, st')
    BY <2>1 DEF CompletedStay
  <2>5. b \in DOMAIN st.sets[s].out /\ ~st.sets[s].out[b].committed
    BY <1>2, <2>1, <2>2 DEF Over
  <2> QED BY <1>1, <2>1, <2>3, <2>4, <2>5, OutcomeFlows
<1>5. ASSUME NEW s, NEW b, Superseded(s, b)
      PROVE  Flows(st')
  <2> DEFINE old == st.sets[s].out[b]
             new == [old EXCEPT !.phase = "superseded"]
  <2>1. /\ OutcomeSet(st.sets, st'.sets, s, b, new) /\ st'.act = st.act /\ st'.bound = st.bound
        /\ b \in Members(st.sets[s])
    BY <1>5 DEF Superseded, SameJoins
  <2>2. s \in 1..Len(st.sets) /\ b \in DOMAIN st.sets[s].out
    BY <1>1, <2>1 DEF OutcomeSet, WellTyped, SetsKnown
  <2>3. old \in Outcomes
    BY <1>1, <2>2, RunStateParts, OutcomeMapIsFunction DEF SourceSets
  <2>4. new.phase # "completed" /\ new.committed = old.committed /\ new.dispatch = old.dispatch
    BY <2>3 DEF Outcomes
  <2> HIDE DEF new
  <2>5. CompletedStay(st, st')
    BY <2>1 DEF CompletedStay
  <2> QED BY <1>1, <2>1, <2>2, <2>4, <2>5, OutcomeFlows
<1> QED BY <1>3, <1>4, <1>5

LEMMA DecideFlows ==
  ASSUME TypeInv, Flows(st), NEW s, NEW d, Resolved(s, d)
  PROVE  Flows(st')
<1> DEFINE x == st.sets[s]  y == st'.sets[s]
<1>1. WellTyped(st) /\ st \in RunStates /\ st' \in RunStates
  BY TypeParts DEF TypeInv, Resolved
<1>2. /\ s \in 1..Len(st.sets) /\ y.out = x.out /\ y.selected = d.selected /\ y.decided = ~d.failed
      /\ Decides(x, d) /\ ~x.decided
  BY DEF Resolved, SetChange
<1>3. ChoiceSound(x, st.act)
  BY <1>2 DEF Flows, ChoicesSound
<1>4. DOMAIN x.out = Members(x)
  BY <1>1, <1>2 DEF WellTyped, SetsKnown
<1>5. st'.act = st.act /\ st'.bound = st.bound /\ SetChange(st.sets, st'.sets, s)
  BY DEF Resolved, SameJoins
<1> HIDE DEF x, y
<1>6. ChoiceSound(y, st.act)
  <2>1. \A b \in InPhase(x, {"completed"}) : st.act[b].phase = "completed"
    BY <1>3, <1>4 DEF InPhase, ChoiceSound
  <2>2. \A k \in 1..Len(d.selected) : st.act[d.selected[k]].phase = "completed"
    BY <1>2, <2>1 DEF Decides
  <2>3. ASSUME NEW k \in 1..Len(d.selected)
        PROVE  ~d.failed
    <3>1. Len(<<>>) = 0 /\ \A j \in 1..0 : FALSE
      OBVIOUS
    <3> QED BY <1>2, <2>3, <3>1 DEF Decides
  <2> QED BY <1>2, <1>3, <2>2, <2>3 DEF ChoiceSound
<1>7. x.decided => y.decided /\ y.selected = x.selected
  BY <1>2
<1> QED BY <1>1, <1>5, <1>6, <1>7, DecidedFlows DEF x, y

LEMMA EndFlows ==
  ASSUME TypeInv, Flows(st), NEW i, NEW g, Ended(i, g)
  PROVE  Flows(st')
<1>1. WellTyped(st) /\ st' \in RunStates
  BY DEF TypeInv, Ended
<1>2. /\ SetChange(st.sets, st'.sets, g) /\ st'.act = st.act /\ st'.bound = st.bound
      /\ st'.sets[g].decided = st.sets[g].decided /\ st'.sets[g].selected = st.sets[g].selected
      /\ g \in 1..Len(st.sets) /\ st'.sets[g].out = st.sets[g].out
  BY DEF Ended, SameJoins, SetChange
<1>3. ChoiceSound(st'.sets[g], st.act)
  <2>1. ChoiceSound(st.sets[g], st.act)
    BY <1>2 DEF Flows, ChoicesSound
  <2> QED BY <1>2, <2>1 DEF ChoiceSound
<1> QED BY <1>1, <1>2, <1>3, DecidedFlows

LEMMA PullFlows ==
  ASSUME TypeInv, Flows(st), NEW i, NEW g, NEW b, Pulled(i, g, b)
  PROVE  Flows(st')
<1>1. WellTyped(st) /\ st \in RunStates /\ st' \in RunStates /\ Len(st.act) \in Nat /\ Len(st.sets) \in Nat
  BY TypeParts, RunStateParts DEF TypeInv, Pulled
<1>2. /\ Len(st'.act) = Len(st.act) + 1 /\ \A a \in 1..Len(st.act) : st'.act[a] = st.act[a]
      /\ b = Len(st.act) + 1 /\ st'.act[b].input = <<>> /\ st'.bound = st.bound
      /\ Len(st'.sets) = Len(st.sets) /\ \A j \in 1..Len(st.sets) : j # g => st'.sets[j] = st.sets[j]
      /\ WithBranch(st.sets[g], st'.sets[g], b)
  BY DEF Pulled, Adds
<1>3. g \in 1..Len(st.sets)
  BY PullingParts DEF Pulled
<1>4. b \notin DOMAIN st.sets[g].out
  <2>1. \A c \in DOMAIN st.sets[g].out : c \in 1..Len(st.act)
    BY <1>1, <1>3, SetRefs
  <2> QED BY <1>1, <1>2, <2>1
<1>5. ActsKept(st, st') /\ CompletedStay(st, st')
  BY <1>1, <1>2 DEF ActsKept, SameActivation, CompletedStay
<1> DEFINE x == st.sets[g]  y == st'.sets[g]
<1>6. WithBranch(x, y, b) /\ b \notin DOMAIN x.out
  BY <1>2, <1>4
<1> HIDE DEF x, y
<1>7. OutcomeKept(x, y)
  BY <1>6 DEF OutcomeKept, WithBranch
<1>8. OutcomesKept(st, st')
  <2>1. \A j \in 1..Len(st.sets) : OutcomeKept(st.sets[j], st.sets[j])
    BY DEF OutcomeKept
  <2> QED BY <1>1, <1>2, <1>7, <2>1 DEF OutcomesKept, x, y
<1>9. KeepsTaken(st, st')
  <2>1. \A j \in (Len(st.act) + 1)..Len(st'.act) : j = b
    BY <1>1, <1>2
  <2>2. \A j \in (Len(st.act) + 1)..Len(st'.act) : st'.act[j].input = <<>>
    BY <1>2, <2>1
  <2>3. Len(st.act) <= Len(st'.act)
    BY <1>1, <1>2
  <2> QED BY <1>1, <1>2, <2>2, <2>3, TakenStays
<1>10. ChoicesSound(st')
  <2>1. \A j \in 1..Len(st.sets) : ChoiceSound(st.sets[j], st'.act)
    BY <1>1, <1>5, ChoiceStays DEF Flows
  <2>2. ChoiceSound(y, st'.act)
    <3>1. ChoiceSound(x, st'.act)
      BY <1>3, <2>1 DEF x
    <3>2. NoOutcome.phase # "completed"
      BY DEF NoOutcome
    <3> QED BY <1>6, <3>1, <3>2 DEF ChoiceSound, WithBranch
  <2> QED BY <1>2, <2>1, <2>2 DEF ChoicesSound, y
<1> QED BY <1>1, <1>5, <1>8, <1>9, <1>10, QuietFlow DEF Flows

LEMMA RestartFlows ==
  ASSUME TypeInv, Restarted
  PROVE  /\ FlowSound(saved) => FlowSound(st')
         /\ ChoicesSound(saved) => ChoicesSound(st')
<1>1. WellTyped(saved) /\ saved \in RunStates /\ st' \in RunStates /\ Len(saved.sets) \in Nat
  BY TypeParts, RunStateParts DEF TypeInv, Restarted, Resumed
<1>2. /\ Rephased(saved.act, st'.act) /\ CompletedStay(saved, st') /\ st'.bound = saved.bound
      /\ Len(st'.sets) = Len(saved.sets)
      /\ \A i \in 1..Len(saved.sets) : Reread(saved.sets[i], st'.sets[i])
  BY DEF Restarted, Resumed, SameJoins, CompletedStay
<1>3. OutcomesKept(saved, st')
  <2>1. \A x, y : Reread(x, y) => OutcomeKept(x, y)
    BY DEF Reread, OutcomeKept
  <2> QED BY <1>1, <1>2, <2>1 DEF OutcomesKept
<1>4. FlowSound(saved) => FlowSound(st')
  BY <1>1, <1>2, <1>3, RephasedFlow DEF CompletedStay
<1>5. ASSUME ChoicesSound(saved)
      PROVE  ChoicesSound(st')
  <2>1. \A i \in 1..Len(saved.sets) : ChoiceSound(saved.sets[i], st'.act)
    BY <1>1, <1>2, <1>5, ChoiceStays
  <2>2. \A x, y, act : Reread(x, y) /\ ChoiceSound(x, act) => ChoiceSound(y, act)
    BY DEF Reread, ChoiceSound
  <2> QED BY <1>2, <2>1, <2>2 DEF ChoicesSound
<1> QED BY <1>4, <1>5

LEMMA SameTaken ==
  ASSUME NEW s, NEW e, e.act = s.act, e.bound = s.bound
  PROVE  KeepsTaken(s, e)
BY DEF KeepsTaken, Taken

LEMMA SameSetsKept ==
  ASSUME NEW s, NEW m, ActsKept(s, m), OutcomesKept(s, m), NEW e, e.act = m.act, e.sets = m.sets
  PROVE  ActsKept(s, e) /\ OutcomesKept(s, e)
BY DEF ActsKept, OutcomesKept

(* A joins gets the payload of b, which has been given to no join before.    *)
LEMMA GivenFlow ==
  ASSUME NEW s, FlowSound(s), NEW e, FlowKept(s, e), NEW b \in 1..Len(e.act), NEW d,
         Gives(s, e, b, d), \A t \in Joins : Taken(s, t, b) = 0 /\ Named(d, t) \in Nat,
         HandedOn(e, b), d \in Dispatched(e, b), \A t \in Joins : \A a \in Nat : Taken(s, t, a) \in Nat
  PROVE  FlowSound(e)
<1> SUFFICES ASSUME NEW t \in Joins, NEW a \in Nat
             PROVE  Taken(e, t, a) = Taken(s, t, a) \/ FlowOf(e, t, a)
  BY FlowStays
<1>1. CASE a = b
  <2>1. Taken(e, t, b) = Named(d, t)
    BY <1>1 DEF Gives
  <2> QED BY <1>1, <2>1 DEF FlowOf
<1>2. CASE a # b
  BY <1>2 DEF Gives
<1> QED BY <1>1, <1>2

LEMMA TakenIsNat ==
  ASSUME NEW s \in RunStates
  PROVE  \A t \in Joins : \A a \in Nat : Taken(s, t, a) \in Nat
<1> SUFFICES ASSUME NEW t \in Joins, NEW a \in Nat
             PROVE  Taken(s, t, a) \in Nat
  OBVIOUS
<1> DEFINE m == Cardinality(Positions(s.bound[t], {a}))
           n == Cardinality(Inputs(s, t, a))
<1>1. Taken(s, t, a) = m + n /\ m \in Nat /\ n \in Nat
  BY TakenIsSum
<1> HIDE DEF m, n
<1> QED BY <1>1

(* An activation that belongs to no source set is committed.                 *)
LEMMA ActivationFlows ==
  ASSUME TypeInv, TypeInv', QueueInv, status # "failed", Flows(st), NEW r, Committing(r),
         ResultSound(r, st.act), NEW f, NEW x, NEW n, NEW k, ActivationDone(r, f, x, n, k)
  PROVE  Flows(st')
<1>1. /\ WellTyped(st) /\ st \in RunStates /\ WellTyped(f) /\ f \in RunStates
      /\ st' \in RunStates /\ r.act \in 1..Len(st.act) /\ r.dispatch \in Dispatchable
      /\ st.act[r.act].phase \notin Over /\ r.act \in Nat /\ Len(st.act) \in Nat
  BY TypeParts, HeadTodo, InHandIsNotOver, RunStateParts DEF TypeInv, ActivationDone, WellTyped, InHand
<1>2. /\ Done(st, f, r.act, r.answer) /\ Extended(f, x, n, k) /\ Forwards(r, f, x) /\ Stepped(x, st')
      /\ SetOf(r) = 0 /\ r.answer \in {"completed", "skipped"}
  BY DEF ActivationDone
<1>3. QuietStep(st, f)
  <2>1. CompletedStay(st, f)
    BY <1>1, <1>2 DEF CompletedStay, Done, Over
  <2> QED BY <1>1, <1>2, <2>1 DEF QuietStep, Done, SameJoins
<1>4. FlowSound(f) /\ ChoicesSound(f) /\ KeepsTaken(st, f)
  BY <1>1, <1>3, QuietFlows, RephasedKeepsTaken DEF Flows, QuietStep
<1>5. ActsKept(f, x) /\ OutcomesKept(f, x) /\ ChoicesSound(x)
  BY <1>1, <1>2, <1>4, ExtendedChoices
<1>6. st'.act = x.act /\ st'.sets = x.sets /\ st'.bound = x.bound
  BY <1>2 DEF Stepped, SameSets, SameJoins
<1>7. ActsKept(f, st') /\ OutcomesKept(f, st') /\ FlowKept(f, st')
  BY <1>1, <1>5, <1>6, SameSetsKept, KeptFlows
<1>8. ChoicesSound(st')
  BY <1>5, <1>6 DEF ChoicesSound
<1>9. PICK e : Grown(e, x) /\ IF r.answer = "completed" THEN Routes(f, e, r.act, r.dispatch) ELSE OnlyCloses(f, e)
  BY <1>2 DEF Forwards
<1>10. KeepsTaken(e, st')
  <2>1. KeepsTaken(e, x)
    BY <1>9 DEF Grown
  <2> QED BY <1>6, <2>1, SameTaken DEF KeepsTaken
<1>11. CASE r.answer = "completed"
  <2>1. Gives(f, e, r.act, r.dispatch)
    BY <1>1, <1>9, <1>11, RoutesGive
  <2>2. Gives(f, st', r.act, r.dispatch)
    BY <1>10, <2>1 DEF Gives, KeepsTaken
  <2>3. \A t \in Joins : Taken(f, t, r.act) = 0 /\ Named(r.dispatch, t) \in Nat
    <3> TAKE t \in Joins
    <3>1. FlowOf(st, t, r.act)
      BY <1>1 DEF Flows, FlowSound
    <3>2. Taken(st, t, r.act) = 0
      BY <1>1, <3>1 DEF FlowOf, HandedOn, Over
    <3> QED BY <1>1, <1>4, <3>2, NamedIsNat DEF KeepsTaken
  <2>4. /\ f.act[r.act].phase = "completed" /\ f.act[r.act].set = 0
        /\ f.act[r.act].node = st.act[r.act].node /\ r.act \in 1..Len(f.act)
    BY <1>1, <1>2, <1>11 DEF Done, Rephased, SameActivation, SetOf
  <2>5. /\ st'.act[r.act].phase = "completed" /\ st'.act[r.act].set = 0
        /\ st'.act[r.act].node = st.act[r.act].node /\ r.act \in 1..Len(st'.act)
    <3>1. Len(f.act) \in Nat /\ Len(st'.act) \in Nat
      BY <1>1, RunStateParts
    <3> QED BY <1>7, <2>4, <3>1 DEF ActsKept, SameActivation
  <2>6. HandedOn(st', r.act) /\ r.dispatch \in Dispatched(st', r.act)
    BY <1>11, <2>5 DEF HandedOn, Dispatched, ResultSound
  <2>7. FlowSound(st')
    BY <1>1, <1>4, <1>7, <2>2, <2>3, <2>5, <2>6, TakenIsNat, GivenFlow
  <2> QED BY <1>8, <2>7 DEF Flows
<1>12. CASE r.answer # "completed"
  <2>1. KeepsTaken(f, e)
    BY <1>9, <1>12, SameTaken DEF OnlyCloses
  <2>2. KeepsTaken(f, st')
    BY <1>10, <2>1 DEF KeepsTaken
  <2>3. FlowSound(st')
    BY <1>1, <1>4, <1>7, <2>2, QuietFlow
  <2> QED BY <1>8, <2>3 DEF Flows
<1> QED BY <1>11, <1>12

(* A selected branch is routed, and with committed its set says so.          *)
LEMMA ReleaseFlows ==
  ASSUME TypeInv, TypeInv', Flows(st), NEW s, NEW b, NEW c, NEW x, BranchReleased(s, b, c, x)
  PROVE  Flows(st')
<1> DEFINE y == st.sets[s]
           d == y.out[b].dispatch
           o == [y.out[b] EXCEPT !.committed = TRUE]
<1>1. /\ WellTyped(st) /\ st \in RunStates /\ st' \in RunStates /\ WellTyped(c) /\ c \in RunStates
      /\ WellTyped(x) /\ x \in RunStates /\ c.act = st.act /\ c.sets = st.sets /\ c.bound = st.bound
      /\ d \in Dispatchable /\ b \in 1..Len(c.act) /\ Settling(s)
  BY TypeParts, ReleasedParts DEF TypeInv, WellTyped, BranchReleased, OnlyCloses
<1>2. PICK n, k : Extended(c, x, n, k)
  BY ReleasedParts
<1>3. /\ OutcomeSet(x.sets, st'.sets, s, b, o) /\ st'.act = x.act /\ st'.bound = x.bound
      /\ b \in Members(y) /\ b \in Selected(s) /\ ~y.out[b].committed /\ Routes(c, x, b, d)
  BY DEF BranchReleased, SameJoins
<1>4. s \in 1..Len(st.sets) /\ y \in SourceSets /\ x.sets[s] = y /\ b \in DOMAIN y.out
  <2>1. s \in 1..Len(st.sets)
    BY <1>1, SettlingParts
  <2>2. x.sets[s] = c.sets[s]
    BY <1>1, <1>2, <2>1, ExtendedParts
  <2>3. DOMAIN y.out = Members(y)
    BY <1>1, <2>1 DEF WellTyped, SetsKnown
  <2> QED BY <1>1, <1>3, <2>1, <2>2, <2>3, RunStateParts
<1>5. /\ o.committed /\ o.dispatch = d /\ o.phase = y.out[b].phase
  <2>1. y.out[b] \in Outcomes
    BY <1>4, OutcomeMapIsFunction DEF SourceSets
  <2> QED BY <2>1 DEF Outcomes
<1>6. y.decided /\ st.act[b].phase = "completed" /\ b \in ToSet(y.selected)
      /\ (o.phase = "completed" => st.act[b].phase = "completed")
  <2>1. ChoiceSound(y, st.act)
    BY <1>4 DEF Flows, ChoicesSound
  <2>2. PICK h \in DOMAIN y.selected : y.selected[h] = b
    BY <1>3 DEF Selected, ToSet
  <2>3. DOMAIN y.selected = 1..Len(y.selected)
    BY <1>4, SeqParts DEF SourceSets
  <2>4. b \in ToSet(y.selected)
    BY <1>3 DEF Selected
  <2> QED BY <2>1, <2>2, <2>3, <2>4 DEF ChoiceSound
<1> HIDE DEF y, d, o
<1>7. /\ ActsKept(c, x) /\ OutcomesKept(c, x) /\ ChoicesSound(x)
  <2>1. ChoicesSound(c)
    BY <1>1 DEF Flows, ChoicesSound
  <2> QED BY <1>1, <1>2, <2>1, ExtendedChoices
<1>8. b \in 1..Len(st'.act) /\ st'.act[b].phase = "completed" /\ st'.act[b].set = s /\ b \in Nat
  <2>1. st.act[b].set = s
    BY <1>1, <1>3, <1>4 DEF WellTyped, SetsKnown, y
  <2>2. Len(c.act) \in Nat /\ Len(x.act) \in Nat
    BY <1>1, RunStateParts
  <2> QED BY <1>1, <1>3, <1>6, <1>7, <2>1, <2>2 DEF ActsKept, SameActivation
<1>9. OutcomesKept(x, st') /\ ChoicesSound(st')
  <2>1. CompletedStay(x, st')
    BY <1>3 DEF CompletedStay
  <2> QED BY <1>1, <1>3, <1>4, <1>5, <1>7, <1>8, <2>1, OutcomeChoices
<1>10. FlowKept(st, st')
  <2>1. ActsKept(st, st')
    BY <1>1, <1>3, <1>7 DEF ActsKept
  <2>2. OutcomesKept(st, st')
    <3>1. Len(st.sets) \in Nat /\ Len(x.sets) \in Nat /\ Len(st'.sets) \in Nat
      BY <1>1, RunStateParts
    <3>2. \A u, v, w : OutcomeKept(u, v) /\ OutcomeKept(v, w) => OutcomeKept(u, w)
      BY DEF OutcomeKept
    <3> QED BY <1>1, <1>7, <1>9, <3>1, <3>2 DEF OutcomesKept
  <2> QED BY <1>1, <2>1, <2>2, KeptFlows
<1>11. HandedOn(st', b) /\ d \in Dispatched(st', b)
  <2>1. /\ st'.sets[s].decided = y.decided /\ st'.sets[s].selected = y.selected /\ st'.sets[s].out[b] = o
    BY <1>3, <1>4 DEF OutcomeSet
  <2>2. s # 0
    BY <1>4
  <2> QED BY <1>5, <1>6, <1>8, <2>1, <2>2 DEF HandedOn, Dispatched
<1>12. Gives(st, st', b, d)
  <2>1. Gives(c, x, b, d)
    BY <1>1, <1>3, <1>8, RoutesGive
  <2>2. KeepsTaken(st, c) /\ KeepsTaken(x, st')
    BY <1>1, <1>3, SameTaken
  <2> QED BY <2>1, <2>2 DEF Gives, KeepsTaken
<1>13. \A t \in Joins : Taken(st, t, b) = 0 /\ Named(d, t) \in Nat
  <2> TAKE t \in Joins
  <2>1. FlowOf(st, t, b)
    BY <1>8 DEF Flows, FlowSound
  <2>2. st.act[b].set = s /\ s # 0
    BY <1>1, <1>3, <1>4 DEF WellTyped, SetsKnown, y
  <2>3. Taken(st, t, b) = 0
    BY <1>3, <2>1, <2>2 DEF FlowOf, HandedOn, y
  <2> QED BY <1>1, <2>3, NamedIsNat
<1>14. FlowSound(st')
  BY <1>1, <1>8, <1>10, <1>11, <1>12, <1>13, TakenIsNat, GivenFlow DEF Flows
<1> QED BY <1>9, <1>14 DEF Flows

LEMMA SettleSetFlows ==
  ASSUME TypeInv, TypeInv', Flows(st), NEW s, NEW c, NEW x, Settling(s), SetSettled(s, c, x)
  PROVE  Flows(st')
<1>1. /\ WellTyped(st) /\ st \in RunStates /\ st' \in RunStates /\ c \in RunStates /\ c.act = st.act
      /\ c.sets = st.sets /\ c.bound = st.bound /\ WellTyped(c) /\ Grown(c, x) /\ s \in 1..Len(st.sets)
      /\ st.sets[s] \in SourceSets
  BY TypeParts, OnlyClosesIsUpdated, SettlingParts DEF TypeInv, WellTyped, SetSettled, OnlyCloses, SameSets
<1>2. /\ st'.act = x.act /\ st'.bound = x.bound /\ Len(st'.sets) = Len(st.sets)
      /\ \A j \in 1..Len(st.sets) : j # s => st'.sets[j] = st.sets[j]
      /\ st'.sets[s] = [st.sets[s] EXCEPT !.settled = TRUE]
  BY DEF SetSettled, SameJoins
<1>3. /\ Len(st.act) <= Len(x.act) /\ \A a \in 1..Len(st.act) : x.act[a] = st.act[a]
  BY <1>1, GrownIsTyped DEF Grown, Adds
<1>4. ActsKept(st, st') /\ CompletedStay(st, st')
  BY <1>2, <1>3 DEF ActsKept, SameActivation, CompletedStay
<1> DEFINE u == st.sets[s]  v == st'.sets[s]
<1>5. v.out = u.out /\ v.decided = u.decided /\ v.selected = u.selected
  BY <1>1, <1>2 DEF SourceSets
<1> HIDE DEF u, v
<1>6. OutcomesKept(st, st')
  <2>1. \A j \in 1..Len(st.sets) : OutcomeKept(st.sets[j], st.sets[j])
    BY DEF OutcomeKept
  <2>2. OutcomeKept(u, v)
    BY <1>5 DEF OutcomeKept
  <2>3. Len(st.sets) \in Nat
    BY <1>1, RunStateParts
  <2> QED BY <1>1, <1>2, <2>1, <2>2, <2>3 DEF OutcomesKept, u, v
<1>7. ChoicesSound(st')
  <2>1. \A i \in 1..Len(st.sets) : ChoiceSound(st.sets[i], st'.act)
    BY <1>1, <1>4, ChoiceStays DEF Flows
  <2>2. ChoiceSound(v, st'.act)
    <3>1. ChoiceSound(u, st'.act)
      BY <1>1, <2>1 DEF u
    <3> QED BY <1>5, <3>1 DEF ChoiceSound
  <2> QED BY <1>2, <2>1, <2>2 DEF ChoicesSound, v
<1>8. KeepsTaken(st, st')
  <2>1. KeepsTaken(st, c) /\ KeepsTaken(x, st')
    BY <1>1, <1>2, SameTaken
  <2>2. KeepsTaken(c, x)
    BY <1>1 DEF Grown
  <2> QED BY <2>1, <2>2 DEF KeepsTaken
<1>9. FlowSound(st')
  BY <1>1, <1>4, <1>6, <1>8, QuietFlow DEF Flows
<1> QED BY <1>7, <1>9 DEF Flows

LEMMA EndedStays ==
  ASSUME TypeInv, Moves, status = "failed"
  PROVE  st' = st /\ saved' \in {saved, st} /\ status' = "failed"
<1>1. pc = "ended"
  BY DEF TypeInv, ControlInv
<1>2. Stays => st' = st /\ saved' \in {saved, st} /\ status' = "failed"
  BY <1>1 DEF Stays, vars
<1>3. ~Failed /\ ~Interrupted /\ ~Crashed /\ ~Restarted
  BY <1>1 DEF Failed, Interrupted, BatchDone, Crashed, Restarted
<1>4. ~(\E r : Committed(r)) /\ ~(\E s : Settling(s) /\ SettleStep(s))
  BY <1>1 DEF Committed, Committing, Settling
<1>5. ~(Accepted /\ AllReturned) /\ ~(Scheduled /\ pc = "schedule")
  BY <1>1 DEF AllReturned
<1>6. /\ ~(\E i : Started(i)) /\ ~(\E i : Returned(i)) /\ ~(\E i, g, b : Pulled(i, g, b))
      /\ ~(\E i, g : Ended(i, g))
  BY <1>1 DEF Started, Returned, Pulled, Ended, Pulling
<1> QED BY <1>2, <1>3, <1>4, <1>5, <1>6 DEF Moves

LEMMA CommitFlows ==
  ASSUME TypeInv, TypeInv', QueueInv, DecisionInv, status # "failed", Flows(st),
         ResultsSound(todo, st.act), NEW r, Committed(r)
  PROVE  Flows(st')
<1>1. WellTyped(st) /\ Committing(r)
  BY DEF TypeInv, Committed
<1>2. CASE Retried(r)
  BY <1>1, <1>2, QuietSteps, QuietFlows DEF Flows
<1>3. CASE BranchDone(r)
  BY <1>1, <1>3, BranchStepsFlow
<1>4. CASE \E f, x, n, k : ActivationDone(r, f, x, n, k)
  <2>1. ResultSound(r, st.act)
    BY <1>1, HeadTodo DEF ResultsSound
  <2> QED BY <1>1, <1>4, <2>1, ActivationFlows
<1> QED BY <1>2, <1>3, <1>4 DEF Committed

LEMMA MovesFlow ==
  ASSUME TypeInv, TypeInv', QueueInv, DecisionInv, FlowInv, Moves, status # "failed", ~Failed
  PROVE  Flows(st') /\ Flows(saved')
<1>1. Flows(st) /\ Flows(saved) /\ ResultsSound(todo, st.act) /\ WellTyped(st)
  BY DEF FlowInv, Flows, TypeInv
<1>2. ASSUME Flows(st'), saved' \in {saved, st'}
      PROVE  Flows(st') /\ Flows(saved')
  BY <1>1, <1>2
<1>3. CASE Stays \/ (Scheduled /\ pc = "schedule") \/ Crashed
  <2>1. st' \in {st, saved} /\ saved' \in {saved, st'}
    BY <1>3 DEF Stays, Scheduled, Crashed
  <2> QED BY <1>1, <1>2, <2>1
<1>4. CASE Restarted
  BY <1>1, <1>2, <1>4, RestartFlows DEF Restarted, Flows
<1>5. CASE (Accepted /\ AllReturned) \/ Interrupted
  BY <1>1, <1>2, <1>5, QuietSteps, QuietFlows DEF Accepted, Interrupted, Flows
<1>6. CASE \E i : Started(i) \/ Returned(i)
  <2>1. PICK i : Started(i) \/ Returned(i)
    BY <1>6
  <2>2. saved' \in {saved, st'}
    BY <2>1 DEF Started, Returned
  <2> QED BY <1>1, <1>2, <2>1, <2>2, QuietSteps, QuietFlows DEF Flows
<1>7. CASE \E i, g, b : Pulled(i, g, b)
  <2>1. PICK i, g, b : Pulled(i, g, b)
    BY <1>7
  <2>2. saved' = st'
    BY <2>1 DEF Pulled
  <2> QED BY <1>1, <1>2, <2>1, <2>2, PullFlows
<1>8. CASE \E i, g : Ended(i, g)
  <2>1. PICK i, g : Ended(i, g)
    BY <1>8
  <2>2. saved' = st'
    BY <2>1 DEF Ended
  <2> QED BY <1>1, <1>2, <2>1, <2>2, EndFlows
<1>9. CASE \E r : Committed(r)
  <2>1. PICK r : Committed(r)
    BY <1>9
  <2>2. saved' = st'
    BY <2>1 DEF Committed, Retried, BranchDone, ActivationDone
  <2> QED BY <1>1, <1>2, <2>1, <2>2, CommitFlows
<1>10. CASE \E s : Settling(s) /\ SettleStep(s)
  <2>1. PICK s : Settling(s) /\ SettleStep(s)
    BY <1>10
  <2>2. \A d : Resolved(s, d) => Flows(st') /\ saved' \in {saved, st'}
    BY <1>1, DecideFlows DEF Resolved
  <2>3. \A i : Canceled(s, i) => Flows(st') /\ saved' \in {saved, st'}
    BY <1>1, BranchStepsFlow DEF Canceled
  <2>4. \A b : Superseded(s, b) => Flows(st') /\ saved' \in {saved, st'}
    BY <1>1, BranchStepsFlow DEF Superseded
  <2>5. \A b, c, x : BranchReleased(s, b, c, x) => Flows(st') /\ saved' \in {saved, st'}
    BY <1>1, ReleaseFlows DEF BranchReleased
  <2>6. \A c, x : SetSettled(s, c, x) => Flows(st') /\ saved' \in {saved, st'}
    BY <1>1, <2>1, SettleSetFlows DEF SetSettled
  <2> QED BY <1>2, <2>1, <2>2, <2>3, <2>4, <2>5, <2>6 DEF SettleStep
<1> QED BY <1>3, <1>4, <1>5, <1>6, <1>7, <1>8, <1>9, <1>10 DEF Moves

(* The node of an activation never changes while a process runs.             *)
NodesStay(s, e) == \A a \in 1..Len(s.act) : e.act[a].node = s.act[a].node

LEMMA NodesStayInCommits ==
  ASSUME TypeInv, NEW r, Committed(r)
  PROVE  NodesStay(st, st')
<1>1. CASE Retried(r) \/ BranchDone(r)
  BY <1>1 DEF Retried, BranchDone, NodesStay, Rephased, SameActivation
<1>2. CASE \E f, x, n, k : ActivationDone(r, f, x, n, k)
  <2>1. PICK f, x, n, k : ActivationDone(r, f, x, n, k)
    BY <1>2
  <2>2. /\ WellTyped(f) /\ Rephased(st.act, f.act) /\ Extended(f, x, n, k) /\ st'.act = x.act
    BY <2>1 DEF ActivationDone, Done, Stepped
  <2>3. \A a \in 1..Len(f.act) : x.act[a] = f.act[a]
    BY <2>2, ExtendedParts
  <2> QED BY <2>2, <2>3 DEF NodesStay, Rephased, SameActivation
<1> QED BY <1>1, <1>2 DEF Committed

LEMMA NodesStayInSettling ==
  ASSUME TypeInv, NEW s, Settling(s), SettleStep(s)
  PROVE  NodesStay(st, st')
<1>1. WellTyped(st)
  BY DEF TypeInv
<1>2. ASSUME NEW d, Resolved(s, d)
      PROVE  NodesStay(st, st')
  BY <1>2 DEF Resolved, NodesStay
<1>3. ASSUME NEW i, Canceled(s, i)
      PROVE  NodesStay(st, st')
  BY <1>3 DEF Canceled, NodesStay, Rephased, SameActivation
<1>4. ASSUME NEW b, Superseded(s, b)
      PROVE  NodesStay(st, st')
  BY <1>4 DEF Superseded, NodesStay
<1>5. ASSUME NEW b, NEW c, NEW x, BranchReleased(s, b, c, x)
      PROVE  NodesStay(st, st')
  <2>1. PICK n, k : Extended(c, x, n, k)
    BY <1>5, ReleasedParts
  <2>2. WellTyped(c) /\ c.act = st.act /\ st'.act = x.act
    BY <1>5, ReleasedParts DEF BranchReleased
  <2>3. \A a \in 1..Len(c.act) : x.act[a] = c.act[a]
    BY <2>1, <2>2, ExtendedParts
  <2> QED BY <2>2, <2>3 DEF NodesStay
<1>6. ASSUME NEW c, NEW x, SetSettled(s, c, x)
      PROVE  NodesStay(st, st')
  BY <1>6 DEF SetSettled, OnlyCloses, Grown, Adds, NodesStay
<1> QED BY <1>2, <1>3, <1>4, <1>5, <1>6 DEF SettleStep

LEMMA ResultsStaySound ==
  ASSUME TypeInv, NodesStay(st, st')
  PROVE  /\ ResultsSound(batch, st.act) => ResultsSound(batch, st'.act)
         /\ ResultsSound(todo, st.act) => ResultsSound(todo, st'.act)
         /\ ResultsSound(todo, st.act) /\ todo # <<>> => ResultsSound(Tail(todo), st'.act)
<1>1. /\ \A i \in 1..Len(batch) : batch[i].act \in 1..Len(st.act)
      /\ \A i \in 1..Len(todo) : todo[i].act \in 1..Len(st.act)
      /\ todo \in Seq(Results)
  BY TypeParts
<1>2. ResultsSound(batch, st.act) => ResultsSound(batch, st'.act)
  BY <1>1 DEF ResultsSound, ResultSound, NodesStay
<1>3. ResultsSound(todo, st.act) => ResultsSound(todo, st'.act)
  BY <1>1 DEF ResultsSound, ResultSound, NodesStay
<1>4. ASSUME ResultsSound(todo, st.act), todo # <<>>
      PROVE  ResultsSound(Tail(todo), st'.act)
  <2>1. /\ Len(Tail(todo)) = Len(todo) - 1 /\ Len(todo) \in Nat \ {0}
        /\ \A i \in 1..(Len(todo) - 1) : Tail(todo)[i] = todo[i + 1]
    BY <1>1, <1>4, TailParts
  <2>2. ASSUME NEW i \in 1..Len(Tail(todo))
        PROVE  ResultSound(Tail(todo)[i], st'.act)
    <3>1. i \in 1..(Len(todo) - 1) /\ i + 1 \in 1..Len(todo)
      BY <2>1
    <3> QED BY <1>3, <1>4, <2>1, <3>1 DEF ResultsSound
  <2> QED BY <2>2 DEF ResultsSound
<1> QED BY <1>2, <1>3, <1>4

LEMMA NoResults ==
  \A act : ResultsSound(<<>>, act)
BY EmptyParts DEF ResultsSound

LEMMA AcceptedResults ==
  ASSUME TypeInv, QueueInv, status # "failed", ResultsSound(batch, st.act), Accepted, AllReturned
  PROVE  ResultsSound(todo', st.act)
<1>1. todo' = Kept /\ Kept \in Seq(Results)
  BY KeptAndGone DEF Accepted
<1>2. \A k \in 1..Len(Kept) : \E i \in 1..Len(batch) : Kept[k] = batch[i]
  BY KeptAndGone
<1>3. \A k \in 1..Len(Kept) : ResultSound(Kept[k], st.act)
  BY <1>2 DEF ResultsSound
<1> QED BY <1>1, <1>3 DEF ResultsSound

LEMMA ReturnedResults ==
  ASSUME TypeInv, ResultsSound(batch, st.act), NEW i, Returned(i)
  PROVE  ResultsSound(batch', st.act) /\ st'.act = st.act
<1>1. st'.act = st.act
  <2>1. st \in RunStates
    BY TypeParts
  <2> QED BY <2>1 DEF Returned, RunStates
<1>2. ASSUME NEW j \in 1..Len(batch')
      PROVE  ResultSound(batch'[j], st.act)
  <2>1. j \in 1..Len(batch) /\ ResultSound(batch[j], st.act)
    BY DEF Returned, ResultsSound
  <2>2. CASE j = i
    BY <2>2 DEF Returned, ResultSound
  <2>3. CASE j # i
    BY <2>1, <2>3 DEF Returned
  <2> QED BY <2>2, <2>3
<1> QED BY <1>1, <1>2 DEF ResultsSound

LEMMA MovesKeepResults ==
  ASSUME TypeInv, QueueInv, FlowInv, Moves, status # "failed", ~Failed
  PROVE  ResultsSound(batch', st'.act) /\ ResultsSound(todo', st'.act)
<1>1. ResultsSound(batch, st.act) /\ ResultsSound(todo, st.act)
  BY DEF FlowInv
<1>2. ASSUME NodesStay(st, st'), batch' \in {batch, <<>>}, todo' \in {todo, <<>>}
      PROVE  ResultsSound(batch', st'.act) /\ ResultsSound(todo', st'.act)
  BY <1>1, <1>2, NoResults, ResultsStaySound
<1>3. CASE Stays
  <2>1. NodesStay(st, st') /\ batch' \in {batch, <<>>} /\ todo' = todo
    BY <1>3 DEF Stays, NodesStay, vars
  <2> QED BY <1>2, <2>1
<1>4. CASE Crashed \/ Restarted
  <2>1. batch' = <<>> /\ todo' = <<>>
    BY <1>4 DEF Crashed, Restarted
  <2> QED BY <2>1, NoResults
<1>5. CASE Interrupted
  <2>1. NodesStay(st, st') /\ batch' = <<>> /\ todo' = todo
    BY <1>5 DEF Interrupted, NodesStay, Rephased, SameActivation
  <2> QED BY <1>2, <2>1
<1>6. CASE Scheduled /\ pc = "schedule"
  <2>1. ResultsSound(batch', st'.act)
    BY <1>6 DEF Scheduled, ResultsSound, ResultSound
  <2>2. todo' = todo /\ st' = st
    BY <1>6 DEF Scheduled
  <2> QED BY <1>1, <2>1, <2>2
<1>7. CASE Accepted /\ AllReturned
  <2>1. ResultsSound(todo', st.act)
    BY <1>1, <1>7, AcceptedResults
  <2>2. st'.act = st.act /\ batch' = batch
    <3>1. st \in RunStates
      BY TypeParts
    <3> QED BY <1>7, <3>1 DEF Accepted, RunStates
  <2> QED BY <1>1, <2>1, <2>2
<1>8. ASSUME NEW i, Started(i)
      PROVE  ResultsSound(batch', st'.act) /\ ResultsSound(todo', st'.act)
  <2>1. NodesStay(st, st') /\ batch' = batch /\ todo' = todo
    BY <1>8 DEF Started, NodesStay, InPhaseNow, Rephased, SameActivation
  <2> QED BY <1>2, <2>1
<1>9. ASSUME NEW i, Returned(i)
      PROVE  ResultsSound(batch', st'.act) /\ ResultsSound(todo', st'.act)
  <2>1. todo' = todo
    BY <1>9 DEF Returned
  <2> QED BY <1>1, <1>9, <2>1, ReturnedResults
<1>10. ASSUME NEW i, NEW g, NEW b, Pulled(i, g, b)
       PROVE  ResultsSound(batch', st'.act) /\ ResultsSound(todo', st'.act)
  <2>1. NodesStay(st, st') /\ batch' = batch /\ todo' = todo
    BY <1>10 DEF Pulled, NodesStay, Adds
  <2> QED BY <1>2, <2>1
<1>11. ASSUME NEW i, NEW g, Ended(i, g)
       PROVE  ResultsSound(batch', st'.act) /\ ResultsSound(todo', st'.act)
  <2>1. NodesStay(st, st') /\ batch' = batch /\ todo' = todo
    BY <1>11 DEF Ended, NodesStay
  <2> QED BY <1>2, <2>1
<1>12. ASSUME NEW r, Committed(r)
       PROVE  ResultsSound(batch', st'.act) /\ ResultsSound(todo', st'.act)
  <2>1. NodesStay(st, st')
    BY <1>12, NodesStayInCommits
  <2>2. todo # <<>>
    BY <1>12, HeadTodo DEF Committed
  <2>3. batch' = batch /\ todo' = Tail(todo)
    BY <1>12 DEF Committed, Retried, BranchDone, ActivationDone
  <2> QED BY <1>1, <2>1, <2>2, <2>3, ResultsStaySound
<1>13. ASSUME NEW s, Settling(s), SettleStep(s)
       PROVE  ResultsSound(batch', st'.act) /\ ResultsSound(todo', st'.act)
  <2>1. NodesStay(st, st')
    BY <1>13, NodesStayInSettling
  <2>2. batch' = batch /\ todo' = todo
    BY <1>13 DEF SettleStep, Resolved, Canceled, Superseded, BranchReleased, SetSettled
  <2> QED BY <1>2, <2>1, <2>2
<1> QED BY <1>3, <1>4, <1>5, <1>6, <1>7, <1>8, <1>9, <1>10, <1>11, <1>12, <1>13 DEF Moves

LEMMA MovesKeepFlows ==
  ASSUME TypeInv, TypeInv', QueueInv, DecisionInv, FlowInv, Moves
  PROVE  FlowInv'
<1>1. FlowSound(st) /\ FlowSound(saved)
  BY DEF FlowInv
<1>2. CASE status = "failed"
  <2>1. st' = st /\ saved' \in {saved, st} /\ status' = "failed"
    BY <1>2, EndedStays
  <2> QED BY <1>1, <2>1 DEF FlowInv
<1>3. CASE status # "failed" /\ Failed
  <2>1. QuietStep(st, st') /\ WellTyped(st)
    BY <1>3, QuietSteps DEF TypeInv
  <2>2. FlowSound(st')
    BY <1>1, <2>1, QuietFlows
  <2>3. saved' = st' /\ status' = "failed"
    BY <1>3 DEF Failed
  <2> QED BY <2>2, <2>3 DEF FlowInv
<1>4. CASE status # "failed" /\ ~Failed
  <2>1. Flows(st') /\ Flows(saved')
    BY <1>4, MovesFlow
  <2>2. ResultsSound(batch', st'.act) /\ ResultsSound(todo', st'.act)
    BY <1>4, MovesKeepResults
  <2> QED BY <2>1, <2>2 DEF FlowInv, Flows
<1> QED BY <1>2, <1>3, <1>4

(* Nobody has contributed to any join.                                       *)
LEMMA NothingTaken ==
  ASSUME NEW s \in RunStates, \A t \in Joins : s.bound[t] = <<>>,
         \A j \in 1..Len(s.act) : s.act[j].input = <<>>
  PROVE  FlowSound(s)
<1> SUFFICES ASSUME NEW t \in Joins, NEW a \in Nat
             PROVE  Taken(s, t, a) = 0
  BY DEF FlowSound, FlowOf
<1>1. \A q : q = <<>> => Positions(q, {a}) = {}
  BY DEF Positions
<1>2. Positions(s.bound[t], {a}) = {}
  BY <1>1
<1>3. \A x : x \notin Inputs(s, t, a)
  <2>1. DOMAIN s.act = 1..Len(s.act)
    BY RunStateParts
  <2> QED BY <1>1, <2>1 DEF Inputs
<1>4. Inputs(s, t, a) = {}
  BY <1>3
<1>5. Cardinality({}) = 0
  BY FS_EmptySet
<1>6. Taken(s, t, a) = Cardinality(Positions(s.bound[t], {a})) + Cardinality(Inputs(s, t, a))
  BY TakenIsSum
<1>7. Cardinality(Positions(s.bound[t], {a})) = 0 /\ Cardinality(Inputs(s, t, a)) = 0
  BY ONLY <1>2, <1>4, <1>5
<1> QED BY ONLY <1>6, <1>7, 0 + 0 = 0

LEMMA InitFlows ==
  ASSUME Init
  PROVE  FlowInv
<1>1. PICK entry \in Entries : st = Fresh(entry)
  BY DEF Init
<1>2. /\ saved = st /\ st.sets = <<>> /\ batch = <<>> /\ todo = <<>>
      /\ \A t \in Joins : st.bound[t] = <<>>
      /\ \A j \in 1..Len(st.act) : st.act[j].input = <<>>
  BY <1>1 DEF Init, Fresh, NewActivation
<1>3. st \in RunStates
  BY InitTypes, TypeParts
<1>4. FlowSound(st)
  BY <1>2, <1>3, NothingTaken
<1>5. ChoicesSound(st)
  BY <1>2, EmptyParts DEF ChoicesSound
<1> QED BY <1>2, <1>4, <1>5, NoResults DEF FlowInv

LEMMA FlowsAreOnce ==
  ASSUME TypeInv, FlowInv
  PROVE  PayloadsFlowOnce
<1> SUFFICES ASSUME NEW s \in States, NEW t \in Joins, NEW a \in DOMAIN s.act, Taken(s, t, a) > 0
             PROVE  /\ Released(s, a) /\ Taken(s, t, a) \in {Named(d, t) : d \in Dispatched(s, a)}
                    /\ s.act[a].set # 0 => a \in ToSet(s.sets[s.act[a].set].selected)
  BY DEF PayloadsFlowOnce
<1>1. WellTyped(s) /\ FlowSound(s)
  BY DEF States, TypeInv, FlowInv
<1>2. s \in RunStates /\ a \in Nat
  BY <1>1, RunStateParts DEF WellTyped
<1>3. Taken(s, t, a) \in Nat
  BY <1>2, TakenIsNat
<1>4. FlowOf(s, t, a) /\ Taken(s, t, a) # 0
  BY <1>1, <1>2, <1>3 DEF FlowSound
<1>5. HandedOn(s, a) /\ \E d \in Dispatched(s, a) : Taken(s, t, a) = Named(d, t)
  BY <1>4 DEF FlowOf
<1> QED BY <1>5 DEF HandedOn, Released

(* The payload of an activation goes to the joins when its output is         *)
(* released (releaseBranch, CommitActivation), with the dispatch recorded    *)
(* for it; committed is written with it, and neither is ever done again.     *)
THEOREM Flowing == Spec => []FlowInv
<1>1. Init => FlowInv
  BY InitFlows
<1>2. TypeInv /\ TypeInv' /\ QueueInv /\ DecisionInv /\ FlowInv /\ [Next]_vars => FlowInv'
  BY StepsMove, MovesKeepFlows
<1> QED BY <1>1, <1>2, Types, Queues, Decisions, PTL DEF Spec

(* releaseBranch: a join has the payload of a branch only if the settled set *)
(* selected it, as often as its dispatch names the join, whenever the        *)
(* process dies while it settles.                                            *)
THEOREM PayloadsFlowRightly == Spec => []PayloadsFlowOnce
<1>1. TypeInv /\ FlowInv => PayloadsFlowOnce
  BY FlowsAreOnce
<1> QED BY <1>1, Types, Flowing, PTL

(* One process executes the run, and no node of its batch has interrupted it. *)
Calm == pc # "ended" /\ Undisturbed

(* The results that are still to be committed, those to come among them      *)
AtHand == IF pc \in {"start", "execute"} THEN batch ELSE todo

Has(q, a) == \E i \in 1..Len(q) : q[i].act = a

Says(q, a, answer) == \E i \in 1..Len(q) : q[i].act = a /\ q[i].answer = answer

(* The branches of set g that a result among q says have ended as answer    *)
Told(s, q, g, answer) == {a \in 1..Len(s.act) : s.act[a].set = g /\ Says(q, a, answer)}

(* The branches of g that have ended so, or will have when q is committed    *)
Ending(s, q, g, answer) == InPhase(s.sets[g], {answer}) \cup Told(s, q, g, answer)

(* Branches of g are canceled only if its other branches have decided it.    *)
Excused(s, q, g) ==
  Ending(s, q, g, "canceled") # {} =>
    LET x == s.sets[g]
    IN IF x.policy.mode = "all" THEN Ending(s, q, g, "failed") # {}
       ELSE Cardinality(Ending(s, q, g, "completed")) >= Required(x.policy, Len(x.branches))

Open(x) == ~x.decided /\ ~x.failed

(* A failure outside of all sets, which the run will end with                *)
LoneFailure ==
  pc = "execute" /\ \E i \in 1..Len(batch) : SetOf(batch[i]) = 0 /\ batch[i].answer = "failed"

(* The policy of x is out of reach by what its branches and iterators did.   *)
Warranted(x) ==
  \/ x.cause # "none"
  \/ IF x.policy.mode = "all" THEN InPhase(x, {"failed"}) # {}
     ELSE Len(x.branches) - Cardinality(InPhase(x, {"failed", "skipped"}))
            < Required(x.policy, Len(x.branches))

OutcomeFair(x, b) ==
  /\ x.out[b].cause \in {"none", "canceled", "failed"}
  /\ x.out[b].phase = "failed" => x.out[b].cause = "failed"
  /\ Open(x) => x.out[b].phase # "superseded"

SetFair(x) ==
  /\ Len(x.branches) = Cardinality(Members(x))
  /\ x.cause \in {"none", "failed"}
  /\ \A b \in Members(x) : OutcomeFair(x, b)
  /\ x.failed => x.open = 0 /\ Warranted(x)

SetsFair(s) == \A g \in 1..Len(s.sets) : SetFair(s.sets[g])

OpenExcused(s, q) == \A g \in 1..Len(s.sets) : Open(s.sets[g]) => Excused(s, q, g)

(* An activation runs only while its result is at hand.                      *)
RunsAtHand(s, q) ==
  \A a \in 1..Len(s.act) :
    \/ s.act[a].phase \in Over \cup {"ready"}
    \/ s.act[a].phase = "running" /\ Has(q, a)

Fair ==
  /\ SetsFair(st) /\ RunsAtHand(st, AtHand)
  /\ LoneFailure \/ OpenExcused(st, AtHand)

FaultInv ==
  /\ status # "failed" => fault.kind = "none"
  /\ status = "failed" => UndisturbedFailureIsWarranted
  /\ Calm => Fair

LEMMA CalmNow ==
  ASSUME TypeInv, Calm
  PROVE  status = "running"
BY DEF TypeInv, ControlInv, Calm

(* What comes before a calm state is calm.                                   *)
LEMMA CalmBefore ==
  ASSUME TypeInv, Moves, Calm'
  PROVE  Calm /\ ~Crashed /\ ~Restarted /\ ~Interrupted /\ ~Failed
<1>1. pc' # "ended" /\ processes' = 1 /\ \A i \in DOMAIN batch' : batch'[i].answer # "interrupted"
  BY DEF Calm, Undisturbed, Answered
<1>2. ~Crashed /\ ~Interrupted /\ ~Failed
  BY <1>1 DEF Crashed, Interrupted, Failed
<1>3. ~Restarted
  BY <1>1 DEF Restarted, TypeInv, ControlInv
<1>4. DOMAIN batch = 1..Len(batch)
  BY TypeParts
<1>5. pc # "ended" /\ processes = 1 /\ (batch' = batch \/ \A i \in 1..Len(batch) : batch[i].answer # "interrupted")
        => Calm
  BY <1>1, <1>4 DEF Calm, Undisturbed, Answered
<1>6. CASE Stays
  <2>1. pc # "ended" /\ processes = 1
    BY <1>1, <1>6 DEF Stays, vars, Settling, BatchDone
  <2>2. batch' = batch \/ \A i \in 1..Len(batch) : batch[i].answer # "interrupted"
    BY <1>4, <1>6 DEF Stays, vars, Answered
  <2> QED BY <1>2, <1>3, <1>5, <2>1, <2>2
<1>7. CASE Scheduled /\ pc = "schedule"
  <2>1. batch = <<>> /\ processes = 1 /\ pc # "ended"
    BY <1>1, <1>7 DEF Scheduled, TypeInv, ControlInv
  <2> QED BY <1>2, <1>3, <1>5, <2>1, EmptyParts
<1>8. CASE Accepted /\ AllReturned
  <2>1. pc # "ended" /\ processes = 1 /\ batch' = batch
    BY <1>1, <1>8 DEF Accepted, AllReturned
  <2> QED BY <1>2, <1>3, <1>5, <2>1
<1>9. CASE \E i : Started(i)
  <2>1. pc # "ended" /\ processes = 1 /\ batch' = batch
    BY <1>1, <1>9 DEF Started
  <2> QED BY <1>2, <1>3, <1>5, <2>1
<1>10. ASSUME NEW i, Returned(i)
       PROVE  Calm
  <2>1. DOMAIN batch' = 1..Len(batch)
    BY <1>10 DEF Returned
  <2>2. \A j \in 1..Len(batch) : batch[j].answer # "interrupted"
    BY <1>1, <1>10, <2>1 DEF Returned
  <2>3. pc # "ended" /\ processes = 1
    BY <1>1, <1>10 DEF Returned
  <2> QED BY <1>2, <1>3, <1>5, <2>2, <2>3
<1>11. CASE (\E i, g, b : Pulled(i, g, b)) \/ \E i, g : Ended(i, g)
  <2>1. pc # "ended" /\ processes = 1 /\ batch' = batch
    <3>1. CASE \E i, g, b : Pulled(i, g, b)
      BY <1>1, <3>1 DEF Pulled, Pulling
    <3>2. CASE \E i, g : Ended(i, g)
      BY <1>1, <3>2 DEF Ended, Pulling
    <3> QED BY <1>11, <3>1, <3>2
  <2> QED BY <1>2, <1>3, <1>5, <2>1
<1>12. CASE \E r : Committed(r)
  <2>1. pc # "ended" /\ processes = 1 /\ batch' = batch
    BY <1>1, <1>12 DEF Committed, Committing, Retried, BranchDone, ActivationDone
  <2> QED BY <1>2, <1>3, <1>5, <2>1
<1>13. CASE \E s : Settling(s) /\ SettleStep(s)
  <2>1. pc # "ended" /\ processes = 1 /\ batch' = batch
    <3> PICK s : Settling(s) /\ SettleStep(s)
      BY <1>13
    <3> QED BY <1>1 DEF Settling, SettleStep, Resolved, Canceled, Superseded, BranchReleased, SetSettled
  <2> QED BY <1>2, <1>3, <1>5, <2>1
<1> QED BY <1>2, <1>3, <1>6, <1>7, <1>8, <1>9, <1>10, <1>11, <1>12, <1>13 DEF Moves

LEMMA RequiredParts ==
  ASSUME NEW x \in SourceSets
  PROVE  /\ x.policy.mode \in {"all", "any", "quorum"} /\ Len(x.branches) \in Nat
         /\ \A n \in Nat : Required(x.policy, n) \in Nat
         /\ x.policy.mode # "all" => \A n, m \in Nat : Required(x.policy, n) = Required(x.policy, m)
<1>1. x.policy.mode \in {"all", "any", "quorum"} /\ x.policy.quorum \in Nat
  BY DEF SourceSets, Settles
<1>2. Len(x.branches) \in Nat
  BY SeqParts DEF SourceSets
<1> QED BY <1>1, <1>2 DEF Required

(* x has the branches of y, and what has failed or was skipped stays.        *)
Grows(x, y) ==
  /\ y \in SourceSets /\ y.branches = x.branches /\ y.policy = x.policy
  /\ \A b \in Members(x) : x.out[b].phase \in {"failed", "skipped"} => y.out[b].phase = x.out[b].phase

LEMMA WarrantStays ==
  ASSUME NEW x \in SourceSets, NEW y, Grows(x, y), y.cause = x.cause, Warranted(x)
  PROVE  Warranted(y)
<1> DEFINE F(z) == InPhase(z, {"failed"})
           L(z) == InPhase(z, {"failed", "skipped"})
           n == Len(x.branches)
           k == Required(x.policy, n)
<1>1. Members(y) = Members(x)
  BY DEF Grows, Members
<1>2. F(x) \subseteq F(y) /\ L(x) \subseteq L(y)
  BY <1>1 DEF Grows, InPhase
<1>3. IsFiniteSet(L(x)) /\ IsFiniteSet(L(y))
  BY MembersParts DEF Grows
<1>4. Cardinality(L(x)) \in Nat /\ Cardinality(L(y)) \in Nat
  BY <1>3, FS_CardinalityType
<1>5. Cardinality(L(x)) <= Cardinality(L(y))
  BY <1>2, <1>3, FS_Subset
<1>6. n \in Nat /\ k \in Nat
  BY RequiredParts
<1>7. Len(y.branches) = n /\ Required(y.policy, Len(y.branches)) = k /\ y.policy = x.policy
  BY DEF Grows
<1> HIDE DEF F, L, n, k
<1>8. n - Cardinality(L(x)) < k => n - Cardinality(L(y)) < k
  BY <1>4, <1>5, <1>6
<1> QED BY <1>2, <1>7, <1>8 DEF Warranted, F, L, n, k

LEMMA SetStaysFair ==
  ASSUME NEW x \in SourceSets, SetFair(x), NEW y, Grows(x, y), y.cause = x.cause, y.open = x.open,
         y.failed = x.failed, \A b \in Members(x) : OutcomeFair(y, b)
  PROVE  SetFair(y)
<1>1. Members(y) = Members(x) /\ y.branches = x.branches
  BY DEF Grows, Members
<1>2. x.failed => Warranted(y)
  BY WarrantStays DEF SetFair
<1> QED BY <1>1, <1>2 DEF SetFair

(* A branch of set g ends, is superseded or is released.                     *)
LEMMA OutcomeStaysFair ==
  ASSUME NEW s, WellTyped(s), SetsFair(s), NEW p, NEW g, NEW b, NEW o, OutcomeSet(s.sets, p, g, b, o),
         b \in DOMAIN s.sets[g].out, o.cause \in {"none", "canceled", "failed"}, o.phase = "failed" => o.cause = "failed",
         Open(s.sets[g]) => o.phase # "superseded",
         s.sets[g].out[b].phase \in {"failed", "skipped"} => o.phase = s.sets[g].out[b].phase
  PROVE  \A j \in 1..Len(s.sets) : SetFair(p[j])
<1> DEFINE x == s.sets[g]
           y == p[g]
<1>1. g \in 1..Len(s.sets) /\ Len(p) = Len(s.sets) /\ p \in Seq(SourceSets)
      /\ \A j \in 1..Len(s.sets) : j # g => p[j] = s.sets[j]
  BY DEF OutcomeSet
<1>2. x \in SourceSets /\ DOMAIN x.out = Members(x) /\ SetFair(x) /\ y \in SourceSets
  <2>1. s \in RunStates
    BY DEF WellTyped
  <2> QED BY <1>1, <2>1, RunStateParts, SeqParts DEF WellTyped, SetsKnown, SetsFair
<1>3. /\ y.branches = x.branches /\ y.policy = x.policy /\ y.open = x.open /\ y.cause = x.cause
      /\ y.decided = x.decided /\ y.failed = x.failed /\ y.out[b] = o
      /\ \A c \in Members(x) : c # b => y.out[c] = x.out[c]
  BY <1>2 DEF OutcomeSet
<1>4. \A c \in Members(x) : OutcomeFair(x, c)
  BY <1>2 DEF SetFair
<1>5. b \in Members(x) /\ (x.out[b].phase \in {"failed", "skipped"} => o.phase = x.out[b].phase)
      /\ (Open(x) => o.phase # "superseded")
  BY <1>2
<1> HIDE DEF x, y
<1>6. Grows(x, y)
  BY <1>2, <1>3, <1>5 DEF Grows
<1>7. ASSUME NEW c \in Members(x)
      PROVE  OutcomeFair(y, c)
  <2>1. CASE c = b
    BY <1>3, <1>5, <2>1 DEF OutcomeFair, Open
  <2>2. CASE c # b
    BY <1>3, <1>4, <2>2 DEF OutcomeFair, Open
  <2> QED BY <2>1, <2>2
<1>8. SetFair(y)
  BY <1>2, <1>3, <1>6, <1>7, SetStaysFair
<1> QED BY <1>1, <1>8 DEF SetsFair, y

LEMMA OpenedIsFair ==
  ASSUME NEW x, NEW m \in Nat, NEW n \in Nat, Opened(x, m, n)
  PROVE  SetFair(x)
<1>1. Cardinality((m + 1)..(m + n)) = n
  <2>1. Cardinality((m + 1)..(m + n)) = IF m + 1 > m + n THEN 0 ELSE (m + n) - (m + 1) + 1
    BY FS_Interval
  <2> QED BY <2>1
<1>2. Len(x.branches) = Cardinality(Members(x)) /\ x.cause = "none" /\ ~x.failed
  BY <1>1 DEF Opened
<1>3. \A b \in Members(x) : OutcomeFair(x, b)
  BY DEF Opened, OutcomeFair, NoOutcome
<1> QED BY <1>2, <1>3 DEF SetFair

LEMMA ExtendedSets ==
  ASSUME NEW s, WellTyped(s), NEW m, NEW n, NEW k, Extended(s, m, n, k)
  PROVE  /\ \A g \in 1..Len(s.sets) : g \in 1..Len(m.sets) /\ m.sets[g] = s.sets[g]
         /\ \A g \in 1..Len(m.sets) : g \in 1..Len(s.sets) \/ Opened(m.sets[g], Len(s.act), n)
         /\ n \in Nat /\ Len(s.act) \in Nat
<1>1. /\ Len(s.act) \in Nat /\ Len(s.sets) \in Nat /\ Len(m.sets) \in Nat /\ n \in Nat /\ k \in Nat
      /\ Len(s.sets) <= Len(m.sets) /\ \A i \in 1..Len(s.sets) : m.sets[i] = s.sets[i]
      /\ n = 0 /\ k = 0 => Len(m.sets) = Len(s.sets)
  BY ExtendedParts
<1>2. n # 0 \/ k # 0 => Len(m.sets) = Len(s.sets) + 1 /\ Opened(m.sets[Len(s.sets) + 1], Len(s.act), n)
  BY DEF Extended
<1>3. \A g \in 1..Len(m.sets) : g \in 1..Len(s.sets) \/ ((n # 0 \/ k # 0) /\ g = Len(s.sets) + 1)
  BY <1>1, <1>2
<1> QED BY <1>1, <1>2, <1>3

(* An item more: its branch is new, and the set has not failed.              *)
LEMMA BranchStaysFair ==
  ASSUME NEW x \in SourceSets, SetFair(x), NEW b, b \notin Members(x), DOMAIN x.out = Members(x),
         NEW y, WithBranch(x, y, b), x.open # 0
  PROVE  SetFair(y)
<1>1. Members(y) = Members(x) \cup {b} /\ Len(y.branches) = Len(x.branches) + 1
  <2>1. x.branches \in Seq(Nat) /\ y.branches = Append(x.branches, b)
    BY DEF SourceSets, WithBranch
  <2>2. /\ Len(y.branches) = Len(x.branches) + 1 /\ DOMAIN y.branches = 1..(Len(x.branches) + 1)
        /\ \A i \in 1..Len(x.branches) : y.branches[i] = x.branches[i]
        /\ y.branches[Len(x.branches) + 1] = b /\ DOMAIN x.branches = 1..Len(x.branches)
        /\ Len(x.branches) \in Nat
    BY <2>1
  <2>3. \A i \in 1..(Len(x.branches) + 1) : i \in 1..Len(x.branches) \/ i = Len(x.branches) + 1
    BY <2>2
  <2>4. /\ \A i \in 1..Len(x.branches) : i \in 1..(Len(x.branches) + 1)
        /\ Len(x.branches) + 1 \in 1..(Len(x.branches) + 1)
    BY <2>2
  <2> QED BY SMTT(30), <2>2, <2>3, <2>4 DEF Members, ToSet
<1>2. Len(y.branches) = Cardinality(Members(y))
  <2>1. IsFiniteSet(Members(x))
    BY MembersParts
  <2>2. Cardinality(Members(x) \cup {b}) = Cardinality(Members(x)) + 1
    BY <2>1, FS_AddElement
  <2> QED BY <1>1, <2>2 DEF SetFair
<1>3. ~x.failed /\ ~y.failed /\ y.cause = x.cause /\ y.decided = x.decided
  BY DEF SetFair, WithBranch
<1>4. ASSUME NEW c \in Members(y)
      PROVE  OutcomeFair(y, c)
  <2>1. CASE c = b
    BY <2>1 DEF WithBranch, OutcomeFair, NoOutcome
  <2>2. CASE c # b
    <3>1. c \in Members(x) /\ y.out[c] = x.out[c] /\ OutcomeFair(x, c)
      BY <1>1, <2>2 DEF WithBranch, SetFair
    <3> QED BY <1>3, <3>1 DEF OutcomeFair, Open
  <2> QED BY <2>1, <2>2
<1> QED BY <1>2, <1>3, <1>4 DEF SetFair

(* A set fails only by what its branches did.                                *)
LEMMA DecisionWarranted ==
  ASSUME NEW x \in SourceSets, DOMAIN x.out = Members(x), SetFair(x), Open(x),
         InPhase(x, {"canceled"}) # {} =>
           IF x.policy.mode = "all" THEN InPhase(x, {"failed"}) # {}
           ELSE Cardinality(InPhase(x, {"completed"})) >= Required(x.policy, Len(x.branches)),
         Decision(x).failed
  PROVE  IF x.policy.mode = "all" THEN InPhase(x, {"failed"}) # {}
         ELSE Len(x.branches) - Cardinality(InPhase(x, {"failed", "skipped"}))
                < Required(x.policy, Len(x.branches))
<1>1. ~Undecided.failed /\ \A q : ~Selects(q).failed
  BY DEF Undecided, Selects
<1>2. CASE x.policy.mode = "all"
  <2>1. InPhase(x, {"failed", "canceled"}) # {}
    BY <1>1, <1>2 DEF Decision
  <2>2. PICK b \in Members(x) : x.out[b].phase \in {"failed", "canceled"}
    BY <2>1 DEF InPhase
  <2>3. b \in InPhase(x, {"failed"}) \/ b \in InPhase(x, {"canceled"})
    BY <2>2 DEF InPhase
  <2> QED BY <1>2, <2>3
<1>3. CASE x.policy.mode # "all"
  <2> DEFINE n == Required(x.policy, Len(x.branches))
             C == InPhase(x, {"completed"})
             L == InPhase(x, {"failed", "skipped"})
             P == InPhase(x, {"completed", "none"})
             M == Members(x)
  <2>1. ~(Len(Successes(x)) >= n) /\ Possible(x) < n
    <3>0. Len(Successes(x)) <= Possible(x) /\ Len(Successes(x)) \in Nat /\ Possible(x) \in Nat /\ n \in Nat
      <4>1. C \subseteq P /\ Len(Successes(x)) = Cardinality(C) /\ Possible(x) = Cardinality(P)
        BY SuccessesParts DEF Possible, InPhase
      <4>2. IsFiniteSet(C) /\ IsFiniteSet(P)
        BY MembersParts
      <4>3. n \in Nat
        BY RequiredParts
      <4> HIDE DEF C, P, n
      <4> QED BY <4>1, <4>2, <4>3, FS_Subset, FS_CardinalityType
    <3>1. Len(Successes(x)) >= n => Decision(x) = Selects(SubSeq(Successes(x), 1, n))
      BY <1>3, <3>0 DEF Decision
    <3>2. ~(Len(Successes(x)) >= n) /\ ~(Possible(x) < n) => Decision(x) = Undecided
      BY <1>3 DEF Decision
    <3> QED BY <1>1, <3>1, <3>2
  <2>2. Len(Successes(x)) = Cardinality(C) /\ Possible(x) = Cardinality(P)
    BY SuccessesParts DEF Possible
  <2>3. InPhase(x, {"canceled"}) = {}
    BY <1>3, <2>1, <2>2
  <2>4. ASSUME NEW b \in M
        PROVE  b \in L \/ b \in P
    <3>1. x.out \in OutcomeMaps /\ b \in DOMAIN x.out
      BY DEF SourceSets
    <3>2. x.out[b] \in Outcomes
      BY <3>1, OutcomeMapIsFunction
    <3>3. x.out[b].phase # "superseded" /\ x.out[b].phase # "canceled"
      BY <2>3 DEF SetFair, OutcomeFair, InPhase
    <3>4. x.out[b].phase \in {"failed", "skipped", "completed", "none"}
      BY <3>2, <3>3 DEF Outcomes, Over
    <3> QED BY <3>4 DEF InPhase
  <2>5. L \cap P = {} /\ L \subseteq M /\ P \subseteq M
    BY DEF InPhase
  <2>6. IsFiniteSet(L) /\ IsFiniteSet(P)
    BY MembersParts
  <2>7. Len(x.branches) = Cardinality(M) /\ Len(x.branches) \in Nat /\ n \in Nat
    BY RequiredParts DEF SetFair
  <2> HIDE DEF n, C, L, P, M
  <2>8. M = L \cup P
    BY <2>4, <2>5
  <2>9. Cardinality(L \cup P) = Cardinality(L) + Cardinality(P) /\ Cardinality(L) \in Nat /\ Cardinality(P) \in Nat
    BY <2>5, <2>6, DisjointSum, FS_CardinalityType
  <2>10. Len(x.branches) - Cardinality(L) < n
    BY <2>1, <2>2, <2>7, <2>8, <2>9
  <2> QED BY <1>3, <2>10 DEF L, n
<1> QED BY <1>2, <1>3

-----------------------------------------------------------------------------
(* What the branches of the open sets have said                              *)

Said == {"canceled", "failed", "completed"}

SaysSame(s, q, p) ==
  \A a \in 1..Len(s.act) : s.act[a].set # 0 =>
    \A answer \in Said : Says(p, a, answer) <=> Says(q, a, answer)

(* The activations of s are in e, each in its set.                           *)
Stand(s, e) == \A a \in 1..Len(s.act) : a \in 1..Len(e.act) /\ e.act[a].set = s.act[a].set

EndsSame(x, y) ==
  y.policy = x.policy /\ \A answer \in Said : InPhase(y, {answer}) = InPhase(x, {answer})

ActsOf(q, n) == \A i \in 1..Len(q) : q[i].act \in 1..n

LEMMA ToldSame ==
  ASSUME NEW s, NEW e, Stand(s, e), NEW q, NEW p, SaysSame(s, q, p), ActsOf(p, Len(s.act)),
         NEW g, g # 0, NEW answer \in Said
  PROVE  Told(e, p, g, answer) = Told(s, q, g, answer)
<1>1. ASSUME NEW a \in Told(e, p, g, answer)
      PROVE  a \in Told(s, q, g, answer)
  <2>1. a \in 1..Len(s.act) /\ Says(p, a, answer) /\ e.act[a].set = g
    BY DEF Told, Says, ActsOf
  <2> QED BY <2>1 DEF Stand, SaysSame, Told
<1>2. ASSUME NEW a \in Told(s, q, g, answer)
      PROVE  a \in Told(e, p, g, answer)
  BY DEF Stand, SaysSame, Told
<1> QED BY <1>1, <1>2

(* What has ended and will end is the same.                                  *)
LEMMA ExcusedEnds ==
  ASSUME NEW s, NEW e, NEW q, NEW p, NEW g, s.sets[g] \in SourceSets, e.sets[g] \in SourceSets,
         e.sets[g].policy = s.sets[g].policy,
         \A answer \in Said : Ending(e, p, g, answer) = Ending(s, q, g, answer), Excused(s, q, g)
  PROVE  Excused(e, p, g)
<1> DEFINE x == s.sets[g]
           y == e.sets[g]
<1>1. y.policy = x.policy /\ Len(x.branches) \in Nat /\ Len(y.branches) \in Nat
  BY RequiredParts
<1>2. x.policy.mode # "all" => Required(y.policy, Len(y.branches)) = Required(x.policy, Len(x.branches))
  <2>1. x.policy.mode # "all" => \A n, m \in Nat : Required(x.policy, n) = Required(x.policy, m)
    BY RequiredParts
  <2> QED BY <1>1, <2>1
<1> HIDE DEF x, y
<1>3. /\ Ending(e, p, g, "canceled") = Ending(s, q, g, "canceled")
      /\ Ending(e, p, g, "failed") = Ending(s, q, g, "failed")
      /\ Ending(e, p, g, "completed") = Ending(s, q, g, "completed")
  BY DEF Said
<1> QED BY <1>1, <1>2, <1>3 DEF Excused, x, y

LEMMA ExcusedStays ==
  ASSUME NEW s, NEW e, Stand(s, e), NEW q, NEW p, SaysSame(s, q, p), ActsOf(p, Len(s.act)),
         NEW g, g # 0, s.sets[g] \in SourceSets, e.sets[g] \in SourceSets,
         EndsSame(s.sets[g], e.sets[g]), Excused(s, q, g)
  PROVE  Excused(e, p, g)
<1>1. \A answer \in Said : Ending(e, p, g, answer) = Ending(s, q, g, answer)
  BY ToldSame DEF Ending, EndsSame
<1> QED BY <1>1, ExcusedEnds DEF EndsSame

LEMMA OpenExcusedStays ==
  ASSUME NEW s, WellTyped(s), NEW e \in RunStates, Stand(s, e), NEW q, NEW p, SaysSame(s, q, p),
         ActsOf(p, Len(s.act)), OpenExcused(s, q), Len(s.sets) <= Len(e.sets),
         \A g \in 1..Len(s.sets) :
           Open(e.sets[g]) => Open(s.sets[g]) /\ EndsSame(s.sets[g], e.sets[g]),
         \A g \in 1..Len(e.sets) :
           g \in 1..Len(s.sets) \/ \A b \in Members(e.sets[g]) : e.sets[g].out[b] = NoOutcome
  PROVE  OpenExcused(e, p)
<1> SUFFICES ASSUME NEW g \in 1..Len(e.sets), Open(e.sets[g])
             PROVE  Excused(e, p, g)
  BY DEF OpenExcused
<1>1. /\ Len(s.sets) \in Nat /\ Len(e.sets) \in Nat /\ e.sets[g] \in SourceSets /\ g # 0
      /\ \A j \in 1..Len(s.sets) : s.sets[j] \in SourceSets
  BY RunStateParts DEF WellTyped
<1>2. CASE g \in 1..Len(s.sets)
  <2>1. Excused(s, q, g) /\ EndsSame(s.sets[g], e.sets[g])
    BY <1>2 DEF OpenExcused
  <2> QED BY <1>1, <1>2, <2>1, ExcusedStays
<1>3. CASE g \notin 1..Len(s.sets)
  <2>1. InPhase(e.sets[g], {"canceled"}) = {}
    <3>1. \A b \in Members(e.sets[g]) : e.sets[g].out[b].phase = "none"
      BY <1>3 DEF NoOutcome
    <3> QED BY <3>1 DEF InPhase
  <2>2. ASSUME NEW a \in Told(e, p, g, "canceled")
        PROVE  FALSE
    <3>1. a \in 1..Len(s.act) /\ e.act[a].set = g
      BY DEF Told, Says, ActsOf
    <3>2. s.act[a].set = g /\ s.act[a].set \in 0..Len(s.sets)
      BY <3>1, WellTypedParts DEF Stand
    <3> QED BY <1>1, <1>3, <3>2
  <2>3. Ending(e, p, g, "canceled") = {}
    BY <2>1, <2>2 DEF Ending
  <2> QED BY <2>3 DEF Excused
<1> QED BY <1>2, <1>3

(* The sets stay as they are.                                                *)
LEMMA QuietExcused ==
  ASSUME NEW s, WellTyped(s), NEW e \in RunStates, Stand(s, e), NEW q, NEW p, SaysSame(s, q, p),
         ActsOf(p, Len(s.act)), OpenExcused(s, q), e.sets = s.sets
  PROVE  OpenExcused(e, p)
<1>1. Len(s.sets) \in Nat
  BY RunStateParts DEF WellTyped
<1>2. \A x : EndsSame(x, x)
  BY DEF EndsSame
<1> QED BY <1>1, <1>2, OpenExcusedStays

LEMMA FairSame ==
  ASSUME Fair, st' = st, AtHand' = AtHand, LoneFailure => LoneFailure'
  PROVE  Fair'
BY DEF Fair

LEMMA OneSetFair ==
  ASSUME NEW s, SetsFair(s), NEW e, Len(e.sets) = Len(s.sets), NEW g,
         \A j \in 1..Len(s.sets) : j # g => e.sets[j] = s.sets[j],
         g \in 1..Len(s.sets) => SetFair(e.sets[g])
  PROVE  SetsFair(e)
BY DEF SetsFair

LEMMA RephasedStands ==
  ASSUME NEW s, NEW e, Rephased(s.act, e.act)
  PROVE  Stand(s, e)
BY DEF Stand, Rephased, SameActivation

(* The results at hand are of activations that are there.                    *)
LEMMA AtHandTyped ==
  ASSUME TypeInv
  PROVE  ActsOf(AtHand, Len(st.act)) /\ ActsOf(batch, Len(st.act)) /\ ActsOf(todo, Len(st.act))
BY TypeParts DEF AtHand, ActsOf

LEMMA NothingAtHand ==
  \A a, answer : ~Has(<<>>, a) /\ ~Says(<<>>, a, answer)
BY EmptyParts DEF Has, Says

(* The batch is chosen, started and accepted.                                *)
LEMMA BatchStaysFair ==
  ASSUME TypeInv, TypeInv', QueueInv, Fair, Calm, Calm'
  PROVE  /\ Stays => Fair'
         /\ Scheduled /\ pc = "schedule" => Fair'
         /\ \A i : Started(i) => Fair'
         /\ Accepted /\ AllReturned => Fair'
<1>1. /\ WellTyped(st) /\ st' \in RunStates /\ Rephased(st.act, st.act)
      /\ ActsOf(batch', Len(st'.act)) /\ ActsOf(todo', Len(st'.act))
      /\ ActsOf(batch, Len(st.act)) /\ ActsOf(todo, Len(st.act))
  <2>1. WellTyped(st) /\ st' \in RunStates
    BY DEF TypeInv, WellTyped
  <2>2. ActsOf(batch', Len(st'.act)) /\ ActsOf(todo', Len(st'.act))
    BY DEF TypeInv, ResultsTyped, ActsOf
  <2> QED BY <2>1, <2>2, AtHandTyped, WellTypedParts
<1>2. Stays => Fair'
  <2> HAVE Stays
  <2>1. st' = st /\ pc' # "ended"
    BY DEF Stays, Calm
  <2>2. AtHand' = AtHand
    BY <2>1 DEF Stays, vars, Settling, BatchDone, AtHand
  <2>3. LoneFailure => LoneFailure'
    BY <2>1 DEF Stays, vars, Settling, BatchDone, LoneFailure, SetOf
  <2> QED BY <2>1, <2>2, <2>3, FairSame
<1>3. Scheduled /\ pc = "schedule" => Fair'
  <2> HAVE Scheduled /\ pc = "schedule"
  <2>1. st' = st /\ todo = <<>> /\ AtHand = <<>> /\ AtHand' = batch' /\ ~LoneFailure
    BY DEF Scheduled, AtHand, LoneFailure, TypeInv, ControlInv
  <2>2. \A a : \A answer \in Said : ~Says(batch', a, answer)
    BY DEF Scheduled, Says, Said
  <2>3. SaysSame(st, <<>>, batch')
    BY <2>2, NothingAtHand DEF SaysSame
  <2>4. OpenExcused(st, <<>>) /\ RunsAtHand(st, <<>>) /\ SetsFair(st)
    BY <2>1 DEF Fair
  <2>5. OpenExcused(st', batch')
    BY <1>1, <2>1, <2>3, <2>4, RephasedStands, QuietExcused
  <2>6. RunsAtHand(st', batch')
    BY <2>1, <2>4, NothingAtHand DEF RunsAtHand
  <2> QED BY <2>1, <2>4, <2>5, <2>6 DEF Fair
<1>4. ASSUME NEW i, Started(i)
      PROVE  Fair'
  <2>1. AtHand = batch /\ AtHand' = batch /\ ~LoneFailure /\ batch' = batch
    BY <1>4 DEF Started, AtHand, LoneFailure
  <2>2. /\ i \in 1..Len(batch) /\ Rephased(st.act, st'.act) /\ st'.sets = st.sets
        /\ \A c \in 1..Len(st.act) : c # batch[i].act => st'.act[c] = st.act[c]
        /\ st'.act[batch[i].act].phase = "running" /\ Len(st'.act) = Len(st.act)
    BY <1>4 DEF Started, InPhaseNow, SameSets, Rephased
  <2>3. OpenExcused(st, batch) /\ RunsAtHand(st, batch) /\ SetsFair(st)
    BY <2>1 DEF Fair
  <2>4. SaysSame(st, batch, batch)
    BY DEF SaysSame
  <2>5. OpenExcused(st', batch)
    BY <1>1, <2>2, <2>3, <2>4, RephasedStands, QuietExcused
  <2>6. RunsAtHand(st', batch)
    <3>1. Has(batch, batch[i].act)
      BY <2>2 DEF Has
    <3> QED BY <2>2, <2>3, <3>1 DEF RunsAtHand
  <2>7. SetsFair(st')
    BY <2>2, <2>3 DEF SetsFair
  <2> QED BY <2>1, <2>5, <2>6, <2>7 DEF Fair
<1>5. Accepted /\ AllReturned => Fair'
  <2> HAVE Accepted /\ AllReturned
  <2>1. AtHand = batch /\ AtHand' = Kept /\ todo' = Kept /\ pc = "execute"
    BY DEF Accepted, AtHand
  <2>2. Answered("interrupted") = {}
    BY DEF Calm, Undisturbed
  <2>3. ~LoneFailure
    <3>1. \A i \in Answered("failed") : SetOf(batch[i]) # 0
      BY <2>2 DEF Accepted
    <3>2. DOMAIN batch = 1..Len(batch)
      BY TypeParts
    <3> QED BY <3>1, <3>2 DEF LoneFailure, Answered
  <2>4. /\ \A k \in 1..Len(Kept) : \E i \in 1..Len(batch) : Kept[k] = batch[i]
        /\ \A i \in 1..Len(batch) : \E k \in 1..Len(Kept) : Kept[k] = batch[i]
    <3>1. batch \in Seq(Results) /\ DOMAIN batch = 1..Len(batch)
      BY TypeParts
    <3> DEFINE P == DOMAIN batch
    <3>2. Kept = At(batch, P) /\ P = 1..Len(batch) /\ P \in SUBSET DOMAIN batch
      BY <2>2, <3>1 DEF Kept
    <3> HIDE DEF P
    <3>3. /\ \A k \in 1..Len(At(batch, P)) : \E i \in P : At(batch, P)[k] = batch[i]
          /\ \A i \in P : \E k \in 1..Len(At(batch, P)) : At(batch, P)[k] = batch[i]
      BY <3>1, <3>2, AtElements
    <3> QED BY ONLY <3>2, <3>3
  <2>5. \A a : \A answer : Says(Kept, a, answer) <=> Says(batch, a, answer)
    BY <2>4 DEF Says
  <2>6. \A a : Has(batch, a) => Has(Kept, a)
    BY <2>4 DEF Has
  <2>7. st'.act = st.act /\ st'.sets = st.sets
    BY <1>1 DEF Accepted, WellTyped, RunStates
  <2>8. OpenExcused(st, batch) /\ RunsAtHand(st, batch) /\ SetsFair(st)
    BY <2>1, <2>3 DEF Fair
  <2>9. OpenExcused(st', Kept)
    <3>1. Stand(st, st') /\ SaysSame(st, batch, Kept) /\ ActsOf(Kept, Len(st.act))
      BY <1>1, <2>1, <2>5, <2>7, RephasedStands DEF SaysSame
    <3> QED BY <1>1, <2>7, <2>8, <3>1, QuietExcused
  <2>10. RunsAtHand(st', Kept)
    BY <2>6, <2>7, <2>8 DEF RunsAtHand
  <2>11. SetsFair(st')
    BY <2>7, <2>8 DEF SetsFair
  <2> QED BY <2>1, <2>9, <2>10, <2>11 DEF Fair
<1> QED BY <1>2, <1>3, <1>4, <1>5

(* As many branches have completed in a batch as results say so.             *)
LEMMA CompletedInBatch ==
  ASSUME TypeInv, QueueInv, status # "failed", pc = "execute", NEW g,
         NEW J, J = {j \in 1..Len(batch) : SetOf(batch[j]) = g /\ batch[j].answer = "completed"},
         NEW T, T = Told(st, batch, g, "completed")
  PROVE  IsFiniteSet(T) /\ Cardinality(J) <= Cardinality(T) /\ Cardinality(J) \in Nat
<1> DEFINE f == [j \in J |-> batch[j].act]
<1>1. /\ Len(batch) \in Nat /\ Len(st.act) \in Nat /\ Len(batch) <= Len(st.queue) /\ Len(st.queue) \in Nat
      /\ \A j \in 1..Len(batch) : batch[j].act \in 1..Len(st.act) /\ batch[j].act = st.queue[j]
  BY TypeParts, RunStateParts DEF QueueInv, TypeInv, ControlInv
<1>2. \A i, j \in 1..Len(batch) : batch[i].act = batch[j].act => i = j
  BY <1>1 DEF QueueInv, Once
<1>3. IsFiniteSet(T) /\ IsFiniteSet(J)
  <2>1. IsFiniteSet(1..Len(st.act)) /\ IsFiniteSet(1..Len(batch))
    BY <1>1, IntervalCardinality
  <2>2. T \subseteq 1..Len(st.act) /\ J \subseteq 1..Len(batch)
    BY DEF Told
  <2> QED BY <2>1, <2>2, FS_Subset
<1>4. f \in [J -> T]
  <2> SUFFICES ASSUME NEW j \in J
               PROVE  batch[j].act \in T
    OBVIOUS
  <2> QED BY <1>1 DEF Told, Says, SetOf
<1>5. \A i, j \in J : f[i] = f[j] => i = j
  BY <1>2
<1> HIDE DEF f
<1>6. f \in Injection(J, T)
  BY <1>4, <1>5 DEF Injection, IsInjective
<1> QED BY <1>3, <1>6, FS_Injection, FS_CardinalityType

(* A result that comes in is excused if it is a cancellation.                *)
LEMMA ReturnStaysFair ==
  ASSUME TypeInv, TypeInv', QueueInv, DecisionInv, Fair, Calm, Calm', NEW i, Returned(i)
  PROVE  Fair'
<1>1. /\ pc = "execute" /\ pc' = "execute" /\ AtHand = batch /\ AtHand' = batch'
      /\ WellTyped(st) /\ st' \in RunStates /\ Len(st.act) \in Nat
      /\ i \in 1..Len(batch) /\ Len(batch') = Len(batch) /\ status # "failed"
      /\ \A j \in 1..Len(batch) : j # i => batch'[j] = batch[j]
      /\ batch'[i].act = batch[i].act /\ batch[i].answer = "none" /\ batch'[i].answer # "none"
  BY CalmNow, TypeParts DEF Returned, AtHand, TypeInv, WellTyped
<1>2. st'.act = st.act /\ st'.sets = st.sets
  BY <1>1 DEF Returned, WellTyped, RunStates
<1>3. RunsAtHand(st, batch) /\ SetsFair(st) /\ (LoneFailure \/ OpenExcused(st, batch))
  BY <1>1 DEF Fair
<1>4. \A a : Has(batch, a) => Has(batch', a)
  BY <1>1 DEF Has
<1>5. RunsAtHand(st', batch') /\ SetsFair(st')
  BY <1>2, <1>3, <1>4 DEF RunsAtHand, SetsFair
<1> DEFINE said == batch'[i].answer
           new == batch[i].act
<1>6. \A a : \A answer \in Said : Says(batch', a, answer) <=> Says(batch, a, answer) \/ (a = new /\ answer = said)
  BY <1>1 DEF Says, Said
<1>7. CASE LoneFailure
  <2>1. PICK j \in 1..Len(batch) : SetOf(batch[j]) = 0 /\ batch[j].answer = "failed"
    BY <1>7 DEF LoneFailure
  <2>2. j \in 1..Len(batch') /\ batch'[j] = batch[j]
    BY <1>1, <2>1
  <2>3. LoneFailure'
    BY <1>1, <1>2, <2>1, <2>2 DEF LoneFailure, SetOf
  <2> QED BY <1>1, <1>5, <2>3 DEF Fair
<1>8. CASE ~LoneFailure
  <2> SUFFICES ASSUME NEW g \in 1..Len(st.sets), Open(st.sets[g])
               PROVE  Excused(st', batch', g)
    BY <1>1, <1>2, <1>5 DEF Fair, OpenExcused
  <2>1. Excused(st, batch, g) /\ g # 0 /\ st.sets[g] \in SourceSets
    BY <1>1, <1>3, <1>8, RunStateParts DEF OpenExcused, WellTyped
  <2> DEFINE x == st.sets[g]
             n == Required(x.policy, Len(x.branches))
             E(answer) == Ending(st, batch, g, answer)
             F(answer) == Ending(st', batch', g, answer)
  <2>2. \A answer \in Said : Told(st', batch', g, answer)
            = {a \in 1..Len(st.act) : st.act[a].set = g
                 /\ (Says(batch, a, answer) \/ (a = new /\ answer = said))}
    BY <1>2, <1>6 DEF Told
  <2>3. \A answer \in Said : E(answer) \subseteq F(answer)
    BY <1>2, <2>2 DEF Ending, Told
  <2>4. \A answer \in Said : answer # said \/ st.act[new].set # g => F(answer) = E(answer)
    BY <1>2, <2>2 DEF Ending, Told
  <2>5. \A answer \in Said : IsFiniteSet(F(answer)) /\ IsFiniteSet(E(answer))
    <3>1. IsFiniteSet(1..Len(st.act)) /\ IsFiniteSet(Members(x))
      BY <1>1, <2>1, IntervalCardinality, MembersParts
    <3>2. IsFiniteSet(Members(x) \cup 1..Len(st.act))
      BY <3>1, FS_Union
    <3>3. \A answer \in Said : E(answer) \subseteq Members(x) \cup 1..Len(st.act)
                               /\ F(answer) \subseteq Members(x) \cup 1..Len(st.act)
      BY <1>2 DEF Ending, Told, InPhase
    <3> HIDE DEF E, F
    <3> QED BY <3>2, <3>3, FS_Subset
  <2>6. n \in Nat
    BY <2>1, RequiredParts
  <2>7. CASE E("canceled") # {}
    <3>1. /\ x.policy.mode = "all" => F("failed") # {}
          /\ x.policy.mode # "all" => Cardinality(E("completed")) >= n
      BY <2>1, <2>3, <2>7 DEF Excused, Said
    <3>2. Cardinality(E("completed")) <= Cardinality(F("completed"))
          /\ Cardinality(E("completed")) \in Nat /\ Cardinality(F("completed")) \in Nat
      <4>1. "completed" \in Said
        BY DEF Said
      <4> HIDE DEF E, F
      <4> QED BY <2>3, <2>5, <4>1, FS_Subset, FS_CardinalityType
    <3> HIDE DEF E, F, n
    <3>3. x.policy.mode # "all" => Cardinality(F("completed")) >= n
      BY <2>6, <3>1, <3>2
    <3> QED BY <1>2, <3>1, <3>3 DEF Excused, F, n
  <2>8. CASE E("canceled") = {} /\ F("canceled") = {}
    BY <2>8 DEF Excused
  <2>9. CASE E("canceled") = {} /\ F("canceled") # {}
    <3>1. said = "canceled" /\ SetOf(batch[i]) = g
      BY <2>4, <2>9 DEF Said, SetOf
    <3>2. GroupCanceled(batch[i]) /\ DOMAIN batch = 1..Len(batch)
      BY <3>1, TypeParts DEF Returned
    <3>3. F("failed") = E("failed") /\ F("completed") = E("completed")
      BY <2>4, <3>1 DEF Said
    <3> DEFINE J == {j \in 1..Len(batch) : SetOf(batch[j]) = g /\ batch[j].answer = "completed"}
               B == {j \in 1..Len(batch) : SetOf(batch[j]) = g /\ batch[j].answer = "failed"}
               C == InPhase(x, {"completed"})
               T == Told(st, batch, g, "completed")
    <3>4. \/ x.policy.mode = "all" /\ B # {}
          \/ x.policy.mode # "all" /\ Cardinality(J) + Cardinality(C) >= n
      BY <1>1, <1>8, <2>1, <3>1, <3>2 DEF GroupCanceled, LoneFailure
    <3>5. B # {} => E("failed") # {}
      <4> SUFFICES ASSUME NEW j \in B
                   PROVE  batch[j].act \in E("failed")
        OBVIOUS
      <4>1. batch[j].act \in 1..Len(st.act) /\ Says(batch, batch[j].act, "failed") /\ st.act[batch[j].act].set = g
        BY TypeParts DEF Says, SetOf
      <4> QED BY <4>1 DEF Ending, Told
    <3>6. Cardinality(J) + Cardinality(C) <= Cardinality(E("completed")) /\ Cardinality(E("completed")) \in Nat
          /\ Cardinality(J) \in Nat /\ Cardinality(C) \in Nat
      <4>1. IsFiniteSet(T) /\ Cardinality(J) <= Cardinality(T) /\ Cardinality(J) \in Nat
        BY <1>1, CompletedInBatch
      <4>2. IsFiniteSet(C)
        BY <2>1, MembersParts
      <4>3. C \cap T = {}
        <5> SUFFICES ASSUME NEW a \in C, a \in T
                     PROVE  FALSE
          OBVIOUS
        <5>1. a \in DOMAIN x.out /\ x.out[a].phase = "completed"
          BY <1>1 DEF InPhase, WellTyped, SetsKnown
        <5>2. st.act[a].phase \in Over
          BY <1>1, <5>1 DEF DecisionInv, SetsSound, SetSound
        <5>3. st.act[a].phase = "running"
          BY <1>1 DEF Told, Says, QueueInv
        <5> QED BY <5>2, <5>3 DEF Over
      <4>4. E("completed") = C \cup T
        BY DEF Ending
      <4> HIDE DEF C, T, J
      <4>5. Cardinality(C \cup T) = Cardinality(C) + Cardinality(T) /\ Cardinality(C) \in Nat /\ Cardinality(T) \in Nat
        BY <4>1, <4>2, <4>3, DisjointSum, FS_CardinalityType
      <4>6. Cardinality(E("completed")) = Cardinality(C) + Cardinality(T)
        BY <4>4, <4>5
      <4> HIDE DEF C, T, J
      <4> QED BY <4>1, <4>5, <4>6
    <3> HIDE DEF E, F, n, J, C, B
    <3>7. x.policy.mode # "all" => Cardinality(F("completed")) >= n
      BY <2>6, <3>3, <3>4, <3>6
    <3>8. x.policy.mode = "all" => F("failed") # {}
      BY <3>3, <3>4, <3>5
    <3> QED BY <1>2, <3>7, <3>8 DEF Excused, F, n
  <2> QED BY <2>7, <2>8, <2>9
<1> QED BY <1>7, <1>8

(* A set with an open iterator counts it.                                    *)
LEMMA OpenIsCounted ==
  ASSUME NEW s, WellTyped(s), SourcesSound(s), NEW i \in 1..Len(s.sources), s.sources[i].open
  PROVE  s.sources[i].set \in 1..Len(s.sets) /\ s.sets[s.sources[i].set].open # 0
<1> DEFINE g == s.sources[i].set
           O == OpenOf(s, g)
<1>1. g \in 1..Len(s.sets)
  BY DEF WellTyped, SetsKnown
<1>2. i \in O /\ O \subseteq 1..Len(s.sources) /\ Len(s.sources) \in Nat
  BY RunStateParts DEF OpenOf, WellTyped
<1>3. s.sets[g].open = Cardinality(O)
  BY <1>1 DEF OpenSound, SourcesSound
<1> HIDE DEF g, O
<1>4. IsFiniteSet(O)
  BY <1>2, IntervalCardinality, FS_Subset
<1>5. Cardinality(O) # 0
  BY <1>2, <1>4, FS_EmptySet
<1>6. g \in 1..Len(s.sets) /\ s.sets[g].open # 0
  BY <1>1, <1>3, <1>5
<1> QED BY <1>6 DEF g

LEMMA PullingOpen ==
  ASSUME TypeInv, NEW i, Pulling(i)
  PROVE  /\ i \in 1..Len(st.sources) /\ st.sources[i].open /\ todo = <<>> /\ batch = <<>>
         /\ AtHand = <<>> /\ ~LoneFailure /\ pc = "schedule"
<1>1. pc = "schedule" /\ todo = <<>> /\ batch = <<>>
  BY DEF Pulling, TypeInv, ControlInv
<1>2. DOMAIN st.sources = 1..Len(st.sources)
  BY TypeParts, RunStateParts
<1> DEFINE O == OpenSources(st)
<1>3. O \in SUBSET Nat /\ O # {} /\ i = Min(O)
  BY <1>2 DEF Pulling, OpenSources
<1>4. i \in O
  <2> HIDE DEF O
  <2> QED BY <1>3, MinProperties
<1> QED BY <1>1, <1>2, <1>4 DEF OpenSources, AtHand, LoneFailure

LEMMA PullStaysFair ==
  ASSUME TypeInv, TypeInv', SourceInv, Fair, NEW i, NEW g, NEW b, Pulled(i, g, b)
  PROVE  Fair'
<1>1. /\ i \in 1..Len(st.sources) /\ st.sources[i].open /\ AtHand = <<>> /\ ~LoneFailure
      /\ WellTyped(st) /\ WellTyped(st') /\ g = st.sources[i].set /\ AtHand' = <<>>
      /\ st' \in RunStates
  BY PullingOpen DEF Pulled, TypeInv, WellTyped, AtHand
<1>2. g \in 1..Len(st.sets) /\ st.sets[g].open # 0
  BY <1>1, OpenIsCounted DEF SourceInv
<1>3. /\ RunsAtHand(st, <<>>) /\ SetsFair(st) /\ OpenExcused(st, <<>>)
      /\ Len(st.act) \in Nat /\ Len(st.sets) \in Nat /\ st.sets[g] \in SourceSets
  BY <1>1, <1>2, RunStateParts DEF Fair, WellTyped
<1> DEFINE x == st.sets[g]
           y == st'.sets[g]
<1>4. /\ WithBranch(x, y, b) /\ Len(st'.sets) = Len(st.sets)
      /\ \A j \in 1..Len(st.sets) : j # g => st'.sets[j] = st.sets[j]
      /\ DOMAIN x.out = Members(x) /\ DOMAIN y.out = Members(y)
  BY <1>1, <1>2 DEF Pulled, WellTyped, SetsKnown
<1>5. b \notin Members(x)
  <2>1. \A a \in Members(x) : a \in 1..Len(st.act)
    BY <1>1, <1>2 DEF WellTyped, SetsKnown
  <2> QED BY <1>3, <2>1 DEF Pulled
<1>6. SetsFair(st')
  <2>1. SetFair(y)
    BY <1>2, <1>3, <1>4, <1>5, BranchStaysFair DEF SetsFair
  <2> QED BY <1>2, <1>3, <1>4, <2>1, OneSetFair
<1>7. /\ Len(st'.act) = Len(st.act) + 1 /\ st'.act[Len(st.act) + 1].phase = "ready"
      /\ \A a \in 1..Len(st.act) : st'.act[a] = st.act[a]
  BY DEF Pulled, Adds
<1>8. Stand(st, st')
  BY <1>3, <1>7 DEF Stand
<1>9. RunsAtHand(st', <<>>)
  BY <1>3, <1>7 DEF RunsAtHand
<1>10. EndsSame(x, y)
  <2>1. y.policy = x.policy
    BY <1>4 DEF WithBranch
  <2>2. ASSUME NEW answer \in Said, NEW c
        PROVE  c \in InPhase(y, {answer}) <=> c \in InPhase(x, {answer})
    BY <1>4, <1>5 DEF WithBranch, InPhase, NoOutcome, Said
  <2> HIDE DEF x, y
  <2>3. \A answer \in Said : InPhase(y, {answer}) = InPhase(x, {answer})
    BY <2>2
  <2> QED BY <2>1, <2>3 DEF EndsSame
<1>11. OpenExcused(st', <<>>)
  <2>1. \A j \in 1..Len(st.sets) : Open(st'.sets[j]) => Open(st.sets[j]) /\ EndsSame(st.sets[j], st'.sets[j])
    <3> TAKE j \in 1..Len(st.sets)
    <3> HAVE Open(st'.sets[j])
    <3>1. CASE j = g
      BY <1>4, <1>10, <3>1 DEF WithBranch, Open
    <3>2. CASE j # g
      BY <1>4, <3>2 DEF EndsSame
    <3> QED BY <3>1, <3>2
  <2>2. SaysSame(st, <<>>, <<>>) /\ ActsOf(<<>>, Len(st.act))
    BY EmptyParts DEF SaysSame, ActsOf
  <2> QED BY <1>1, <1>3, <1>4, <1>8, <2>1, <2>2, OpenExcusedStays
<1> QED BY <1>1, <1>6, <1>9, <1>11 DEF Fair

LEMMA EndStaysFair ==
  ASSUME TypeInv, TypeInv', SourceInv, Fair, NEW i, NEW g, Ended(i, g)
  PROVE  Fair'
<1>1. /\ i \in 1..Len(st.sources) /\ st.sources[i].open /\ AtHand = <<>> /\ ~LoneFailure
      /\ WellTyped(st) /\ WellTyped(st') /\ g = st.sources[i].set /\ AtHand' = <<>>
      /\ st' \in RunStates
  BY PullingOpen DEF Ended, TypeInv, WellTyped, AtHand
<1>2. g \in 1..Len(st.sets) /\ st.sets[g].open # 0
  BY <1>1, OpenIsCounted DEF SourceInv
<1>3. /\ RunsAtHand(st, <<>>) /\ SetsFair(st) /\ OpenExcused(st, <<>>)
      /\ Len(st.act) \in Nat /\ Len(st.sets) \in Nat /\ st.sets[g] \in SourceSets
  BY <1>1, <1>2, RunStateParts DEF Fair, WellTyped
<1> DEFINE x == st.sets[g]
           y == st'.sets[g]
<1>4. /\ y.branches = x.branches /\ y.out = x.out /\ y.policy = x.policy /\ y.decided = x.decided
      /\ Len(st'.sets) = Len(st.sets) /\ SetFair(x)
      /\ \A j \in 1..Len(st.sets) : j # g => st'.sets[j] = st.sets[j]
  BY <1>2, <1>3 DEF Ended, SetChange, SetsFair
<1>5. /\ ~x.failed
      /\ \/ ~y.failed /\ y.cause = x.cause
         \/ y.open = 0 /\ y.failed /\ y.cause = "failed"
  BY <1>2, <1>4 DEF Ended, SetFair
<1> HIDE DEF x, y
<1>6. SetFair(y)
  <2>1. Members(y) = Members(x)
    BY <1>4 DEF Members
  <2>2. \A b \in Members(x) : OutcomeFair(y, b)
    BY <1>4, <1>5 DEF SetFair, OutcomeFair, Open
  <2> QED BY <1>4, <1>5, <2>1, <2>2 DEF SetFair, Warranted
<1>7. Open(y) => Open(x) /\ EndsSame(x, y)
  BY <1>4, <1>5 DEF Open, EndsSame, InPhase, Members
<1>8. SetsFair(st')
  BY <1>3, <1>4, <1>6, OneSetFair DEF y
<1>9. st'.act = st.act
  BY DEF Ended
<1>10. OpenExcused(st', <<>>)
  <2>1. \A j \in 1..Len(st.sets) : Open(st'.sets[j]) => Open(st.sets[j]) /\ EndsSame(st.sets[j], st'.sets[j])
    BY <1>4, <1>7 DEF EndsSame, x, y
  <2>2. SaysSame(st, <<>>, <<>>) /\ ActsOf(<<>>, Len(st.act)) /\ Stand(st, st')
    BY <1>9, EmptyParts DEF SaysSame, ActsOf, Stand
  <2> QED BY <1>1, <1>3, <1>4, <2>1, <2>2, OpenExcusedStays
<1>11. RunsAtHand(st', <<>>)
  BY <1>3, <1>9 DEF RunsAtHand
<1> QED BY <1>1, <1>8, <1>10, <1>11 DEF Fair

LEMMA TailSays ==
  ASSUME NEW S, NEW q \in Seq(S), q # <<>>
  PROVE  /\ \A a, answer : Says(q, a, answer) <=> (q[1].act = a /\ q[1].answer = answer) \/ Says(Tail(q), a, answer)
         /\ \A a : Has(q, a) => q[1].act = a \/ Has(Tail(q), a)
         /\ \A n : ActsOf(q, n) => ActsOf(Tail(q), n)
<1> DEFINE t == Tail(q)
           l == Len(q)
<1>1. /\ t \in Seq(S) /\ Len(t) = l - 1 /\ l \in Nat \ {0}
      /\ \A i \in 1..(l - 1) : t[i] = q[i + 1]
  BY TailParts
<1> HIDE DEF t
<1>2. \A i \in 1..l : i = 1 \/ \E k \in 1..Len(t) : t[k] = q[i]
  <2> SUFFICES ASSUME NEW i \in 1..l, i # 1
               PROVE  \E k \in 1..Len(t) : t[k] = q[i]
    OBVIOUS
  <2>1. i - 1 \in 1..(l - 1) /\ (i - 1) + 1 = i
    BY <1>1
  <2>2. t[i - 1] = q[i]
    BY <1>1, <2>1
  <2> QED BY <1>1, <2>1, <2>2
<1>3. \A k \in 1..Len(t) : \E i \in 1..l : t[k] = q[i]
  <2> TAKE k \in 1..Len(t)
  <2>1. k + 1 \in 1..l /\ t[k] = q[k + 1]
    BY <1>1
  <2> QED BY <2>1
<1>4. 1 \in 1..l
  BY <1>1
<1>5. ASSUME NEW a, NEW answer
      PROVE  Says(q, a, answer) <=> (q[1].act = a /\ q[1].answer = answer) \/ Says(t, a, answer)
  <2>1. Says(q, a, answer) => (q[1].act = a /\ q[1].answer = answer) \/ Says(t, a, answer)
    BY <1>2 DEF Says
  <2>2. Says(t, a, answer) => Says(q, a, answer)
    BY <1>3 DEF Says
  <2> QED BY <1>4, <2>1, <2>2 DEF Says
<1>6. \A a : Has(q, a) => q[1].act = a \/ Has(t, a)
  BY <1>2 DEF Has
<1>7. \A n : ActsOf(q, n) => ActsOf(t, n)
  BY <1>3 DEF ActsOf
<1> QED BY <1>5, <1>6, <1>7 DEF t

(* What is known when result r is committed.                                 *)
LEMMA CommittingFair ==
  ASSUME TypeInv, TypeInv', Fair, NEW r, Committing(r)
  PROVE  /\ WellTyped(st) /\ st' \in RunStates /\ Len(st.act) \in Nat /\ pc = "commit"
         /\ SetsFair(st) /\ RunsAtHand(st, todo) /\ OpenExcused(st, todo)
         /\ ActsOf(todo, Len(st.act)) /\ ActsOf(Tail(todo), Len(st.act))
         /\ r.act \in 1..Len(st.act) /\ r.answer \in {"completed", "skipped", "retry", "failed", "canceled"}
         /\ \A a, answer : Says(todo, a, answer) <=> (r.act = a /\ r.answer = answer) \/ Says(Tail(todo), a, answer)
         /\ \A a : Has(todo, a) => r.act = a \/ Has(Tail(todo), a)
         /\ todo' = Tail(todo) /\ pc' = pc => AtHand' = Tail(todo)
<1>1. r = todo[1] /\ todo # <<>> /\ r.act \in 1..Len(st.act) /\ pc = "commit"
      /\ r.answer \in {"completed", "skipped", "retry", "failed", "canceled"}
  BY HeadTodo
<1>2. WellTyped(st) /\ st' \in RunStates /\ Len(st.act) \in Nat
  BY TypeParts DEF TypeInv, WellTyped
<1>3. SetsFair(st) /\ RunsAtHand(st, todo) /\ OpenExcused(st, todo)
  BY <1>1 DEF Fair, AtHand, LoneFailure
<1>4. ActsOf(todo, Len(st.act))
  BY AtHandTyped
<1>5. todo \in Seq(Results)
  BY TypeParts
<1>6. ActsOf(Tail(todo), Len(st.act))
  BY <1>1, <1>4, <1>5, TailSays
<1>7. /\ \A a, answer : Says(todo, a, answer) <=> (r.act = a /\ r.answer = answer) \/ Says(Tail(todo), a, answer)
      /\ \A a : Has(todo, a) => r.act = a \/ Has(Tail(todo), a)
  BY <1>1, <1>5, TailSays
<1>8. todo' = Tail(todo) /\ pc' = pc => AtHand' = Tail(todo)
  BY <1>1 DEF AtHand
<1> QED BY <1>1, <1>2, <1>3, <1>4, <1>6, <1>7, <1>8

LEMMA RetryStaysFair ==
  ASSUME TypeInv, TypeInv', Fair, NEW r, Committing(r), Retried(r)
  PROVE  Fair'
<1>1. /\ WellTyped(st) /\ st' \in RunStates /\ Len(st.act) \in Nat /\ pc = "commit"
      /\ SetsFair(st) /\ RunsAtHand(st, todo) /\ OpenExcused(st, todo)
      /\ ActsOf(Tail(todo), Len(st.act)) /\ r.act \in 1..Len(st.act)
      /\ \A a, answer : Says(todo, a, answer) <=> (r.act = a /\ r.answer = answer) \/ Says(Tail(todo), a, answer)
      /\ \A a : Has(todo, a) => r.act = a \/ Has(Tail(todo), a)
  BY CommittingFair
<1>2. AtHand' = Tail(todo)
  BY CommittingFair DEF Retried
<1>3. /\ Rephased(st.act, st'.act) /\ Len(st'.act) = Len(st.act) /\ st'.sets = st.sets /\ r.answer = "retry"
      /\ st'.act[r.act].phase = "ready" /\ \A c \in 1..Len(st.act) : c # r.act => st'.act[c] = st.act[c]
  BY DEF Retried, Rephased, SameSets
<1>4. SaysSame(st, todo, Tail(todo))
  BY <1>1, <1>3 DEF SaysSame, Said
<1>5. OpenExcused(st', Tail(todo))
  BY <1>1, <1>3, <1>4, RephasedStands, QuietExcused
<1>6. RunsAtHand(st', Tail(todo))
  BY <1>1, <1>3 DEF RunsAtHand
<1>7. SetsFair(st')
  BY <1>1, <1>3 DEF SetsFair
<1> QED BY <1>2, <1>5, <1>6, <1>7 DEF Fair

LEMMA OutcomeSays ==
  ASSUME NEW phase, NEW cause, NEW completion, NEW dispatch, NEW o,
         o = Outcome(phase, cause, completion, dispatch)
  PROVE  o.phase = phase /\ o.cause = cause
BY DEF Outcome, NoOutcome

LEMMA BranchStepStaysFair ==
  ASSUME TypeInv, TypeInv', QueueInv, DecisionInv, Fair, status # "failed", NEW r, Committing(r), BranchDone(r)
  PROVE  Fair'
<1>1. /\ WellTyped(st) /\ st' \in RunStates /\ Len(st.act) \in Nat /\ pc = "commit"
      /\ SetsFair(st) /\ RunsAtHand(st, todo) /\ OpenExcused(st, todo)
      /\ ActsOf(Tail(todo), Len(st.act)) /\ r.act \in 1..Len(st.act)
      /\ \A a, answer : Says(todo, a, answer) <=> (r.act = a /\ r.answer = answer) \/ Says(Tail(todo), a, answer)
      /\ \A a : Has(todo, a) => r.act = a \/ Has(Tail(todo), a)
  BY CommittingFair
<1>2. AtHand' = Tail(todo)
  BY CommittingFair DEF BranchDone
<1> DEFINE g == SetOf(r)
           o == OutcomeOf(r)
<1>3. /\ Rephased(st.act, st'.act) /\ Len(st'.act) = Len(st.act) /\ r.answer \in Over
      /\ st'.act[r.act].phase = r.answer /\ \A c \in 1..Len(st.act) : c # r.act => st'.act[c] = st.act[c]
      /\ OutcomeSet(st.sets, st'.sets, g, r.act, o) /\ SetOf(r) # 0
  BY DEF BranchDone, Rephased
<1>4. g \in 1..Len(st.sets) /\ r.act \in Members(st.sets[g]) /\ r.act \in DOMAIN st.sets[g].out
      /\ DOMAIN st.sets[g].out = Members(st.sets[g])
  BY <1>1, <1>3, BranchMember DEF SetOf, WellTyped, SetsKnown
<1>5. st.sets[g].out[r.act].phase = "none"
  <2>1. st.act[r.act].phase \notin Over
    BY <1>1, InHandIsNotOver DEF InHand
  <2> QED BY <1>4, <2>1 DEF DecisionInv, SetsSound, SetSound
<1>6. /\ o.phase = r.answer /\ o.cause \in {"none", "canceled", "failed"}
      /\ o.phase = "failed" => o.cause = "failed"
      /\ o.phase # "superseded"
  <2>1. r.completion \in Nat /\ r.dispatch \in Dispatchable
    BY HeadTodo
  <2> DEFINE cause == IF r.answer \in {"failed", "canceled"} THEN r.answer ELSE "none"
  <2>2. cause \in Causes /\ cause \in {"none", "canceled", "failed"} /\ (r.answer = "failed" => cause = "failed")
    BY DEF Causes
  <2>3. o = Outcome(r.answer, cause, r.completion, r.dispatch)
    BY DEF OutcomeOf
  <2> HIDE DEF cause
  <2>4. o.phase = r.answer /\ o.cause = cause
    BY <2>3, OutcomeSays
  <2> QED BY <1>3, <2>2, <2>4 DEF Over
<1> HIDE DEF o
<1>7. SetsFair(st')
  <2>1. \A j \in 1..Len(st.sets) : SetFair(st'.sets[j])
    BY <1>1, <1>3, <1>4, <1>5, <1>6, OutcomeStaysFair
  <2> QED BY <1>3, <2>1 DEF SetsFair, OutcomeSet
<1>8. RunsAtHand(st', Tail(todo))
  BY <1>1, <1>3 DEF RunsAtHand
<1>9. OpenExcused(st', Tail(todo))
  <2> SUFFICES ASSUME NEW j \in 1..Len(st'.sets), Open(st'.sets[j])
               PROVE  Excused(st', Tail(todo), j)
    BY DEF OpenExcused
  <2>1. /\ j \in 1..Len(st.sets) /\ Open(st.sets[j]) /\ st'.sets[j].policy = st.sets[j].policy
        /\ Members(st'.sets[j]) = Members(st.sets[j])
        /\ \A c \in DOMAIN st.sets[j].out : st'.sets[j].out[c] = IF j = g /\ c = r.act THEN o ELSE st.sets[j].out[c]
    BY <1>3 DEF OutcomeSet, Open, Members
  <2>2. /\ Excused(st, todo, j) /\ st.sets[j] \in SourceSets /\ st'.sets[j] \in SourceSets
        /\ DOMAIN st.sets[j].out = Members(st.sets[j])
        /\ \A c \in Members(st.sets[j]) : c \in 1..Len(st.act) /\ st.act[c].set = j
    BY <1>1, <2>1, RunStateParts DEF OpenExcused, WellTyped, SetsKnown
  <2>3. ASSUME NEW answer \in Said, NEW a
        PROVE  a \in Ending(st', Tail(todo), j, answer) <=> a \in Ending(st, todo, j, answer)
    <3>1. \A c \in 1..Len(st.act) : st'.act[c].set = st.act[c].set
      BY <1>3 DEF Rephased, SameActivation
    <3>2. a \in Told(st', Tail(todo), j, answer)
            <=> a \in 1..Len(st.act) /\ st.act[a].set = j /\ Says(Tail(todo), a, answer)
      BY <1>3, <3>1 DEF Told
    <3>3. CASE a = r.act /\ j = g
      <4>1. a \in InPhase(st'.sets[j], {answer}) <=> r.answer = answer
        BY <1>4, <1>6, <2>1, <2>2, <3>3 DEF InPhase
      <4>2. a \notin InPhase(st.sets[j], {answer})
        BY <1>5, <3>3 DEF InPhase, Said
      <4>3. st.act[a].set = j /\ a \in 1..Len(st.act)
        BY <1>1, <3>3 DEF SetOf
      <4> QED BY <1>1, <3>2, <3>3, <4>1, <4>2, <4>3 DEF Ending, Told
    <3>4. CASE ~(a = r.act /\ j = g)
      <4>1. a \in InPhase(st'.sets[j], {answer}) <=> a \in InPhase(st.sets[j], {answer})
        BY <2>1, <2>2, <3>4 DEF InPhase
      <4>2. a \in Told(st, todo, j, answer) <=> a \in Told(st', Tail(todo), j, answer)
        <5>1. a = r.act => st.act[a].set # j
          BY <3>4 DEF SetOf
        <5> QED BY <1>1, <3>2, <5>1 DEF Told
      <4> QED BY <4>1, <4>2 DEF Ending
    <3> QED BY <3>3, <3>4
  <2>4. \A answer \in Said : Ending(st', Tail(todo), j, answer) = Ending(st, todo, j, answer)
    BY <2>3
  <2> QED BY <2>1, <2>2, <2>4, ExcusedEnds
<1> QED BY <1>2, <1>7, <1>8, <1>9 DEF Fair

LEMMA ActivationStaysFair ==
  ASSUME TypeInv, TypeInv', Fair, NEW r, Committing(r),
         NEW f, NEW x, NEW n, NEW k, ActivationDone(r, f, x, n, k)
  PROVE  Fair'
<1>1. /\ WellTyped(st) /\ st' \in RunStates /\ Len(st.act) \in Nat /\ pc = "commit"
      /\ SetsFair(st) /\ RunsAtHand(st, todo) /\ OpenExcused(st, todo)
      /\ ActsOf(Tail(todo), Len(st.act)) /\ r.act \in 1..Len(st.act)
      /\ \A a, answer : Says(todo, a, answer) <=> (r.act = a /\ r.answer = answer) \/ Says(Tail(todo), a, answer)
      /\ \A a : Has(todo, a) => r.act = a \/ Has(Tail(todo), a)
  BY CommittingFair
<1>2. AtHand' = Tail(todo) /\ SetOf(r) = 0
  BY CommittingFair DEF ActivationDone
<1>3. /\ WellTyped(f) /\ Extended(f, x, n, k) /\ Rephased(st.act, f.act) /\ Len(f.act) = Len(st.act)
      /\ f.sets = st.sets /\ f.act[r.act].phase \in Over
      /\ \A c \in 1..Len(st.act) : c # r.act => f.act[c] = st.act[c]
      /\ st'.act = x.act /\ st'.sets = x.sets
  BY DEF ActivationDone, Done, SameSets, Rephased, Stepped, Over
<1>4. /\ Len(f.act) <= Len(x.act) /\ \A a \in 1..Len(f.act) : x.act[a] = f.act[a]
      /\ Len(x.act) \in Nat /\ Len(f.sets) <= Len(x.sets)
  BY <1>3, ExtendedParts
<1>5. \A a \in (Len(f.act) + 1)..Len(x.act) : x.act[a].phase = "ready"
  BY <1>3 DEF Extended
<1>6. /\ \A g \in 1..Len(st.sets) : g \in 1..Len(x.sets) /\ x.sets[g] = st.sets[g]
      /\ \A g \in 1..Len(x.sets) : g \in 1..Len(st.sets) \/ Opened(x.sets[g], Len(st.act), n)
      /\ n \in Nat
  BY <1>3, ExtendedSets
<1>7. SetsFair(st')
  BY <1>1, <1>3, <1>6, OpenedIsFair DEF SetsFair
<1>8. RunsAtHand(st', Tail(todo))
  <2> SUFFICES ASSUME NEW a \in 1..Len(x.act)
               PROVE  \/ x.act[a].phase \in Over \cup {"ready"}
                      \/ x.act[a].phase = "running" /\ Has(Tail(todo), a)
    BY <1>3 DEF RunsAtHand
  <2>1. CASE a \in 1..Len(st.act)
    BY <1>1, <1>3, <1>4, <2>1 DEF RunsAtHand
  <2>2. CASE a \notin 1..Len(st.act)
    BY <1>1, <1>3, <1>4, <1>5, <2>2
  <2> QED BY <2>1, <2>2
<1>9. Stand(st, st')
  <2>1. \A a \in 1..Len(st.act) : f.act[a].set = st.act[a].set
    BY <1>3 DEF Rephased, SameActivation
  <2> QED BY <1>1, <1>3, <1>4, <2>1 DEF Stand
<1>10. OpenExcused(st', Tail(todo))
  <2>1. SaysSame(st, todo, Tail(todo))
    BY <1>1, <1>2 DEF SaysSame, SetOf
  <2>2. \A g \in 1..Len(st.sets) : Open(st'.sets[g]) => Open(st.sets[g]) /\ EndsSame(st.sets[g], st'.sets[g])
    BY <1>3, <1>6 DEF EndsSame
  <2>3. \A g \in 1..Len(st'.sets) :
          g \in 1..Len(st.sets) \/ \A b \in Members(st'.sets[g]) : st'.sets[g].out[b] = NoOutcome
    BY <1>3, <1>6 DEF Opened
  <2>4. Len(st.sets) <= Len(st'.sets)
    BY <1>3, <1>4
  <2> QED BY <1>1, <1>9, <2>1, <2>2, <2>3, <2>4, OpenExcusedStays
<1> QED BY <1>2, <1>7, <1>8, <1>10 DEF Fair

LEMMA CommitStaysFair ==
  ASSUME TypeInv, TypeInv', QueueInv, DecisionInv, Fair, status # "failed", NEW r, Committed(r)
  PROVE  Fair'
BY RetryStaysFair, BranchStepStaysFair, ActivationStaysFair DEF Committed

(* What is known when source set s is settled: nothing is at hand.           *)
LEMMA SettlingFair ==
  ASSUME TypeInv, TypeInv', Fair, NEW s, Settling(s)
  PROVE  /\ WellTyped(st) /\ st' \in RunStates /\ Len(st.act) \in Nat /\ Len(st.sets) \in Nat
         /\ s \in 1..Len(st.sets) /\ st.sets[s] \in SourceSets /\ DOMAIN st.sets[s].out = Members(st.sets[s])
         /\ SetsFair(st) /\ RunsAtHand(st, <<>>) /\ OpenExcused(st, <<>>)
         /\ pc' = pc /\ todo' = todo => AtHand' = <<>>
<1>1. s \in 1..Len(st.sets) /\ st.sets[s] \in SourceSets /\ todo = <<>> /\ pc = "commit"
  BY SettlingParts
<1>2. /\ WellTyped(st) /\ st' \in RunStates /\ Len(st.act) \in Nat /\ Len(st.sets) \in Nat
      /\ DOMAIN st.sets[s].out = Members(st.sets[s])
  BY <1>1, TypeParts DEF TypeInv, WellTyped, SetsKnown
<1>3. SetsFair(st) /\ RunsAtHand(st, <<>>) /\ OpenExcused(st, <<>>)
  BY <1>1 DEF Fair, AtHand, LoneFailure
<1>4. pc' = pc /\ todo' = todo => AtHand' = <<>>
  BY <1>1 DEF AtHand
<1> QED BY <1>1, <1>2, <1>3, <1>4

LEMMA SettledExcused ==
  ASSUME NEW s, WellTyped(s), OpenExcused(s, <<>>), NEW e \in RunStates, Stand(s, e), Len(s.sets) <= Len(e.sets),
         \A g \in 1..Len(s.sets) :
           Open(e.sets[g]) => Open(s.sets[g]) /\ EndsSame(s.sets[g], e.sets[g]),
         \A g \in 1..Len(e.sets) :
           g \in 1..Len(s.sets) \/ \A b \in Members(e.sets[g]) : e.sets[g].out[b] = NoOutcome
  PROVE  OpenExcused(e, <<>>)
<1>1. SaysSame(s, <<>>, <<>>) /\ ActsOf(<<>>, Len(s.act))
  BY EmptyParts DEF SaysSame, ActsOf
<1> QED BY <1>1, OpenExcusedStays

(* One set closes, and the others stay as they are.                          *)
LEMMA OneSetExcused ==
  ASSUME NEW s, WellTyped(s), OpenExcused(s, <<>>), NEW e \in RunStates, Stand(s, e),
         Len(e.sets) = Len(s.sets), NEW g, ~Open(e.sets[g]),
         \A j \in 1..Len(s.sets) : j # g => e.sets[j] = s.sets[j]
  PROVE  OpenExcused(e, <<>>)
<1>1. Len(s.sets) \in Nat
  BY RunStateParts DEF WellTyped
<1>2. \A x : EndsSame(x, x)
  BY DEF EndsSame
<1>3. Len(s.sets) <= Len(e.sets)
  BY <1>1
<1>4. \A j \in 1..Len(s.sets) : Open(e.sets[j]) => Open(s.sets[j]) /\ EndsSame(s.sets[j], e.sets[j])
  BY <1>2
<1>5. \A j \in 1..Len(e.sets) :
        j \in 1..Len(s.sets) \/ \A b \in Members(e.sets[j]) : e.sets[j].out[b] = NoOutcome
  OBVIOUS
<1> QED BY <1>3, <1>4, <1>5, SettledExcused

LEMMA DecideStaysFair ==
  ASSUME TypeInv, TypeInv', Fair, NEW s, NEW d, Resolved(s, d)
  PROVE  Fair'
<1>1. /\ WellTyped(st) /\ st' \in RunStates /\ Len(st.act) \in Nat /\ Len(st.sets) \in Nat
      /\ s \in 1..Len(st.sets) /\ st.sets[s] \in SourceSets /\ DOMAIN st.sets[s].out = Members(st.sets[s])
      /\ SetsFair(st) /\ RunsAtHand(st, <<>>) /\ OpenExcused(st, <<>>) /\ AtHand' = <<>>
  BY SettlingFair DEF Resolved
<1> DEFINE x == st.sets[s]
           y == st'.sets[s]
<1>2. /\ Open(x) /\ SetFair(x) /\ Excused(st, <<>>, s) /\ Decision(x).failed = y.failed
      /\ y.branches = x.branches /\ y.out = x.out /\ y.policy = x.policy /\ y.cause = x.cause /\ y.open = 0
      /\ Len(st'.sets) = Len(st.sets) /\ \A j \in 1..Len(st.sets) : j # s => st'.sets[j] = st.sets[j]
      /\ ~Open(y)
  <2>1. Open(x)
    BY DEF Resolved, Open
  <2> QED BY <1>1, <2>1 DEF Resolved, SetChange, Open, SetsFair, OpenExcused
<1>3. \A answer : Ending(st, <<>>, s, answer) = InPhase(x, {answer})
  <2>1. \A answer : Told(st, <<>>, s, answer) = {}
    BY NothingAtHand DEF Told
  <2> QED BY <2>1 DEF Ending
<1>4. InPhase(x, {"canceled"}) # {} =>
        IF x.policy.mode = "all" THEN InPhase(x, {"failed"}) # {}
        ELSE Cardinality(InPhase(x, {"completed"})) >= Required(x.policy, Len(x.branches))
  BY <1>2, <1>3 DEF Excused
<1>5. x \in SourceSets /\ DOMAIN x.out = Members(x)
  BY <1>1
<1> HIDE DEF x, y
<1>6. y.failed => Warranted(x)
  BY <1>2, <1>4, <1>5, DecisionWarranted DEF Warranted
<1>7. SetFair(y)
  <2>1. Members(y) = Members(x) /\ \A phases : InPhase(y, phases) = InPhase(x, phases)
    BY <1>2 DEF Members, InPhase
  <2>2. \A b \in Members(x) : OutcomeFair(y, b)
    BY <1>2 DEF SetFair, OutcomeFair
  <2>3. y.failed => Warranted(y)
    BY <1>2, <1>6, <2>1 DEF Warranted
  <2> QED BY <1>2, <2>1, <2>2, <2>3 DEF SetFair
<1>8. SetsFair(st')
  BY <1>1, <1>2, <1>7, OneSetFair DEF y
<1>9. st'.act = st.act
  BY DEF Resolved
<1>10. OpenExcused(st', <<>>)
  BY <1>1, <1>2, <1>9, OneSetExcused DEF y, Stand
<1>11. RunsAtHand(st', <<>>)
  BY <1>1, <1>9 DEF RunsAtHand
<1> QED BY <1>1, <1>8, <1>10, <1>11 DEF Fair

(* A branch of a decided set is canceled or superseded.                      *)
LEMMA ClearStaysFair ==
  ASSUME TypeInv, TypeInv', DecisionInv, Fair, status # "failed", NEW s, Settling(s)
  PROVE  /\ \A i : Canceled(s, i) => Fair'
         /\ \A b : Superseded(s, b) => Fair'
<1>1. /\ WellTyped(st) /\ st' \in RunStates /\ Len(st.act) \in Nat /\ Len(st.sets) \in Nat
      /\ s \in 1..Len(st.sets) /\ st.sets[s] \in SourceSets /\ DOMAIN st.sets[s].out = Members(st.sets[s])
      /\ SetsFair(st) /\ RunsAtHand(st, <<>>) /\ OpenExcused(st, <<>>)
  BY SettlingFair
<1>2. ASSUME NEW b \in Members(st.sets[s]), NEW o, OutcomeSet(st.sets, st'.sets, s, b, o),
             st.sets[s].decided \/ st.sets[s].failed, Rephased(st.act, st'.act),
             \A a \in 1..Len(st.act) : st'.act[a] = st.act[a] \/ st'.act[a].phase \in Over,
             o.cause \in {"none", "canceled", "failed"}, o.phase # "failed",
             st.sets[s].out[b].phase \notin {"failed", "skipped"}, pc' = pc, todo' = todo
      PROVE  Fair'
  <2>1. AtHand' = <<>>
    BY <1>2, SettlingFair
  <2>2. ~Open(st.sets[s]) /\ ~Open(st'.sets[s]) /\ Len(st'.sets) = Len(st.sets)
        /\ \A j \in 1..Len(st.sets) : j # s => st'.sets[j] = st.sets[j]
    BY <1>2 DEF OutcomeSet, Open
  <2>3. \A j \in 1..Len(st.sets) : SetFair(st'.sets[j])
    BY <1>1, <1>2, <2>2, OutcomeStaysFair
  <2>4. SetsFair(st')
    BY <2>2, <2>3 DEF SetsFair
  <2>5. Stand(st, st')
    BY <1>2, RephasedStands
  <2>6. OpenExcused(st', <<>>)
    BY <1>1, <2>2, <2>5, OneSetExcused
  <2>7. RunsAtHand(st', <<>>)
    <3>1. Len(st'.act) = Len(st.act)
      BY <1>2 DEF Rephased
    <3> QED BY <1>1, <1>2, <3>1 DEF RunsAtHand
  <2> QED BY <2>1, <2>4, <2>6, <2>7 DEF Fair
<1>3. ASSUME NEW i, Canceled(s, i)
      PROVE  Fair'
  <2> DEFINE b == st.queue[i]
  <2>1. /\ b \in 1..Len(st.act) /\ st.act[b].set = s /\ st.act[b].phase = "ready"
        /\ st'.act[b].phase = "canceled" /\ Rephased(st.act, st'.act)
        /\ \A c \in 1..Len(st.act) : c # b => st'.act[c] = st.act[c]
        /\ OutcomeSet(st.sets, st'.sets, s, b, Cancellation)
        /\ st.sets[s].decided \/ st.sets[s].failed
        /\ pc' = pc /\ todo' = todo
    BY <1>3 DEF Canceled
  <2> HIDE DEF b
  <2>2. b \in Members(st.sets[s]) /\ b \in DOMAIN st.sets[s].out
    BY <1>1, <2>1 DEF WellTyped, SetsKnown
  <2>3. st.sets[s].out[b].phase = "none"
    <3>1. st.act[b].phase \notin Over
      BY <2>1 DEF Over
    <3> QED BY <1>1, <2>2, <3>1 DEF DecisionInv, SetsSound, SetSound
  <2>4. Cancellation.phase = "canceled" /\ Cancellation.cause = "canceled"
    BY OutcomeSays DEF Cancellation
  <2>5. \A a \in 1..Len(st.act) : st'.act[a] = st.act[a] \/ st'.act[a].phase \in Over
    BY <2>1 DEF Over
  <2> QED BY <1>2, <2>1, <2>2, <2>3, <2>4, <2>5
<1>4. ASSUME NEW b, Superseded(s, b)
      PROVE  Fair'
  <2> DEFINE u == st.sets[s].out[b]
             o == [u EXCEPT !.phase = "superseded"]
  <2>1. /\ b \in Members(st.sets[s]) /\ u.phase = "completed" /\ st'.act = st.act
        /\ OutcomeSet(st.sets, st'.sets, s, b, o) /\ pc' = pc /\ todo' = todo
        /\ st.sets[s].decided \/ st.sets[s].failed
    BY <1>4 DEF Superseded
  <2>2. u \in Outcomes
    <3>1. b \in DOMAIN st.sets[s].out /\ st.sets[s].out \in OutcomeMaps
      BY <1>1, <2>1 DEF SourceSets
    <3> QED BY <3>1, OutcomeMapIsFunction
  <2>3. u.cause \in {"none", "canceled", "failed"}
    BY <1>1, <2>1 DEF SetsFair, SetFair, OutcomeFair
  <2>4. o.phase = "superseded" /\ o.cause = u.cause
    BY <2>2 DEF Outcomes
  <2>5. Rephased(st.act, st'.act)
    BY <1>1, <2>1, WellTypedParts
  <2> HIDE DEF o
  <2> QED BY <1>2, <2>1, <2>3, <2>4, <2>5
<1> QED BY <1>3, <1>4

LEMMA ReleaseStaysFair ==
  ASSUME TypeInv, TypeInv', Fair, NEW s, NEW b, NEW c, NEW x, BranchReleased(s, b, c, x)
  PROVE  Fair'
<1> DEFINE u == st.sets[s].out[b]
           n == Len(Branches(u.dispatch))
           k == Len(u.dispatch.iters)
           o == [u EXCEPT !.committed = TRUE]
<1>1. /\ WellTyped(c) /\ Extended(c, x, n, k) /\ WellTyped(x) /\ Settling(s)
      /\ c.act = st.act /\ c.sets = st.sets
  BY ReleasedParts
<1>2. /\ st.sets[s].decided \/ st.sets[s].failed
      /\ b \in Members(st.sets[s]) /\ OutcomeSet(x.sets, st'.sets, s, b, o)
      /\ st'.act = x.act /\ pc' = pc /\ todo' = todo
  BY DEF BranchReleased, Cleared, Decided
<1>3. /\ WellTyped(st) /\ st' \in RunStates /\ Len(st.act) \in Nat /\ Len(st.sets) \in Nat
      /\ s \in 1..Len(st.sets) /\ st.sets[s] \in SourceSets /\ DOMAIN st.sets[s].out = Members(st.sets[s])
      /\ SetsFair(st) /\ RunsAtHand(st, <<>>) /\ OpenExcused(st, <<>>) /\ AtHand' = <<>>
  BY <1>1, <1>2, SettlingFair
<1>4. u \in Outcomes
  <2>1. b \in DOMAIN st.sets[s].out /\ st.sets[s].out \in OutcomeMaps
    BY <1>2, <1>3 DEF SourceSets
  <2> QED BY <2>1, OutcomeMapIsFunction
<1>5. OutcomeFair(st.sets[s], b)
  BY <1>2, <1>3 DEF SetsFair, SetFair
<1>6. o.phase = u.phase /\ o.cause = u.cause
  BY <1>4 DEF Outcomes
<1> HIDE DEF o, n, k
<1>7. /\ \A g \in 1..Len(st.sets) : g \in 1..Len(x.sets) /\ x.sets[g] = st.sets[g]
      /\ \A g \in 1..Len(x.sets) : g \in 1..Len(st.sets) \/ Opened(x.sets[g], Len(st.act), n)
      /\ n \in Nat /\ Len(st.sets) <= Len(x.sets)
  BY <1>1, ExtendedSets, ExtendedParts
<1>8. SetsFair(x)
  BY <1>3, <1>7, OpenedIsFair DEF SetsFair
<1>9. SetsFair(st')
  <2>1. /\ b \in DOMAIN x.sets[s].out /\ x.sets[s].out[b].phase = o.phase
        /\ o.cause \in {"none", "canceled", "failed"} /\ (o.phase = "failed" => o.cause = "failed")
        /\ Open(x.sets[s]) => o.phase # "superseded"
    BY <1>2, <1>3, <1>5, <1>6, <1>7 DEF OutcomeFair
  <2>2. \A j \in 1..Len(x.sets) : SetFair(st'.sets[j])
    BY <1>1, <1>2, <1>8, <2>1, OutcomeStaysFair
  <2> QED BY <1>2, <2>2 DEF SetsFair, OutcomeSet
<1>10. /\ Len(x.act) \in Nat /\ Len(st.act) <= Len(x.act) /\ \A a \in 1..Len(st.act) : x.act[a] = st.act[a]
       /\ \A a \in (Len(st.act) + 1)..Len(x.act) : x.act[a].phase = "ready"
  <2>1. Len(x.act) \in Nat /\ Len(st.act) <= Len(x.act) /\ \A a \in 1..Len(st.act) : x.act[a] = st.act[a]
    BY <1>1, ExtendedParts
  <2>2. \A a \in (Len(st.act) + 1)..Len(x.act) : x.act[a].phase = "ready"
    BY <1>1 DEF Extended
  <2> QED BY <2>1, <2>2
<1>11. Stand(st, st')
  BY <1>2, <1>3, <1>10 DEF Stand
<1>12. RunsAtHand(st', <<>>)
  <2> SUFFICES ASSUME NEW a \in 1..Len(x.act)
               PROVE  \/ x.act[a].phase \in Over \cup {"ready"}
                      \/ x.act[a].phase = "running" /\ Has(<<>>, a)
    BY <1>2 DEF RunsAtHand
  <2>1. CASE a \in 1..Len(st.act)
    BY <1>3, <1>10, <2>1 DEF RunsAtHand
  <2>2. CASE a \notin 1..Len(st.act)
    BY <1>3, <1>10, <2>2
  <2> QED BY <2>1, <2>2
<1>13. OpenExcused(st', <<>>)
  <2>1. /\ Len(st'.sets) = Len(x.sets) /\ \A j \in 1..Len(x.sets) : j # s => st'.sets[j] = x.sets[j]
        /\ ~Open(st'.sets[s])
    BY <1>2, <1>3, <1>7 DEF OutcomeSet, Open
  <2>2. \A y : EndsSame(y, y)
    BY DEF EndsSame
  <2>3. \A g \in 1..Len(st.sets) : Open(st'.sets[g]) => Open(st.sets[g]) /\ EndsSame(st.sets[g], st'.sets[g])
    BY <1>7, <2>1, <2>2
  <2>4. \A g \in 1..Len(st'.sets) :
          g \in 1..Len(st.sets) \/ \A a \in Members(st'.sets[g]) : st'.sets[g].out[a] = NoOutcome
    BY <1>3, <1>7, <2>1 DEF Opened
  <2> QED BY <1>3, <1>7, <1>11, <2>1, <2>3, <2>4, SettledExcused
<1> QED BY <1>3, <1>9, <1>12, <1>13 DEF Fair

LEMMA SettleSetStaysFair ==
  ASSUME TypeInv, TypeInv', Fair, NEW s, NEW c, NEW x, SetSettled(s, c, x)
  PROVE  Fair'
<1>1. Settling(s) /\ pc' = pc /\ todo' = todo
  BY DEF SetSettled, Cleared, Decided, Unsettled
<1>2. /\ WellTyped(st) /\ st' \in RunStates /\ Len(st.act) \in Nat /\ Len(st.sets) \in Nat
      /\ s \in 1..Len(st.sets) /\ st.sets[s] \in SourceSets /\ DOMAIN st.sets[s].out = Members(st.sets[s])
      /\ SetsFair(st) /\ RunsAtHand(st, <<>>) /\ OpenExcused(st, <<>>) /\ AtHand' = <<>>
  BY <1>1, SettlingFair
<1> DEFINE y == st.sets[s]
           z == st'.sets[s]
<1>3. /\ z.branches = y.branches /\ z.out = y.out /\ z.policy = y.policy /\ z.cause = y.cause
      /\ z.open = y.open /\ z.failed = y.failed /\ z.decided = y.decided /\ y.decided
  BY <1>2 DEF SetSettled, SourceSets
<1>4. Len(st'.sets) = Len(st.sets) /\ \A j \in 1..Len(st.sets) : j # s => st'.sets[j] = st.sets[j]
  BY DEF SetSettled
<1>5. SetFair(y)
  BY <1>2 DEF SetsFair
<1> HIDE DEF y, z
<1>6. SetFair(z) /\ ~Open(z)
  <2>1. Members(z) = Members(y) /\ \A phases : InPhase(z, phases) = InPhase(y, phases)
    BY <1>3 DEF Members, InPhase
  <2>2. \A b \in Members(y) : OutcomeFair(z, b)
    BY <1>3, <1>5 DEF SetFair, OutcomeFair, Open
  <2>3. Warranted(y) => Warranted(z)
    BY <1>3, <2>1 DEF Warranted
  <2>4. ~Open(z)
    BY <1>3 DEF Open
  <2> QED BY <1>3, <1>5, <2>1, <2>2, <2>3, <2>4 DEF SetFair
<1>7. SetsFair(st')
  BY <1>2, <1>4, <1>6, OneSetFair DEF z
<1>8. /\ \A a \in 1..Len(st.act) : a \in 1..Len(st'.act) /\ st'.act[a] = st.act[a]
      /\ \A a \in 1..Len(st'.act) : a \in 1..Len(st.act) \/ st'.act[a].phase = "ready"
  <2>1. st'.act = x.act /\ Grown(c, x) /\ c.act = st.act
    BY DEF SetSettled, OnlyCloses
  <2>2. PICK n \in Nat : Adds(c, x, n)
    BY <2>1 DEF Grown
  <2>3. Len(x.act) = Len(st.act) + n /\ \A a \in 1..Len(st.act) : x.act[a] = st.act[a]
    BY <2>1, <2>2 DEF Adds
  <2>4. \A a \in (Len(st.act) + 1)..Len(x.act) : x.act[a].phase = "ready"
    BY <2>1 DEF Grown
  <2> QED BY <1>2, <2>1, <2>3, <2>4
<1>9. OpenExcused(st', <<>>)
  BY <1>2, <1>4, <1>6, <1>8, OneSetExcused DEF z, Stand
<1>10. RunsAtHand(st', <<>>)
  BY <1>2, <1>8 DEF RunsAtHand
<1> QED BY <1>2, <1>7, <1>9, <1>10 DEF Fair

LEMMA SettleStaysFair ==
  ASSUME TypeInv, TypeInv', DecisionInv, Fair, status # "failed", NEW s, Settling(s), SettleStep(s)
  PROVE  Fair'
BY DecideStaysFair, ClearStaysFair, ReleaseStaysFair, SettleSetStaysFair DEF SettleStep

(* A calm process keeps what is at hand fair with every step.                *)
LEMMA MovesStayFair ==
  ASSUME TypeInv, TypeInv', QueueInv, DecisionInv, SourceInv, Calm => Fair, Moves, Calm'
  PROVE  Fair'
<1>1. Calm /\ ~Crashed /\ ~Restarted /\ ~Interrupted /\ ~Failed
  BY CalmBefore
<1>2. Fair /\ status # "failed"
  BY <1>1, CalmNow
<1>3. CASE Stays \/ (Scheduled /\ pc = "schedule") \/ (Accepted /\ AllReturned) \/ \E i : Started(i)
  BY <1>1, <1>2, <1>3, BatchStaysFair
<1>4. CASE \E i : Returned(i)
  BY <1>1, <1>2, <1>4, ReturnStaysFair
<1>5. CASE (\E i, g, b : Pulled(i, g, b)) \/ \E i, g : Ended(i, g)
  BY <1>2, <1>5, PullStaysFair, EndStaysFair
<1>6. CASE \E r : Committed(r)
  <2>1. PICK r : Committed(r)
    BY <1>6
  <2>2. Committing(r)
    BY <2>1 DEF Committed
  <2> QED BY <1>2, <2>1, <2>2, CommitStaysFair
<1>7. CASE \E s : Settling(s) /\ SettleStep(s)
  BY <1>2, <1>7, SettleStaysFair
<1> QED BY <1>1, <1>3, <1>4, <1>5, <1>6, <1>7 DEF Moves

(* The steps that the run fails with, and for which reason                   *)
Plain == {"node", "policy", "steps", "context", "iterator"}

FailsPlainly == \E kind \in Plain : \E e, set, cause : Fail(e, kind, set, cause)

FailsToCancel(s) == /\ CancelQueuedBranch(s)
                    /\ st.act[st.queue[Min(QueuedBranches(s))]].phase # "ready"

NoFault == fault' = fault /\ status' # "failed"

LEMMA FailedIsOver ==
  ASSUME TypeInv, status = "failed", [Next]_vars
  PROVE  UNCHANGED vars
<1>1. pc = "ended"
  BY DEF TypeInv, ControlInv
<1>2. ~(\E i \in DOMAIN st.sources : PullItem(i) \/ EndSource(i) \/ FailPull(i))
  BY <1>1 DEF PullItem, EndSource, FailPull, Pulling
<1>3. ~NextBatch /\ ~StepsExceeded /\ ~StartActivation /\ ~(\E i \in DOMAIN batch : Return(i))
  BY <1>1 DEF NextBatch, StepsExceeded, StartActivation, Return
<1>4. ~AcceptBatch /\ ~FailBatch /\ ~Advance /\ ~InterruptBatch /\ ~Complete /\ ~Resume /\ ~Crash
  BY <1>1 DEF AcceptBatch, FailBatch, AllReturned, Advance, InterruptBatch, BatchDone, Complete, Resume, Crash
<1>5. ~(\E r \in ToSet(todo) : Commit(r))
  BY <1>1 DEF Commit, CommitRetry, CommitBranch, CommitActivation, FailCommit, FailContext, Committing
<1>6. ~(\E s \in ToSet(touched) : Settle(s))
  BY <1>1 DEF Settle, Decide, RefuseSet, LeaveSet, CancelQueuedBranch, SupersedeBranch, ReleaseBranch,
              FailSet, SettleSet, Cleared, Decided, Unsettled, Settling
<1> QED BY <1>2, <1>3, <1>4, <1>5, <1>6 DEF Next, Progress

LEMMA FaultOfCommit ==
  ASSUME status # "failed", NEW r, Commit(r)
  PROVE  NoFault \/ FailsPlainly
<1>1. CASE CommitRetry(r)
  BY <1>1 DEF CommitRetry, Checkpoint, NoFault
<1>2. CASE CommitBranch(r)
  BY <1>2 DEF CommitBranch, Checkpoint, NoFault
<1>3. CASE CommitActivation(r)
  <2> DEFINE f == Finished(ContextCommitted(r), r.act, r.answer)
  <2>1. Fail(f, "policy", 0, "none") \/ \E e : Checkpoint(e)
    BY <1>3 DEF CommitActivation
  <2> HIDE DEF f
  <2> QED BY <2>1 DEF Checkpoint, NoFault, FailsPlainly, Plain
<1>4. CASE FailCommit(r)
  BY <1>4 DEF FailCommit, FailStandalone, FailsPlainly, Plain
<1>5. CASE FailContext(r)
  BY <1>5 DEF FailContext, FailsPlainly, Plain
<1> QED BY <1>1, <1>2, <1>3, <1>4, <1>5 DEF Commit

LEMMA FaultOfSettling ==
  ASSUME status # "failed", NEW s, Settle(s)
  PROVE  NoFault \/ FailsPlainly \/ FailsToCancel(s) \/ FailSet(s)
<1>1. CASE Decide(s)
  BY <1>1 DEF Decide, Compute, NoFault
<1>2. CASE RefuseSet(s)
  BY <1>2 DEF RefuseSet, FailsPlainly, Plain
<1>3. CASE LeaveSet(s)
  BY <1>3 DEF LeaveSet, Compute, NoFault
<1>4. CASE CancelQueuedBranch(s)
  <2>1. FailsToCancel(s) \/ \E e : Checkpoint(e)
    BY <1>4 DEF CancelQueuedBranch, FailsToCancel
  <2> QED BY <2>1 DEF Checkpoint, NoFault
<1>5. CASE SupersedeBranch(s)
  BY <1>5 DEF SupersedeBranch, Checkpoint, NoFault
<1>6. CASE ReleaseBranch(s)
  <2>1. Fail(ClosedUnselected(s), "policy", s, "none") \/ \E e : Checkpoint(e)
    BY <1>6 DEF ReleaseBranch
  <2> QED BY <2>1 DEF Checkpoint, NoFault, FailsPlainly, Plain
<1>7. CASE SettleSet(s)
  <2>1. \E e : Compute(e)
    BY <1>7 DEF SettleSet
  <2> QED BY <2>1 DEF Compute, NoFault
<1> QED BY <1>1, <1>2, <1>3, <1>4, <1>5, <1>6, <1>7 DEF Settle

LEMMA FaultOfStep ==
  ASSUME TypeInv, status # "failed", Next
  PROVE  NoFault \/ FailsPlainly \/ \E s : FailsToCancel(s) \/ FailSet(s)
<1>1. CASE \E i \in DOMAIN st.sources : PullItem(i) \/ EndSource(i) \/ FailPull(i)
  <2> PICK i \in DOMAIN st.sources : PullItem(i) \/ EndSource(i) \/ FailPull(i)
    BY <1>1
  <2>1. CASE PullItem(i)
    BY <2>1 DEF PullItem, Checkpoint, NoFault
  <2>2. CASE EndSource(i)
    BY <2>2 DEF EndSource, Checkpoint, NoFault
  <2>3. CASE FailPull(i)
    BY <2>3 DEF FailPull, FailsPlainly, Plain
  <2> QED BY <2>1, <2>2, <2>3
<1>2. CASE NextBatch \/ Advance \/ Crash
  <2>1. \E e : Compute(e)
    BY <1>2 DEF NextBatch, Advance, Crash
  <2> QED BY <2>1 DEF Compute, NoFault
<1>3. CASE StepsExceeded
  BY <1>3 DEF StepsExceeded, FailsPlainly, Plain
<1>4. CASE StartActivation
  <2>1. \E e : Checkpoint(e)
    BY <1>4 DEF StartActivation
  <2> QED BY <2>1 DEF Checkpoint, NoFault
<1>5. CASE (\E i \in DOMAIN batch : Return(i)) \/ AcceptBatch
  <2>1. \E e : Compute(e)
    BY <1>5 DEF Return, AcceptBatch
  <2> QED BY <2>1 DEF Compute, NoFault
<1>6. CASE FailBatch
  <2>1. \E r : FailStandalone(r)
    BY <1>6 DEF FailBatch
  <2> QED BY <2>1 DEF FailStandalone, FailsPlainly, Plain
<1>7. CASE \E r \in ToSet(todo) : Commit(r)
  BY <1>7, FaultOfCommit
<1>8. CASE \E s \in ToSet(touched) : Settle(s)
  BY <1>8, FaultOfSettling
<1>9. CASE InterruptBatch \/ Complete \/ Resume
  BY <1>9 DEF InterruptBatch, Complete, Resume, NoFault
<1> QED BY <1>1, <1>2, <1>3, <1>4, <1>5, <1>6, <1>7, <1>8, <1>9 DEF Next, Progress

(* cancelNextQueuedBranch: what is queued while a set is settled is ready.   *)
LEMMA QueuedIsReady ==
  ASSUME TypeInv, QueueInv, Calm, Fair, NEW s
  PROVE  ~FailsToCancel(s)
<1> SUFFICES ASSUME FailsToCancel(s)
             PROVE  FALSE
  OBVIOUS
<1> DEFINE i == Min(QueuedBranches(s))
<1>1. Settling(s) /\ QueuedBranches(s) # {} /\ st.act[st.queue[i]].phase # "ready"
  BY DEF FailsToCancel, CancelQueuedBranch, Decided, Unsettled
<1>2. i \in 1..Len(st.queue) /\ st.queue[i] \in 1..Len(st.act)
  BY <1>1, QueuedBranchParts
<1> HIDE DEF i
<1>3. RunsAtHand(st, <<>>)
  BY <1>1, SettlingParts DEF Fair, AtHand
<1>4. st.act[st.queue[i]].phase \in Over
  BY <1>1, <1>2, <1>3, NothingAtHand DEF RunsAtHand
<1>5. Once(st)
  BY CalmNow DEF QueueInv
<1> QED BY <1>2, <1>4, <1>5 DEF Once

(* firstFailure: a branch's own failure is reported.                         *)
LEMMA OwnFailureComesFirst ==
  ASSUME NEW x \in SourceSets, SetFair(x), InPhase(x, {"failed"}) # {}
  PROVE  FirstFailure(x) = "failed"
<1> DEFINE causes == [i \in DOMAIN x.branches |-> x.out[x.branches[i]].cause]
           own == {i \in DOMAIN causes : causes[i] \notin {"none", "canceled"}}
<1>1. DOMAIN x.branches = 1..Len(x.branches) /\ Len(x.branches) \in Nat
  BY SeqParts DEF SourceSets
<1>2. \A i \in 1..Len(x.branches) : causes[i] \in {"none", "canceled", "failed"}
  BY <1>1 DEF SetFair, OutcomeFair, Members, ToSet
<1>3. own # {}
  <2>1. PICK b \in Members(x) : x.out[b].phase = "failed"
    BY DEF InPhase
  <2>2. x.out[b].cause = "failed"
    BY <2>1 DEF SetFair, OutcomeFair
  <2>3. PICK i \in 1..Len(x.branches) : x.branches[i] = b
    BY <1>1, <2>1 DEF Members, ToSet
  <2>4. i \in own
    BY <1>1, <2>2, <2>3
  <2> QED BY <2>4
<1>4. own \in SUBSET Nat /\ own \subseteq 1..Len(x.branches)
  BY <1>1
<1>5. FirstFailure(x) = IF x.cause # "none" THEN x.cause
                        ELSE IF own # {} THEN causes[Min(own)]
                        ELSE IF "canceled" \in ToSet(causes) THEN "canceled" ELSE "unsatisfied"
  BY DEF FirstFailure
<1>6. \A i \in own : causes[i] = "failed"
  BY <1>1, <1>2
<1>7. x.cause \in {"none", "failed"}
  BY DEF SetFair
<1> DEFINE m == Min(own)
<1>8. causes[m] = "failed"
  <2> HIDE DEF own
  <2>1. m \in own
    BY <1>3, <1>4, MinProperties
  <2> QED BY <1>6, <2>1
<1> HIDE DEF causes, own
<1> QED BY <1>3, <1>5, <1>7, <1>8

(* A set that fails the run has a policy out of reach.                       *)
LEMMA FailedSetIsWarranted ==
  ASSUME TypeInv, Calm, Fair, NEW s, FailSet(s)
  PROVE  FailureIsWarranted' /\ OwnFailureIsReported'
<1> DEFINE x == st.sets[s]
<1>1. /\ Settling(s) /\ x.failed /\ Fail(ClosedUnselected(s), "set", s, FirstFailure(x))
  BY DEF FailSet, Cleared, Decided, Unsettled
<1>2. x \in SourceSets /\ SetFair(x)
  BY <1>1, SettlingParts DEF Fair, SetsFair
<1>3. saved'.sets[s] = x
  BY <1>1, ClosedUnselectedFields DEF Fail, OnlyCloses, SameSets
<1>4. fault' = [kind |-> "set", set |-> s, cause |-> FirstFailure(x)]
  BY <1>1 DEF Fail
<1> HIDE DEF x
<1>5. Warranted(x) /\ (InPhase(x, {"failed"}) # {} => FirstFailure(x) = "failed")
  BY <1>1, <1>2, OwnFailureComesFirst DEF SetFair
<1>6. fault'.kind = "set" /\ fault'.set = s /\ fault'.cause = FirstFailure(x) /\ saved'.sets[fault'.set] = x
  BY <1>3, <1>4
<1>7. FailureIsWarranted'
  BY <1>5, <1>6 DEF FailureIsWarranted, Warranted
<1>8. OwnFailureIsReported'
  BY <1>5, <1>6 DEF OwnFailureIsReported
<1> QED BY <1>7, <1>8

LEMMA PlainIsWarranted ==
  ASSUME FailsPlainly
  PROVE  FailureIsWarranted' /\ OwnFailureIsReported'
<1>1. PICK kind \in Plain : \E e, set, cause : Fail(e, kind, set, cause)
  BY DEF FailsPlainly
<1>2. fault'.kind = kind
  BY <1>1 DEF Fail
<1> QED BY <1>2 DEF Plain, FailureIsWarranted, OwnFailureIsReported

(* A step that fails the run is one of a calm process if it is not disturbed. *)
LEMMA FailingIsCalm ==
  ASSUME TypeInv, NEW kind, NEW e, NEW set, NEW cause, Fail(e, kind, set, cause), pc # "ended", Undisturbed'
  PROVE  Calm
BY DEF Fail, Undisturbed, Answered, Calm

LEMMA FailingIsWarranted ==
  ASSUME TypeInv, QueueInv, Calm => Fair, status # "failed", Next, status' = "failed"
  PROVE  UndisturbedFailureIsWarranted'
<1> SUFFICES ASSUME Undisturbed'
             PROVE  FailureIsWarranted' /\ OwnFailureIsReported'
  BY DEF UndisturbedFailureIsWarranted
<1>1. CASE FailsPlainly
  BY <1>1, PlainIsWarranted
<1>2. ASSUME NEW s, FailsToCancel(s)
      PROVE  FALSE
  <2>1. Settling(s) /\ \E e : Fail(e, "scheduler", s, "none")
    BY <1>2 DEF FailsToCancel, CancelQueuedBranch, Decided, Unsettled
  <2>2. Calm
    BY <2>1, FailingIsCalm DEF Settling
  <2> QED BY <1>2, <2>2, QueuedIsReady
<1>3. ASSUME NEW s, FailSet(s)
      PROVE  FailureIsWarranted' /\ OwnFailureIsReported'
  <2>1. Settling(s) /\ Fail(ClosedUnselected(s), "set", s, FirstFailure(st.sets[s]))
    BY <1>3 DEF FailSet, Cleared, Decided, Unsettled
  <2>2. Calm
    BY <2>1, FailingIsCalm DEF Settling
  <2> QED BY <1>3, <2>2, FailedSetIsWarranted
<1> QED BY <1>1, <1>2, <1>3, FaultOfStep DEF NoFault

LEMMA FaultStays ==
  ASSUME FaultInv, UNCHANGED vars
  PROVE  FaultInv'
<1>1. /\ st' = st /\ saved' = saved /\ status' = status /\ pc' = pc /\ batch' = batch /\ todo' = todo
      /\ fault' = fault /\ processes' = processes
  BY DEF vars
<1>2. Undisturbed' = Undisturbed
  BY <1>1 DEF Undisturbed, Answered
<1>3. FailureIsWarranted' = FailureIsWarranted /\ OwnFailureIsReported' = OwnFailureIsReported
  BY <1>1 DEF FailureIsWarranted, OwnFailureIsReported
<1>4. UndisturbedFailureIsWarranted' = UndisturbedFailureIsWarranted
  BY <1>2, <1>3 DEF UndisturbedFailureIsWarranted
<1>5. Calm' = Calm
  BY <1>1, <1>2 DEF Calm
<1>6. AtHand' = AtHand /\ LoneFailure' = LoneFailure
  BY <1>1 DEF AtHand, LoneFailure, SetOf
<1>7. Fair => Fair'
  BY <1>1, <1>6 DEF Fair
<1> QED BY <1>1, <1>4, <1>5, <1>7 DEF FaultInv

LEMMA StepsKeepFault ==
  ASSUME TypeInv, TypeInv', QueueInv, DecisionInv, SourceInv, FaultInv, [Next]_vars
  PROVE  FaultInv'
<1>1. CASE UNCHANGED vars
  BY <1>1, FaultStays
<1>2. CASE status = "failed"
  BY <1>2, FailedIsOver, FaultStays
<1>3. CASE Next /\ status # "failed"
  <2>1. fault.kind = "none" /\ (Calm => Fair)
    BY <1>3 DEF FaultInv
  <2>2. status' # "failed" => fault' = fault
    <3>1. FailsPlainly => status' = "failed"
      BY DEF FailsPlainly, Fail
    <3>2. \A s : FailsToCancel(s) => status' = "failed"
      BY DEF FailsToCancel, CancelQueuedBranch, Fail
    <3>3. \A s : FailSet(s) => status' = "failed"
      BY DEF FailSet, Fail
    <3> QED BY <1>3, <3>1, <3>2, <3>3, FaultOfStep DEF NoFault
  <2>3. status' = "failed" => UndisturbedFailureIsWarranted'
    BY <1>3, <2>1, FailingIsWarranted
  <2>4. Calm' => Fair'
    BY <2>1, StepsMove, MovesStayFair
  <2> QED BY <2>1, <2>2, <2>3, <2>4 DEF FaultInv
<1> QED BY <1>1, <1>2, <1>3

LEMMA InitFault ==
  ASSUME Init
  PROVE  FaultInv
<1>1. PICK entry \in Entries : st = Fresh(entry)
  BY DEF Init
<1>2. /\ status = "running" /\ pc = "schedule" /\ todo = <<>> /\ fault.kind = "none"
      /\ st.sets = <<>> /\ Len(st.act) = 1 /\ st.act[1].phase = "ready"
  BY <1>1 DEF Init, Fresh, NewActivation
<1>3. AtHand = <<>>
  BY <1>2 DEF AtHand
<1>4. SetsFair(st) /\ OpenExcused(st, <<>>)
  BY <1>2, EmptyParts DEF SetsFair, OpenExcused
<1>5. RunsAtHand(st, <<>>)
  BY <1>2 DEF RunsAtHand
<1> QED BY <1>2, <1>3, <1>4, <1>5 DEF FaultInv, Fair

(* decide, batchCoordinator: as long as one process executes the run and no  *)
(* node interrupts it, a branch of an undecided set is canceled only if the  *)
(* results that are in have decided the set, so a set fails only by what its *)
(* branches did; and what has failed the run is recorded in fault.           *)
THEOREM Faults == Spec => []FaultInv
<1>1. Init => FaultInv
  BY InitFault
<1>2. TypeInv /\ TypeInv' /\ QueueInv /\ DecisionInv /\ SourceInv /\ FaultInv /\ [Next]_vars => FaultInv'
  BY StepsKeepFault
<1> QED BY <1>1, <1>2, Types, Queues, Decisions, Items, PTL DEF Spec

LEMMA FaultIsWarranted ==
  ASSUME FaultInv
  PROVE  UndisturbedFailureIsWarranted
BY DEF FaultInv, UndisturbedFailureIsWarranted, FailureIsWarranted, OwnFailureIsReported

(* decide, firstFailure: without crashes and interrupts a run fails only for *)
(* a reason its nodes or its iterators gave, in whatever order and batches   *)
(* the branches return and are canceled; and what it reports of a source set *)
(* is a branch's own failure, never the cancellation of a sibling.           *)
THEOREM FailuresAreWarranted == Spec => []UndisturbedFailureIsWarranted
<1>1. FaultInv => UndisturbedFailureIsWarranted
  BY FaultIsWarranted
<1> QED BY <1>1, Faults, PTL

=============================================================================
