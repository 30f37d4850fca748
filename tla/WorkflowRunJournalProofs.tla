----------------------- MODULE WorkflowRunJournalProofs -----------------------
(***************************************************************************)
(* Proofs about WorkflowRun, continued: the journal, the checkpoint and the *)
(* sinks agree, whatever crashes, lost leases, failures and cancellations   *)
(* fall between an append, its delivery and the Saves around them.          *)
(*                                                                         *)
(* The argument: only the holder, the invocation whose claim is the head's, *)
(* writes or appends, so it suffices to say how far along the commit        *)
(* protocol the holder is at each of its steps (InStep), and what it leaves *)
(* to whoever resumes the run when it stops there (HeadAgrees).             *)
(***************************************************************************)
EXTENDS WorkflowRunProofs

(* The journal j has the sequences 1..n, and is the history of what the    *)
(* sinks got.                                                              *)
Kept(j, d, n) ==
  /\ n \in Nat /\ j \in [1..n -> Events]
  /\ \A s \in 1..n : j[s].seq = s
  /\ \A e \in d : e.seq \in 1..n /\ j[e.seq] = e

(* What the journal says of completed activations.                         *)
CompletedIn(j, m) == {s \in 1..m : j[s].type = "nodeCompleted"}
Completion(e) == IF e.type = "nodeCompleted" THEN 1 ELSE 0
Tally(b, j) == Cardinality(CompletedIn(j, b.cursor)) + Completion(b.pending)

(* The run is over, or about to be.                                        *)
Ending(h) == checkpointTerminal(h.status) \/ h.body.term # "none"

(* The checkpoint is as far as the journal, but for the pending event and  *)
(* for events that no checkpoint confirms.                                 *)
HeadAgrees(h, j, d, n) ==
  LET b == h.body IN
  /\ b.cursor <= n
  /\ b.pending # NoEvent => b.pending.seq = b.cursor + 1 /\ n <= b.cursor + 1
  /\ \A s \in b.cursor + 1 .. n :
       \/ b.pending # NoEvent /\ j[s] = b.pending
       \/ b.pending = NoEvent /\ j[s].type \in ObservedTypes
  /\ b.progress # NoProgress /\ b.pending = NoEvent => b.cursor = n
  /\ \A s \in 1..b.cursor : j[s] \in d
  /\ b.term = IF b.pending.type \in TerminalStatuses THEN b.pending.type ELSE "none"
  /\ \A s \in 1..b.cursor :
       j[s].type \in TerminalStatuses => checkpointTerminal(h.status) /\ s = n
  /\ checkpointTerminal(h.status) =>
       n > 0 /\ b.cursor = n /\ j[n].type = h.status /\ b.pending = NoEvent
  /\ Exists(h) => \/ b.done = Tally(b, j)
                  \/ Ending(h) /\ b.done = Tally(b, j) + 1
  /\ ~Exists(h) => n <= 1 /\ (n = 1 => HookEvents)

Holds(x, h) == Owns(x) /\ x.pc # "release" /\ x.ckpt.claim = h.claim

(* How the event x is about to append or deliver stands to the checkpoint. *)
Announced(x, b) ==
  IF x.mode \in ObserveModes
  THEN b.pending = NoEvent /\ x.ev.type \in ObservedTypes
  ELSE /\ b.pending = x.ev /\ b.cursor = x.cursor
       /\ b.term = IF x.mode \in {"terminal", "replay"} THEN x.term ELSE "none"

(* The activations x has completed, against those of the checkpoint.       *)
DoneAgrees(x, b) ==
  \/ /\ x.done = b.done
     /\ x.pc = "savePending" => x.ev.type # "nodeCompleted"
  \/ /\ x.done = b.done + 1
     /\ x.pc = "savePending" /\ x.ev.type \in TerminalStatuses \cup {"nodeCompleted"}

(* Where x is in the batch of interrupts that it records or goes on with:   *)
(* the next event of the batch is the next event of the journal.            *)
OnBatch(x, b, n) ==
  /\ x.pc = "work" \/ x.mode \in ObserveModes =>
       x.progress = NoProgress /\ b.progress = NoProgress
  /\ x.mode \in {"start", "step"} => x.progress = NoProgress
  /\ x.mode \in BatchModes => x.progress # NoProgress
  /\ x.pc \in {"reconcile", "saveCursor"} =>
       /\ b.progress = x.progress
       /\ x.progress # NoProgress => x.cursor = n
  /\ x.progress # NoProgress /\ x.mode # "terminal" /\ x.pc # "finish" =>
       /\ x.progress.first + x.progress.next = x.cursor + 1
       /\ x.mode = "replay" /\ x.pc \in {"append", "deliver"} =>
            x.progress.next < BatchSize(x.ints)

InStep(x, b, j, d, n) ==
  /\ b.cursor <= x.cursor /\ x.cursor <= n
  /\ OnBatch(x, b, n)
  /\ \A s \in 1..x.cursor : j[s] \in d
  /\ DoneAgrees(x, b)
  /\ CASE x.pc \in {"work", "interrupt"} ->
            x.seq = n /\ x.cursor = n /\ b.pending = NoEvent
       [] x.pc = "savePending" ->
            /\ x.seq = n /\ x.cursor = n /\ x.ev.seq = n + 1
            /\ b.term = "none" /\ (b.pending # NoEvent => n = b.cursor + 1)
            /\ x.mode # "terminal" => x.ev.type \notin TerminalStatuses
       [] x.pc = "append" ->
            /\ x.seq = x.cursor /\ x.ev.seq = x.cursor + 1 /\ Announced(x, b)
            /\ x.mode # "replay" => n = x.cursor
       [] x.pc = "deliver" ->
            x.seq = n /\ x.cursor = n - 1 /\ x.ev.seq = n /\ Announced(x, b)
       [] x.pc = "confirm" ->
            /\ x.seq = n /\ x.cursor = n /\ b.cursor = n - 1
            /\ b.pending = j[n] /\ b.term = "none"
       [] x.pc = "finish" ->
            /\ x.seq = n /\ x.cursor = n /\ b.cursor = n - 1
            /\ b.pending = j[n] /\ b.term = x.term /\ x.term # "none"
       [] x.pc = "reconcile" ->
            x.seq = x.cursor /\ b.pending = NoEvent
       [] x.pc = "saveCursor" ->
            /\ x.seq = x.cursor /\ b.pending = NoEvent
            /\ ~x.more => x.cursor = n

HolderInStep(x, h, j, d, n) ==
  Holds(x, h) => ~checkpointTerminal(h.status) /\ InStep(x, h.body, j, d, n)

(* An invocation that has only run its BeforeWorkflow hook.                *)
Hooked(x, j, d, n) ==
  x.mode = "hook" /\ x.pc \in {"append", "deliver", "create"} =>
    /\ x.ev.seq = 1 /\ x.ev.type = "hook" /\ x.done = 0 /\ x.progress = NoProgress
    /\ x.pc = "append" => x.seq = 0 /\ x.cursor = 0
    /\ x.pc = "deliver" => x.seq = 1 /\ x.cursor = 0 /\ n > 0
    /\ x.pc = "create" => x.seq = 1 /\ x.cursor = 1 /\ n > 0 /\ j[1] \in d

OnItsWay(x, j, n) == x.pc = "deliver" => x.ev.seq \in 1..n /\ j[x.ev.seq] = x.ev

Told(x, h) ==
  /\ x.result \in TerminalStatuses => h.status = x.result
  /\ x.result = "interrupted" /\ h.claim = x.ckpt.claim =>
       h.status = "interrupted" /\ h.body.ints = x.ints

Agreement(n) ==
  /\ Kept(journal, delivered, n)
  /\ HeadAgrees(head, journal, delivered, n)
  /\ \A p \in Invocations :
       /\ HolderInStep(ex[p], head, journal, delivered, n)
       /\ Hooked(ex[p], journal, delivered, n)
       /\ OnItsWay(ex[p], journal, n)
       /\ Told(ex[p], head)

Agree == \E n \in Nat : Agreement(n)

-----------------------------------------------------------------------------
(* The data of the agreement.                                              *)

LEMMA LastIs ==
  ASSUME NEW n \in Nat, DOMAIN journal = 1..n
  PROVE  Last = n
<1>1. Cardinality(1..n) = n
  BY FS_Interval
<1> QED BY <1>1 DEF Last

LEMMA CompletedIsFinite ==
  ASSUME NEW j, NEW m \in Nat
  PROVE  IsFiniteSet(CompletedIn(j, m)) /\ Cardinality(CompletedIn(j, m)) \in Nat
<1>1. IsFiniteSet(1..m)
  BY FS_Interval
<1>2. CompletedIn(j, m) \subseteq 1..m
  BY DEF CompletedIn
<1> QED BY <1>1, <1>2, FS_Subset, FS_CardinalityType

LEMMA CompletedNext ==
  ASSUME NEW j, NEW m \in Nat
  PROVE  Cardinality(CompletedIn(j, m + 1)) =
           Cardinality(CompletedIn(j, m)) + Completion(j[m + 1])
<1>1. CASE j[m + 1].type = "nodeCompleted"
  <2>1. CompletedIn(j, m + 1) = CompletedIn(j, m) \cup {m + 1} /\ m + 1 \notin CompletedIn(j, m)
    BY <1>1 DEF CompletedIn
  <2>2. IsFiniteSet(CompletedIn(j, m))
    BY CompletedIsFinite
  <2> QED BY <1>1, <2>1, <2>2, FS_AddElement DEF Completion
<1>2. CASE j[m + 1].type # "nodeCompleted"
  <2>1. CompletedIn(j, m + 1) = CompletedIn(j, m)
    BY <1>2 DEF CompletedIn
  <2> QED BY <1>2, <2>1, CompletedIsFinite DEF Completion
<1> QED BY <1>1, <1>2

LEMMA ObservedIsNothing ==
  ASSUME NEW e, e.type \in ObservedTypes
  PROVE  e.type # "nodeCompleted" /\ e.type \notin TerminalStatuses /\ Completion(e) = 0
BY DEF ObservedTypes, TerminalStatuses, Completion

LEMMA NoEventIsNothing ==
  /\ NoEvent.type = "none" /\ "none" \notin TerminalStatuses /\ Completion(NoEvent) = 0
  /\ "nodeCompleted" \notin TerminalStatuses
BY DEF NoEvent, TerminalStatuses, Completion

(* What the checkpoint counts is what is in the journal, once the pending  *)
(* event is.                                                               *)
LEMMA TallyIsAll ==
  ASSUME NEW j, NEW d, NEW n, Kept(j, d, n), NEW h \in Records, HeadAgrees(h, j, d, n),
         NEW c \in Nat, h.body.cursor <= c, c <= n,
         h.body.pending # NoEvent => h.body.cursor < c
  PROVE  Tally(h.body, j) = Cardinality(CompletedIn(j, c))
<1> DEFINE b == h.body
<1>1. b.cursor \in Nat /\ n \in Nat
  BY DEF Records, Bodies, Kept
<1>2. CASE b.pending = NoEvent
  <2>1. \A s \in b.cursor + 1 .. n : j[s].type # "nodeCompleted"
    BY <1>2, ObservedIsNothing DEF HeadAgrees
  <2>2. CompletedIn(j, c) = CompletedIn(j, b.cursor)
    BY <1>1, <2>1 DEF CompletedIn
  <2> QED BY <1>1, <1>2, <2>2, NoEventIsNothing, CompletedIsFinite DEF Tally
<1>3. CASE b.pending # NoEvent
  <2>1. c = b.cursor + 1 /\ n = c
    BY <1>1, <1>3 DEF HeadAgrees
  <2>2. j[c] = b.pending
    BY <1>1, <1>3, <2>1 DEF HeadAgrees
  <2> QED BY <1>1, <2>1, <2>2, CompletedNext DEF Tally
<1> QED BY <1>2, <1>3

(* The holder writes the checkpoint: it confirms up to c, takes note of e,  *)
(* and may close the run.                                                  *)
LEMMA HeadRewritten ==
  ASSUME NEW j, NEW d, NEW n, Kept(j, d, n), NEW h \in Records, HeadAgrees(h, j, d, n),
         Exists(h), ~checkpointTerminal(h.status), NEW g \in Records, Exists(g),
         NEW c \in Nat, g.body.cursor = c, h.body.cursor <= c, c <= n,
         \A s \in 1..c : j[s] \in d,
         h.body.pending # NoEvent => h.body.cursor < c,
         NEW e, g.body.pending = e, e # NoEvent => e.seq = n + 1 /\ c = n,
         g.body.term = IF e.type \in TerminalStatuses THEN e.type ELSE "none",
         IF checkpointTerminal(g.status)
         THEN n > 0 /\ c = n /\ j[n].type = g.status /\ e = NoEvent
         ELSE h.body.term = "none",
         \/ g.body.done = h.body.done + Completion(e)
         \/ /\ g.body.done = h.body.done + 1 /\ e.type \in TerminalStatuses,
         g.body.progress # NoProgress /\ e = NoEvent => c = n
  PROVE  HeadAgrees(g, j, d, n)
<1> DEFINE b == h.body
           f == g.body
<1>1. /\ b.cursor \in Nat /\ n \in Nat /\ b.done \in Nat /\ f.done \in Nat
  BY RunAssumption DEF Records, Bodies, Kept
<1>2. \A s \in c + 1 .. n : j[s].type \in ObservedTypes /\ e = NoEvent
  BY <1>1 DEF HeadAgrees
<1>3. \A s \in c + 1 .. n :
        \/ f.pending # NoEvent /\ j[s] = f.pending
        \/ f.pending = NoEvent /\ j[s].type \in ObservedTypes
  BY <1>2
<1>4. \A s \in 1..b.cursor : j[s].type \notin TerminalStatuses
  BY DEF HeadAgrees
<1>5. ASSUME NEW s \in b.cursor + 1 .. n, j[s].type \in TerminalStatuses
      PROVE  b.term # "none" /\ s = n
  BY <1>1, <1>5, ObservedIsNothing, NoEventIsNothing DEF HeadAgrees
<1>6. \A s \in 1..c :
        j[s].type \in TerminalStatuses => checkpointTerminal(g.status) /\ s = n
  BY <1>1, <1>4, <1>5
<1>7. Tally(f, j) = Tally(b, j) + Completion(e)
  <2>1. Tally(b, j) = Cardinality(CompletedIn(j, c))
    BY TallyIsAll
  <2> QED BY <2>1 DEF Tally
<1>8. Tally(b, j) \in Nat /\ Completion(e) \in {0, 1}
  BY <1>1, CompletedIsFinite DEF Tally, Completion
<1>9. b.done = Tally(b, j) \/ (Ending(h) /\ b.done = Tally(b, j) + 1)
  BY DEF HeadAgrees
<1>10. Ending(h) => Ending(g)
  BY DEF Ending
<1>11. e.type \in TerminalStatuses => Completion(e) = 0 /\ f.term # "none"
  BY NoEventIsNothing DEF Completion
<1>12. f.done = Tally(f, j) \/ (Ending(g) /\ f.done = Tally(f, j) + 1)
  <2>1. CASE f.done = b.done + Completion(e)
    BY <1>1, <1>7, <1>8, <1>9, <1>10, <2>1
  <2>2. CASE f.done = b.done + 1 /\ e.type \in TerminalStatuses
    <3>1. e # NoEvent
      BY <2>2, NoEventIsNothing
    <3>2. ~checkpointTerminal(g.status)
      BY <3>1
    <3>3. ~Ending(h) /\ Ending(g)
      BY <1>11, <2>2, <3>2 DEF Ending
    <3> QED BY <1>1, <1>7, <1>8, <1>9, <1>11, <2>2, <3>3
  <2> QED BY <2>1, <2>2
<1>13. f.pending # NoEvent => f.pending.seq = f.cursor + 1 /\ n <= f.cursor + 1
  BY <1>1
<1>14. checkpointTerminal(g.status) =>
         n > 0 /\ f.cursor = n /\ j[n].type = g.status /\ f.pending = NoEvent
  OBVIOUS
<1> QED BY <1>3, <1>6, <1>12, <1>13, <1>14 DEF HeadAgrees

(* The journal with one more event, which has the next sequence.           *)
LEMMA Lengthened ==
  ASSUME NEW n \in Nat, NEW j, NEW d, Kept(j, d, n), NEW e \in Events, e.seq = n + 1,
         NEW k, k = [s \in DOMAIN j \cup {e.seq} |-> IF s = e.seq THEN e ELSE j[s]]
  PROVE  /\ Kept(k, d, n + 1)
         /\ \A s \in 1..n : k[s] = j[s]
         /\ k[n + 1] = e
<1>1. DOMAIN j = 1..n /\ DOMAIN j \cup {e.seq} = 1..(n + 1)
  BY DEF Kept
<1>2. k = [s \in 1..(n + 1) |-> IF s = n + 1 THEN e ELSE j[s]]
  BY <1>1
<1>3. (\A s \in 1..n : k[s] = j[s]) /\ k[n + 1] = e
  BY <1>2
<1>4. k \in [1..(n + 1) -> Events] /\ \A s \in 1..(n + 1) : k[s].seq = s
  BY <1>2 DEF Kept
<1>5. \A f \in d : f.seq \in 1..(n + 1) /\ k[f.seq] = f
  BY <1>3 DEF Kept
<1> QED BY <1>3, <1>4, <1>5 DEF Kept

(* The agreement of the head does not mind it: it is the pending event, or *)
(* one no checkpoint mentions.                                             *)
LEMMA HeadLengthened ==
  ASSUME NEW n \in Nat, NEW j, NEW d, NEW h \in Records, HeadAgrees(h, j, d, n),
         NEW k, NEW e, \A s \in 1..n : k[s] = j[s], k[n + 1] = e,
         ~checkpointTerminal(h.status),
         \/ h.body.pending # NoEvent /\ e = h.body.pending /\ h.body.cursor = n
         \/ h.body.pending = NoEvent /\ e.type \in ObservedTypes,
         Exists(h) \/ (n = 0 /\ HookEvents),
         h.body.pending = NoEvent => h.body.progress = NoProgress
  PROVE  HeadAgrees(h, k, d, n + 1)
<1> DEFINE b == h.body
<1>1. b.cursor \in Nat /\ b.cursor <= n
  BY DEF Records, Bodies, HeadAgrees
<1>2. CompletedIn(k, b.cursor) = CompletedIn(j, b.cursor)
  BY <1>1 DEF CompletedIn
<1>3. Tally(b, k) = Tally(b, j)
  BY <1>2 DEF Tally
<1>4. \A s \in b.cursor + 1 .. n + 1 :
        \/ b.pending # NoEvent /\ k[s] = b.pending
        \/ b.pending = NoEvent /\ k[s].type \in ObservedTypes
  <2> TAKE s \in b.cursor + 1 .. n + 1
  <2>1. CASE s = n + 1
    BY <2>1
  <2>2. CASE s # n + 1
    <3>1. s \in b.cursor + 1 .. n /\ s \in 1..n
      BY <1>1, <2>2
    <3> QED BY <3>1 DEF HeadAgrees
  <2> QED BY <2>1, <2>2
<1>5. \A s \in 1..b.cursor : k[s] = j[s]
  BY <1>1
<1>6. b.pending # NoEvent => b.pending.seq = b.cursor + 1 /\ n + 1 <= b.cursor + 1
  BY <1>1 DEF HeadAgrees
<1>7. \A s \in 1..b.cursor : k[s] \in d
  BY <1>5 DEF HeadAgrees
<1>8. \A s \in 1..b.cursor : k[s].type \notin TerminalStatuses
  BY <1>5 DEF HeadAgrees
<1>9. b.term = IF b.pending.type \in TerminalStatuses THEN b.pending.type ELSE "none"
  BY DEF HeadAgrees
<1>10. Exists(h) => \/ b.done = Tally(b, k)
                    \/ Ending(h) /\ b.done = Tally(b, k) + 1
  BY <1>3 DEF HeadAgrees
<1>11. b.cursor <= n + 1 /\ (~Exists(h) => n + 1 <= 1 /\ (n + 1 = 1 => HookEvents))
  BY <1>1
<1> QED BY <1>4, <1>6, <1>7, <1>8, <1>9, <1>10, <1>11 DEF HeadAgrees

(* Another delivery of what is in the journal.                             *)
LEMMA Redelivered ==
  ASSUME NEW n, NEW j, NEW d, NEW c, d \subseteq c, \A e \in c \ d : e.seq \in 1..n /\ j[e.seq] = e
  PROVE  /\ Kept(j, d, n) => Kept(j, c, n)
         /\ \A h : HeadAgrees(h, j, d, n) => HeadAgrees(h, j, c, n)
         /\ \A x, b : InStep(x, b, j, d, n) => InStep(x, b, j, c, n)
         /\ \A x : Hooked(x, j, d, n) => Hooked(x, j, c, n)
<1>1. Kept(j, d, n) => Kept(j, c, n)
  BY DEF Kept
<1>2. ASSUME NEW h, HeadAgrees(h, j, d, n)
      PROVE  HeadAgrees(h, j, c, n)
  BY <1>2 DEF HeadAgrees
<1>3. ASSUME NEW x, NEW b, InStep(x, b, j, d, n)
      PROVE  InStep(x, b, j, c, n)
  <2>1. \A s \in 1..x.cursor : j[s] \in c
    BY <1>3 DEF InStep
  <2> QED BY <1>3, <2>1 DEF InStep
<1>4. ASSUME NEW x, Hooked(x, j, d, n)
      PROVE  Hooked(x, j, c, n)
  BY <1>4 DEF Hooked
<1> QED BY <1>1, <1>2, <1>3, <1>4

(* Another lease, another claim, other resolutions: the same run.          *)
LEMMA HeadRenewed ==
  ASSUME NEW j, NEW d, NEW n, NEW h \in Records, HeadAgrees(h, j, d, n), NEW g,
         \/ ~checkpointTerminal(h.status) /\ ~checkpointTerminal(g.status)
         \/ g.status = h.status,
         Exists(g) <=> Exists(h),
         /\ g.body.cursor = h.body.cursor /\ g.body.pending = h.body.pending
         /\ g.body.term = h.body.term /\ g.body.done = h.body.done
         /\ g.body.progress = h.body.progress
  PROVE  HeadAgrees(g, j, d, n)
<1>1. Tally(g.body, j) = Tally(h.body, j)
  BY DEF Tally
<1>2. Ending(g) <=> Ending(h)
  BY DEF Ending
<1>3. checkpointTerminal(g.status) <=> checkpointTerminal(h.status)
  OBVIOUS
<1>4. checkpointTerminal(h.status) => g.status = h.status
  OBVIOUS
<1> QED BY <1>1, <1>2, <1>3, <1>4 DEF HeadAgrees

-----------------------------------------------------------------------------
(* Steps.                                                                  *)

(* All there is to say of p at x.                                          *)
Behaves(x, h, j, d, n) ==
  HolderInStep(x, h, j, d, n) /\ Hooked(x, j, d, n) /\ OnItsWay(x, j, n) /\ Told(x, h)

LEMMA QuittersBehave ==
  ASSUME NEW x, NEW y, Quits(x, y), NEW h, NEW j, NEW d, NEW n
  PROVE  Behaves(y, h, j, d, n)
BY DEF Quits, Behaves, HolderInStep, Holds, Owns, OwningSteps, Hooked, OnItsWay, Told,
       TerminalStatuses

(* Nobody but the holder holds the run.                                    *)
LEMMA HoldersAreOne ==
  ASSUME Claims, NEW p \in Invocations, NEW q \in Invocations,
         Granted(ex[p]), ex[p].ckpt.claim = head.claim,
         Granted(ex[q]), ex[q].ckpt.claim = head.claim
  PROVE  p = q
BY DEF Claims

(* The holder's copy of the checkpoint is the checkpoint.                  *)
LEMMA HoldersAreCurrent ==
  ASSUME Local, Claims, NEW p \in Invocations, Owns(ex[p]), ex[p].ckpt.claim = head.claim
  PROVE  /\ head.body = ex[p].ckpt.body /\ head.status = ex[p].ckpt.status
         /\ head.claim > 0 /\ Exists(head)
<1>1. SameRecord(head, ex[p].ckpt) /\ head.claim > 0
  BY DEF Claims, Entitled, Owns, Granted
<1>2. ex[p].ckpt \in Records
  BY DEF Local, Executions
<1> QED BY <1>1, <1>2 DEF SameRecord, Records, Claims, Claimable, Exists

(* p took a step that left the checkpoint and the journal alone.           *)
LEMMA QuietStep ==
  ASSUME NEW n \in Nat, Agreement(n), Local, NEW p \in Invocations, NEW y, Becomes(p, y),
         UNCHANGED <<head, journal>>, delivered \subseteq delivered',
         \A e \in delivered' \ delivered : e.seq \in 1..n /\ journal[e.seq] = e,
         Behaves(y, head, journal, delivered', n)
  PROVE  Agreement(n)'
<1>1. Kept(journal, delivered', n) /\ HeadAgrees(head, journal, delivered', n)
  BY Redelivered DEF Agreement
<1>2. ASSUME NEW q \in Invocations \ {p}
      PROVE  Behaves(ex[q], head, journal, delivered', n)
  BY Redelivered DEF Agreement, Behaves, HolderInStep
<1>3. ex'[p] = y /\ \A q \in Invocations \ {p} : ex'[q] = ex[q]
  BY LocalStep
<1>4. \A q \in Invocations : Behaves(ex'[q], head, journal, delivered', n)
  BY <1>2, <1>3
<1> QED BY <1>1, <1>4 DEF Agreement, Behaves

(* p, which holds the run, changed the checkpoint or the journal.          *)
LEMMA HolderStep ==
  ASSUME NEW n \in Nat, Agreement(n), Local, Claims, NEW p \in Invocations, NEW y, Becomes(p, y),
         NEW m \in Nat, n <= m, delivered' = delivered,
         \A s \in 1..n : journal'[s] = journal[s],
         Kept(journal', delivered, m), HeadAgrees(head', journal', delivered, m),
         ~checkpointTerminal(head.status),
         \/ Owns(ex[p]) /\ ex[p].ckpt.claim = head.claim /\ head'.claim = head.claim
         \/ head'.claim = head.claim + 1
         \/ ~Exists(head) /\ head'.claim = head.claim,
         Behaves(y, head', journal', delivered, m)
  PROVE  Agreement(m)'
<1>0. /\ head.claim \in Nat
      /\ \A q \in Invocations : ex[q].ckpt.claim \in Nat /\ ex[q].ckpt.claim <= head.claim
  BY DEF Claims, Claimable, Records, Entitled, Local, Executions
<1>1. ASSUME NEW q \in Invocations \ {p}, Granted(ex[q])
      PROVE  ex[q].ckpt.claim # head'.claim
  <2>1. CASE Owns(ex[p]) /\ ex[p].ckpt.claim = head.claim /\ head'.claim = head.claim
    BY <1>1, <2>1, HoldersAreOne DEF Granted
  <2>2. CASE head'.claim = head.claim + 1
    BY <1>0, <2>2
  <2>3. CASE ~Exists(head) /\ head'.claim = head.claim
    <3>1. head.claim = 0
      BY <2>3 DEF Claims, Claimable, Exists, Records
    <3>2. ex[q].ckpt.claim > 0
      BY <1>1 DEF Claims, Entitled
    <3> QED BY <1>0, <2>3, <3>1, <3>2
  <2> QED BY <2>1, <2>2, <2>3
<1>2. ASSUME NEW q \in Invocations \ {p}
      PROVE  Behaves(ex[q], head', journal', delivered, m)
  <2>1. HolderInStep(ex[q], head', journal', delivered, m)
    BY <1>1 DEF HolderInStep, Holds, Granted
  <2>2. Hooked(ex[q], journal, delivered, n) /\ OnItsWay(ex[q], journal, n) /\ Told(ex[q], head)
    BY DEF Agreement
  <2>3. 1..n \subseteq 1..m
    OBVIOUS
  <2>4. Hooked(ex[q], journal', delivered, m)
    BY <2>2 DEF Hooked
  <2>5. OnItsWay(ex[q], journal', m)
    BY <2>2, <2>3 DEF OnItsWay
  <2>6. Told(ex[q], head')
    BY <1>1, <2>2 DEF Told, Granted, checkpointTerminal
  <2> QED BY <2>1, <2>4, <2>5, <2>6 DEF Behaves
<1>3. ex'[p] = y /\ \A q \in Invocations \ {p} : ex'[q] = ex[q]
  BY LocalStep
<1>4. \A q \in Invocations : Behaves(ex'[q], head', journal', delivered, m)
  BY <1>2, <1>3
<1> QED BY <1>4 DEF Agreement, Behaves

LEMMA LeaversBehave ==
  ASSUME NEW x, NEW y, Leaves(x, y, "error"), NEW h, NEW j, NEW d, NEW n
  PROVE  Behaves(y, h, j, d, n)
BY DEF Leaves, Behaves, HolderInStep, Holds, Owns, OwningSteps, Hooked, OnItsWay, Told,
       TerminalStatuses

(* The holder may decide to end the run here.                              *)
MayEnd(x, h, j, d, n) ==
  x.ckpt.claim = h.claim =>
    LET b == h.body IN
    /\ ~checkpointTerminal(h.status) /\ b.term = "none"
    /\ x.seq = n /\ x.cursor = n /\ b.cursor <= n
    /\ b.pending # NoEvent => n = b.cursor + 1
    /\ \A s \in 1..n : j[s] \in d
    /\ x.done \in {b.done, b.done + 1}

LEMMA EndersBehave ==
  ASSUME NEW p \in Invocations, NEW x \in Executions, NEW y, Ends(p, x, y), Sound(y),
         NEW h, NEW j, NEW d, NEW n \in Nat, MayEnd(x, h, j, d, n)
  PROVE  Behaves(y, h, j, d, n)
<1> DEFINE b == h.body
<1>1. /\ y.pc = "savePending" /\ y.mode = "terminal" /\ y.ckpt = x.ckpt /\ y.seq = x.seq
      /\ y.cursor = x.cursor /\ y.done = x.done /\ y.result = "none"
      /\ y.ev.seq = x.seq + 1 /\ y.ev.type \in TerminalStatuses
  BY DEF Ends, SameWork, Stamp, Sound, Placed
<1>2. y.ev.type # "nodeCompleted"
  BY <1>1, NoEventIsNothing
<1>3. ASSUME Holds(y, h)
      PROVE  ~checkpointTerminal(h.status) /\ InStep(y, b, j, d, n)
  <2>1. /\ ~checkpointTerminal(h.status) /\ b.term = "none"
        /\ x.seq = n /\ x.cursor = n /\ b.cursor <= n
        /\ b.pending # NoEvent => n = b.cursor + 1
        /\ \A s \in 1..n : j[s] \in d
        /\ x.done \in {b.done, b.done + 1}
    BY <1>1, <1>3 DEF Holds, MayEnd
  <2>2. DoneAgrees(y, b)
    BY <1>1, <1>2, <2>1 DEF DoneAgrees
  <2>3. OnBatch(y, b, n)
    BY <1>1 DEF OnBatch, ObserveModes, BatchModes
  <2> QED BY <1>1, <2>1, <2>2, <2>3 DEF InStep
<1>4. HolderInStep(y, h, j, d, n)
  BY <1>3 DEF HolderInStep
<1> QED BY <1>1, <1>4 DEF Behaves, Hooked, OnItsWay, Told, TerminalStatuses

LEMMA NothingPending ==
  ASSUME NEW h, NEW j, NEW d, NEW n, HeadAgrees(h, j, d, n), h.body.pending = NoEvent
  PROVE  h.body.term = "none"
BY NoEventIsNothing DEF HeadAgrees

(* It may where it works, and where a commit it is in the middle of failed. *)
LEMMA MayEndAt ==
  ASSUME NEW x, Owns(x), x.pc \in {"work", "savePending", "confirm", "interrupt"},
         NEW h \in Records, NEW j, NEW d, NEW n \in Nat, HeadAgrees(h, j, d, n),
         HolderInStep(x, h, j, d, n)
  PROVE  MayEnd(x, h, j, d, n)
<1> SUFFICES ASSUME x.ckpt.claim = h.claim
             PROVE  LET b == h.body IN
                    /\ ~checkpointTerminal(h.status) /\ b.term = "none"
                    /\ x.seq = n /\ x.cursor = n /\ b.cursor <= n
                    /\ b.pending # NoEvent => n = b.cursor + 1
                    /\ \A s \in 1..n : j[s] \in d
                    /\ x.done \in {b.done, b.done + 1}
  BY DEF MayEnd
<1> DEFINE b == h.body
<1>1. ~checkpointTerminal(h.status) /\ InStep(x, b, j, d, n)
  BY DEF HolderInStep, Holds
<1>2. b.cursor \in Nat
  BY DEF Records, Bodies
<1>3. x.done \in {b.done, b.done + 1}
  BY <1>1 DEF InStep, DoneAgrees
<1>4. b.term = "none" /\ x.seq = n /\ x.cursor = n /\ (b.pending # NoEvent => n = b.cursor + 1)
  <2>1. CASE x.pc \in {"work", "interrupt"}
    <3>1. x.seq = n /\ x.cursor = n /\ b.pending = NoEvent
      BY <1>1, <2>1 DEF InStep
    <3> QED BY <3>1, NothingPending
  <2>2. CASE x.pc = "savePending"
    BY <1>1, <2>2 DEF InStep
  <2>3. CASE x.pc = "confirm"
    BY <1>1, <1>2, <2>3 DEF InStep
  <2> QED BY <2>1, <2>2, <2>3
<1> QED BY <1>1, <1>3, <1>4 DEF InStep

(* A step that fails behaves.                                              *)
LEMMA FailersBehave ==
  ASSUME NEW p \in Invocations, NEW x \in Executions, NEW y, Fails(p, x, y), Sound(y),
         x.mode \in ModesAt(x.pc), Owns(x),
         x.pc \in {"work", "savePending", "confirm", "interrupt", "saveCursor"},
         NEW h \in Records, NEW j, NEW d, NEW n \in Nat, HeadAgrees(h, j, d, n),
         HolderInStep(x, h, j, d, n)
  PROVE  Behaves(y, h, j, d, n)
<1>1. CASE Quits(x, y)
  BY <1>1, QuittersBehave
<1>2. CASE Ends(p, x, y) /\ x.mode \in Handled
  <2>1. x.pc # "saveCursor"
    BY <1>2 DEF Handled, ModesAt
  <2> QED BY <1>2, <2>1, MayEndAt, EndersBehave
<1> QED BY <1>1, <1>2 DEF Fails

LEMMA QuitSteps ==
  ASSUME Agree, Local, NEW p \in Invocations, UNCHANGED <<head, journal, delivered>>,
         NEW y, Becomes(p, y), Quits(ex[p], y)
  PROVE  Agree'
<1> PICK n \in Nat : Agreement(n)
  BY DEF Agree
<1>1. Behaves(y, head, journal, delivered', n)
  BY QuittersBehave
<1>2. Agreement(n)'
  BY <1>1, QuietStep
<1> QED BY <1>2 DEF Agree

LEMMA FailSteps ==
  ASSUME Agree, Local, Claims, NEW p \in Invocations, UNCHANGED <<head, journal, delivered>>,
         NEW y, Becomes(p, y), Ready(ex[p]), ex[p].mode # "hook",
         ex[p].pc \in {"work", "savePending", "confirm", "interrupt", "saveCursor"},
         Fails(p, ex[p], y)
  PROVE  Agree'
<1> PICK n \in Nat : Agreement(n)
  BY DEF Agree
<1>1. Behaves(y, head, journal, delivered', n)
  BY FailersBehave DEF Agreement, Claims, Claimable, Becomes, Ready, Owns, OwningSteps
<1>2. Agreement(n)'
  BY <1>1, QuietStep
<1> QED BY <1>2 DEF Agree

LEMMA NotifiedSteps ==
  ASSUME Agree, Local, NEW p \in Invocations, UNCHANGED <<head, journal, delivered>>,
         NEW y, Becomes(p, y), Notified(ex[p], y)
  PROVE  Agree'
<1> DEFINE x == ex[p]
<1> PICK n \in Nat : Agreement(n)
  BY DEF Agree
<1>1. x \in Executions
  BY DEF Local
<1>2. /\ y.pc = x.pc /\ y.mode = x.mode /\ y.ev = x.ev /\ y.ckpt = x.ckpt /\ y.seq = x.seq
      /\ y.cursor = x.cursor /\ y.ints = x.ints /\ y.done = x.done /\ y.term = x.term
      /\ y.more = x.more /\ y.result = x.result /\ y.progress = x.progress
  BY <1>1 DEF Notified, Executions
<1>3. Behaves(x, head, journal, delivered, n)
  BY DEF Agreement, Behaves
<1>4. Announced(y, head.body) <=> Announced(x, head.body)
  BY <1>2 DEF Announced
<1>5. DoneAgrees(y, head.body) <=> DoneAgrees(x, head.body)
  BY <1>2 DEF DoneAgrees
<1>10. OnBatch(y, head.body, n) <=> OnBatch(x, head.body, n)
  BY <1>2 DEF OnBatch
<1>6. InStep(x, head.body, journal, delivered, n) => InStep(y, head.body, journal, delivered, n)
  BY <1>2, <1>4, <1>5, <1>10 DEF InStep
<1>7. HolderInStep(y, head, journal, delivered, n)
  BY <1>2, <1>3, <1>6 DEF Behaves, HolderInStep, Holds, Owns
<1>8. Behaves(y, head, journal, delivered', n)
  BY <1>2, <1>3, <1>7 DEF Behaves, Hooked, OnItsWay, Told
<1>9. Agreement(n)'
  BY <1>8, QuietStep
<1> QED BY <1>9 DEF Agree

LEMMA InitAgrees == Init => Agree
<1> SUFFICES ASSUME Init PROVE Agreement(0)
  BY DEF Agree
<1>1. Kept(journal, delivered, 0)
  BY DEF Init, Kept
<1>2. CompletedIn(journal, 0) = {} /\ Cardinality({}) = 0
  BY FS_EmptySet DEF CompletedIn
<1>3. HeadAgrees(head, journal, delivered, 0)
  BY <1>2, NoEventIsNothing DEF Init, HeadAgrees, Absent, EmptyBody, Exists, Tally,
     checkpointTerminal, TerminalStatuses
<1>4. ASSUME NEW p \in Invocations
      PROVE  Behaves(ex[p], head, journal, delivered, 0)
  BY DEF Init, NewExecution, Behaves, HolderInStep, Holds, Owns, OwningSteps, Hooked, OnItsWay,
         Told, TerminalStatuses
<1> QED BY <1>1, <1>3, <1>4 DEF Agreement, Behaves

LEMMA ExpireAgrees == Agree /\ Claims /\ Expire => Agree'
<1> SUFFICES ASSUME Agree, Claims, Expire PROVE Agree'
  OBVIOUS
<1> PICK n \in Nat : Agreement(n)
  BY DEF Agree
<1>1. /\ head \in Records /\ UNCHANGED <<journal, delivered, ex>>
      /\ head'.body = head.body /\ head'.status = head.status /\ head'.claim = head.claim
      /\ head'.version = head.version
  BY DEF Expire, Claims, Claimable, Records
<1>2. HeadAgrees(head', journal, delivered, n)
  BY <1>1, HeadRenewed DEF Agreement, Exists
<1>3. ASSUME NEW p \in Invocations
      PROVE  Behaves(ex[p], head', journal, delivered, n)
  BY <1>1 DEF Agreement, Behaves, HolderInStep, Holds, Told
<1>4. Agreement(n)'
  BY <1>1, <1>2, <1>3 DEF Agreement, Behaves
<1> QED BY <1>4 DEF Agree

LEMMA HookAgrees ==
  ASSUME Agree, Local, Claims, NEW p \in Invocations, Hook(p)
  PROVE  Agree'
<1> PICK n \in Nat : Agreement(n)
  BY DEF Agree
<1> DEFINE x == ex[p]
           y == Appending(x, "hook", Stamp(p, x, "hook"))
<1>1. UNCHANGED <<head, journal, delivered>> /\ Becomes(p, y) /\ x.pc = "idle"
  BY HookEffect
<1>2. x = NewExecution
  BY <1>1 DEF Local, Sound, Placed
<1>3. /\ y.pc = "append" /\ y.mode = "hook" /\ y.ev.seq = 1 /\ y.ev.type = "hook" /\ y.done = 0
      /\ y.seq = 0 /\ y.cursor = 0 /\ y.result = "none" /\ y.progress = NoProgress
  BY <1>2 DEF Appending, Stamp, NewExecution
<1> HIDE DEF y
<1>4. Behaves(y, head, journal, delivered', n)
  BY <1>3 DEF Behaves, HolderInStep, Holds, Owns, Hooked, OnItsWay, Told, TerminalStatuses
<1>5. Agreement(n)'
  BY <1>1, <1>4, QuietStep
<1> QED BY <1>5 DEF Agree

LEMMA LoadAgrees ==
  ASSUME Agree, Local, Claims, NEW p \in Invocations, Load(p)
  PROVE  Agree'
<1> PICK n \in Nat : Agreement(n)
  BY DEF Agree
<1> DEFINE x == ex[p]
<1>1. PICK y : Becomes(p, y) /\ (Quits(x, y) \/ y = Loading(x))
  BY LoadEffect DEF Claims, Claimable
<1>2. x.pc = "idle" /\ UNCHANGED <<head, journal, delivered>>
  BY LoadEffect DEF Claims, Claimable
<1>3. CASE Quits(x, y)
  BY <1>1, <1>2, <1>3, QuitSteps
<1>4. CASE y = Loading(x)
  <2>1. x = NewExecution
    BY <1>2 DEF Local, Sound, Placed
  <2>2. y.pc = "claim" /\ y.result = "none"
    BY <1>4, <2>1 DEF Loading, NewExecution
  <2>3. Behaves(y, head, journal, delivered', n)
    BY <2>2 DEF Behaves, HolderInStep, Holds, Owns, OwningSteps, Hooked, OnItsWay, Told,
                TerminalStatuses
  <2>4. Agreement(n)'
    BY <1>1, <1>2, <2>3, QuietStep
  <2> QED BY <2>4 DEF Agree
<1> QED BY <1>1, <1>3, <1>4

(* A new run: no event but its hook's is in the journal.                   *)
LEMMA CreateAgrees ==
  ASSUME Agree, Local, Claims, NEW p \in Invocations, Create(p)
  PROVE  Agree'
<1> DEFINE x == ex[p]
           z == [x EXCEPT !.ckpt = NewRecord(p), !.heartbeat = "on"]
           e == Stamp(p, x, Start(x))
           y == Saving(z, "start", e)
<1>1. /\ x.pc = IF HookEvents THEN "create" ELSE "idle"
      /\ UNCHANGED <<journal, delivered>>
  BY CreateEffect
<1>2. CASE head' = head /\ \E w : Becomes(p, w) /\ Quits(x, w)
  BY <1>1, <1>2, QuitSteps
<1>3. CASE ~Exists(head) /\ head' = NewRecord(p) /\ Becomes(p, y)
  <2> PICK n \in Nat : Agreement(n)
    BY DEF Agree
  <2>1. x \in Executions /\ x.mode \in ModesAt(x.pc) /\ Behaves(x, head, journal, delivered, n)
    BY DEF Local, Sound, Placed, Agreement, Behaves
  <2>2. /\ head = Absent /\ head' \in Records /\ head'.body = EmptyBody /\ head'.claim = 1
        /\ head'.status = "running" /\ head'.version = 1
    BY <1>3, NewRecordType DEF Claims, Claimable, Exists, Records
  <2>3. n <= 1 /\ (n = 1 => HookEvents) /\ HeadAgrees(head, journal, delivered, n)
    BY <1>3 DEF Agreement, HeadAgrees
  <2>4. /\ x.seq = n /\ x.cursor = n /\ x.done = 0 /\ x.progress = NoProgress
        /\ \A s \in 1..n : journal[s] \in delivered
    <3>1. CASE HookEvents
      <4>1. x.pc = "create" /\ x.mode = "hook"
        BY <1>1, <2>1, <3>1 DEF ModesAt
      <4>2. /\ x.done = 0 /\ x.seq = 1 /\ x.cursor = 1 /\ n > 0 /\ journal[1] \in delivered
            /\ x.progress = NoProgress
        BY <2>1, <4>1 DEF Behaves, Hooked
      <4> QED BY <2>3, <4>2
    <3>2. CASE ~HookEvents
      <4>1. x = NewExecution
        BY <1>1, <3>2 DEF Local, Sound, Placed
      <4>2. x.done = 0 /\ x.seq = 0 /\ x.cursor = 0 /\ x.progress = NoProgress
        BY <4>1 DEF NewExecution
      <4> QED BY <2>3, <3>2, <4>2
    <3> QED BY <3>1, <3>2, RunAssumption
  <2>5. HeadAgrees(head', journal, delivered, n)
    <3>1. Absent.body = EmptyBody /\ Absent.status = "running" /\ ~checkpointTerminal("running")
      BY DEF Absent, checkpointTerminal, TerminalStatuses
    <3>2. Tally(EmptyBody, journal) = 0 /\ EmptyBody.done = 0
      <4>1. CompletedIn(journal, 0) = {} /\ Cardinality({}) = 0
        BY FS_EmptySet DEF CompletedIn
      <4> QED BY <4>1, NoEventIsNothing DEF Tally, EmptyBody
    <3> QED BY <2>2, <2>3, <3>1, <3>2 DEF HeadAgrees, Exists
  <2>6. /\ y.pc = "savePending" /\ y.mode = "start" /\ y.ev = e /\ y.seq = n /\ y.cursor = n
        /\ y.done = 0 /\ y.progress = NoProgress
    BY <2>1, <2>4 DEF Saving, Executions
  <2>7. e.seq = n + 1 /\ e.type \in {"started", "resumed", "retryStarted"}
    BY <2>4, StartType DEF Stamp
  <2>8. y.result = "none"
    BY <1>3, <2>6 DEF Becomes, Sound, Placed
  <2> HIDE DEF y, e
  <2>9. InStep(y, EmptyBody, journal, delivered, n)
    <3>1. OnBatch(y, EmptyBody, n)
      BY <2>6 DEF OnBatch, ObserveModes, BatchModes
    <3> QED BY <2>4, <2>6, <2>7, <3>1 DEF InStep, DoneAgrees, EmptyBody, TerminalStatuses
  <2>10. Behaves(y, head', journal, delivered, n)
    BY <2>2, <2>6, <2>8, <2>9 DEF Behaves, HolderInStep, Hooked, OnItsWay, Told,
                                  TerminalStatuses, checkpointTerminal
  <2>11. head.claim = 0 /\ ~checkpointTerminal(head.status)
    BY <2>2 DEF Absent, checkpointTerminal, TerminalStatuses
  <2>12. Agreement(n)'
    BY <1>1, <1>3, <2>2, <2>5, <2>10, <2>11, HolderStep DEF Agreement
  <2> QED BY <2>12 DEF Agree
<1> QED BY <1>2, <1>3, CreateEffect

(* A claim takes the run over as it is.                                    *)
LEMMA ClaimAgrees ==
  ASSUME Agree, Local, Claims, NEW p \in Invocations, NEW res \in Resolutions, Claim(p, res)
  PROVE  Agree'
<1> DEFINE x == ex[p]
           rec == Candidate(p, x.ckpt, res)
           z == Claiming(x, rec)
           w == Restored(p, z)
<1>0. head \in Records
  BY DEF Claims, Claimable
<1>1. x \in Executions /\ x.pc = "claim" /\ UNCHANGED <<journal, delivered>>
  BY <1>0, ClaimEffect DEF Local
<1>2. CASE head' = head /\ \E y : Becomes(p, y) /\ Quits(x, y)
  BY <1>1, <1>2, QuitSteps
<1>3. CASE /\ Exists(head) /\ ClaimOutcome(head, rec, 0) = "ok"
           /\ head' = [rec EXCEPT !.version = @ + 1]
           /\ z \in Executions /\ Fit(z) /\ z.result = "none" /\ ~z.sinkFailure
           /\ z.mode = "none" /\ z.ckpt = head' /\ z.term = "none" /\ Becomes(p, w)
  <2> PICK n \in Nat : Agreement(n)
    BY DEF Agree
  <2>1. /\ rec \in Records /\ rec.version = x.ckpt.version /\ rec.status = "running"
        /\ rec.body = ClaimedBody(x.ckpt, res) /\ x.ckpt \in Records
    BY <1>1, CandidateType DEF Executions
  <2>2. /\ rec.version = head.version /\ head.status \in {"running", "interrupted"}
        /\ rec.claim = head.claim + 1
    BY <1>3 DEF ClaimOutcome
  <2>3. SameRecord(head, x.ckpt)
    BY <1>1, <2>1, <2>2 DEF Claims, Entitled
  <2>4. x.ckpt.body = head.body /\ x.ckpt.status = head.status
    BY <2>1, <2>3 DEF SameRecord, Records
  <2> HIDE DEF rec
  <2>5. /\ head'.body = ClaimedBody(x.ckpt, res) /\ head'.claim = head.claim + 1
        /\ head'.status = "running" /\ head' \in Records /\ Exists(head')
    BY <1>0, <1>3, <2>1, <2>2 DEF Records, Exists
  <2> DEFINE b == head'.body
  <2>6. /\ b.cursor = head.body.cursor /\ b.pending = head.body.pending
        /\ b.term = head.body.term /\ b.done = head.body.done
        /\ b.progress = head.body.progress
    BY <2>1, <2>4, <2>5 DEF ClaimedBody, Records, Bodies
  <2>7. ~checkpointTerminal(head.status) /\ ~checkpointTerminal(head'.status)
    BY <2>2, <2>5 DEF checkpointTerminal, TerminalStatuses
  <2>8. HeadAgrees(head', journal, delivered, n)
    BY <1>0, <1>3, <2>5, <2>6, <2>7, HeadRenewed DEF Agreement
  <2>9. Behaves(w, head', journal, delivered, n)
    <3> HIDE DEF z
    <3>1. \/ Leaves(z, w, "error")
          \/ /\ validInterruptProgress(head') /\ b.pending = NoEvent
             /\ w = Moved(Resumed(z), "reconcile")
          \/ /\ validInterruptProgress(head') /\ b.pending # NoEvent
             /\ b.pending.seq = b.cursor + 1
             /\ w = Replaying(Resumed(z))
      BY <1>3, RestoredEffect
    <3>2. /\ Resumed(z) \in Executions /\ Resumed(z).seq = b.cursor /\ Resumed(z).cursor = b.cursor
          /\ Resumed(z).done = b.done /\ Resumed(z).ckpt = head'
          /\ Resumed(z).result = "none" /\ Resumed(z).mode = "none"
          /\ Resumed(z).progress = b.progress /\ Resumed(z).ints = b.ints
      BY <1>3, ResumedFit
    <3>3. b.cursor \in Nat /\ b.cursor <= n /\ \A s \in 1..b.cursor : journal[s] \in delivered
      BY <2>5, <2>8 DEF Records, Bodies, HeadAgrees
    <3> DEFINE r == Resumed(z)
    <3> HIDE DEF r
    <3>7. ASSUME validInterruptProgress(head'), b.progress # NoProgress
          PROVE  /\ b.progress.first + b.progress.next = b.cursor + 1
                 /\ b.pending # NoEvent => b.progress.next < BatchSize(b.ints)
      BY <2>5, <3>7 DEF validInterruptProgress, Records, Bodies, Progresses
    <3>8. b.progress # NoProgress /\ b.pending = NoEvent => b.cursor = n
      BY <2>8 DEF HeadAgrees
    <3>4. CASE /\ validInterruptProgress(head') /\ b.pending = NoEvent
               /\ w = Moved(r, "reconcile")
      <4>1. /\ w.pc = "reconcile" /\ w.seq = b.cursor /\ w.cursor = b.cursor /\ w.done = b.done
            /\ w.result = "none" /\ w.mode = "none" /\ w.progress = b.progress
        BY <3>2, <3>4 DEF r, Moved, Executions
      <4> HIDE DEF w
      <4>2. InStep(w, b, journal, delivered, n)
        <5>1. DoneAgrees(w, b)
          BY <4>1 DEF DoneAgrees
        <5>2. b.pending = NoEvent
          BY <3>4
        <5>3. OnBatch(w, b, n)
          BY <3>4, <3>7, <3>8, <4>1 DEF OnBatch, ObserveModes, BatchModes
        <5> HIDE DEF b
        <5> QED BY <3>3, <4>1, <5>1, <5>2, <5>3 DEF InStep
      <4> QED BY <2>7, <4>1, <4>2 DEF Behaves, HolderInStep, Hooked, OnItsWay, Told,
                                      TerminalStatuses
    <3>5. CASE /\ validInterruptProgress(head') /\ b.pending # NoEvent
               /\ b.pending.seq = b.cursor + 1 /\ w = Replaying(r)
      <4>1. /\ w.pc = "append" /\ w.seq = b.cursor /\ w.cursor = b.cursor /\ w.done = b.done
            /\ w.result = "none" /\ w.mode = "replay" /\ w.ev = b.pending /\ w.term = b.term
            /\ w.progress = b.progress /\ w.ints = b.ints
        BY <3>2, <3>5 DEF r, Replaying, Executions
      <4> HIDE DEF w
      <4>2. Announced(w, b)
        BY <4>1 DEF Announced, ObserveModes
      <4>3. InStep(w, b, journal, delivered, n)
        <5>1. OnBatch(w, b, n)
          BY <3>5, <3>7, <4>1 DEF OnBatch, ObserveModes, BatchModes
        <5> QED BY <3>3, <3>5, <4>1, <4>2, <5>1 DEF InStep, DoneAgrees
      <4> QED BY <2>7, <4>1, <4>3 DEF Behaves, HolderInStep, Hooked, OnItsWay, Told,
                                      TerminalStatuses
    <3> HIDE DEF w
    <3>6. CASE Leaves(z, w, "error")
      BY <3>6, LeaversBehave
    <3> QED BY <3>1, <3>4, <3>5, <3>6 DEF r
  <2> HIDE DEF w
  <2>10. Agreement(n)'
    BY <1>1, <1>3, <2>5, <2>7, <2>8, <2>9, HolderStep DEF Agreement
  <2> QED BY <2>10 DEF Agree
<1> QED BY <1>0, <1>2, <1>3, ClaimEffect

(* Who writes the checkpoint holds the run.                                *)
LEMMA WritersHold ==
  ASSUME NEW n \in Nat, Agreement(n), Local, Claims, NEW p \in Invocations, Owns(ex[p]),
         ex[p].pc # "release", NEW rec, Wrote(rec), SameBut(rec, ex[p].ckpt)
  PROVE  /\ ex[p].ckpt.claim = head.claim
         /\ head \in Records /\ Exists(head) /\ ~checkpointTerminal(head.status)
         /\ HeadAgrees(head, journal, delivered, n) /\ Kept(journal, delivered, n)
         /\ InStep(ex[p], head.body, journal, delivered, n)
         /\ head' \in Records /\ Exists(head') /\ head'.claim = head.claim
         /\ head'.status = rec.status /\ head'.body = rec.body
         /\ head.body.cursor \in Nat
<1>1. /\ head \in Records /\ rec \in Records /\ Exists(head) /\ rec.version = head.version
      /\ rec.claim = head.claim /\ head' = Written(head, rec, 0, 1)
  BY DEF Wrote, Claims, Claimable
<1>2. ex[p].ckpt.claim = head.claim
  BY <1>1 DEF SameBut
<1>3. Holds(ex[p], head)
  BY <1>2 DEF Holds
<1>4. /\ head' \in Records /\ head'.version = head.version + 1 /\ head'.claim = rec.claim
      /\ head'.status = rec.status /\ head'.body = rec.body
  BY <1>1, WrittenEffect
<1>5. Exists(head')
  BY <1>1, <1>4 DEF Exists, Records
<1>6. head.body.cursor \in Nat
  BY <1>1 DEF Records, Bodies
<1> QED BY <1>1, <1>2, <1>3, <1>4, <1>5, <1>6 DEF Agreement, HolderInStep, Wrote

(* ... and if it goes on as y, so does the run.                            *)
LEMMA WriterSteps ==
  ASSUME NEW n \in Nat, Agreement(n), Local, Claims, NEW p \in Invocations, NEW y, Becomes(p, y),
         Owns(ex[p]), ex[p].pc # "release", NEW rec, Wrote(rec), SameBut(rec, ex[p].ckpt),
         UNCHANGED <<journal, delivered>>,
         HeadAgrees(head', journal, delivered, n), Behaves(y, head', journal, delivered, n)
  PROVE  Agree'
<1>1. /\ ex[p].ckpt.claim = head.claim /\ head'.claim = head.claim
      /\ ~checkpointTerminal(head.status) /\ Kept(journal, delivered, n)
  BY WritersHold
<1>2. Agreement(n)'
  BY <1>1, HolderStep
<1> QED BY <1>2 DEF Agree

LEMMA SavePendingAgrees ==
  ASSUME Agree, Local, Claims, NEW p \in Invocations, SavePending(p)
  PROVE  Agree'
<1> DEFINE x == ex[p]
           term == PendingTerm(x)
           rec == Keeping(x, x.ev, term)
           y == Moved(Saved(x, rec), "append")
<1>1. /\ x.pc = "savePending" /\ UNCHANGED <<journal, delivered>> /\ Ready(x) /\ x \in Executions
      /\ Fit(x) /\ x.mode \in CommitModes /\ x.ev \in Events /\ term \in Terms
      /\ x.result = "none" /\ x.ev # NoEvent
  BY SavePendingEffect DEF Ready, ModesAt, Executions, PendingTerm, Terms, Local, Sound, Placed
<1>2. CASE head' = head /\ \E w : Becomes(p, w) /\ Fails(p, x, w)
  BY <1>1, <1>2, FailSteps DEF CommitModes
<1>3. CASE Wrote(rec) /\ Becomes(p, y)
  <2> PICK n \in Nat : Agreement(n)
    BY DEF Agree
  <2>1. /\ rec \in Records /\ SameBut(rec, x.ckpt) /\ rec.status = "running"
        /\ Payload(x, rec.body, x.ev, term)
    BY <1>1, KeepingEffect
  <2> HIDE DEF rec, term
  <2>2. /\ y.pc = "append" /\ y.mode = x.mode /\ y.ev = x.ev /\ y.seq = x.seq
        /\ y.cursor = x.cursor /\ y.done = x.done /\ y.term = x.term /\ y.result = "none"
        /\ y.progress = x.progress /\ y.ints = x.ints
    BY <1>1 DEF Moved, Saved, Executions
  <2> HIDE DEF y
  <2>3. Owns(x)
    BY <1>1 DEF Owns, OwningSteps, CommitModes
  <2>4. /\ head \in Records /\ Exists(head) /\ ~checkpointTerminal(head.status)
        /\ HeadAgrees(head, journal, delivered, n) /\ Kept(journal, delivered, n)
        /\ InStep(x, head.body, journal, delivered, n)
        /\ head' \in Records /\ Exists(head')
        /\ head'.status = rec.status /\ head'.body = rec.body
    BY <1>1, <1>3, <2>1, <2>3, WritersHold
  <2>5. /\ x.seq = n /\ x.cursor = n /\ x.ev.seq = n + 1 /\ head.body.cursor <= n
        /\ head.body.term = "none" /\ (head.body.pending # NoEvent => n = head.body.cursor + 1)
        /\ x.mode # "terminal" => x.ev.type \notin TerminalStatuses
        /\ \A s \in 1..n : journal[s] \in delivered
        /\ DoneAgrees(x, head.body) /\ OnBatch(x, head.body, n)
    BY <1>1, <2>4 DEF InStep
  <2>6. /\ rec.body.cursor = n /\ rec.body.pending = x.ev /\ rec.body.term = term
        /\ rec.body.done = x.done
    BY <2>1, <2>5 DEF Payload
  <2>7. term = IF x.ev.type \in TerminalStatuses THEN x.ev.type ELSE "none"
    BY <1>1, <2>5 DEF term, PendingTerm, Fit
  <2>8. /\ x.done \in Nat /\ head.body.done \in Nat
        /\ \/ x.done = head.body.done + Completion(x.ev)
           \/ x.done = head.body.done + 1 /\ x.ev.type \in TerminalStatuses
    <3>1. x.done \in Nat /\ head.body.done \in Nat
      BY <1>1, <2>4, RunAssumption DEF Executions, Records, Bodies
    <3> QED BY <1>1, <2>5, <3>1 DEF DoneAgrees, Completion
  <2>9. head.body.pending # NoEvent => head.body.cursor < n
    BY <2>4, <2>5 DEF Records, Bodies
  <2>10. ~checkpointTerminal(head'.status)
    BY <2>1, <2>4 DEF checkpointTerminal, TerminalStatuses
  <2>11. HeadAgrees(head', journal, delivered, n)
    BY <2>4, <2>5, <2>6, <2>7, <2>8, <2>9, <2>10, HeadRewritten
  <2>12. Announced(y, head'.body)
    BY <1>1, <2>2, <2>4, <2>5, <2>6 DEF Announced, CommitModes, ObserveModes, term, PendingTerm
  <2>13. DoneAgrees(y, head'.body)
    BY <2>2, <2>4, <2>6 DEF DoneAgrees
  <2>16. OnBatch(y, head'.body, n)
    BY <1>1, <2>2, <2>5 DEF OnBatch, CommitModes, ObserveModes, BatchModes
  <2>14. InStep(y, head'.body, journal, delivered, n)
    BY <1>1, <2>2, <2>4, <2>5, <2>6, <2>12, <2>13, <2>16 DEF InStep, CommitModes
  <2>15. Behaves(y, head', journal, delivered, n)
    BY <1>1, <2>2, <2>10, <2>14 DEF Behaves, HolderInStep, Hooked, OnItsWay, Told, CommitModes,
                                    TerminalStatuses
  <2> QED BY <1>1, <1>3, <2>1, <2>3, <2>11, <2>15, WriterSteps
<1> QED BY <1>2, <1>3, SavePendingEffect

(* The event is appended: the holder's, or the hook's before there is a run. *)
LEMMA AppendAgrees ==
  ASSUME Agree, Local, Claims, HooksComeFirst, NEW p \in Invocations, AppendEvent(p)
  PROVE  Agree'
<1> DEFINE x == ex[p]
           y == Moved(Counted(x), "deliver")
<1>1. /\ x.pc = "append" /\ UNCHANGED <<head, delivered>> /\ Ready(x) /\ x \in Executions
      /\ Fit(x) /\ x.result = "none" /\ x.ev \in Events /\ x.seq \in Nat /\ x.cursor \in Nat
  BY AppendEffect DEF Ready, Executions
<1>2. CASE journal' = journal /\ \E w : Becomes(p, w) /\ Quits(x, w)
  BY <1>1, <1>2, QuitSteps
<1>3. CASE Fenced(x) /\ Accepts(x.ev) /\ journal' = Journaled(x.ev) /\ Becomes(p, y)
  <2> PICK n \in Nat : Agreement(n)
    BY DEF Agree
  <2>1. /\ y.pc = "deliver" /\ y.mode = x.mode /\ y.ev = x.ev /\ y.seq = x.seq + 1
        /\ y.cursor = x.cursor /\ y.done = x.done /\ y.term = x.term /\ y.result = "none"
        /\ y.ckpt = x.ckpt /\ y.progress = x.progress /\ y.ints = x.ints
    BY <1>1 DEF Moved, Counted, Executions
  <2> HIDE DEF y
  <2>2. /\ Kept(journal, delivered, n) /\ HeadAgrees(head, journal, delivered, n)
        /\ Behaves(x, head, journal, delivered, n) /\ head \in Records
    BY DEF Agreement, Behaves, Claims, Claimable
  <2>3. DOMAIN journal = 1..n /\ journal \in [1..n -> Events]
    BY <2>2 DEF Kept
  <2>4. CASE x.ev.seq \in 1..n
    <3>1. Journaled(x.ev) = [s \in DOMAIN journal |-> journal[s]]
      BY <1>3, <2>3, <2>4 DEF Journaled, Accepts
    <3>2. journal' = journal /\ journal[x.ev.seq] = x.ev
      BY <1>3, <2>3, <2>4, <3>1 DEF HooksComeFirst, Accepts
    <3>3. OnItsWay(y, journal, n)
      BY <2>1, <2>4, <3>2 DEF OnItsWay
    <3>4. Hooked(y, journal, delivered, n)
      BY <1>1, <2>1, <2>2, <2>4 DEF Behaves, Hooked
    <3>5. HolderInStep(y, head, journal, delivered, n)
      <4> SUFFICES ASSUME Holds(y, head)
                   PROVE  ~checkpointTerminal(head.status) /\ InStep(y, head.body, journal, delivered, n)
        BY DEF HolderInStep
      <4>1. Holds(x, head)
        BY <1>1, <2>1 DEF Holds, Owns, OwningSteps
      <4>2. ~checkpointTerminal(head.status) /\ InStep(x, head.body, journal, delivered, n)
        BY <2>2, <4>1 DEF Behaves, HolderInStep
      <4>3. /\ x.seq = x.cursor /\ x.ev.seq = x.cursor + 1 /\ Announced(x, head.body)
            /\ (x.mode # "replay" => n = x.cursor) /\ DoneAgrees(x, head.body)
            /\ head.body.cursor <= x.cursor /\ \A s \in 1..x.cursor : journal[s] \in delivered
            /\ OnBatch(x, head.body, n)
        BY <1>1, <4>2 DEF InStep
      <4>4. x.mode = "replay"
        BY <1>1, <2>4, <4>3
      <4>5. n = x.cursor + 1
        <5>1. head.body.pending = x.ev /\ head.body.cursor = x.cursor
          BY <4>3, <4>4 DEF Announced, ObserveModes
        <5>2. x.ev # NoEvent
          BY <1>1 DEF Local, Sound, Placed
        <5> QED BY <1>1, <2>2, <2>4, <4>3, <5>1, <5>2 DEF HeadAgrees
      <4>6. DoneAgrees(y, head.body) /\ Announced(y, head.body)
        BY <1>1, <2>1, <4>3 DEF DoneAgrees, Announced
      <4>7. OnBatch(y, head.body, n)
        BY <1>1, <2>1, <4>3 DEF OnBatch
      <4> QED BY <1>1, <2>1, <4>2, <4>3, <4>5, <4>6, <4>7 DEF InStep
    <3>6. Behaves(y, head, journal, delivered', n)
      BY <1>1, <2>1, <3>3, <3>4, <3>5 DEF Behaves, Told, TerminalStatuses
    <3>7. Agreement(n)'
      BY <1>1, <1>3, <3>2, <3>6, QuietStep
    <3> QED BY <3>7 DEF Agree
  <2>5. CASE x.ev.seq \notin 1..n
    <3>1. /\ x.ev.seq = n + 1 /\ ~checkpointTerminal(head.status)
          /\ \/ head.body.pending # NoEvent /\ x.ev = head.body.pending /\ head.body.cursor = n
             \/ head.body.pending = NoEvent /\ x.ev.type \in ObservedTypes
          /\ Exists(head) \/ (n = 0 /\ HookEvents)
          /\ head.body.pending = NoEvent => head.body.progress = NoProgress
          /\ \/ Owns(x) /\ x.ckpt.claim = head.claim
             \/ x.mode = "hook" /\ ~Exists(head)
          /\ x.mode # "hook" =>
               /\ InStep(x, head.body, journal, delivered, n)
               /\ n = x.cursor
      <4>1. CASE x.mode = "hook"
        <5>1. x.ev.seq = 1 /\ x.ev.type = "hook" /\ HookEvents
          BY <1>1, <2>2, <4>1 DEF Behaves, Hooked, Fit
        <5>2. ~Exists(head)
          BY <2>3, <2>5, <5>1 DEF HooksComeFirst
        <5>3. head = Absent
          BY <2>2, <5>2 DEF Claims, Claimable, Exists, Records
        <5>4. n = 0
          BY <2>5, <5>1
        <5>5. /\ head.body.pending = NoEvent /\ ~checkpointTerminal(head.status)
              /\ head.body.progress = NoProgress
              /\ x.ev.type \in ObservedTypes
          BY <5>1, <5>3 DEF Absent, EmptyBody, checkpointTerminal, TerminalStatuses, ObservedTypes
        <5> QED BY <4>1, <5>1, <5>2, <5>4, <5>5
      <4>2. CASE x.mode # "hook"
        <5>1. Owns(x) /\ x.ckpt.claim = head.claim /\ Exists(head)
          BY <1>1, <1>3, <4>2 DEF Fenced, FenceOutcome, Owns, OwningSteps
        <5>2. ~checkpointTerminal(head.status) /\ InStep(x, head.body, journal, delivered, n)
          BY <1>1, <2>2, <5>1 DEF Behaves, HolderInStep, Holds
        <5>3. /\ x.seq = x.cursor /\ x.ev.seq = x.cursor + 1 /\ Announced(x, head.body)
              /\ x.cursor <= n /\ OnBatch(x, head.body, n)
          BY <1>1, <5>2 DEF InStep
        <5>4. n = x.cursor /\ x.ev # NoEvent
          BY <1>1, <2>5, <5>3 DEF Local, Sound, Placed
        <5>5. head.body.pending = NoEvent => head.body.progress = NoProgress
          BY <5>3, <5>4 DEF Announced, OnBatch
        <5> QED BY <5>1, <5>2, <5>3, <5>4, <5>5 DEF Announced
      <4> QED BY <4>1, <4>2
    <3>2. journal' = [s \in DOMAIN journal \cup {x.ev.seq} |->
                        IF s = x.ev.seq THEN x.ev ELSE journal[s]]
      BY <1>3 DEF Journaled
    <3>3. /\ Kept(journal', delivered, n + 1)
          /\ \A s \in 1..n : journal'[s] = journal[s]
          /\ journal'[n + 1] = x.ev
      <4>1. Kept(journal, delivered, n) /\ x.ev \in Events /\ x.ev.seq = n + 1
        BY <1>1, <2>2, <3>1
      <4>2. PICK e \in Events : e = x.ev
        BY <4>1
      <4>3. PICK k : k = journal'
        OBVIOUS
      <4>4. k = [s \in DOMAIN journal \cup {e.seq} |-> IF s = e.seq THEN e ELSE journal[s]]
        BY <3>2, <4>2, <4>3
      <4>5. Kept(journal, delivered, n) /\ e.seq = n + 1
        BY <4>1, <4>2
      <4> HIDE DEF x
      <4>6. /\ Kept(k, delivered, n + 1)
            /\ \A s \in 1..n : k[s] = journal[s]
            /\ k[n + 1] = e
        BY <4>4, <4>5, Lengthened
      <4> QED BY <4>2, <4>3, <4>6
    <3>4. HeadAgrees(head, journal', delivered, n + 1)
      BY <2>2, <3>1, <3>3, HeadLengthened
    <3>5. OnItsWay(y, journal', n + 1)
      BY <2>1, <3>1, <3>3 DEF OnItsWay
    <3>6. Hooked(y, journal', delivered, n + 1)
      BY <1>1, <2>1, <2>2 DEF Behaves, Hooked
    <3>7. HolderInStep(y, head, journal', delivered, n + 1)
      <4> SUFFICES ASSUME Holds(y, head)
                   PROVE  InStep(y, head.body, journal', delivered, n + 1)
        BY <3>1 DEF HolderInStep
      <4>1. InStep(x, head.body, journal, delivered, n) /\ n = x.cursor
        BY <2>1, <3>1 DEF Holds, Owns
      <4>2. /\ x.seq = x.cursor /\ Announced(x, head.body) /\ DoneAgrees(x, head.body)
            /\ head.body.cursor <= x.cursor /\ \A s \in 1..x.cursor : journal[s] \in delivered
            /\ OnBatch(x, head.body, n)
        BY <1>1, <4>1 DEF InStep
      <4>3. DoneAgrees(y, head.body) /\ Announced(y, head.body)
        BY <1>1, <2>1, <4>2 DEF DoneAgrees, Announced
      <4>4. \A s \in 1..y.cursor : journal'[s] \in delivered
        BY <2>1, <3>3, <4>1, <4>2
      <4>5. OnBatch(y, head.body, n + 1)
        BY <1>1, <2>1, <4>2 DEF OnBatch
      <4> QED BY <1>1, <2>1, <3>1, <4>1, <4>2, <4>3, <4>4, <4>5 DEF InStep
    <3>8. Behaves(y, head', journal', delivered, n + 1)
      BY <1>1, <2>1, <3>5, <3>6, <3>7 DEF Behaves, Told, TerminalStatuses
    <3>9. Agreement(n + 1)'
      <4>1. CASE Owns(x) /\ x.ckpt.claim = head.claim
        BY <1>1, <1>3, <3>1, <3>3, <3>4, <3>8, <4>1, HolderStep
      <4>2. CASE x.mode = "hook" /\ ~Exists(head)
        BY <1>1, <1>3, <3>1, <3>3, <3>4, <3>8, <4>2, HolderStep
      <4> QED BY <3>1, <4>1, <4>2
    <3> QED BY <3>9 DEF Agree
  <2> QED BY <2>4, <2>5
<1> QED BY <1>2, <1>3, AppendEffect

(* Going on with nothing on its way and no result.                         *)
LEMMA OthersBehave ==
  ASSUME NEW y, y.result = "none", y.mode # "hook", y.pc # "deliver",
         NEW h, NEW j, NEW d, NEW n, HolderInStep(y, h, j, d, n)
  PROVE  Behaves(y, h, j, d, n)
BY DEF Behaves, Hooked, OnItsWay, Told, TerminalStatuses

(* What the holder goes on with once its event is delivered.               *)
LEMMA EmittedInStep ==
  ASSUME NEW p \in Invocations, NEW x \in Executions, Sound(x), x.pc = "deliver",
         x.mode # "hook", NEW w, w = Emitted(p, x),
         NEW h \in Records, NEW j, NEW d, NEW n \in Nat, HeadAgrees(h, j, d, n),
         ~checkpointTerminal(h.status), InStep(x, h.body, j, d, n), j[n] = x.ev, n > 0,
         x.ckpt.claim = h.claim
  PROVE  Behaves(w, h, j, d \cup {x.ev}, n)
<1> DEFINE b == h.body
           y == Delivered(x)
           c == d \cup {x.ev}
<1>1. /\ x.seq = n /\ x.cursor = n - 1 /\ x.ev.seq = n /\ Announced(x, b) /\ DoneAgrees(x, b)
      /\ OnBatch(x, b, n) /\ b.cursor <= n - 1 /\ \A s \in 1..(n - 1) : j[s] \in d
  BY DEF InStep
<1>2. x.done = b.done /\ b.cursor \in Nat
  BY <1>1 DEF DoneAgrees, Records, Bodies
<1>3. \A s \in 1..n : j[s] \in c
  BY <1>1
<1>4. /\ y \in Executions /\ y.cursor = n /\ y.seq = n /\ y.done = b.done /\ y.mode = x.mode
      /\ y.ckpt = x.ckpt /\ y.progress = x.progress /\ y.ints = x.ints /\ y.term = x.term
  BY <1>1, <1>2, DeliveredFit DEF Sound
<1>5. x.mode \notin ObserveModes => b.pending = j[n] /\ b.cursor = n - 1
  BY <1>1 DEF Announced
<1>6. x.mode \notin ObserveModes \cup {"terminal", "replay"} => b.term = "none"
  BY <1>1 DEF Announced
<1>7. x.mode \in ObserveModes => b.pending = NoEvent /\ b.term = "none"
  BY <1>1, NothingPending DEF Announced
<1>8. x.mode \in {"terminal", "replay"} => b.term = x.term
  BY <1>1 DEF Announced, ObserveModes
<1>9. Sound(w)
  BY EmittedEffect

<1>10. ASSUME Leaves(x, w, "error")
       PROVE  Behaves(w, h, j, c, n)
  BY <1>10, LeaversBehave
<1>11. ASSUME Ends(p, y, w), x.mode = "nodeFailed"
       PROVE  Behaves(w, h, j, c, n)
  <2>1. MayEnd(y, h, j, c, n)
    BY <1>1, <1>2, <1>3, <1>4, <1>7, <1>11 DEF MayEnd, ObserveModes
  <2> HIDE DEF y, c
  <2> QED BY <1>4, <1>9, <1>11, <2>1, EndersBehave
<1>12. ASSUME w.result = "none", w.mode # "hook", w.pc # "deliver", InStep(w, b, j, c, n)
       PROVE  Behaves(w, h, j, c, n)
  BY <1>12, OthersBehave DEF HolderInStep
<1>13. ASSUME x.mode = "observe", w = Moved(y, "work")
       PROVE  Behaves(w, h, j, c, n)
  <2>1. /\ w.pc = "work" /\ w.seq = n /\ w.cursor = n /\ w.done = b.done /\ w.mode = "observe"
        /\ w.progress = x.progress
    BY <1>4, <1>13 DEF Moved, Executions
  <2>2. w.result = "none"
    BY <1>9, <2>1 DEF Sound, Placed
  <2>3. OnBatch(w, b, n)
    BY <1>1, <1>13, <2>1 DEF OnBatch, ObserveModes, BatchModes
  <2>4. DoneAgrees(w, b) /\ b.pending = NoEvent
    BY <1>7, <1>13, <2>1 DEF DoneAgrees, ObserveModes
  <2>5. InStep(w, b, j, c, n)
    <3> HIDE DEF b, c
    <3> QED BY <1>1, <1>2, <1>3, <2>1, <2>3, <2>4 DEF InStep
  <2> QED BY <1>12, <2>1, <2>2, <2>5
<1>14. ASSUME x.mode = "loaded", w = Saving(y, "start", Stamp(p, y, Start(y)))
       PROVE  Behaves(w, h, j, c, n)
  <2>1. /\ w.pc = "savePending" /\ w.seq = n /\ w.cursor = n /\ w.done = b.done
        /\ w.mode = "start" /\ w.progress = x.progress /\ w.ev.seq = n + 1
        /\ w.ev.type \in {"started", "resumed", "retryStarted"}
    BY <1>4, <1>14, StartType DEF Saving, Executions, Stamp
  <2>2. w.result = "none"
    BY <1>9, <2>1 DEF Sound, Placed
  <2>3. OnBatch(w, b, n)
    BY <1>1, <1>14, <2>1 DEF OnBatch, ObserveModes, BatchModes
  <2>4. DoneAgrees(w, b) /\ b.pending = NoEvent /\ b.term = "none"
    BY <1>7, <1>14, <2>1 DEF DoneAgrees, ObserveModes
  <2>5. InStep(w, b, j, c, n)
    <3> HIDE DEF b, c
    <3> QED BY <1>1, <1>2, <1>3, <2>1, <2>3, <2>4 DEF InStep, TerminalStatuses
  <2> QED BY <1>12, <2>1, <2>2, <2>5
<1>15. ASSUME x.mode \in {"start", "step"} \cup BatchModes \cup {"replay"},
              w.pc = "confirm", w.seq = n, w.cursor = n, w.done = b.done, w.mode = x.mode,
              x.mode = "replay" => x.term = "none",
              x.mode \in {"start", "step"} => w.progress = NoProgress,
              x.mode \in BatchModes => w.progress # NoProgress,
              w.progress # NoProgress => w.progress.first + w.progress.next = n + 1
       PROVE  Behaves(w, h, j, c, n)
  <2>2. w.result = "none"
    BY <1>9, <1>15 DEF Sound, Placed
  <2>3. OnBatch(w, b, n)
    BY <1>15 DEF OnBatch, ObserveModes, BatchModes
  <2>4. DoneAgrees(w, b) /\ b.pending = j[n] /\ b.cursor = n - 1 /\ b.term = "none"
    BY <1>5, <1>6, <1>8, <1>15 DEF DoneAgrees, ObserveModes, BatchModes
  <2>5. InStep(w, b, j, c, n)
    <3> HIDE DEF b, c
    <3> QED BY <1>1, <1>2, <1>3, <1>15, <2>3, <2>4 DEF InStep
  <2> QED BY <1>12, <1>15, <2>2, <2>5 DEF BatchModes
<1>16. ASSUME x.mode \in {"start", "step"}, w = Moved(y, "confirm")
       PROVE  Behaves(w, h, j, c, n)
  <2>1. /\ w.pc = "confirm" /\ w.seq = n /\ w.cursor = n /\ w.done = b.done /\ w.mode = x.mode
        /\ w.progress = x.progress
    BY <1>4, <1>16 DEF Moved, Executions
  <2>2. w.progress = NoProgress
    BY <1>1, <1>16, <2>1 DEF OnBatch
  <2> QED BY <1>15, <1>16, <2>1, <2>2 DEF BatchModes
<1>17. ASSUME x.mode \in BatchModes, w = Confirming(y)
       PROVE  Behaves(w, h, j, c, n)
  <2>1. /\ w.pc = "confirm" /\ w.seq = n /\ w.cursor = n /\ w.done = b.done /\ w.mode = x.mode
        /\ w.progress = [x.progress EXCEPT !.next = @ + 1] /\ x.progress \in Progresses
    BY <1>4, <1>17 DEF Confirming, Executions
  <2>2. x.progress.first + x.progress.next = n
    BY <1>1, <1>17 DEF OnBatch, BatchModes
  <2>3. w.progress.first + w.progress.next = n + 1 /\ w.progress # NoProgress
    BY <2>1, <2>2 DEF Progresses, NoProgress
  <2> QED BY <1>15, <1>17, <2>1, <2>3 DEF BatchModes
<1>18. ASSUME x.mode \in {"terminal", "replay"}, x.term # "none",
              w.pc = "finish", w.seq = n, w.cursor = n, w.done = b.done, w.mode = x.mode,
              w.term = x.term
       PROVE  Behaves(w, h, j, c, n)
  <2>2. w.result = "none"
    BY <1>9, <1>18 DEF Sound, Placed
  <2>3. OnBatch(w, b, n)
    BY <1>18 DEF OnBatch, ObserveModes, BatchModes
  <2>4. DoneAgrees(w, b) /\ b.pending = j[n] /\ b.cursor = n - 1 /\ b.term = x.term
    BY <1>5, <1>8, <1>18 DEF DoneAgrees, ObserveModes
  <2>5. InStep(w, b, j, c, n)
    <3> HIDE DEF b, c
    <3> QED BY <1>1, <1>2, <1>3, <1>18, <2>3, <2>4 DEF InStep
  <2> QED BY <1>12, <1>18, <2>2, <2>5
<1>19. ASSUME x.mode = "terminal", w = Finishing(y)
       PROVE  Behaves(w, h, j, c, n)
  <2>1. /\ w.pc = "finish" /\ w.seq = n /\ w.cursor = n /\ w.done = b.done /\ w.mode = x.mode
        /\ w.term = x.term
    BY <1>4, <1>19 DEF Finishing, Executions
  <2>2. x.term # "none"
    BY <1>19 DEF Sound, Fit, TerminalStatuses
  <2> QED BY <1>18, <1>19, <2>1, <2>2
<1>20. /\ Replayed(x) \in Executions /\ Replayed(x).cursor = n /\ Replayed(x).seq = n
       /\ Replayed(x).done = b.done /\ Replayed(x).mode = x.mode /\ Replayed(x).term = x.term
       /\ Replayed(x).progress = IF ReplaysBatch(x) THEN [x.progress EXCEPT !.next = @ + 1]
                                 ELSE x.progress
  BY <1>1, <1>2, ReplayedFit DEF Sound
<1>21. ASSUME x.mode = "replay", x.term # "none", w = Finishing(Replayed(x))
       PROVE  Behaves(w, h, j, c, n)
  <2>1. /\ w.pc = "finish" /\ w.seq = n /\ w.cursor = n /\ w.done = b.done /\ w.mode = x.mode
        /\ w.term = x.term
    BY <1>20, <1>21 DEF Finishing, Executions
  <2> QED BY <1>18, <1>21, <2>1
<1>22. ASSUME x.mode = "replay", x.term = "none", w = Moved(Replayed(x), "confirm")
       PROVE  Behaves(w, h, j, c, n)
  <2>1. /\ w.pc = "confirm" /\ w.seq = n /\ w.cursor = n /\ w.done = b.done /\ w.mode = x.mode
        /\ w.progress = Replayed(x).progress /\ x.progress \in Progresses
    BY <1>20, <1>22 DEF Moved, Executions
  <2>2. ReplaysBatch(x) <=> x.progress # NoProgress
    BY <1>1, <1>22 DEF OnBatch, ReplaysBatch
  <2>3. x.progress # NoProgress => x.progress.first + x.progress.next = n
    BY <1>1, <1>22 DEF OnBatch
  <2>4. w.progress # NoProgress => w.progress.first + w.progress.next = n + 1
    BY <1>20, <2>1, <2>2, <2>3 DEF Progresses
  <2> QED BY <1>15, <1>22, <2>1, <2>4 DEF BatchModes
<1> HIDE DEF y, c
<1>23. /\ x.mode # "hook"
       /\ \/ x.mode = "hook" /\ w = Moved(y, "create")
          \/ x.mode = "observe" /\ w = Moved(y, "work")
          \/ x.mode = "nodeFailed" /\ (Leaves(x, w, "error") \/ Ends(p, y, w))
          \/ x.mode = "loaded" /\ w = Saving(y, "start", Stamp(p, y, Start(y)))
          \/ x.mode \in {"start", "step"} /\ w = Moved(y, "confirm")
          \/ x.mode \in BatchModes /\ w = Confirming(y)
          \/ x.mode = "terminal" /\ (Leaves(x, w, "error") \/ w = Finishing(y))
          \/ /\ x.mode = "replay" /\ x.term # "none"
             /\ Leaves(x, w, "error") \/ w = Finishing(Replayed(x))
          \/ /\ x.mode = "replay" /\ x.term = "none"
             /\ w = Moved(Replayed(x), "confirm")
  BY EmittedEffect DEF y
<1> QED BY <1>10, <1>11, <1>13, <1>14, <1>16, <1>17, <1>19, <1>21, <1>22, <1>23 DEF c

(* It keeps its claim.                                                     *)
LEMMA EmittedQuiet ==
  ASSUME NEW p \in Invocations, NEW x \in Executions, Sound(x), x.pc = "deliver",
         x.mode # "hook", NEW w, w = Emitted(p, x)
  PROVE  /\ w.ckpt.claim = x.ckpt.claim /\ w.result \in {"none", "error"} /\ w.pc # "deliver"
         /\ w.mode # "hook"
<1> DEFINE y == Delivered(x)
<1>1. /\ y \in Executions /\ y.ckpt = x.ckpt /\ y.mode = x.mode /\ y.result = "none"
  BY DeliveredFit DEF Sound, Placed
<1>2. /\ Replayed(x) \in Executions /\ Replayed(x).ckpt = x.ckpt /\ Replayed(x).mode = x.mode
      /\ Replayed(x).result = "none"
  BY ReplayedFit DEF Sound, Placed
<1>3. /\ Sound(w)
      /\ \/ x.mode = "observe" /\ w = Moved(y, "work")
         \/ Leaves(x, w, "error")
         \/ Ends(p, y, w)
         \/ w = Saving(y, "start", Stamp(p, y, Start(y)))
         \/ w = Moved(y, "confirm")
         \/ w = Confirming(y)
         \/ w = Finishing(y)
         \/ w = Finishing(Replayed(x))
         \/ w = Moved(Replayed(x), "confirm")
  BY EmittedEffect
<1>4. CASE Leaves(x, w, "error")
  BY <1>4 DEF Leaves, Absent
<1>5. CASE Ends(p, y, w)
  <2>1. w.result = "none"
    BY <1>3, <1>5 DEF Ends, Sound, Placed
  <2> HIDE DEF y
  <2> QED BY <1>1, <1>5, <2>1 DEF Ends, SameWork
<1>6. CASE \/ w = Moved(y, "work") \/ w = Moved(y, "confirm")
           \/ w = Moved(Replayed(x), "confirm")
  <2> HIDE DEF y
  <2> QED BY <1>1, <1>2, <1>6 DEF Moved, Executions
<1>7. CASE w = Saving(y, "start", Stamp(p, y, Start(y)))
  <2> HIDE DEF y
  <2> QED BY <1>1, <1>7 DEF Saving, Executions
<1>8. CASE w = Confirming(y)
  <2> HIDE DEF y
  <2> QED BY <1>1, <1>8 DEF Confirming, Executions
<1>9. CASE w = Finishing(y) \/ w = Finishing(Replayed(x))
  <2> HIDE DEF y
  <2> QED BY ZenonT(60), <1>1, <1>2, <1>9 DEF Finishing, Executions
<1> QED BY <1>3, <1>4, <1>5, <1>6, <1>7, <1>8, <1>9

LEMMA DeliverAgrees ==
  ASSUME Agree, Local, Claims, NEW p \in Invocations, Deliver(p)
  PROVE  Agree'
<1> DEFINE x == ex[p]
           w == Emitted(p, x)
<1>1. /\ x.pc = "deliver" /\ Sound(x) /\ x \in Executions /\ UNCHANGED <<head, journal>>
      /\ delivered' = delivered \cup {x.ev} /\ Becomes(p, w)
  BY DeliverEffect DEF Local
<1> PICK n \in Nat : Agreement(n)
  BY DEF Agree
<1>2. /\ HeadAgrees(head, journal, delivered, n) /\ head \in Records
      /\ Behaves(x, head, journal, delivered, n)
  BY DEF Agreement, Behaves, Claims, Claimable
<1>3. x.ev.seq \in 1..n /\ journal[x.ev.seq] = x.ev
  BY <1>1, <1>2 DEF Behaves, OnItsWay
<1>4. HeadAgrees(head, journal, delivered', n)
  BY <1>1, <1>2, <1>3, Redelivered
<1>5. CASE x.mode = "hook"
  <2>1. /\ x.ev.seq = 1 /\ x.done = 0 /\ x.seq = 1 /\ x.ev.type = "hook" /\ x.progress = NoProgress
        /\ n > 0
    BY <1>1, <1>2, <1>5 DEF Behaves, Hooked
  <2>2. w = Moved(Delivered(x), "create")
    BY <1>1, <1>5, EmittedEffect DEF BatchModes
  <2>3. /\ w.pc = "create" /\ w.mode = "hook" /\ w.seq = 1 /\ w.cursor = 1 /\ w.done = 0
        /\ w.ev = x.ev /\ w.progress = NoProgress
    BY <1>1, <1>5, <2>1, <2>2 DEF Moved, Delivered, Executions
  <2> HIDE DEF w
  <2>4. w.result = "none"
    BY <1>1, <2>3 DEF Becomes, Sound, Placed
  <2>5. Behaves(w, head, journal, delivered', n)
    BY <1>1, <1>3, <2>1, <2>3, <2>4 DEF Behaves, HolderInStep, Holds, Owns, Hooked, OnItsWay, Told,
                                        TerminalStatuses
  <2>6. Agreement(n)'
    BY <1>1, <1>3, <2>5, QuietStep
  <2> QED BY <2>6 DEF Agree
<1>6. CASE x.mode # "hook" /\ x.ckpt.claim = head.claim
  <2>1. Holds(x, head)
    BY <1>1, <1>6 DEF Holds, Owns, OwningSteps
  <2>2. ~checkpointTerminal(head.status) /\ InStep(x, head.body, journal, delivered, n)
    BY <1>2, <2>1 DEF Behaves, HolderInStep
  <2>3. x.ev.seq = n /\ n > 0
    BY <1>1, <1>3, <2>2 DEF InStep
  <2> HIDE DEF w
  <2>4. Behaves(w, head, journal, delivered', n)
    BY <1>1, <1>2, <1>3, <1>6, <2>2, <2>3, EmittedInStep DEF w
  <2>5. Agreement(n)'
    BY <1>1, <1>3, <2>4, QuietStep
  <2> QED BY <2>5 DEF Agree
<1>7. CASE x.mode # "hook" /\ x.ckpt.claim # head.claim
  <2>1. Owns(x)
    BY <1>1, <1>7 DEF Owns, OwningSteps
  <2>2. w.ckpt.claim = x.ckpt.claim /\ w.result \in {"none", "error"} /\ w.pc # "deliver"
        /\ w.mode # "hook"
    BY <1>1, <1>7, <2>1, EmittedQuiet
  <2> HIDE DEF w
  <2>3. Behaves(w, head, journal, delivered', n)
    BY <1>7, <2>2 DEF Behaves, HolderInStep, Holds, Hooked, OnItsWay, Told, TerminalStatuses
  <2>4. Agreement(n)'
    BY <1>1, <1>3, <2>3, QuietStep
  <2> QED BY <2>4 DEF Agree
<1> QED BY <1>5, <1>6, <1>7

(* The holder has caught up with the journal, and nothing is pending.      *)
CaughtUp(z, h, j, d, n) ==
  /\ ~checkpointTerminal(h.status) /\ h.body.pending = NoEvent /\ h.body.term = "none"
  /\ h.body.cursor <= n /\ z.seq = n /\ z.cursor = n /\ z.done = h.body.done
  /\ \A s \in 1..n : j[s] \in d
  /\ z.progress # NoProgress => z.progress.first + z.progress.next = n + 1

LEMMA BatchesGoOn ==
  ASSUME NEW p \in Invocations, NEW z \in Executions, Fit(z), z.result = "none", ~z.sinkFailure,
         NEW mode \in BatchModes, z.progress # NoProgress,
         NEW h, NEW j, NEW d, NEW n \in Nat, CaughtUp(z, h, j, d, n),
         NEW w, w = ContinueBatch(p, z, mode)
  PROVE  Behaves(w, h, j, d, n)
<1> DEFINE e == BatchEvent(z.progress, z.ints, z.progress.next)
<1>1. /\ Sound(w)
      /\ w = Saving(z, mode, e) \/ Leaves(z, w, "error") \/ w = Interrupting(z, mode)
  BY ContinueBatchEffect
<1>2. e.seq = n + 1 /\ e.type \in InterruptTypes
  <2>1. z.progress \in Progresses /\ z.progress.next \in Nat /\ z.ints \in SUBSET InterruptIDs
    BY DEF Executions, Progresses
  <2>2. e.seq = z.progress.first + z.progress.next /\ e.type \in InterruptTypes
    BY <2>1, BatchEventType
  <2> QED BY <2>2 DEF CaughtUp
<1> HIDE DEF e
<1>3. CASE w = Saving(z, mode, e)
  <2>1. /\ w.pc = "savePending" /\ w.mode = mode /\ w.ev = e /\ w.seq = n /\ w.cursor = n
        /\ w.done = h.body.done /\ w.progress = z.progress
    BY <1>3 DEF Saving, Executions, CaughtUp
  <2>2. w.result = "none"
    BY <1>1, <2>1 DEF Sound, Placed
  <2>3. OnBatch(w, h.body, n)
    BY <2>1 DEF OnBatch, CaughtUp, BatchModes, ObserveModes
  <2>4. InStep(w, h.body, j, d, n)
    BY <1>2, <2>1, <2>3 DEF InStep, DoneAgrees, CaughtUp, InterruptTypes, TerminalStatuses
  <2> QED BY <2>1, <2>2, <2>4, OthersBehave DEF BatchModes, HolderInStep, CaughtUp
<1>4. CASE w = Interrupting(z, mode)
  <2>1. /\ w.pc = "interrupt" /\ w.mode = mode /\ w.seq = n /\ w.cursor = n
        /\ w.done = h.body.done /\ w.progress = z.progress
    BY <1>4 DEF Interrupting, Executions, CaughtUp
  <2>2. w.result = "none"
    BY <1>1, <2>1 DEF Sound, Placed
  <2>3. OnBatch(w, h.body, n)
    BY <2>1 DEF OnBatch, CaughtUp, BatchModes, ObserveModes
  <2>4. InStep(w, h.body, j, d, n)
    BY <2>1, <2>3 DEF InStep, DoneAgrees, CaughtUp
  <2> QED BY <2>1, <2>2, <2>4, OthersBehave DEF BatchModes, HolderInStep, CaughtUp
<1> QED BY <1>1, <1>3, <1>4, LeaversBehave

(* The journal reconciled: the batch goes on, or the run does.             *)
LEMMA ReconciledBehave ==
  ASSUME NEW p \in Invocations, NEW z \in Executions, Fit(z), z.result = "none", ~z.sinkFailure,
         NEW h, NEW j, NEW d, NEW n \in Nat, CaughtUp(z, h, j, d, n),
         h.body.progress = z.progress, NEW w, w = Reconciled(p, z)
  PROVE  Behaves(w, h, j, d, n)
<1> DEFINE e == Stamp(p, z, "loaded")
<1>1. /\ Sound(w)
      /\ \/ z.progress # NoProgress /\ w = ContinueBatch(p, z, "restoreInterrupt")
         \/ z.progress = NoProgress /\ Leaves(z, w, "error")
         \/ z.progress = NoProgress /\ w = Appending(z, "loaded", e)
  BY ReconciledEffect
<1>2. e.seq = n + 1 /\ e.type = "loaded"
  BY DEF Stamp, CaughtUp
<1> HIDE DEF e
<1>3. CASE z.progress = NoProgress /\ w = Appending(z, "loaded", e)
  <2>1. /\ w.pc = "append" /\ w.mode = "loaded" /\ w.ev = e /\ w.seq = n /\ w.cursor = n
        /\ w.done = h.body.done /\ w.progress = NoProgress
    BY <1>3 DEF Appending, Executions, CaughtUp
  <2>2. w.result = "none"
    BY <1>1, <2>1 DEF Sound, Placed
  <2>3. OnBatch(w, h.body, n)
    BY <1>3, <2>1 DEF OnBatch, BatchModes, ObserveModes
  <2>4. Announced(w, h.body)
    BY <1>2, <2>1 DEF Announced, CaughtUp, ObserveModes, ObservedTypes
  <2>5. InStep(w, h.body, j, d, n)
    BY <1>2, <2>1, <2>3, <2>4 DEF InStep, DoneAgrees, CaughtUp
  <2> QED BY <2>1, <2>2, <2>5, OthersBehave DEF HolderInStep, CaughtUp
<1>4. CASE z.progress # NoProgress /\ w = ContinueBatch(p, z, "restoreInterrupt")
  BY <1>4, BatchesGoOn DEF BatchModes
<1> QED BY <1>1, <1>3, <1>4, LeaversBehave

LEMMA ConfirmAgrees ==
  ASSUME Agree, Local, Claims, NEW p \in Invocations, Confirm(p)
  PROVE  Agree'
<1> DEFINE x == ex[p]
           rec == Keeping(x, NoEvent, "none")
           z == Saved(x, rec)
           w == Confirmed(p, z)
<1>1. /\ x.pc = "confirm" /\ UNCHANGED <<journal, delivered>> /\ Ready(x) /\ x \in Executions
      /\ Fit(x) /\ x.mode \in {"start", "step", "replay"} \cup BatchModes
      /\ x.result = "none" /\ ~x.sinkFailure /\ x.mode # "hook"
  BY ConfirmEffect DEF Ready, ModesAt, CommitModes, BatchModes
<1>2. CASE head' = head /\ \E y : Becomes(p, y) /\ Fails(p, x, y)
  BY <1>1, <1>2, FailSteps
<1>3. CASE Wrote(rec) /\ Becomes(p, w)
  <2> PICK n \in Nat : Agreement(n)
    BY DEF Agree
  <2>1. /\ rec \in Records /\ SameBut(rec, x.ckpt) /\ rec.status = "running"
        /\ Payload(x, rec.body, NoEvent, "none")
    BY <1>1, NoEventType, KeepingEffect
  <2> HIDE DEF rec
  <2>2. /\ z \in Executions /\ Fit(z) /\ z.seq = x.seq /\ z.cursor = x.cursor
        /\ z.progress = x.progress /\ z.done = x.done /\ z.result = "none" /\ ~z.sinkFailure
        /\ z.mode = x.mode
    BY <1>1, <2>1, SavedFit
  <2>3. Owns(x)
    BY <1>1 DEF Owns, OwningSteps
  <2>4. /\ head \in Records /\ Exists(head) /\ ~checkpointTerminal(head.status)
        /\ HeadAgrees(head, journal, delivered, n) /\ Kept(journal, delivered, n)
        /\ InStep(x, head.body, journal, delivered, n)
        /\ head' \in Records /\ Exists(head')
        /\ head'.status = rec.status /\ head'.body = rec.body
    BY <1>1, <1>3, <2>1, <2>3, WritersHold
  <2>5. /\ x.seq = n /\ x.cursor = n /\ head.body.cursor = n - 1 /\ head.body.term = "none"
        /\ \A s \in 1..n : journal[s] \in delivered
        /\ x.done = head.body.done /\ OnBatch(x, head.body, n)
    BY <1>1, <2>4 DEF InStep, DoneAgrees
  <2>6. /\ rec.body.cursor = n /\ rec.body.pending = NoEvent /\ rec.body.term = "none"
        /\ rec.body.done = x.done /\ rec.body.progress = x.progress
    BY <2>1, <2>5 DEF Payload
  <2>7. ~checkpointTerminal(head'.status)
    BY <2>1, <2>4 DEF checkpointTerminal, TerminalStatuses
  <2>8. HeadAgrees(head', journal, delivered, n)
    BY <2>4, <2>5, <2>6, <2>7, NoEventIsNothing, HeadRewritten DEF Records, Bodies
  <2>9. CaughtUp(z, head', journal, delivered, n)
    <3>1. x.progress # NoProgress => x.progress.first + x.progress.next = n + 1
      BY <1>1, <2>5 DEF OnBatch, BatchModes
    <3> QED BY <2>2, <2>4, <2>5, <2>6, <2>7, <3>1 DEF CaughtUp
  <2> HIDE DEF z
  <2>10. Behaves(w, head', journal, delivered, n)
    <3>1. \/ x.mode \in {"start", "step"} /\ w = Moved(z, "work")
          \/ x.mode = "replay" /\ w = Moved(z, "reconcile")
          \/ x.mode \in BatchModes /\ w = ContinueBatch(p, z, x.mode)
      BY <1>1, <2>2, ConfirmedEffect DEF ModesAt, CommitModes, BatchModes
    <3> HIDE DEF w
    <3>2. CASE x.mode \in {"start", "step"} /\ w = Moved(z, "work")
      <4>1. /\ w.pc = "work" /\ w.seq = n /\ w.cursor = n /\ w.done = head'.body.done
            /\ w.mode = x.mode /\ w.progress = x.progress /\ w.result = "none"
        BY <2>2, <2>4, <2>5, <2>6, <3>2 DEF Moved, Executions
      <4>2. OnBatch(w, head'.body, n)
        BY <2>4, <2>5, <2>6, <3>2, <4>1 DEF OnBatch, BatchModes, ObserveModes
      <4>3. InStep(w, head'.body, journal, delivered, n)
        BY <2>9, <4>1, <4>2 DEF InStep, DoneAgrees, CaughtUp
      <4> QED BY <1>1, <2>7, <4>1, <4>3, OthersBehave DEF HolderInStep
    <3>3. CASE x.mode = "replay" /\ w = Moved(z, "reconcile")
      <4>1. /\ w.pc = "reconcile" /\ w.seq = n /\ w.cursor = n /\ w.done = head'.body.done
            /\ w.mode = x.mode /\ w.progress = x.progress /\ w.result = "none"
        BY <2>2, <2>4, <2>5, <2>6, <3>3 DEF Moved, Executions
      <4>2. OnBatch(w, head'.body, n)
        BY <2>2, <2>4, <2>5, <2>6, <2>9, <3>3, <4>1 DEF OnBatch, BatchModes, ObserveModes, CaughtUp
      <4>3. InStep(w, head'.body, journal, delivered, n)
        BY <2>9, <4>1, <4>2 DEF InStep, DoneAgrees, CaughtUp
      <4> QED BY <1>1, <2>7, <4>1, <4>3, OthersBehave DEF HolderInStep
    <3>4. CASE x.mode \in BatchModes /\ w = ContinueBatch(p, z, x.mode)
      <4>1. z.progress # NoProgress
        BY <2>2, <2>5, <3>4 DEF OnBatch
      <4> QED BY <2>2, <2>9, <3>4, <4>1, BatchesGoOn
    <3> QED BY <3>1, <3>2, <3>3, <3>4
  <2> HIDE DEF w
  <2> QED BY <1>1, <1>3, <2>1, <2>3, <2>8, <2>10, WriterSteps
<1> QED BY <1>2, <1>3, ConfirmEffect

LEMMA InterruptAgrees ==
  ASSUME Agree, Local, Claims, NEW p \in Invocations, InterruptCheckpoint(p)
  PROVE  Agree'
<1> DEFINE x == ex[p]
           rec == Closing(Suspended(x), "interrupted")
           z == Saved(Suspended(x), rec)
<1>1. /\ x.pc = "interrupt" /\ UNCHANGED <<journal, delivered>> /\ Ready(x) /\ x \in Executions
      /\ Fit(x) /\ x.mode \in BatchModes /\ x.result = "none" /\ ~x.sinkFailure
      /\ x.mode # "hook"
  BY InterruptEffect DEF Ready, ModesAt, BatchModes
<1>2. CASE head' = head /\ \E y : Becomes(p, y) /\ Fails(p, x, y)
  BY <1>1, <1>2, FailSteps
<1>3. CASE Wrote(rec) /\ \E y : Becomes(p, y) /\ (Leaves(z, y, "interrupted") \/ Ends(p, z, y))
  <2> PICK n \in Nat : Agreement(n)
    BY DEF Agree
  <2>1. PICK y : Becomes(p, y) /\ (Leaves(z, y, "interrupted") \/ Ends(p, z, y))
    BY <1>3
  <2>2. /\ Suspended(x) \in Executions /\ Fit(Suspended(x)) /\ Suspended(x).seq = x.seq
        /\ Suspended(x).cursor = x.cursor /\ Suspended(x).ckpt = x.ckpt
        /\ Suspended(x).ints = x.ints /\ Suspended(x).done = x.done
        /\ Suspended(x).progress = NoProgress /\ Suspended(x).sinkFailure = FALSE
        /\ Suspended(x).mode = x.mode
    BY <1>1, SuspendedFit
  <2>3. /\ rec \in Records /\ SameBut(rec, x.ckpt) /\ rec.status = "interrupted"
        /\ Payload(Suspended(x), rec.body, NoEvent, "none")
    <3> HIDE DEF x
    <3> QED BY <2>2, ClosingEffect DEF Statuses
  <2> HIDE DEF rec
  <2>4. /\ z \in Executions /\ z.seq = x.seq /\ z.cursor = x.cursor /\ z.ints = x.ints
        /\ z.done = x.done /\ z.sinkFailure = FALSE
        /\ z.ckpt = [rec EXCEPT !.version = @ + 1]
    BY <1>1, <2>2, <2>3, SavedFit
  <2>5. Owns(x)
    BY <1>1 DEF Owns, OwningSteps
  <2>6. /\ head \in Records /\ Exists(head) /\ ~checkpointTerminal(head.status)
        /\ HeadAgrees(head, journal, delivered, n) /\ Kept(journal, delivered, n)
        /\ InStep(x, head.body, journal, delivered, n)
        /\ head' \in Records /\ Exists(head')
        /\ head'.status = rec.status /\ head'.body = rec.body
    BY <1>1, <1>3, <2>3, <2>5, WritersHold
  <2>7. /\ x.seq = n /\ x.cursor = n /\ head.body.cursor <= n /\ head.body.pending = NoEvent
        /\ \A s \in 1..n : journal[s] \in delivered
        /\ x.done = head.body.done
    BY <1>1, <2>6 DEF InStep, DoneAgrees
  <2>8. head.body.term = "none"
    BY <2>6, <2>7, NothingPending
  <2>9. /\ rec.body.cursor = n /\ rec.body.pending = NoEvent /\ rec.body.term = "none"
        /\ rec.body.done = x.done /\ rec.body.progress = NoProgress /\ rec.body.ints = x.ints
    BY <2>2, <2>3, <2>7 DEF Payload
  <2>10. ~checkpointTerminal(head'.status)
    BY <2>3, <2>6 DEF checkpointTerminal, TerminalStatuses
  <2>11. HeadAgrees(head', journal, delivered, n)
    BY <2>6, <2>7, <2>8, <2>9, <2>10, NoEventIsNothing, HeadRewritten DEF Records, Bodies
  <2> HIDE DEF z
  <2>12. CASE Leaves(z, y, "interrupted")
    <3>1. /\ y.pc \in {"end", "release"} /\ y.result \in {"none", "interrupted"}
          /\ y.result = "interrupted" => y.ints = x.ints
      BY <2>4, <2>12 DEF Leaves
    <3>2. Behaves(y, head', journal, delivered, n)
      BY <2>3, <2>6, <2>9, <3>1 DEF Behaves, HolderInStep, Holds, Owns, OwningSteps, Hooked,
                                    OnItsWay, Told, TerminalStatuses
    <3> QED BY <1>1, <1>3, <2>1, <2>3, <2>5, <2>11, <3>2, WriterSteps
  <2>13. CASE Ends(p, z, y)
    <3>1. MayEnd(z, head', journal, delivered, n)
      BY <2>4, <2>6, <2>7, <2>9, <2>10 DEF MayEnd
    <3>2. Behaves(y, head', journal, delivered, n)
      BY <2>1, <2>4, <2>13, <3>1, EndersBehave DEF Becomes
    <3> QED BY <1>1, <1>3, <2>1, <2>3, <2>5, <2>11, <3>2, WriterSteps
  <2> QED BY <2>1, <2>12, <2>13
<1> QED BY <1>2, <1>3, InterruptEffect

LEMMA FinishAgrees ==
  ASSUME Agree, Local, Claims, NEW p \in Invocations, FinishCheckpoint(p)
  PROVE  Agree'
<1> DEFINE x == ex[p]
           rec == Closing(x, x.term)
<1>1. /\ x.pc = "finish" /\ UNCHANGED <<journal, delivered>> /\ Ready(x) /\ x \in Executions
      /\ x.mode # "hook" /\ ~x.sinkFailure
  BY FinishEffect DEF Ready, ModesAt
<1>2. CASE head' = head /\ \E y : Becomes(p, y) /\ Quits(x, y)
  BY <1>1, <1>2, QuitSteps
<1>3. CASE /\ Wrote(rec) /\ x.term \in TerminalStatuses
           /\ \E y : /\ Becomes(p, y) /\ y.pc = "end"
                     /\ Leaves(x, y, x.term) \/ Leaves(x, y, "error")
  <2> PICK n \in Nat : Agreement(n)
    BY DEF Agree
  <2>1. PICK y : /\ Becomes(p, y) /\ y.pc = "end"
                 /\ Leaves(x, y, x.term) \/ Leaves(x, y, "error")
    BY <1>3
  <2>2. /\ rec \in Records /\ SameBut(rec, x.ckpt) /\ rec.status = x.term
        /\ Payload(x, rec.body, NoEvent, "none")
    BY <1>1, <1>3, ClosingEffect DEF Statuses, TerminalStatuses
  <2> HIDE DEF rec
  <2>3. Owns(x)
    BY <1>1 DEF Owns, OwningSteps
  <2>4. /\ head \in Records /\ Exists(head) /\ ~checkpointTerminal(head.status)
        /\ HeadAgrees(head, journal, delivered, n) /\ Kept(journal, delivered, n)
        /\ InStep(x, head.body, journal, delivered, n)
        /\ head' \in Records /\ Exists(head')
        /\ head'.status = rec.status /\ head'.body = rec.body /\ head.body.cursor \in Nat
    BY <1>1, <1>3, <2>2, <2>3, WritersHold
  <2>5. /\ x.seq = n /\ x.cursor = n /\ head.body.cursor = n - 1
        /\ head.body.pending = journal[n] /\ head.body.term = x.term
        /\ \A s \in 1..n : journal[s] \in delivered
        /\ x.done = head.body.done
    BY <1>1, <2>4 DEF InStep, DoneAgrees
  <2>6. n > 0 /\ journal[n].type = x.term
    BY <1>3, <2>4, <2>5, NoEventIsNothing DEF HeadAgrees
  <2>7. /\ rec.body.cursor = n /\ rec.body.pending = NoEvent /\ rec.body.term = "none"
        /\ rec.body.done = x.done
    BY <2>2, <2>5 DEF Payload
  <2>8. HeadAgrees(head', journal, delivered, n)
    BY <1>3, <2>2, <2>4, <2>5, <2>6, <2>7, NoEventIsNothing, HeadRewritten
       DEF checkpointTerminal, Records, Bodies
  <2>9. y.result \in {x.term, "error"} /\ y.mode = "none"
    BY <1>1, <2>1 DEF Leaves
  <2>10. Behaves(y, head', journal, delivered, n)
    BY <1>3, <2>1, <2>2, <2>4, <2>9 DEF Behaves, HolderInStep, Holds, Owns, OwningSteps, Hooked,
                                        OnItsWay, Told, TerminalStatuses
  <2> QED BY <1>1, <1>3, <2>1, <2>2, <2>3, <2>8, <2>10, WriterSteps
<1> QED BY <1>2, <1>3, FinishEffect

(* A page is what the journal has next, all of it if it is not full.       *)
LEMMA PagesAreNext ==
  ASSUME NEW n \in Nat, DOMAIN journal = 1..n, NEW x, x.cursor \in Nat, x.cursor <= n,
         NEW m \in Nat, Page(x) = x.cursor + 1 .. x.cursor + m
  PROVE  /\ x.cursor + m <= n
         /\ m < PageSize => x.cursor + m = n
<1>1. Beyond(x) = x.cursor + 1 .. n
  BY DEF Beyond
<1>2. x.cursor + m <= n
  <2>1. CASE m = 0
    BY <2>1
  <2>2. CASE m > 0
    <3>1. x.cursor + m \in Page(x)
      BY <2>2
    <3>2. x.cursor + m \in Beyond(x)
      BY <3>1 DEF Page
    <3> QED BY <1>1, <3>2
  <2> QED BY <2>1, <2>2
<1>3. ASSUME m < PageSize, x.cursor + m # n
      PROVE  FALSE
  <2>1. PICK s \in Nat : s = x.cursor + m + 1
    OBVIOUS
  <2>2. s \in Beyond(x) /\ s \notin Page(x)
    BY <1>1, <1>2, <1>3, <2>1
  <2>3. {t \in Beyond(x) : t <= s} = x.cursor + 1 .. s
    BY <1>1, <1>2, <2>1, <2>2
  <2>4. Cardinality(x.cursor + 1 .. s) = m + 1
    <3>1. /\ x.cursor + 1 \in Int /\ s \in Int /\ x.cursor + 1 <= s
          /\ s - (x.cursor + 1) + 1 = m + 1
      BY <2>1
    <3>2. \A a, b \in Int : a <= b => Cardinality(a .. b) = b - a + 1
      BY FS_Interval
    <3> QED BY <3>1, <3>2
  <2>5. m + 1 <= PageSize
    BY <1>3, RunAssumption
  <2>6. Cardinality({t \in Beyond(x) : t <= s}) <= PageSize
    BY <2>3, <2>4, <2>5
  <2> QED BY <2>2, <2>6 DEF Page
<1> QED BY <1>2, <1>3

(* Who goes on with the run after reconciling keeps its claim.             *)
LEMMA ReconciledQuiet ==
  ASSUME NEW p \in Invocations, NEW z \in Executions, Fit(z), z.result = "none", ~z.sinkFailure,
         z.mode # "hook", NEW w, w = Reconciled(p, z)
  PROVE  w.ckpt.claim = z.ckpt.claim /\ w.result \in {"none", "error"} /\ w.pc # "deliver"
         /\ w.mode # "hook"
<1> DEFINE e == BatchEvent(z.progress, z.ints, z.progress.next)
           f == Stamp(p, z, "loaded")
           mode == "restoreInterrupt"
<1>1. \/ Leaves(z, w, "error")
      \/ w = Saving(z, mode, e)
      \/ w = Interrupting(z, mode)
      \/ w = Appending(z, "loaded", f)
  <2>1. \/ z.progress # NoProgress /\ w = ContinueBatch(p, z, mode)
        \/ Leaves(z, w, "error")
        \/ w = Appending(z, "loaded", f)
    BY ReconciledEffect
  <2>2. w = ContinueBatch(p, z, mode) =>
          Leaves(z, w, "error") \/ w = Saving(z, mode, e) \/ w = Interrupting(z, mode)
    BY ContinueBatchEffect DEF BatchModes
  <2> QED BY <2>1, <2>2
<1> HIDE DEF e, f
<1>2. CASE Leaves(z, w, "error")
  BY <1>2 DEF Leaves, Absent
<1>3. CASE w = Saving(z, mode, e)
  BY <1>3 DEF Saving, Executions
<1>4. CASE w = Interrupting(z, mode)
  BY <1>4 DEF Interrupting, Executions
<1>5. CASE w = Appending(z, "loaded", f)
  BY <1>5 DEF Appending, Executions
<1> QED BY <1>1, <1>2, <1>3, <1>4, <1>5

LEMMA RedeliverAgrees ==
  ASSUME Agree, Local, Claims, NEW p \in Invocations, NEW k \in 0..PageSize, Redeliver(p, k)
  PROVE  Agree'
<1> DEFINE x == ex[p]
           m == Cardinality(Page(x))
<1>1. /\ x.pc = "reconcile" /\ Ready(x) /\ UNCHANGED <<head, journal>> /\ x \in Executions
      /\ Fit(x) /\ x.result = "none" /\ ~x.sinkFailure /\ x.mode \in {"none", "replay"}
      /\ x.cursor \in Nat
  BY RedeliverEffect DEF Ready, ModesAt, Executions
<1>2. CASE delivered' = delivered /\ \E y : Becomes(p, y) /\ Quits(x, y)
  BY <1>1, <1>2, QuitSteps
<1>3. CASE /\ Page(x) = x.cursor + 1 .. x.cursor + m /\ k \in 0..m
           /\ delivered' = delivered \cup {journal[x.cursor + i] : i \in 1..k}
           /\ \/ \E y : Becomes(p, y) /\ Quits(x, y)
              \/ m = 0 /\ k = 0 /\ Becomes(p, Reconciled(p, x))
              \/ m # 0 /\ k = m /\ Becomes(p, Moved(Advancing(x, k, m), "saveCursor"))
  <2> PICK n \in Nat : Agreement(n)
    BY DEF Agree
  <2>1. /\ Kept(journal, delivered, n) /\ HeadAgrees(head, journal, delivered, n)
        /\ head \in Records /\ Behaves(x, head, journal, delivered, n)
    BY DEF Agreement, Behaves, Claims, Claimable
  <2>2. DOMAIN journal = 1..n /\ \A s \in 1..n : journal[s].seq = s
    BY <2>1 DEF Kept
  <2>3. m \in Nat
    <3>1. x.cursor + 1 .. x.cursor + m = Page(x) /\ Page(x) \subseteq 1..n
      BY <1>3, <2>2 DEF Page, Beyond
    <3>2. IsFiniteSet(Page(x))
      BY <3>1, FS_Interval, FS_Subset
    <3> QED BY <3>2, FS_CardinalityType
  <2> HIDE DEF m
  <2>4. \A s \in x.cursor + 1 .. x.cursor + m : s \in 1..n
    BY <1>3, <2>2 DEF Page, Beyond
  <2>5. /\ delivered \subseteq delivered'
        /\ \A e \in delivered' \ delivered : e.seq \in 1..n /\ journal[e.seq] = e
    <3>1. ASSUME NEW e \in delivered' \ delivered
          PROVE  e.seq \in 1..n /\ journal[e.seq] = e
      <4>1. PICK i \in 1..k : e = journal[x.cursor + i]
        BY <1>3, <3>1
      <4>2. x.cursor + i \in x.cursor + 1 .. x.cursor + m
        BY <1>1, <1>3, <2>3
      <4> QED BY <2>2, <2>4, <4>1, <4>2
    <3> QED BY <1>3, <3>1
  <2>6. HeadAgrees(head, journal, delivered', n)
    BY <2>1, <2>5, Redelivered
  <2>7. ASSUME NEW y, Becomes(p, y), Behaves(y, head, journal, delivered', n)
        PROVE  Agree'
    <3>1. Agreement(n)'
      BY <1>1, <2>5, <2>7, QuietStep
    <3> QED BY <3>1 DEF Agree
  <2>8. ASSUME NEW y, Becomes(p, y), Quits(x, y)
        PROVE  Agree'
    BY <2>7, <2>8, QuittersBehave
  <2>9. ASSUME x.ckpt.claim = head.claim
        PROVE  /\ ~checkpointTerminal(head.status) /\ x.seq = x.cursor /\ x.cursor <= n
               /\ head.body.pending = NoEvent /\ head.body.cursor <= x.cursor
               /\ x.done = head.body.done /\ OnBatch(x, head.body, n)
               /\ head.body.term = "none" /\ \A s \in 1..x.cursor : journal[s] \in delivered
               /\ x.cursor + m <= n /\ (m < PageSize => x.cursor + m = n)
    <3>1. Holds(x, head)
      BY <1>1, <2>9 DEF Holds, Owns, OwningSteps
    <3>2. ~checkpointTerminal(head.status) /\ InStep(x, head.body, journal, delivered, n)
      BY <2>1, <3>1 DEF Behaves, HolderInStep
    <3>3. /\ x.seq = x.cursor /\ x.cursor <= n
          /\ head.body.pending = NoEvent /\ head.body.cursor <= x.cursor
          /\ x.done = head.body.done /\ OnBatch(x, head.body, n)
          /\ \A s \in 1..x.cursor : journal[s] \in delivered
      BY <1>1, <3>2 DEF InStep, DoneAgrees
    <3>4. head.body.term = "none"
      BY <2>1, <3>3, NothingPending
    <3>5. x.cursor + m <= n /\ (m < PageSize => x.cursor + m = n)
      BY <1>1, <1>3, <2>2, <2>3, <3>3, PagesAreNext
    <3> QED BY <3>2, <3>3, <3>4, <3>5
  <2>10. ASSUME m = 0, Becomes(p, Reconciled(p, x))
         PROVE  Agree'
    <3> DEFINE w == Reconciled(p, x)
    <3>1. /\ w.ckpt.claim = x.ckpt.claim /\ w.result \in {"none", "error"} /\ w.pc # "deliver"
          /\ w.mode # "hook"
      BY <1>1, ReconciledQuiet
    <3>2. CASE x.ckpt.claim # head.claim
      <4> HIDE DEF w
      <4>1. Behaves(w, head, journal, delivered', n)
        BY <3>1, <3>2 DEF Behaves, HolderInStep, Holds, Hooked, OnItsWay, Told, TerminalStatuses
      <4> QED BY <2>7, <2>10, <4>1 DEF w
    <3>3. CASE x.ckpt.claim = head.claim
      <4>1. x.cursor = n
        BY <1>1, <2>9, <2>10, <3>3, RunAssumption
      <4>2. x.progress # NoProgress => x.progress.first + x.progress.next = n + 1
        BY <1>1, <2>9, <3>3, <4>1 DEF OnBatch
      <4>3. head.body.progress = x.progress
        BY <1>1, <2>9, <3>3 DEF OnBatch
      <4>4. CaughtUp(x, head, journal, delivered', n)
        <5> HIDE DEF x
        <5> QED BY <2>5, <2>9, <3>3, <4>1, <4>2 DEF CaughtUp
      <4> HIDE DEF w
      <4>5. Behaves(w, head, journal, delivered', n)
        BY <1>1, <4>3, <4>4, ReconciledBehave DEF w
      <4> QED BY <2>7, <2>10, <4>5 DEF w
    <3> QED BY <3>2, <3>3
  <2>11. ASSUME m # 0, k = m, Becomes(p, Moved(Advancing(x, k, m), "saveCursor"))
         PROVE  Agree'
    <3> DEFINE w == Moved(Advancing(x, k, m), "saveCursor")
    <3>1. /\ w.pc = "saveCursor" /\ w.mode = "replay" /\ w.ckpt = x.ckpt /\ w.result = "none"
          /\ w.seq = x.cursor + m /\ w.cursor = x.cursor + m /\ w.done = x.done
          /\ w.progress = x.progress /\ (~w.more => m # PageSize)
      <4>1. /\ Advancing(x, k, m) \in Executions /\ Advancing(x, k, m).seq = x.cursor + m
            /\ Advancing(x, k, m).cursor = x.cursor + m /\ Advancing(x, k, m).ckpt = x.ckpt
            /\ Advancing(x, k, m).progress = x.progress /\ Advancing(x, k, m).done = x.done
            /\ Advancing(x, k, m).result = "none" /\ Advancing(x, k, m).mode = "replay"
            /\ Advancing(x, k, m).more = (m = PageSize)
        BY <1>1, <2>3, <2>11, AdvancingFit
      <4> QED BY <4>1 DEF Moved, Executions
    <3> HIDE DEF w
    <3>2. ASSUME Holds(w, head)
          PROVE  ~checkpointTerminal(head.status) /\ InStep(w, head.body, journal, delivered', n)
      <4>1. x.ckpt.claim = head.claim
        BY <3>1, <3>2 DEF Holds
      <4>2. m <= PageSize
        BY <2>11, RunAssumption
      <4>3. w.cursor <= n /\ head.body.cursor <= w.cursor /\ (~w.more => w.cursor = n)
        <5>1. head.body.cursor \in Nat
          BY <2>1 DEF Records, Bodies
        <5> QED BY <1>1, <2>3, <2>9, <3>1, <4>1, <4>2, <5>1, RunAssumption
      <4>4. \A s \in 1..w.cursor : journal[s] \in delivered'
        <5> TAKE s \in 1..w.cursor
        <5>1. CASE s <= x.cursor
          BY <1>1, <2>5, <2>9, <4>1, <5>1
        <5>2. CASE s > x.cursor
          <6>1. s - x.cursor \in 1..k /\ s = x.cursor + (s - x.cursor)
            BY <1>1, <2>3, <2>11, <3>1, <5>2
          <6> QED BY <1>3, <6>1
        <5> QED BY <1>1, <2>3, <3>1, <5>1, <5>2
      <4>5. x.progress = NoProgress
        <5>1. x.progress # NoProgress => x.cursor = n
          BY <1>1, <2>9, <4>1 DEF OnBatch
        <5> QED BY <1>1, <2>3, <2>9, <2>11, <4>1, <5>1
      <4>6. OnBatch(w, head.body, n)
        BY <1>1, <2>9, <3>1, <4>1, <4>5 DEF OnBatch, ObserveModes, BatchModes
      <4>7. DoneAgrees(w, head.body)
        BY <2>9, <3>1, <4>1 DEF DoneAgrees
      <4> QED BY <2>9, <3>1, <4>1, <4>3, <4>4, <4>6, <4>7 DEF InStep
    <3>3. Behaves(w, head, journal, delivered', n)
      BY <3>1, <3>2, OthersBehave DEF HolderInStep
    <3> QED BY <2>7, <2>11, <3>3 DEF w
  <2> QED BY <1>3, <2>8, <2>10, <2>11
<1> QED BY <1>2, <1>3, RedeliverEffect

LEMMA SaveCursorAgrees ==
  ASSUME Agree, Local, Claims, NEW p \in Invocations, SaveCursor(p)
  PROVE  Agree'
<1> DEFINE x == ex[p]
           rec == Keeping(x, NoEvent, "none")
           z == Saved(x, rec)
           w == IF x.more THEN Moved(z, "reconcile") ELSE Reconciled(p, z)
<1>1. /\ x.pc = "saveCursor" /\ UNCHANGED <<journal, delivered>> /\ Ready(x) /\ x \in Executions
      /\ Fit(x) /\ x.mode = "replay" /\ x.result = "none" /\ ~x.sinkFailure /\ x.cursor \in Nat
  BY SaveCursorEffect DEF Ready, ModesAt, Executions
<1>2. CASE head' = head /\ \E y : Becomes(p, y) /\ Fails(p, x, y)
  BY <1>1, <1>2, FailSteps
<1>3. CASE Wrote(rec) /\ Becomes(p, w)
  <2> PICK n \in Nat : Agreement(n)
    BY DEF Agree
  <2>1. /\ rec \in Records /\ SameBut(rec, x.ckpt) /\ rec.status = "running"
        /\ Payload(x, rec.body, NoEvent, "none")
    BY <1>1, NoEventType, KeepingEffect
  <2> HIDE DEF rec
  <2>2. /\ z \in Executions /\ Fit(z) /\ z.seq = x.seq /\ z.cursor = x.cursor
        /\ z.progress = x.progress /\ z.done = x.done /\ z.result = "none" /\ ~z.sinkFailure
        /\ z.mode = "replay"
    BY <1>1, <2>1, SavedFit
  <2>3. Owns(x)
    BY <1>1 DEF Owns, OwningSteps
  <2>4. /\ head \in Records /\ Exists(head) /\ ~checkpointTerminal(head.status)
        /\ HeadAgrees(head, journal, delivered, n) /\ Kept(journal, delivered, n)
        /\ InStep(x, head.body, journal, delivered, n)
        /\ head' \in Records /\ Exists(head')
        /\ head'.status = rec.status /\ head'.body = rec.body
    BY <1>1, <1>3, <2>1, <2>3, WritersHold
  <2>5. /\ x.seq = x.cursor /\ x.cursor <= n /\ head.body.cursor <= x.cursor
        /\ head.body.pending = NoEvent /\ (~x.more => x.cursor = n)
        /\ \A s \in 1..x.cursor : journal[s] \in delivered
        /\ x.done = head.body.done /\ OnBatch(x, head.body, n)
    BY <1>1, <2>4 DEF InStep, DoneAgrees
  <2>6. head.body.term = "none"
    BY <2>4, <2>5, NothingPending
  <2>7. /\ rec.body.cursor = x.cursor /\ rec.body.pending = NoEvent /\ rec.body.term = "none"
        /\ rec.body.done = x.done /\ rec.body.progress = x.progress
    BY <2>1 DEF Payload
  <2>8. ~checkpointTerminal(head'.status)
    BY <2>1, <2>4 DEF checkpointTerminal, TerminalStatuses
  <2>9. x.progress # NoProgress =>
          x.cursor = n /\ x.progress.first + x.progress.next = n + 1
    BY <1>1, <2>5 DEF OnBatch
  <2>10. HeadAgrees(head', journal, delivered, n)
    <3>1. head'.body.done = head.body.done + Completion(NoEvent)
      BY <2>4, <2>5, <2>7, NoEventIsNothing, RunAssumption DEF Records, Bodies
    <3> QED BY <1>1, <2>4, <2>5, <2>6, <2>7, <2>8, <2>9, <3>1, NoEventIsNothing, HeadRewritten
  <2> HIDE DEF z
  <2>11. CASE x.more
    <3>1. w = Moved(z, "reconcile")
      BY <2>11
    <3> HIDE DEF w
    <3>2. /\ w.pc = "reconcile" /\ w.seq = x.cursor /\ w.cursor = x.cursor /\ w.done = x.done
          /\ w.mode = "replay" /\ w.progress = x.progress /\ w.result = "none"
      BY <2>2, <2>5, <3>1 DEF Moved, Executions
    <3>3. OnBatch(w, head'.body, n)
      BY <2>4, <2>7, <2>9, <3>2 DEF OnBatch, ObserveModes, BatchModes
    <3>4. InStep(w, head'.body, journal, delivered, n)
      BY <1>1, <2>4, <2>5, <2>7, <3>2, <3>3 DEF InStep, DoneAgrees
    <3>5. Behaves(w, head', journal, delivered, n)
      BY <2>8, <3>2, <3>4, OthersBehave DEF HolderInStep
    <3> QED BY <1>1, <1>3, <2>1, <2>3, <2>10, <3>5, WriterSteps
  <2>12. CASE ~x.more
    <3>1. w = Reconciled(p, z)
      BY <2>12
    <3> HIDE DEF w
    <3>2. CaughtUp(z, head', journal, delivered, n)
      BY <2>2, <2>4, <2>5, <2>7, <2>8, <2>9, <2>12 DEF CaughtUp
    <3>3. Behaves(w, head', journal, delivered, n)
      BY <2>2, <2>4, <2>7, <3>1, <3>2, ReconciledBehave
    <3> QED BY <1>1, <1>3, <2>1, <2>3, <2>10, <3>3, WriterSteps
  <2> QED BY <2>11, <2>12
<1> QED BY <1>2, <1>3, SaveCursorEffect

(* The lease given up, the run is as it was.                               *)
LEMMA ReleaseAgrees ==
  ASSUME Agree, Local, Claims, NEW p \in Invocations, ReleaseLease(p)
  PROVE  Agree'
<1> DEFINE x == ex[p]
           rec == Released(x.ckpt)
           y == Over(x, "end", "error")
<1>1. /\ x.pc = "release" /\ x \in Executions /\ Sound(x) /\ UNCHANGED <<journal, delivered>>
      /\ Becomes(p, y) /\ Quits(x, y)
  BY ReleaseEffect
<1> HIDE DEF y
<1>2. CASE head' = head
  BY <1>1, <1>2, QuitSteps
<1>3. CASE /\ Wrote(rec) /\ x.ckpt.version > 0
           /\ rec.body = x.ckpt.body /\ rec.status = x.ckpt.status
           /\ SameBut(rec, x.ckpt)
  <2> PICK n \in Nat : Agreement(n)
    BY DEF Agree
  <2>1. x.mode # "hook"
    BY <1>1, <1>3 DEF Sound, Fit, Absent
  <2>2. Owns(x)
    BY <1>1, <2>1 DEF Owns, OwningSteps
  <2> HIDE DEF rec
  <2>3. /\ head \in Records /\ rec \in Records /\ Exists(head) /\ rec.version = head.version
        /\ rec.claim = head.claim /\ head' = Written(head, rec, 0, 1)
        /\ ~checkpointTerminal(head.status) /\ x.ckpt.claim = head.claim
    BY <1>3 DEF Wrote, SameBut, Claims, Claimable
  <2>4. head.body = x.ckpt.body /\ head.status = x.ckpt.status
    BY <2>2, <2>3, HoldersAreCurrent
  <2>5. /\ head' \in Records /\ head'.version = head.version + 1 /\ head'.claim = rec.claim
        /\ head'.status = rec.status /\ head'.body = rec.body
    BY <2>3, WrittenEffect
  <2>6. Exists(head')
    BY <2>3, <2>5 DEF Exists, Records
  <2>7. HeadAgrees(head', journal, delivered, n)
    BY <1>3, <2>3, <2>4, <2>5, <2>6, HeadRenewed DEF Agreement
  <2>8. Behaves(y, head', journal, delivered, n)
    BY <1>1, QuittersBehave
  <2>9. Agreement(n)'
    BY <1>1, <2>2, <2>3, <2>5, <2>7, <2>8, HolderStep DEF Agreement
  <2> QED BY <2>9 DEF Agree
<1> QED BY <1>2, <1>3, ReleaseEffect DEF y

(* From its work the holder commits or emits an event that comes next.     *)
LEMMA WorkersBehave ==
  ASSUME NEW x \in Executions, NEW h \in Records, NEW j, NEW d, NEW n \in Nat,
         HeadAgrees(h, j, d, n), HolderInStep(x, h, j, d, n), Owns(x), x.pc = "work",
         NEW y, y.ckpt = x.ckpt, y.result = "none", y.seq = x.seq, y.cursor = x.cursor,
         y.ev.seq = x.seq + 1,
         \/ /\ y.pc = "savePending" /\ y.mode = "step" /\ y.progress = x.progress
            /\ y.ev.type \notin TerminalStatuses
            /\ y.done = x.done + Completion(y.ev)
         \/ /\ y.pc = "savePending" /\ y.mode = "interrupt"
            /\ y.progress.first = x.seq + 1 /\ y.progress.next = 0
            /\ y.ev.type \in InterruptTypes /\ y.done = x.done
         \/ /\ y.pc = "append" /\ y.mode \in {"observe", "nodeFailed"}
            /\ y.progress = x.progress /\ y.ev.type \in ObservedTypes /\ y.done = x.done
  PROVE  Behaves(y, h, j, d, n)
<1> DEFINE b == h.body
<1>1. ASSUME x.ckpt.claim = h.claim
      PROVE  /\ ~checkpointTerminal(h.status) /\ x.seq = n /\ x.cursor = n /\ b.cursor <= n
             /\ b.pending = NoEvent /\ b.term = "none" /\ x.done = b.done
             /\ x.progress = NoProgress /\ b.progress = NoProgress
             /\ \A s \in 1..n : j[s] \in d
  <2>1. ~checkpointTerminal(h.status) /\ InStep(x, b, j, d, n)
    BY <1>1 DEF HolderInStep, Holds
  <2>2. b.pending = NoEvent
    BY <2>1 DEF InStep
  <2>3. b.term = "none"
    BY <2>2, NothingPending
  <2> QED BY <2>1, <2>2, <2>3 DEF InStep, DoneAgrees, OnBatch
<1>2. ASSUME Holds(y, h)
      PROVE  ~checkpointTerminal(h.status) /\ InStep(y, b, j, d, n)
  <2>1. x.ckpt.claim = h.claim
    BY <1>2 DEF Holds
  <2>2. /\ ~checkpointTerminal(h.status) /\ x.seq = n /\ x.cursor = n /\ b.cursor <= n
        /\ b.pending = NoEvent /\ b.term = "none" /\ x.done = b.done
        /\ x.progress = NoProgress /\ b.progress = NoProgress
        /\ \A s \in 1..n : j[s] \in d
    BY <1>1, <2>1
  <2> HIDE DEF b
  <2>3. CASE /\ y.pc = "savePending" /\ y.mode = "step" /\ y.progress = x.progress
             /\ y.ev.type \notin TerminalStatuses
             /\ y.done = x.done + Completion(y.ev)
    <3>1. OnBatch(y, b, n)
      BY <2>2, <2>3 DEF OnBatch, BatchModes, ObserveModes
    <3>2. DoneAgrees(y, b)
      BY <2>2, <2>3, RunAssumption DEF DoneAgrees, Completion, Executions
    <3> QED BY <2>2, <2>3, <3>1, <3>2 DEF InStep
  <2>4. CASE /\ y.pc = "savePending" /\ y.mode = "interrupt"
             /\ y.progress.first = x.seq + 1 /\ y.progress.next = 0
             /\ y.ev.type \in InterruptTypes /\ y.done = x.done
    <3>1. y.progress # NoProgress
      BY <2>2, <2>4 DEF NoProgress
    <3>2. OnBatch(y, b, n)
      BY <2>2, <2>4, <3>1 DEF OnBatch, BatchModes, ObserveModes
    <3>3. y.ev.type \notin TerminalStatuses /\ y.ev.type # "nodeCompleted"
      BY <2>4 DEF InterruptTypes, TerminalStatuses
    <3> QED BY <2>2, <2>4, <3>2, <3>3 DEF InStep, DoneAgrees
  <2>5. CASE /\ y.pc = "append" /\ y.mode \in {"observe", "nodeFailed"}
             /\ y.progress = x.progress /\ y.ev.type \in ObservedTypes /\ y.done = x.done
    <3>1. OnBatch(y, b, n)
      BY <2>2, <2>5 DEF OnBatch, BatchModes, ObserveModes
    <3>2. Announced(y, b)
      BY <2>2, <2>5 DEF Announced, ObserveModes
    <3> QED BY <2>2, <2>5, <3>1, <3>2 DEF InStep, DoneAgrees
  <2> QED BY <2>2, <2>3, <2>4, <2>5
<1> QED BY <1>2, OthersBehave DEF HolderInStep

LEMMA WorkAgrees ==
  ASSUME Agree, Local, Claims, NEW p \in Invocations, ex[p].pc = "work",
         \/ StartNode(p) \/ EmitCustom(p) \/ CommitActivation(p)
         \/ \E ids \in SUBSET InterruptIDs : Interrupt(p, ids)
         \/ NodeFails(p) \/ WorkFails(p) \/ Complete(p)
  PROVE  Agree'
<1> DEFINE x == ex[p]
<1>1. /\ Ready(x) /\ Owns(x) /\ x \in Executions /\ x.result = "none"
      /\ UNCHANGED <<head, journal, delivered>> /\ head \in Records
  BY WorkEffect, OwnersOwn DEF Ready, Claims, Claimable
<1> PICK n \in Nat : Agreement(n)
  BY DEF Agree
<1>2. HeadAgrees(head, journal, delivered, n) /\ HolderInStep(x, head, journal, delivered, n)
  BY DEF Agreement
<1>3. PICK y : /\ Becomes(p, y)
               /\ \/ Quits(x, y)
                  \/ Ends(p, x, y)
                  \/ y = Saving(Starting(x), "step", Stamp(p, x, "nodeStarted"))
                  \/ y = Appending(x, "observe", Stamp(p, x, "custom"))
                  \/ y = Saving(Completing(x), "step", Stamp(p, x, "nodeCompleted"))
                  \/ \E ids \in SUBSET InterruptIDs :
                       y = Saving(Raising(x, p, ids), "interrupt",
                                  BatchEvent(Raising(x, p, ids).progress, ids, 0))
                  \/ y = Appending(Failing(x), "nodeFailed", Stamp(p, x, "nodeFailed"))
  BY WorkEffect
<1>4. ASSUME Behaves(y, head, journal, delivered, n)
      PROVE  Agree'
  <2>1. delivered' = delivered
    BY <1>1
  <2>2. Agreement(n)'
    BY <1>1, <1>3, <1>4, <2>1, QuietStep
  <2> QED BY <2>2 DEF Agree
<1>5. CASE Quits(x, y)
  BY <1>4, <1>5, QuittersBehave
<1>6. CASE Ends(p, x, y)
  <2>1. MayEnd(x, head, journal, delivered, n)
    BY <1>1, <1>2, MayEndAt
  <2> QED BY <1>1, <1>3, <1>4, <1>6, <2>1, EndersBehave DEF Becomes
<1>7. CASE y = Saving(Starting(x), "step", Stamp(p, x, "nodeStarted"))
  <2>1. /\ y.ckpt = x.ckpt /\ y.result = "none" /\ y.seq = x.seq /\ y.cursor = x.cursor
        /\ y.pc = "savePending" /\ y.mode = "step" /\ y.progress = x.progress
        /\ y.done = x.done /\ y.ev = Stamp(p, x, "nodeStarted")
    BY <1>1, <1>7 DEF Saving, Starting, Executions
  <2>2. /\ y.ev.seq = x.seq + 1 /\ y.ev.type \notin TerminalStatuses
        /\ y.done = x.done + Completion(y.ev)
    BY <1>1, <2>1, RunAssumption DEF Stamp, TerminalStatuses, Completion, Executions
  <2>3. Behaves(y, head, journal, delivered, n)
    BY <1>1, <1>2, <2>1, <2>2, WorkersBehave
  <2> QED BY <1>4, <2>3
<1>8. CASE y = Saving(Completing(x), "step", Stamp(p, x, "nodeCompleted"))
  <2>1. /\ y.ckpt = x.ckpt /\ y.result = "none" /\ y.seq = x.seq /\ y.cursor = x.cursor
        /\ y.pc = "savePending" /\ y.mode = "step" /\ y.progress = x.progress
        /\ y.done = x.done + 1 /\ y.ev = Stamp(p, x, "nodeCompleted")
    BY <1>1, <1>8 DEF Saving, Completing, Executions
  <2>2. /\ y.ev.seq = x.seq + 1 /\ y.ev.type \notin TerminalStatuses
        /\ y.done = x.done + Completion(y.ev)
    BY <2>1 DEF Stamp, TerminalStatuses, Completion
  <2>3. Behaves(y, head, journal, delivered, n)
    BY <1>1, <1>2, <2>1, <2>2, WorkersBehave
  <2> QED BY <1>4, <2>3
<1>9. ASSUME NEW ids \in SUBSET InterruptIDs,
             y = Saving(Raising(x, p, ids), "interrupt",
                        BatchEvent(Raising(x, p, ids).progress, ids, 0))
      PROVE  Agree'
  <2> DEFINE g == [first |-> x.seq + 1, next |-> 0, by |-> p]
  <2>1. /\ y.ckpt = x.ckpt /\ y.result = "none" /\ y.seq = x.seq /\ y.cursor = x.cursor
        /\ y.pc = "savePending" /\ y.mode = "interrupt" /\ y.progress = g
        /\ y.done = x.done /\ y.ev = BatchEvent(g, ids, 0)
    BY <1>1, <1>9 DEF Saving, Raising, Executions
  <2>2. g \in Progresses /\ x.seq \in Nat
    BY <1>1 DEF Progresses, Callers, Executions
  <2>3. y.ev.seq = x.seq + 1 /\ y.ev.type \in InterruptTypes
    <3>1. g.first = x.seq + 1
      OBVIOUS
    <3> HIDE DEF g
    <3> QED BY <2>1, <2>2, <3>1, BatchEventType
  <2>4. Behaves(y, head, journal, delivered, n)
    BY <1>1, <1>2, <2>1, <2>3, WorkersBehave
  <2> QED BY <1>4, <2>4
<1>10. CASE \/ y = Appending(x, "observe", Stamp(p, x, "custom"))
            \/ y = Appending(Failing(x), "nodeFailed", Stamp(p, x, "nodeFailed"))
  <2>1. /\ y.ckpt = x.ckpt /\ y.result = "none" /\ y.seq = x.seq /\ y.cursor = x.cursor
        /\ y.pc = "append" /\ y.mode \in {"observe", "nodeFailed"} /\ y.progress = x.progress
        /\ y.done = x.done /\ y.ev \in {Stamp(p, x, "custom"), Stamp(p, x, "nodeFailed")}
    BY <1>1, <1>10 DEF Appending, Failing, Executions
  <2>2. y.ev.seq = x.seq + 1 /\ y.ev.type \in ObservedTypes
    BY <2>1 DEF Stamp, ObservedTypes
  <2>3. Behaves(y, head, journal, delivered, n)
    BY <1>1, <1>2, <2>1, <2>2, WorkersBehave
  <2> QED BY <1>4, <2>3
<1> QED BY <1>3, <1>5, <1>6, <1>7, <1>8, <1>9, <1>10

(* A Store call that fails may only end the run where it may end.          *)
LEMMA StoreFaultAgrees ==
  ASSUME Agree, Local, Claims, NEW p \in Invocations, StoreFault(p)
  PROVE  Agree'
<1> DEFINE x == ex[p]
<1>1. UNCHANGED <<head, journal, delivered>>
  BY StoreFaultEffect
<1>2. PICK y : /\ Becomes(p, y)
               /\ \/ Quits(x, y)
                  \/ /\ x.pc \in {"savePending", "confirm", "interrupt", "saveCursor"}
                     /\ Ready(x) /\ Fails(p, x, y)
  BY StoreFaultEffect
<1>3. CASE Quits(x, y)
  BY <1>1, <1>2, <1>3, QuitSteps
<1>4. CASE /\ x.pc \in {"savePending", "confirm", "interrupt", "saveCursor"}
           /\ Ready(x) /\ Fails(p, x, y)
  <2>1. x.mode # "hook"
    BY <1>4 DEF Ready, ModesAt, CommitModes
  <2> QED BY <1>1, <1>2, <1>4, <2>1, FailSteps
<1> QED BY <1>2, <1>3, <1>4

LEMMA ActsAgree ==
  ASSUME Agree, Local, Claims, HooksComeFirst, NEW p \in Invocations, Acts(p)
  PROVE  Agree'
<1>1. CASE Hook(p)
  BY <1>1, HookAgrees
<1>2. CASE Load(p)
  BY <1>2, LoadAgrees
<1>3. CASE Step(p)
  <2>1. CASE Create(p)
    BY <2>1, CreateAgrees
  <2>2. CASE \E res \in Resolutions : Claim(p, res)
    BY <2>2, ClaimAgrees
  <2>3. CASE SavePending(p)
    BY <2>3, SavePendingAgrees
  <2>4. CASE AppendEvent(p)
    BY <2>4, AppendAgrees
  <2>5. CASE Deliver(p)
    BY <2>5, DeliverAgrees
  <2>6. CASE Confirm(p)
    BY <2>6, ConfirmAgrees
  <2>7. CASE InterruptCheckpoint(p)
    BY <2>7, InterruptAgrees
  <2>8. CASE FinishCheckpoint(p)
    BY <2>8, FinishAgrees
  <2>9. CASE \E k \in 0..PageSize : Redeliver(p, k)
    BY <2>9, RedeliverAgrees
  <2>10. CASE SaveCursor(p)
    BY <2>10, SaveCursorAgrees
  <2>11. CASE ReleaseLease(p)
    BY <2>11, ReleaseAgrees
  <2>12. CASE \/ StartNode(p) \/ EmitCustom(p) \/ CommitActivation(p)
              \/ \E ids \in SUBSET InterruptIDs : Interrupt(p, ids)
              \/ NodeFails(p) \/ WorkFails(p) \/ Complete(p)
    <3>1. ex[p].pc = "work"
      BY <2>12 DEF StartNode, EmitCustom, CommitActivation, Interrupt, NodeFails, WorkFails,
                   Complete, Works, At
    <3> QED BY <2>12, <3>1, WorkAgrees
  <2> QED BY <1>3, <2>1, <2>2, <2>3, <2>4, <2>5, <2>6, <2>7, <2>8, <2>9, <2>10, <2>11, <2>12
          DEF Step
<1>4. CASE \E faulty \in BOOLEAN : HeartbeatFails(p, faulty)
  BY <1>4, HeartbeatEffect, NotifiedSteps
<1>5. CASE StoreFault(p)
  BY <1>5, StoreFaultAgrees
<1>6. CASE SinkRefuses(p)
  BY <1>6, SinkRefusesEffect, QuitSteps
<1>7. CASE \E why \in CancelCauses : CancelRun(p, why)
  BY <1>7, CancelEffect, NotifiedSteps
<1>8. CASE Crash(p)
  BY <1>8, CrashEffect, QuitSteps
<1> QED BY <1>1, <1>2, <1>3, <1>4, <1>5, <1>6, <1>7, <1>8 DEF Acts

LEMMA AgreeSteps ==
  ASSUME Agree, Local, Claims, HooksComeFirst, [Next]_vars
  PROVE  Agree'
<1>1. CASE UNCHANGED vars
  <2>1. PICK n \in Nat : Agreement(n)
    BY DEF Agree
  <2>2. Agreement(n)'
    BY <1>1, <2>1 DEF vars, Agreement
  <2> QED BY <2>2 DEF Agree
<1>2. CASE Expire
  BY <1>2, ExpireAgrees
<1> QED BY <1>1, <1>2, NextActs, ActsAgree

-----------------------------------------------------------------------------
(* What follows from the agreement.                                        *)

LEMMA AgreedLast ==
  ASSUME NEW n, Agreement(n)
  PROVE  n \in Nat /\ Last = n /\ DOMAIN journal = 1..n
BY LastIs DEF Agreement, Kept

LEMMA AgreedTypes == Agree /\ Local /\ Claims => TypeOK
<1> SUFFICES ASSUME Agree, Local, Claims PROVE TypeOK
  OBVIOUS
<1> PICK n \in Nat : Agreement(n)
  BY DEF Agree
<1>1. /\ head.status \in Statuses /\ head.owner \in Invocations \cup {NoOwner}
      /\ head.expires \in {0, 1} /\ head.body.ints \subseteq InterruptIDs
      /\ head.body.resolved \in Resolutions /\ head.body.done \in 0..Work
  BY DEF Claims, Claimable, Records, Bodies, Callers
<1>2. DOMAIN journal = 1..n /\ \A s \in 1..n : journal[s].seq = s
  BY DEF Agreement, Kept
<1>3. delivered \subseteq {journal[s] : s \in DOMAIN journal}
  BY <1>2 DEF Agreement, Kept
<1>4. \A p \in Invocations : /\ ex[p].ckpt.claim <= head.claim
                             /\ ex[p].ckpt.version <= head.version
                             /\ ex[p].cursor <= ex[p].seq
  BY DEF Claims, Entitled, Local, Sound, Fit
<1> QED BY <1>1, <1>2, <1>3, <1>4 DEF TypeOK

LEMMA AgreedPending == Agree => PendingIsReplayable
<1> SUFFICES ASSUME NEW n \in Nat, Agreement(n) PROVE PendingIsReplayable
  BY DEF Agree
<1>1. Last = n /\ DOMAIN journal = 1..n /\ HeadAgrees(head, journal, delivered, n)
  BY AgreedLast DEF Agreement
<1>2. ASSUME head.body.pending # NoEvent, n = head.body.cursor + 1
      PROVE  journal[n] = head.body.pending
  BY <1>1, <1>2 DEF HeadAgrees
<1> QED BY <1>1, <1>2 DEF HeadAgrees, PendingIsReplayable

LEMMA AgreedDeliveries == Agree => ConfirmedWasDelivered
BY DEF Agree, Agreement, HeadAgrees, Kept, ConfirmedWasDelivered

LEMMA AgreedEnd == Agree /\ Claims => TerminalIsRecorded
<1> SUFFICES ASSUME NEW n \in Nat, Agreement(n), Claims PROVE TerminalIsRecorded
  BY DEF Agree
<1>1. Last = n /\ HeadAgrees(head, journal, delivered, n)
  BY AgreedLast DEF Agreement
<1>2. head.body.cursor \in Nat
  BY DEF Claims, Claimable, Records, Bodies
<1>3. ASSUME NEW s \in 1..n, journal[s].type \in TerminalStatuses
      PROVE  s = n
  <2>1. CASE s <= head.body.cursor
    BY <1>1, <1>2, <1>3, <2>1 DEF HeadAgrees
  <2>2. CASE s > head.body.cursor
    <3>1. s \in head.body.cursor + 1 .. n
      BY <1>2, <2>2
    <3>2. head.body.pending # NoEvent
      BY <1>1, <1>3, <3>1, ObservedIsNothing DEF HeadAgrees
    <3> QED BY <1>1, <1>2, <3>1, <3>2 DEF HeadAgrees
  <2> QED BY <1>2, <2>1, <2>2
<1> QED BY <1>1, <1>3 DEF HeadAgrees, TerminalIsRecorded, Terminal

LEMMA AgreedState == Agree => StateMatchesJournal
<1> SUFFICES ASSUME NEW n \in Nat, Agreement(n), Exists(head) PROVE StateMatchesJournal
  BY DEF Agree, StateMatchesJournal
<1>1. Tally(head.body, journal) =
        Cardinality({s \in 1..head.body.cursor : journal[s].type = "nodeCompleted"})
          + (IF head.body.pending.type = "nodeCompleted" THEN 1 ELSE 0)
  BY DEF Tally, CompletedIn, Completion
<1>2. \/ head.body.done = Tally(head.body, journal)
      \/ Ending(head) /\ head.body.done = Tally(head.body, journal) + 1
  BY DEF Agreement, HeadAgrees
<1> QED BY <1>1, <1>2 DEF StateMatchesJournal, Ending, Terminal

LEMMA AgreedResults == Agree => ResultIsDurable
BY DEF Agree, Agreement, Told, ResultIsDurable, ClaimOf

(* The agreement of checkpoint, journal and sinks, in every reachable state. *)
THEOREM JournalAgrees == Spec => []Agree
<1>1. Init => Agree
  BY InitAgrees
<1>2. Agree /\ Local /\ Claims /\ HooksComeFirst /\ [Next]_vars => Agree'
  BY AgreeSteps
<1> QED BY <1>1, <1>2, ClaimsAreHeldOnce, PTL DEF Spec

(* The types, and no copy, cursor or delivery is ahead of what it copies.   *)
THEOREM RunTypeCorrect == Spec => []TypeOK
BY AgreedTypes, JournalAgrees, ClaimsAreHeldOnce, PTL

(* Whenever an invocation stops, what it leaves pending can be replayed: the *)
(* journal has no holes and, behind the cursor, nothing but that event      *)
(* (replayPending, MemoryLog.Append).                                       *)
THEOREM PendingStaysReplayable == Spec => []PendingIsReplayable
BY AgreedPending, JournalAgrees, PTL

(* A checkpoint never confirms an event the sinks have not accepted, and no *)
(* sequence is delivered with two different events.                         *)
THEOREM ConfirmedStaysDelivered == Spec => []ConfirmedWasDelivered
BY AgreedDeliveries, JournalAgrees, PTL

(* A terminal checkpoint and the journal's one terminal event come together *)
(* (commitTerminalEvent, finishCheckpoint).                                 *)
THEOREM TerminalStaysRecorded == Spec => []TerminalIsRecorded
BY AgreedEnd, JournalAgrees, ClaimsAreHeldOnce, PTL

(* The completed activations of the checkpoint are those of the journal,    *)
(* however many invocations had a hand in the run (commitActivation).       *)
THEOREM StateStaysWithJournal == Spec => []StateMatchesJournal
BY AgreedState, JournalAgrees, PTL

(* What Invoke told its caller stands.                                      *)
THEOREM ResultsStayDurable == Spec => []ResultIsDurable
BY AgreedResults, JournalAgrees, PTL

=============================================================================
