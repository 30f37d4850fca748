---------------------- MODULE WorkflowRunLifecycleProofs ----------------------
(***************************************************************************)
(* Proofs about WorkflowRun, concluded: a run that nobody cancels.  Every  *)
(* checkpoint can be resumed, a batch of interrupts is recorded and        *)
(* resolved whole, and the run implements RunLifecycle.                    *)
(*                                                                         *)
(* That nobody cancels is needed: a cancellation that lands between the    *)
(* interrupted checkpoint and the return of the invocation overwrites it.  *)
(***************************************************************************)
EXTENDS WorkflowRunJournalProofs, SequenceTheorems

(* Nothing but the loss of its lease stops x, and what it holds is its own. *)
Calm(p, x) ==
  /\ x.pc \notin {"release", "end", "crashed"} =>
       IF Owns(x)
       THEN x.ckpt.owner = p /\ (x.cause = "none" \/ (x.cause = "lease" /\ x.leaseDown))
       ELSE /\ x.cause = "none" /\ x.heartbeat = "off"
            /\ x.ints = {} /\ x.progress = NoProgress
  /\ Owns(x) => x.ckpt.status = "running"

(* x has interrupts exactly while it records their batch, and announces    *)
(* either the next event of the batch or an event of no batch.             *)
Announcing == {"savePending", "append", "deliver"}
PlainModes == {"start", "step", "terminal"} \cup ObserveModes

Announces(p, x) ==
  IF x.progress = NoProgress
  THEN /\ x.ev.type \notin InterruptTypes \cup {"hook"}
       /\ x.mode # "replay" => x.ev.by = p
  ELSE /\ x.progress.next < BatchSize(x.ints)
       /\ x.ev = BatchEvent(x.progress, x.ints, x.progress.next)

Batching(p, x) ==
  Owns(x) /\ x.pc # "release" =>
    /\ x.progress = NoProgress <=> x.ints = {}
    /\ x.progress # NoProgress =>
         x.progress.first > 0 /\ x.progress.next <= BatchSize(x.ints)
    /\ x.pc \in {"work", "finish"} \/ x.mode \in PlainModes => x.progress = NoProgress
    /\ x.mode \in BatchModes => x.progress # NoProgress
    /\ IF x.pc \in Announcing THEN Announces(p, x)
       ELSE x.progress # NoProgress => x.progress.next > 0
    /\ x.pc = "interrupt" => x.progress.next = BatchSize(x.ints)
    /\ x.mode \in {"none", "replay"} /\ x.term # "none" => x.ev.type \in TerminalStatuses

(* Whoever resumes the run from h can.                                     *)
Resumable(h) ==
  Exists(h) /\ ~checkpointTerminal(h.status) =>
    /\ validInterruptProgress(h)
    /\ h.body.progress # NoProgress => h.body.progress.first > 0
    /\ h.body.pending.type # "hook"
    /\ h.status = "interrupted" =>
         /\ h.body.ints # {} /\ h.body.pending = NoEvent
         /\ h.owner = NoOwner /\ h.expires = 0

Fine(p, x) == Calm(p, x) /\ Batching(p, x)

Undisturbed ==
  /\ \A p \in Invocations : Fine(p, ex[p])
  /\ Resumable(head)


-----------------------------------------------------------------------------
(* Executions that stop, and those that do not.                            *)

LEMMA QuittersAreFine ==
  ASSUME NEW p, NEW x, NEW y, Fine(p, x), Quits(x, y)
  PROVE  Fine(p, y)
<1>1. y.pc \in {"release", "end", "crashed"}
  BY DEF Quits
<1>2. CASE y.pc = "release"
  <2>1. Owns(y) => Owns(x) /\ y.ckpt = x.ckpt
    BY <1>2 DEF Quits, Owns
  <2> QED BY <1>2, <2>1 DEF Fine, Calm, Batching
<1>3. CASE y.pc \in {"end", "crashed"}
  BY <1>3 DEF Fine, Calm, Batching, Owns, OwningSteps
<1> QED BY <1>1, <1>2, <1>3

LEMMA LeaversAreFine ==
  ASSUME NEW p, NEW x, NEW y, NEW result, Leaves(x, y, result), x.ckpt.status = "running"
  PROVE  Fine(p, y)
<1>1. CASE y.pc = "release" /\ y.ckpt = x.ckpt
  BY <1>1 DEF Fine, Calm, Batching
<1>2. CASE y.pc = "end"
  BY <1>2 DEF Fine, Calm, Batching, Owns, OwningSteps
<1> QED BY <1>1, <1>2 DEF Leaves

(* What stops an owner is not a reason to end the run.                     *)
LEMMA CalmOwners ==
  ASSUME NEW p \in Invocations, NEW x, Calm(p, x), Owns(x), x.pc # "release"
  PROVE  /\ x.ckpt.owner = p /\ x.ckpt.status = "running"
         /\ x.cause # "none" => LeaseCause(x) /\ x.leaseDown
<1>1. p # NoOwner
  BY InvocationsAssumption
<1>2. x.pc \notin {"release", "end", "crashed"}
  BY DEF Owns, OwningSteps
<1> QED BY <1>1, <1>2 DEF Calm, LeaseCause

LEMMA FailersAreFine ==
  ASSUME NEW p \in Invocations, NEW x, NEW y, Fine(p, x), Owns(x), x.pc # "release",
         Fails(p, x, y)
  PROVE  Fine(p, y) /\ Quits(x, y)
<1>1. Quits(x, y)
  BY CalmOwners DEF Fails, Fine
<1> QED BY <1>1, QuittersAreFine

(* The end of the run announced from where no batch is going on.           *)
LEMMA EndersAreFine ==
  ASSUME NEW p \in Invocations, NEW x \in Executions, NEW y, Fine(p, x), Owns(x),
         x.pc # "release", NEW z, z.ckpt = x.ckpt, z.ints = x.ints, z.progress = x.progress,
         z.cause = x.cause, z.leaseDown = x.leaseDown, Ends(p, z, y), x.pc = "work" \/ x.mode \in PlainModes
  PROVE  Fine(p, y)
<1>1. x.progress = NoProgress /\ x.ints = {}
  BY DEF Fine, Batching
<1>2. /\ y.pc = "savePending" /\ y.mode = "terminal" /\ y.ckpt = x.ckpt /\ y.ints = {}
      /\ y.progress = NoProgress /\ y.cause = x.cause /\ y.leaseDown = x.leaseDown
      /\ y.ev.type \in TerminalStatuses /\ y.ev.by = p
  BY <1>1 DEF Ends, SameWork, Stamp
<1>3. y.ev.type \notin InterruptTypes \cup {"hook"}
  BY <1>2 DEF TerminalStatuses, InterruptTypes
<1>4. Calm(p, y)
  BY <1>2, CalmOwners DEF Fine, Calm, LeaseCause, Owns, OwningSteps
<1>5. Batching(p, y)
  BY <1>2, <1>3 DEF Batching, Announces, Announcing, PlainModes, BatchModes
<1> QED BY <1>4, <1>5 DEF Fine

-----------------------------------------------------------------------------
(* The steps of a run that nobody cancels.                                 *)

Undisturbs(p) == (\E y : Becomes(p, y) /\ Fine(p, y)) /\ Resumable(head')

LEMMA StaysUndisturbed ==
  ASSUME Undisturbed, Local, NEW p \in Invocations, Undisturbs(p)
  PROVE  Undisturbed'
<1>1. PICK y : Becomes(p, y) /\ Fine(p, y)
  BY DEF Undisturbs
<1>2. ex'[p] = y /\ \A q \in Invocations \ {p} : ex'[q] = ex[q]
  BY <1>1, LocalStep
<1> QED BY <1>1, <1>2 DEF Undisturbed, Undisturbs

(* The checkpoint that keeps the run running says where its batch is.      *)
LEMMA KeepingResumable ==
  ASSUME NEW p, NEW x \in Executions, Batching(p, x), Owns(x), x.pc # "release",
         x.progress # NoProgress => x.progress.first + x.progress.next = x.cursor + 1,
         NEW pending \in Events,
         \/ pending = NoEvent /\ x.pc \notin Announcing
         \/ pending = x.ev /\ x.ev # NoEvent /\ x.pc \in Announcing,
         NEW h, h.status = "running", NEW term, Payload(x, h.body, pending, term)
  PROVE  Resumable(h)
<1>1. /\ h.body.cursor = x.cursor /\ h.body.pending = pending /\ h.body.ints = x.ints
      /\ h.body.progress = x.progress
  BY DEF Payload
<1>2. NoEvent.type \notin InterruptTypes \cup {"hook"}
  BY DEF NoEvent, InterruptTypes
<1>3. x.progress = NoProgress <=> x.ints = {}
  BY DEF Batching
<1>4. CASE x.progress = NoProgress
  <2>1. pending.type \notin InterruptTypes \cup {"hook"}
    BY <1>2, <1>4 DEF Batching, Announces
  <2> QED BY <1>1, <1>3, <1>4, <2>1 DEF Resumable, validInterruptProgress
<1>5. CASE x.progress # NoProgress
  <2>1. /\ x.progress.first \in Nat /\ x.progress.next \in Nat /\ x.cursor \in Nat
        /\ x.progress.first > 0
    BY <1>5 DEF Executions, Progresses, Batching
  <2>2. BatchSize(x.ints) \in Nat /\ x.progress.next <= BatchSize(x.ints)
    <3>1. Cardinality(x.ints) \in Nat
      BY RunAssumption, FS_Subset, FS_CardinalityType DEF Executions
    <3> QED BY <1>5, <3>1 DEF Batching, BatchSize
  <2>3. x.cursor = x.progress.first + x.progress.next - 1
    BY <1>5, <2>1
  <2>4. CASE pending = NoEvent /\ x.pc \notin Announcing
    <3>1. x.progress.next > 0
      BY <1>5, <2>4 DEF Batching
    <3> QED BY <1>1, <1>2, <1>3, <1>5, <2>1, <2>2, <2>3, <2>4, <3>1
            DEF Resumable, validInterruptProgress
  <2>5. CASE pending = x.ev /\ x.ev # NoEvent /\ x.pc \in Announcing
    <3>1. /\ x.progress.next < BatchSize(x.ints)
          /\ x.ev = BatchEvent(x.progress, x.ints, x.progress.next)
      BY <1>5, <2>5 DEF Batching, Announces
    <3>2. x.ev.type # "hook"
      BY <3>1, <2>1, BatchEventType DEF Executions, InterruptTypes
    <3> QED BY <1>1, <1>3, <1>5, <2>1, <2>2, <2>3, <2>5, <3>1, <3>2
            DEF Resumable, validInterruptProgress
  <2> QED BY <2>4, <2>5
<1> QED BY <1>4, <1>5

LEMMA InitUndisturbed == Init => Undisturbed
<1> SUFFICES ASSUME Init PROVE Undisturbed
  OBVIOUS
<1>1. \A p \in Invocations : ex[p] = NewExecution
  BY DEF Init
<1>2. \A p \in Invocations : Fine(p, NewExecution)
  BY DEF Fine, Calm, Batching, Owns, OwningSteps, NewExecution
<1>3. Resumable(head)
  BY DEF Init, Absent, Resumable, Exists
<1> QED BY <1>1, <1>2, <1>3 DEF Undisturbed

LEMMA ExpireUndisturbed ==
  ASSUME Undisturbed, Claims, Expire
  PROVE  Undisturbed'
<1>1. /\ ex' = ex /\ head' = [head EXCEPT !.expires = 0]
      /\ head \in Records
  BY DEF Expire, Claims, Claimable
<1>2. /\ head'.status = head.status /\ head'.body = head.body /\ head'.owner = head.owner
      /\ head'.version = head.version /\ head'.expires = 0
  BY <1>1 DEF Records
<1>3. Resumable(head')
  BY <1>2 DEF Undisturbed, Resumable, Exists, validInterruptProgress
<1> QED BY <1>1, <1>3 DEF Undisturbed

LEMMA HookUndisturbed ==
  ASSUME Undisturbed, Local, NEW p \in Invocations, Hook(p)
  PROVE  Undisturbs(p)
<1> DEFINE x == ex[p]
           y == Appending(x, "hook", Stamp(p, x, "hook"))
<1>1. head' = head /\ Becomes(p, y) /\ x.pc = "idle" /\ x \in Executions
  BY HookEffect DEF Local
<1>2. x = NewExecution
  BY <1>1 DEF Local, Sound, Placed
<1>3. /\ y.mode = "hook" /\ y.cause = "none" /\ y.heartbeat = "off" /\ y.ints = {}
      /\ y.progress = NoProgress
  BY <1>2 DEF Appending, NewExecution
<1>4. Fine(p, y)
  BY <1>3 DEF Fine, Calm, Batching, Owns
<1> QED BY <1>1, <1>4 DEF Undisturbs, Undisturbed

LEMMA LoadUndisturbed ==
  ASSUME Undisturbed, Local, Claims, NEW p \in Invocations, Load(p)
  PROVE  Undisturbs(p)
<1> DEFINE x == ex[p]
<1>1. x.pc = "idle" /\ head' = head
  BY LoadEffect DEF Claims, Claimable
<1>2. PICK y : Becomes(p, y) /\ (Quits(x, y) \/ y = Loading(x))
  BY LoadEffect DEF Claims, Claimable
<1>3. x = NewExecution /\ Fine(p, x)
  BY <1>1 DEF Local, Sound, Placed, Undisturbed
<1>4. Quits(x, y) => Fine(p, y)
  BY <1>3, QuittersAreFine
<1>5. ASSUME y = Loading(x) PROVE Fine(p, y)
  <2>1. /\ y.pc = "claim" /\ y.cause = "none" /\ y.heartbeat = "off" /\ y.ints = {}
        /\ y.progress = NoProgress
    BY <1>3, <1>5 DEF Loading, NewExecution
  <2> QED BY <2>1 DEF Fine, Calm, Batching, Owns, OwningSteps
<1> QED BY <1>1, <1>2, <1>4, <1>5 DEF Undisturbs, Undisturbed

LEMMA CreateUndisturbed ==
  ASSUME Undisturbed, Local, NEW p \in Invocations, Create(p)
  PROVE  Undisturbs(p)
<1> DEFINE x == ex[p]
           z == [x EXCEPT !.ckpt = NewRecord(p), !.heartbeat = "on"]
           e == Stamp(p, x, Start(x))
           w == Saving(z, "start", e)
<1>1. x.pc \in {"idle", "create"} /\ x \in Executions /\ Sound(x) /\ Fine(p, x)
  BY CreateEffect DEF Local, Undisturbed
<1>2. \/ head' = head /\ \E y : Becomes(p, y) /\ Quits(x, y)
      \/ head' = NewRecord(p) /\ Becomes(p, w)
  BY CreateEffect
<1>3. ASSUME head' = head, NEW y, Becomes(p, y), Quits(x, y)
      PROVE  Undisturbs(p)
  BY <1>1, <1>3, QuittersAreFine DEF Undisturbs, Undisturbed
<1>4. ASSUME head' = NewRecord(p), Becomes(p, w)
      PROVE  Undisturbs(p)
  <2>1. x.cause = "none" /\ x.ints = {} /\ x.progress = NoProgress
    <3>1. ~Owns(x)
      BY <1>1 DEF Owns, OwningSteps
    <3> QED BY <1>1, <3>1 DEF Fine, Calm
  <2>2. e.type \notin InterruptTypes \cup {"hook"} /\ e.by = p
    BY StartType DEF Stamp, InterruptTypes
  <2>3. /\ w.pc = "savePending" /\ w.mode = "start" /\ w.cause = "none" /\ w.ints = {}
        /\ w.progress = NoProgress /\ w.ev = e /\ w.ckpt = NewRecord(p)
    BY <1>1, <2>1 DEF Saving, Executions
  <2>4. Fine(p, w)
    BY <2>2, <2>3, NewRecordType
       DEF Fine, Calm, Batching, Announces, Announcing, Owns, OwningSteps, BatchModes
  <2>5. Resumable(head')
    BY <1>4, NewRecordType
       DEF Resumable, validInterruptProgress, EmptyBody, NoEvent, InterruptTypes
  <2> QED BY <1>4, <2>4, <2>5 DEF Undisturbs
<1> QED BY <1>2, <1>3, <1>4

(* A claim takes the batch over, or starts the run again.                  *)
LEMMA ClaimedResumable ==
  ASSUME NEW old \in Records, Resumable(old), Exists(old), ~checkpointTerminal(old.status),
         NEW res \in Resolutions, NEW h, h.status = "running", h.body = ClaimedBody(old, res)
  PROVE  Resumable(h) /\ validInterruptProgress(h)
<1>1. validInterruptProgress(old) /\ old.status \in {"running", "interrupted"}
  BY DEF Resumable, checkpointTerminal, TerminalStatuses, Records, Statuses
<1>2. /\ h.body.cursor = old.body.cursor /\ h.body.pending = old.body.pending
      /\ h.body.progress = old.body.progress
      /\ h.body.ints = IF old.status = "interrupted" THEN {} ELSE old.body.ints
  BY DEF ClaimedBody, Records, Bodies
<1>3. CASE old.body.progress = NoProgress
  BY <1>1, <1>2, <1>3 DEF Resumable, validInterruptProgress
<1>4. CASE old.body.progress # NoProgress
  <2>1. old.status = "running"
    BY <1>1, <1>4 DEF validInterruptProgress
  <2> QED BY <1>1, <1>2, <1>4, <2>1 DEF Resumable, validInterruptProgress
<1> QED BY <1>3, <1>4

LEMMA RestoredIsFine ==
  ASSUME NEW p \in Invocations, NEW z \in Executions, Fit(z), z.result = "none", ~z.sinkFailure,
         z.mode = "none", z.term = "none", z.cause = "none", z.ckpt.owner = p,
         z.ckpt.status = "running", Resumable(z.ckpt), Exists(z.ckpt),
         z.ckpt.body.term # "none" => z.ckpt.body.pending.type \in TerminalStatuses
  PROVE  Fine(p, Restored(p, z))
<1> DEFINE w == Restored(p, z)
           y == Resumed(z)
           b == z.ckpt.body
<1>1. \/ Leaves(z, w, "error")
      \/ /\ validInterruptProgress(z.ckpt) /\ b.pending = NoEvent
         /\ w = Moved(y, "reconcile")
      \/ /\ validInterruptProgress(z.ckpt) /\ b.pending # NoEvent
         /\ w = Replaying(y)
  BY RestoredEffect
<1>2. /\ y.ints = b.ints /\ y.progress = b.progress /\ y.ckpt = z.ckpt /\ y.mode = "none"
      /\ y.term = "none" /\ y.cause = "none" /\ y \in Executions
  <2>1. y.cause = "none"
    BY DEF Resumed, Executions
  <2> QED BY <2>1, ResumedFit
<1>3. b.progress # NoProgress => b.progress.first > 0
  BY DEF Resumable, checkpointTerminal, TerminalStatuses
<1>4. b.pending.type # "hook"
  BY DEF Resumable, checkpointTerminal, TerminalStatuses
<1> HIDE DEF y
<1>5. CASE Leaves(z, w, "error")
  BY <1>5, LeaversAreFine
<1>6. CASE validInterruptProgress(z.ckpt) /\ b.pending = NoEvent /\ w = Moved(y, "reconcile")
  <2>1. /\ w.pc = "reconcile" /\ w.ints = b.ints /\ w.progress = b.progress /\ w.ckpt = z.ckpt
        /\ w.mode = "none" /\ w.term = "none" /\ w.cause = "none"
    BY <1>2, <1>6 DEF Moved, Executions
  <2> HIDE DEF w
  <2>2. Calm(p, w)
    BY <2>1 DEF Calm, Owns, OwningSteps
  <2>3. Batching(p, w)
    BY <1>3, <1>6, <2>1
       DEF Batching, Announcing, PlainModes, ObserveModes, BatchModes, validInterruptProgress
  <2> QED BY <2>2, <2>3 DEF Fine, w
<1>7. CASE validInterruptProgress(z.ckpt) /\ b.pending # NoEvent /\ w = Replaying(y)
  <2>1. /\ w.pc = "append" /\ w.ints = b.ints /\ w.progress = b.progress /\ w.ckpt = z.ckpt
        /\ w.mode = "replay" /\ w.term = b.term /\ w.cause = "none" /\ w.ev = b.pending
    BY <1>2, <1>7 DEF Replaying, Executions
  <2> HIDE DEF w
  <2>2. Calm(p, w)
    BY <2>1 DEF Calm, Owns, OwningSteps
  <2>3. Announces(p, w)
    BY <1>4, <1>7, <2>1 DEF Announces, validInterruptProgress
  <2>4. b.progress # NoProgress => b.progress.next <= BatchSize(b.ints)
    BY <1>7 DEF validInterruptProgress
  <2>5. Batching(p, w)
    BY <1>3, <1>7, <2>1, <2>3, <2>4
       DEF Batching, Announcing, PlainModes, ObserveModes, BatchModes, validInterruptProgress
  <2> QED BY <2>2, <2>5 DEF Fine, w
<1> QED BY <1>1, <1>5, <1>6, <1>7

LEMMA ClaimUndisturbed ==
  ASSUME Undisturbed, Agree, Local, Claims, NEW p \in Invocations, NEW res \in Resolutions,
         Claim(p, res)
  PROVE  Undisturbs(p)
<1> DEFINE x == ex[p]
           rec == Candidate(p, x.ckpt, res)
           z == Claiming(x, rec)
<1>1. x.pc = "claim" /\ x \in Executions /\ Sound(x) /\ Fine(p, x) /\ head \in Records
  BY ClaimEffect DEF Local, Undisturbed, Claims, Claimable
<1>2. \/ head' = head /\ \E y : Becomes(p, y) /\ Quits(x, y)
      \/ /\ Exists(head) /\ ClaimOutcome(head, rec, 0) = "ok"
         /\ head' = [rec EXCEPT !.version = @ + 1]
         /\ z \in Executions /\ Fit(z) /\ z.result = "none" /\ ~z.sinkFailure
         /\ z.mode = "none" /\ z.ckpt = head' /\ z.term = "none"
         /\ Becomes(p, Restored(p, z))
  BY <1>1, ClaimEffect
<1>3. ASSUME head' = head, NEW y, Becomes(p, y), Quits(x, y)
      PROVE  Undisturbs(p)
  BY <1>1, <1>3, QuittersAreFine DEF Undisturbs, Undisturbed
<1>4. ASSUME /\ Exists(head) /\ ClaimOutcome(head, rec, 0) = "ok"
             /\ head' = [rec EXCEPT !.version = @ + 1]
             /\ z \in Executions /\ Fit(z) /\ z.result = "none" /\ ~z.sinkFailure
             /\ z.mode = "none" /\ z.ckpt = head' /\ z.term = "none"
             /\ Becomes(p, Restored(p, z))
      PROVE  Undisturbs(p)
  <2>1. /\ rec \in Records /\ rec.version = x.ckpt.version /\ rec.owner = p
        /\ rec.status = "running" /\ rec.body = ClaimedBody(x.ckpt, res)
    BY <1>1, CandidateType DEF Executions
  <2>2. x.ckpt.version = head.version /\ ~checkpointTerminal(head.status)
    BY <1>4, <2>1 DEF ClaimOutcome, checkpointTerminal, TerminalStatuses
  <2>3. SameRecord(head, x.ckpt)
    BY <1>1, <2>2 DEF Claims, Entitled, OwningSteps
  <2>4. head.status = x.ckpt.status /\ head.body = x.ckpt.body
    BY <1>1, <2>3 DEF SameRecord, Executions, Records
  <2> HIDE DEF rec
  <2>5. /\ head'.status = "running" /\ head'.owner = p /\ head'.body = ClaimedBody(head, res)
        /\ Exists(head')
    <3>1. /\ head'.status = rec.status /\ head'.owner = rec.owner /\ head'.body = rec.body
          /\ head'.version = rec.version + 1
      BY <1>4, <2>1 DEF Records
    <3>2. ClaimedBody(x.ckpt, res) = ClaimedBody(head, res)
      BY <2>4 DEF ClaimedBody
    <3>3. rec.version \in Nat
      BY <2>1 DEF Records
    <3> QED BY <2>1, <3>1, <3>2, <3>3 DEF Exists
  <2>6. Resumable(head')
    BY <1>1, <1>4, <2>2, <2>5, ClaimedResumable DEF Undisturbed
  <2>7. z.cause = "none"
    <3>1. x.cause = "none"
      BY <1>1 DEF Fine, Calm, Owns, OwningSteps
    <3> QED BY <1>1, <3>1 DEF Claiming, Executions
  <2>8. head'.body.term # "none" => head'.body.pending.type \in TerminalStatuses
    <3>1. head.body.term # "none" => head.body.pending.type \in TerminalStatuses
      BY DEF Agree, Agreement, HeadAgrees
    <3>2. head'.body.term = head.body.term /\ head'.body.pending = head.body.pending
      BY <1>1, <2>5 DEF ClaimedBody, Records, Bodies
    <3> QED BY <3>1, <3>2
  <2> HIDE DEF z
  <2>9. Fine(p, Restored(p, z))
    BY <1>4, <2>5, <2>6, <2>7, <2>8, RestoredIsFine
  <2> QED BY <1>4, <2>6, <2>9 DEF Undisturbs
<1> QED BY <1>2, <1>3, <1>4

(* The writes of the holder.                                               *)
LEMMA SavePendingUndisturbed ==
  ASSUME Undisturbed, Agree, Local, Claims, NEW p \in Invocations, SavePending(p)
  PROVE  Undisturbs(p)
<1> DEFINE x == ex[p]
           rec == Keeping(x, x.ev, PendingTerm(x))
           y == Moved(Saved(x, rec), "append")
<1>1. x.pc = "savePending" /\ Ready(x) /\ Sound(x) /\ x \in Executions /\ Fine(p, x)
  BY SavePendingEffect DEF Local, Undisturbed, Ready
<1>2. x.mode \in CommitModes /\ Owns(x)
  BY <1>1 DEF Ready, ModesAt, CommitModes, Owns, OwningSteps
<1>3. \/ head' = head /\ \E w : Becomes(p, w) /\ Fails(p, x, w)
      \/ Wrote(rec) /\ Becomes(p, y)
  BY SavePendingEffect
<1>4. ASSUME head' = head, NEW w, Becomes(p, w), Fails(p, x, w)
      PROVE  Undisturbs(p)
  BY <1>1, <1>2, <1>4, FailersAreFine DEF Undisturbs, Undisturbed
<1>5. ASSUME Wrote(rec), Becomes(p, y)
      PROVE  Undisturbs(p)
  <2>1. PICK n \in Nat : Agreement(n)
    BY DEF Agree
  <2>2. x.ev \in Events /\ x.ev # NoEvent /\ PendingTerm(x) \in Terms
    BY <1>1, NoEventType DEF Executions, Sound, Placed, PendingTerm
  <2>3. /\ rec \in Records /\ SameBut(rec, x.ckpt) /\ rec.owner = x.ckpt.owner
        /\ rec.status = "running" /\ Payload(x, rec.body, x.ev, PendingTerm(x))
    BY <1>1, <2>2, KeepingEffect
  <2> HIDE DEF rec
  <2>4. /\ head'.status = rec.status /\ head'.body = rec.body
        /\ InStep(x, head.body, journal, delivered, n)
    BY <1>1, <1>2, <1>5, <2>1, <2>3, WritersHold
  <2>5. x.progress # NoProgress => x.progress.first + x.progress.next = x.cursor + 1
    <3>1. x.progress # NoProgress => x.mode # "terminal"
      BY <1>1, <1>2 DEF Fine, Batching, PlainModes
    <3> QED BY <1>1, <2>4, <3>1 DEF InStep, OnBatch
  <2>6. Resumable(head')
    BY <1>1, <1>2, <2>2, <2>3, <2>4, <2>5, KeepingResumable DEF Fine, Announcing
  <2>7. /\ y.pc = "append" /\ y.mode = x.mode /\ y.ckpt = [rec EXCEPT !.version = @ + 1]
        /\ y.ints = x.ints /\ y.progress = x.progress /\ y.ev = x.ev /\ y.term = x.term
        /\ y.cause = x.cause /\ y.leaseDown = x.leaseDown
    BY <1>1 DEF Moved, Saved, Executions
  <2>8. y.ckpt.owner = x.ckpt.owner /\ y.ckpt.status = "running"
    BY <2>3, <2>7 DEF Records
  <2>9. Fine(p, y)
    <3> HIDE DEF y, x
    <3>1. Calm(p, y)
      BY <1>1, <1>2, <2>7, <2>8 DEF Fine, Calm, Owns, OwningSteps
    <3>2. Announces(p, x) <=> Announces(p, y)
      BY <2>7 DEF Announces
    <3>3. Batching(p, y)
      BY <1>1, <1>2, <2>7, <3>2 DEF Fine, Batching, Announcing
    <3> QED BY <3>1, <3>3 DEF Fine
  <2> QED BY <1>5, <2>6, <2>9 DEF Undisturbs
<1> QED BY <1>3, <1>4, <1>5

LEMMA AppendUndisturbed ==
  ASSUME Undisturbed, Local, NEW p \in Invocations, AppendEvent(p)
  PROVE  Undisturbs(p)
<1> DEFINE x == ex[p]
           y == Moved(Counted(x), "deliver")
<1>1. x.pc = "append" /\ head' = head /\ x \in Executions /\ Fine(p, x)
  BY AppendEffect DEF Local, Undisturbed
<1>2. (\E w : Becomes(p, w) /\ Quits(x, w)) \/ Becomes(p, y)
  BY AppendEffect
<1>3. ASSUME NEW w, Becomes(p, w), Quits(x, w)
      PROVE  Undisturbs(p)
  BY <1>1, <1>3, QuittersAreFine DEF Undisturbs, Undisturbed
<1>4. ASSUME Becomes(p, y)
      PROVE  Undisturbs(p)
  <2>1. /\ y.pc = "deliver" /\ y.mode = x.mode /\ y.ckpt = x.ckpt
        /\ y.ints = x.ints /\ y.progress = x.progress /\ y.ev = x.ev /\ y.term = x.term
        /\ y.cause = x.cause /\ y.leaseDown = x.leaseDown /\ y.heartbeat = x.heartbeat
    BY <1>1 DEF Moved, Counted, Executions
  <2> HIDE DEF x, y
  <2>2. Calm(p, y)
    BY <1>1, <2>1 DEF Fine, Calm, Owns, OwningSteps
  <2>3. Announces(p, x) <=> Announces(p, y)
    BY <2>1 DEF Announces
  <2>4. Batching(p, y)
    BY <1>1, <2>1, <2>3 DEF Fine, Batching, Announcing, Owns, OwningSteps
  <2> QED BY <1>1, <1>4, <2>2, <2>4 DEF Fine, Undisturbs, Undisturbed
<1> QED BY <1>2, <1>3, <1>4

(* The event delivered: the next of the batch, if it was one of a batch.   *)
LEMMA EmittedIsFine ==
  ASSUME NEW p \in Invocations, NEW x \in Executions, Sound(x), x.pc = "deliver",
         Fine(p, x), NEW w, w = Emitted(p, x)
  PROVE  Fine(p, w)
<1> DEFINE y == Delivered(x)
<1>1. /\ y.ckpt = x.ckpt /\ y.ints = x.ints /\ y.progress = x.progress /\ y.mode = x.mode
      /\ y.term = x.term /\ y.ev = x.ev /\ y.cause = x.cause /\ y.leaseDown = x.leaseDown
      /\ y.heartbeat = x.heartbeat /\ y \in Executions
  BY DeliveredFit DEF Delivered, Executions, Sound
<1>2. \/ x.mode = "hook" /\ w = Moved(y, "create")
      \/ x.mode = "observe" /\ w = Moved(y, "work")
      \/ x.mode = "nodeFailed" /\ (Leaves(x, w, "error") \/ Ends(p, y, w))
      \/ x.mode = "loaded" /\ w = Saving(y, "start", Stamp(p, y, Start(y)))
      \/ x.mode \in {"start", "step"} /\ w = Moved(y, "confirm")
      \/ x.mode \in BatchModes /\ w = Confirming(y)
      \/ x.mode = "terminal" /\ (Leaves(x, w, "error") \/ w = Finishing(y))
      \/ /\ x.mode = "replay" /\ x.term # "none"
         /\ Leaves(x, w, "error") \/ w = Finishing(Replayed(x))
      \/ /\ x.mode = "replay" /\ x.term = "none"
         /\ w = Moved(Replayed(x), "confirm")
  BY EmittedEffect
<1>3. CASE x.mode = "hook" /\ w = Moved(y, "create")
  <2>1. /\ w.mode = "hook" /\ w.cause = "none" /\ w.heartbeat = "off" /\ w.ints = {}
        /\ w.progress = NoProgress
    <3>1. /\ x.cause = "none" /\ x.heartbeat = "off" /\ x.ints = {}
          /\ x.progress = NoProgress
      BY <1>3 DEF Fine, Calm, Owns
    <3> QED BY <1>1, <1>3, <3>1 DEF Moved, Executions
  <2> QED BY <2>1 DEF Fine, Calm, Batching, Owns
<1>4. ASSUME x.mode # "hook" PROVE Fine(p, w)
  <2>1. Owns(x) /\ x.ckpt.owner = p /\ x.ckpt.status = "running"
        /\ (x.cause # "none" => x.cause = "lease" /\ x.leaseDown)
    BY <1>4, CalmOwners DEF Fine, Owns, OwningSteps, LeaseCause
  <2>2. /\ x.progress = NoProgress <=> x.ints = {}
        /\ x.mode \in PlainModes => x.progress = NoProgress
        /\ x.mode \in BatchModes => x.progress # NoProgress
        /\ x.progress # NoProgress =>
             /\ x.progress.first > 0 /\ x.progress.next < BatchSize(x.ints)
             /\ x.ev = BatchEvent(x.progress, x.ints, x.progress.next)
        /\ x.mode = "replay" /\ x.term # "none" => x.ev.type \in TerminalStatuses
    BY <2>1 DEF Fine, Batching, Announces, Announcing
  <2>3. \A v : Leaves(x, v, "error") => Fine(p, v)
    BY <2>1, LeaversAreFine
  \* From here x stays the owner: its batch is all that matters.
  <2>4. ASSUME w.ckpt = x.ckpt, w.cause = x.cause, w.leaseDown = x.leaseDown,
               w.pc \in OwningSteps, w.mode # "hook"
        PROVE  Calm(p, w)
    BY <2>1, <2>4 DEF Calm, Owns
  <2> HIDE DEF y
  <2>5. CASE x.mode = "observe" /\ w = Moved(y, "work")
    <3>1. /\ w.ckpt = x.ckpt /\ w.cause = x.cause /\ w.leaseDown = x.leaseDown
          /\ w.pc = "work" /\ w.mode = "observe" /\ w.ints = x.ints
          /\ w.progress = x.progress
      BY <1>1, <2>5 DEF Moved, Executions
    <3>2. x.progress = NoProgress
      BY <2>2, <2>5 DEF PlainModes, ObserveModes
    <3> QED BY <2>2, <2>4, <3>1, <3>2 DEF Fine, Batching, Announcing, OwningSteps, BatchModes
  <2>6. CASE x.mode = "nodeFailed" /\ (Leaves(x, w, "error") \/ Ends(p, y, w))
    <3>1. x.mode \in PlainModes
      BY <2>6 DEF PlainModes, ObserveModes
    <3> QED BY <1>1, <2>1, <2>3, <2>6, <3>1, EndersAreFine
  <2>7. CASE x.mode = "loaded" /\ w = Saving(y, "start", Stamp(p, y, Start(y)))
    <3>1. /\ w.ckpt = x.ckpt /\ w.cause = x.cause /\ w.leaseDown = x.leaseDown
          /\ w.pc = "savePending" /\ w.mode = "start" /\ w.ints = x.ints
          /\ w.progress = x.progress /\ w.ev = Stamp(p, y, Start(y))
      BY <1>1, <2>7 DEF Saving, Executions
    <3>2. x.progress = NoProgress
      BY <2>2, <2>7 DEF PlainModes, ObserveModes
    <3>3. w.ev.type \notin InterruptTypes \cup {"hook"} /\ w.ev.by = p
      BY <3>1, StartType DEF Stamp, InterruptTypes
    <3> QED BY <2>2, <2>4, <3>1, <3>2, <3>3
            DEF Fine, Batching, Announces, Announcing, OwningSteps, BatchModes
  <2>8. CASE x.mode \in {"start", "step"} /\ w = Moved(y, "confirm")
    <3>1. /\ w.ckpt = x.ckpt /\ w.cause = x.cause /\ w.leaseDown = x.leaseDown
          /\ w.pc = "confirm" /\ w.mode = x.mode /\ w.ints = x.ints
          /\ w.progress = x.progress
      BY <1>1, <2>8 DEF Moved, Executions
    <3>2. x.progress = NoProgress
      BY <2>2, <2>8 DEF PlainModes
    <3> QED BY <2>2, <2>4, <2>8, <3>1, <3>2
            DEF Fine, Batching, Announcing, OwningSteps, BatchModes
  <2>9. /\ BatchSize(x.ints) \in Nat /\ x.progress.next \in Nat /\ x.progress.first \in Nat
        /\ x.progress.next < BatchSize(x.ints) => x.progress.next + 1 <= BatchSize(x.ints)
    <3>1. Cardinality(x.ints) \in Nat
      BY RunAssumption, FS_Subset, FS_CardinalityType DEF Executions
    <3> QED BY <3>1 DEF Executions, Progresses, BatchSize
  <2>10. CASE x.mode \in BatchModes /\ w = Confirming(y)
    <3>1. /\ w.ckpt = x.ckpt /\ w.cause = x.cause /\ w.leaseDown = x.leaseDown
          /\ w.pc = "confirm" /\ w.mode = x.mode /\ w.ints = x.ints
          /\ w.progress.first = x.progress.first
          /\ w.progress.next = x.progress.next + 1
      BY <1>1, <2>10 DEF Confirming, Executions, Progresses
    <3>2. x.progress # NoProgress /\ w.progress # NoProgress
      BY <2>2, <2>9, <2>10, <3>1 DEF NoProgress
    <3> QED BY <2>2, <2>4, <2>9, <2>10, <3>1, <3>2
            DEF Fine, Batching, Announcing, OwningSteps, BatchModes, PlainModes, ObserveModes
  <2>11. CASE x.mode = "terminal" /\ w = Finishing(y)
    <3>1. /\ w.ckpt = x.ckpt /\ w.cause = x.cause /\ w.leaseDown = x.leaseDown
          /\ w.pc = "finish" /\ w.mode = x.mode /\ w.ints = x.ints
          /\ w.progress = x.progress
      BY <1>1, <2>11 DEF Finishing, Executions
    <3>2. x.progress = NoProgress
      BY <2>2, <2>11 DEF PlainModes
    <3> QED BY <2>2, <2>4, <2>11, <3>1, <3>2
            DEF Fine, Batching, Announcing, OwningSteps, BatchModes
  <2>12. x.mode = "replay" /\ x.progress # NoProgress =>
           x.progress.first + x.progress.next = x.ev.seq
    BY <2>2 DEF BatchEvent
  <2>13. /\ Replayed(x).ckpt = x.ckpt /\ Replayed(x).cause = x.cause
         /\ Replayed(x).leaseDown = x.leaseDown /\ Replayed(x).mode = x.mode
         /\ Replayed(x).ints = x.ints /\ Replayed(x).term = x.term
         /\ Replayed(x).ev = x.ev
         /\ Replayed(x) \in Executions
         /\ Replayed(x).progress = IF ReplaysBatch(x)
                                   THEN [x.progress EXCEPT !.next = @ + 1] ELSE x.progress
    <3>1. Replayed(x).cause = x.cause /\ Replayed(x).leaseDown = x.leaseDown
      BY DEF Replayed, Advanced, Delivered, Executions
    <3> QED BY <3>1, ReplayedFit DEF Sound
  <2>14. CASE x.mode = "replay" /\ x.term # "none" /\ w = Finishing(Replayed(x))
    <3>1. x.progress = NoProgress
      <4>1. x.progress # NoProgress => x.ev.type \in InterruptTypes
        BY <2>2, <2>9 DEF BatchEvent, InterruptTypes
      <4> QED BY <2>2, <2>14, <4>1 DEF InterruptTypes, TerminalStatuses
    <3>2. Replayed(x).progress = NoProgress
      BY <2>13, <3>1 DEF ReplaysBatch
    <3> DEFINE v == Replayed(x)
    <3>3. v \in Executions /\ w = Finishing(v)
      BY <2>13, <2>14
    <3> HIDE DEF v
    <3>4. /\ w.ckpt = v.ckpt /\ w.cause = v.cause /\ w.leaseDown = v.leaseDown
          /\ w.pc = "finish" /\ w.mode = v.mode /\ w.ints = v.ints
          /\ w.progress = v.progress /\ w.term = v.term /\ w.ev = v.ev
      BY <3>3 DEF Finishing, Executions
    <3>5. /\ w.ckpt = x.ckpt /\ w.cause = x.cause /\ w.leaseDown = x.leaseDown
          /\ w.pc = "finish" /\ w.mode = "replay" /\ w.ints = x.ints
          /\ w.progress = NoProgress /\ w.term = x.term /\ w.ev = x.ev
      BY <2>13, <2>14, <3>2, <3>4 DEF v
    <3> QED BY <2>2, <2>4, <2>14, <3>1, <3>5
            DEF Fine, Batching, Announcing, OwningSteps, BatchModes
  <2>15. CASE x.mode = "replay" /\ x.term = "none" /\ w = Moved(Replayed(x), "confirm")
    <3> DEFINE v == Replayed(x)
    <3>1. v \in Executions /\ w = Moved(v, "confirm")
      BY <2>13, <2>15
    <3> HIDE DEF v
    <3>2. /\ w.ckpt = v.ckpt /\ w.cause = v.cause /\ w.leaseDown = v.leaseDown
          /\ w.pc = "confirm" /\ w.mode = v.mode /\ w.ints = v.ints
          /\ w.progress = v.progress /\ w.term = v.term
      BY <3>1 DEF Moved, Executions
    <3>3. /\ w.ckpt = x.ckpt /\ w.cause = x.cause /\ w.leaseDown = x.leaseDown
          /\ w.pc = "confirm" /\ w.mode = "replay" /\ w.ints = x.ints
          /\ w.progress = v.progress /\ w.term = "none"
      BY <2>13, <2>15, <3>2 DEF v
    <3>4. CASE x.progress = NoProgress
      <4>1. w.progress = NoProgress
        BY <2>13, <3>3, <3>4 DEF v, ReplaysBatch
      <4> QED BY <2>2, <2>4, <3>3, <3>4, <4>1
              DEF Fine, Batching, Announcing, OwningSteps, BatchModes
    <3>5. CASE x.progress # NoProgress
      <4>1. w.progress = [x.progress EXCEPT !.next = @ + 1]
        BY <2>2, <2>12, <2>13, <2>15, <3>3, <3>5 DEF v, ReplaysBatch
      <4>2. w.progress.first = x.progress.first /\ w.progress.next = x.progress.next + 1
        BY <4>1 DEF Executions, Progresses
      <4>3. w.progress # NoProgress
        BY <2>2, <3>5, <4>2 DEF NoProgress
      <4> QED BY <2>2, <2>4, <2>9, <3>3, <3>5, <4>2, <4>3
              DEF Fine, Batching, Announcing, OwningSteps, BatchModes, PlainModes, ObserveModes
    <3> QED BY <3>4, <3>5
  <2> QED
    BY <1>2, <1>4, <2>3, <2>5, <2>6, <2>7, <2>8, <2>10, <2>11, <2>14, <2>15
<1> QED BY <1>2, <1>3, <1>4 DEF BatchModes

LEMMA DeliverUndisturbed ==
  ASSUME Undisturbed, Local, NEW p \in Invocations, Deliver(p)
  PROVE  Undisturbs(p)
<1>1. /\ ex[p].pc = "deliver" /\ Sound(ex[p]) /\ head' = head /\ ex[p] \in Executions
      /\ Becomes(p, Emitted(p, ex[p])) /\ Fine(p, ex[p])
  BY DeliverEffect DEF Local, Undisturbed
<1>2. Fine(p, Emitted(p, ex[p]))
  BY <1>1, EmittedIsFine
<1> QED BY <1>1, <1>2 DEF Undisturbs, Undisturbed

(* A batch goes on with its next event, or is over.                        *)
LEMMA BatchesGoOnFine ==
  ASSUME NEW p \in Invocations, NEW x \in Executions, Fit(x), x.result = "none",
         ~x.sinkFailure, Calm(p, x), Owns(x), x.pc \notin {"release", "end", "crashed"},
         x.ints # {}, x.progress # NoProgress, x.progress.first > 0, x.progress.next > 0,
         x.progress.next <= BatchSize(x.ints),
         NEW mode \in BatchModes, NEW w, w = ContinueBatch(p, x, mode)
  PROVE  Fine(p, w)
<1> DEFINE e == BatchEvent(x.progress, x.ints, x.progress.next)
<1>1. \/ x.progress.next < BatchSize(x.ints) /\ w = Saving(x, mode, e)
      \/ Leaves(x, w, "error")
      \/ ~(x.progress.next < BatchSize(x.ints)) /\ w = Interrupting(x, mode)
  BY ContinueBatchEffect
<1>2. x.ckpt.owner = p /\ x.ckpt.status = "running"
      /\ (x.cause # "none" => x.cause = "lease" /\ x.leaseDown)
  BY CalmOwners DEF LeaseCause
<1>3. ASSUME w.ckpt = x.ckpt, w.cause = x.cause, w.leaseDown = x.leaseDown,
             w.pc \in OwningSteps, w.mode # "hook"
      PROVE  Calm(p, w)
  BY <1>2, <1>3 DEF Calm, Owns
<1>4. CASE Leaves(x, w, "error")
  BY <1>2, <1>4, LeaversAreFine
<1>5. CASE x.progress.next < BatchSize(x.ints) /\ w = Saving(x, mode, e)
  <2>1. /\ w.ckpt = x.ckpt /\ w.cause = x.cause /\ w.leaseDown = x.leaseDown
        /\ w.pc = "savePending" /\ w.mode = mode /\ w.ints = x.ints
        /\ w.progress = x.progress /\ w.ev = e
    BY <1>5 DEF Saving, Executions
  <2> HIDE DEF e
  <2>2. Announces(p, w)
    BY <1>5, <2>1 DEF Announces, e
  <2> QED BY <1>3, <2>1, <2>2
          DEF Fine, Batching, Announcing, OwningSteps, BatchModes, PlainModes, ObserveModes
<1>6. CASE ~(x.progress.next < BatchSize(x.ints)) /\ w = Interrupting(x, mode)
  <2>1. /\ w.ckpt = x.ckpt /\ w.cause = x.cause /\ w.leaseDown = x.leaseDown
        /\ w.pc = "interrupt" /\ w.mode = mode /\ w.ints = x.ints
        /\ w.progress = x.progress
    BY <1>6 DEF Interrupting, Executions
  <2>2. x.progress.next = BatchSize(x.ints)
    <3>1. Cardinality(x.ints) \in Nat /\ x.progress.next \in Nat
      BY RunAssumption, FS_Subset, FS_CardinalityType DEF Executions, Progresses
    <3> QED BY <1>6, <3>1 DEF BatchSize
  <2> QED BY <1>3, <2>1, <2>2
          DEF Fine, Batching, Announcing, OwningSteps, BatchModes, PlainModes, ObserveModes
<1> QED BY <1>1, <1>4, <1>5, <1>6

(* x has no event on its way and goes on with its batch, or with the run.  *)
LEMMA ReconciledIsFine ==
  ASSUME NEW p \in Invocations, NEW x \in Executions, Fit(x), x.result = "none",
         ~x.sinkFailure, Fine(p, x), Owns(x), x.pc \in {"reconcile", "saveCursor"},
         NEW w, w = Reconciled(p, x)
  PROVE  Fine(p, w)
<1>1. \/ x.progress # NoProgress /\ w = ContinueBatch(p, x, "restoreInterrupt")
      \/ x.progress = NoProgress /\ Leaves(x, w, "error")
      \/ x.progress = NoProgress /\ w = Appending(x, "loaded", Stamp(p, x, "loaded"))
  BY ReconciledEffect
<1>2. x.ckpt.owner = p /\ x.ckpt.status = "running"
      /\ (x.cause # "none" => x.cause = "lease" /\ x.leaseDown)
  BY CalmOwners DEF LeaseCause, Fine
<1>3. /\ x.progress = NoProgress <=> x.ints = {}
      /\ x.progress # NoProgress => /\ x.progress.first > 0 /\ x.progress.next > 0
                                    /\ x.progress.next <= BatchSize(x.ints)
  BY DEF Fine, Batching, Announcing
<1>4. CASE x.progress # NoProgress /\ w = ContinueBatch(p, x, "restoreInterrupt")
  BY <1>3, <1>4, BatchesGoOnFine DEF Fine, BatchModes
<1>5. CASE x.progress = NoProgress /\ Leaves(x, w, "error")
  BY <1>2, <1>5, LeaversAreFine
<1>6. CASE x.progress = NoProgress /\ w = Appending(x, "loaded", Stamp(p, x, "loaded"))
  <2>1. /\ w.ckpt = x.ckpt /\ w.cause = x.cause /\ w.leaseDown = x.leaseDown
        /\ w.pc = "append" /\ w.mode = "loaded" /\ w.ints = x.ints
        /\ w.progress = x.progress /\ w.ev = Stamp(p, x, "loaded")
    BY <1>6 DEF Appending, Executions
  <2>2. w.ev.type \notin InterruptTypes \cup {"hook"} /\ w.ev.by = p
    BY <2>1 DEF Stamp, InterruptTypes
  <2>3. Calm(p, w)
    BY <1>2, <2>1 DEF Calm, Owns, OwningSteps
  <2> QED BY <1>3, <1>6, <2>1, <2>2, <2>3
          DEF Fine, Batching, Announces, Announcing, BatchModes
<1> QED BY <1>1, <1>4, <1>5, <1>6

(* x having saved rec, with its copy but for the body.                     *)
LEMMA SavedIsFine ==
  ASSUME NEW p \in Invocations, NEW x \in Executions, Fit(x), Fine(p, x), Owns(x),
         x.pc # "release", NEW rec \in Records, rec.owner = x.ckpt.owner,
         rec.status = "running", NEW z, z = Saved(x, rec)
  PROVE  /\ z \in Executions /\ Fit(z) /\ Fine(p, z) /\ Owns(z) /\ z.pc = x.pc
         /\ z.mode = x.mode /\ z.ints = x.ints /\ z.progress = x.progress
         /\ z.result = x.result /\ z.sinkFailure = x.sinkFailure /\ z.term = x.term
<1>1. x.mode # "hook" /\ x.pc \in OwningSteps
  BY DEF Owns
<1>2. /\ z \in Executions /\ Fit(z) /\ z.ckpt = [rec EXCEPT !.version = @ + 1]
      /\ z.mode = x.mode /\ z.ints = x.ints /\ z.progress = x.progress
      /\ z.result = x.result /\ z.sinkFailure = x.sinkFailure /\ z.term = x.term
      /\ z.ev = x.ev
  BY <1>1, SavedFit
<1>3. /\ z.pc = x.pc /\ z.cause = x.cause /\ z.leaseDown = x.leaseDown
  BY DEF Saved, Executions
<1>4. z.ckpt.owner = x.ckpt.owner /\ z.ckpt.status = "running"
  BY <1>2 DEF Records
<1>5. Owns(z)
  BY <1>1, <1>2, <1>3 DEF Owns
<1>6. Calm(p, z)
  BY <1>3, <1>4, <1>5, CalmOwners DEF Fine, Calm, LeaseCause
<1>7. Announces(p, x) <=> Announces(p, z)
  BY <1>2 DEF Announces
<1>8. Batching(p, z)
  BY <1>2, <1>3, <1>7 DEF Fine, Batching
<1> QED BY <1>2, <1>3, <1>5, <1>6, <1>8 DEF Fine

LEMMA ConfirmUndisturbed ==
  ASSUME Undisturbed, Agree, Local, Claims, NEW p \in Invocations, Confirm(p)
  PROVE  Undisturbs(p)
<1> DEFINE x == ex[p]
           rec == Keeping(x, NoEvent, "none")
           z == Saved(x, rec)
           y == Confirmed(p, z)
<1>1. x.pc = "confirm" /\ Ready(x) /\ x \in Executions /\ Fit(x) /\ Fine(p, x)
      /\ x.result = "none" /\ ~x.sinkFailure
  BY ConfirmEffect DEF Local, Undisturbed, Ready
<1>2. x.mode \in ModesAt("confirm") /\ Owns(x)
      /\ x.mode \in {"start", "step", "replay"} \cup BatchModes
  BY <1>1 DEF Ready, ModesAt, CommitModes, Owns, OwningSteps, BatchModes
<1>3. \/ head' = head /\ \E w : Becomes(p, w) /\ Fails(p, x, w)
      \/ Wrote(rec) /\ Becomes(p, y)
  BY ConfirmEffect
<1>4. ASSUME head' = head, NEW w, Becomes(p, w), Fails(p, x, w)
      PROVE  Undisturbs(p)
  BY <1>1, <1>2, <1>4, FailersAreFine DEF Undisturbs, Undisturbed
<1>5. ASSUME Wrote(rec), Becomes(p, y)
      PROVE  Undisturbs(p)
  <2>1. PICK n \in Nat : Agreement(n)
    BY DEF Agree
  <2>2. /\ rec \in Records /\ SameBut(rec, x.ckpt) /\ rec.owner = x.ckpt.owner
        /\ rec.status = "running" /\ Payload(x, rec.body, NoEvent, "none")
    BY <1>1, NoEventType, KeepingEffect
  <2> HIDE DEF rec
  <2>3. /\ head'.status = rec.status /\ head'.body = rec.body
        /\ InStep(x, head.body, journal, delivered, n)
    BY <1>1, <1>2, <1>5, <2>1, <2>2, WritersHold
  <2>4. x.progress # NoProgress => x.progress.first + x.progress.next = x.cursor + 1
    BY <1>1, <1>2, <2>3 DEF InStep, OnBatch, BatchModes
  <2>5. Resumable(head')
    BY <1>1, <1>2, <2>2, <2>3, <2>4, NoEventType, KeepingResumable DEF Fine, Announcing
  <2>6. /\ z \in Executions /\ Fit(z) /\ Fine(p, z) /\ Owns(z) /\ z.pc = "confirm"
        /\ z.mode = x.mode /\ z.ints = x.ints /\ z.progress = x.progress
        /\ z.result = "none" /\ ~z.sinkFailure
    BY <1>1, <1>2, <2>2, SavedIsFine
  <2> HIDE DEF z
  <2>7. \/ z.mode \in {"start", "step"} /\ y = Moved(z, "work")
        \/ z.mode = "replay" /\ y = Moved(z, "reconcile")
        \/ z.mode \in BatchModes /\ y = ContinueBatch(p, z, z.mode)
    BY <1>2, <2>6, ConfirmedEffect
  <2> HIDE DEF y
  <2>8. ASSUME NEW pc \in {"work", "reconcile"}, y = Moved(z, pc),
               pc = "work" => z.mode \in {"start", "step"}
        PROVE  Fine(p, y)
    <3>1. /\ y.ckpt = z.ckpt /\ y.cause = z.cause /\ y.leaseDown = z.leaseDown
          /\ y.pc = pc /\ y.mode = z.mode /\ y.ints = z.ints /\ y.ev = z.ev
          /\ y.progress = z.progress /\ y.term = z.term
      BY <2>6, <2>8 DEF Moved, Executions
    <3>2. Calm(p, y)
      BY <2>6, <3>1 DEF Fine, Calm, Owns, OwningSteps
    <3>3. Batching(p, y)
      BY <2>6, <2>8, <3>1 DEF Fine, Batching, Announcing, PlainModes
    <3> QED BY <3>2, <3>3 DEF Fine
  <2>9. ASSUME z.mode \in BatchModes, y = ContinueBatch(p, z, z.mode)
        PROVE  Fine(p, y)
    <3>1. /\ z.ints # {} /\ z.progress # NoProgress /\ z.progress.first > 0
          /\ z.progress.next > 0 /\ z.progress.next <= BatchSize(z.ints)
      BY <2>6, <2>9 DEF Fine, Batching, Announcing
    <3> QED BY <2>6, <2>9, <3>1, BatchesGoOnFine DEF Fine
  <2>10. Fine(p, y)
    BY <2>7, <2>8, <2>9
  <2> QED BY <1>5, <2>5, <2>10 DEF Undisturbs
<1> QED BY <1>3, <1>4, <1>5

(* The whole batch is confirmed: the run waits for its resolutions.        *)
LEMMA InterruptUndisturbed ==
  ASSUME Undisturbed, Agree, Local, Claims, NEW p \in Invocations, InterruptCheckpoint(p)
  PROVE  Undisturbs(p)
<1> DEFINE x == ex[p]
           s == Suspended(x)
           rec == Closing(s, "interrupted")
           z == Saved(s, rec)
<1>1. x.pc = "interrupt" /\ Ready(x) /\ x \in Executions /\ Fit(x) /\ Fine(p, x)
  BY InterruptEffect DEF Local, Undisturbed, Ready
<1>2. x.mode \in BatchModes /\ Owns(x)
  BY <1>1 DEF Ready, ModesAt, Owns, OwningSteps, BatchModes
<1>3. \/ head' = head /\ \E w : Becomes(p, w) /\ Fails(p, x, w)
      \/ /\ Wrote(rec) /\ ~x.leaseDown
         /\ \E y : /\ Becomes(p, y)
                   /\ \/ Leaves(z, y, "interrupted") /\ y.pc = "end"
                      \/ Ends(p, z, y) /\ x.cause # "none"
  BY InterruptEffect
<1>4. ASSUME head' = head, NEW w, Becomes(p, w), Fails(p, x, w)
      PROVE  Undisturbs(p)
  BY <1>1, <1>2, <1>4, FailersAreFine DEF Undisturbs, Undisturbed
<1>5. ASSUME Wrote(rec), ~x.leaseDown, NEW y, Becomes(p, y),
             \/ Leaves(z, y, "interrupted") /\ y.pc = "end"
             \/ Ends(p, z, y) /\ x.cause # "none"
      PROVE  Undisturbs(p)
  <2>1. x.cause = "none"
    BY <1>1, <1>2, <1>5, CalmOwners DEF Fine
  <2>2. Fine(p, y)
    BY <1>5, <2>1 DEF Fine, Calm, Batching, Owns, OwningSteps
  <2>3. /\ rec \in Records /\ rec.owner = NoOwner /\ rec.status = "interrupted"
        /\ rec.body.pending = NoEvent /\ rec.body.ints = x.ints
        /\ rec.body.progress = NoProgress
    <3>1. s \in Executions /\ s.ints = x.ints /\ s.progress = NoProgress
      BY <1>1, SuspendedFit
    <3> HIDE DEF s
    <3> QED BY <3>1, ClosingEffect DEF Payload, Statuses
  <2> HIDE DEF rec
  <2>4. /\ head'.status = "interrupted" /\ head'.owner = NoOwner /\ head'.expires = 0
        /\ head'.body = rec.body
    BY <1>5, <2>3 DEF Wrote, Written, Records
  <2>5. x.ints # {}
    BY <1>1, <1>2 DEF Fine, Batching
  <2>6. Resumable(head')
    BY <2>3, <2>4, <2>5
       DEF Resumable, validInterruptProgress, NoEvent, InterruptTypes
  <2> QED BY <1>5, <2>2, <2>6 DEF Undisturbs
<1> QED BY <1>3, <1>4, <1>5

LEMMA FinishUndisturbed ==
  ASSUME Undisturbed, Local, NEW p \in Invocations, FinishCheckpoint(p)
  PROVE  Undisturbs(p)
<1> DEFINE x == ex[p]
           rec == Closing(x, x.term)
<1>1. x.pc = "finish" /\ x \in Executions /\ Fine(p, x)
  BY FinishEffect DEF Local, Undisturbed
<1>2. \/ head' = head /\ \E y : Becomes(p, y) /\ Quits(x, y)
      \/ /\ Wrote(rec) /\ x.term \in TerminalStatuses
         /\ \E y : Becomes(p, y) /\ y.pc = "end"
  BY FinishEffect
<1>3. ASSUME head' = head, NEW y, Becomes(p, y), Quits(x, y)
      PROVE  Undisturbs(p)
  BY <1>1, <1>3, QuittersAreFine DEF Undisturbs, Undisturbed
<1>4. ASSUME Wrote(rec), x.term \in TerminalStatuses, NEW y, Becomes(p, y), y.pc = "end"
      PROVE  Undisturbs(p)
  <2>1. Fine(p, y)
    BY <1>4 DEF Fine, Calm, Batching, Owns, OwningSteps
  <2>2. rec \in Records /\ rec.status = x.term
    BY <1>1, <1>4, ClosingEffect DEF Statuses
  <2> HIDE DEF rec
  <2>3. head'.status = x.term
    BY <1>4, <2>2 DEF Wrote, Written, Records
  <2> QED BY <1>4, <2>1, <2>3 DEF Undisturbs, Resumable, checkpointTerminal
<1> QED BY <1>2, <1>3, <1>4

LEMMA RedeliverUndisturbed ==
  ASSUME Undisturbed, Local, NEW p \in Invocations, NEW k \in 0..PageSize, Redeliver(p, k)
  PROVE  Undisturbs(p)
<1> DEFINE x == ex[p]
           n == Cardinality(Page(x))
           y == Moved(Advancing(x, k, n), "saveCursor")
<1>1. x.pc = "reconcile" /\ Ready(x) /\ x \in Executions /\ Fine(p, x) /\ head' = head
      /\ Fit(x) /\ x.result = "none" /\ ~x.sinkFailure
  BY RedeliverEffect DEF Local, Undisturbed, Ready
<1>2. Owns(x)
  BY <1>1 DEF Ready, ModesAt, Owns, OwningSteps
<1>3. \/ \E w : Becomes(p, w) /\ Quits(x, w)
      \/ Becomes(p, Reconciled(p, x))
      \/ Becomes(p, y)
  BY RedeliverEffect
<1>4. \A w : Quits(x, w) => Fine(p, w)
  BY <1>1, QuittersAreFine
<1>5. Fine(p, Reconciled(p, x))
  BY <1>1, <1>2, ReconciledIsFine
<1>6. Fine(p, y)
  <2>1. /\ y.ckpt = x.ckpt /\ y.cause = x.cause /\ y.leaseDown = x.leaseDown
        /\ y.pc = "saveCursor" /\ y.mode = "replay" /\ y.ints = x.ints /\ y.ev = x.ev
        /\ y.progress = x.progress /\ y.term = x.term
    BY <1>1 DEF Moved, Advancing, Executions
  <2> HIDE DEF y, x
  <2>2. Calm(p, y)
    BY <1>1, <1>2, <2>1 DEF Fine, Calm, Owns, OwningSteps
  <2>3. x.mode \in {"none", "replay"}
    BY <1>1 DEF Ready, ModesAt
  <2>4. Batching(p, y)
    BY <1>1, <1>2, <2>1, <2>3
       DEF Fine, Batching, Announcing, PlainModes, ObserveModes, BatchModes
  <2> QED BY <2>2, <2>4 DEF Fine
<1> QED BY <1>1, <1>3, <1>4, <1>5, <1>6 DEF Undisturbs, Undisturbed

LEMMA SaveCursorUndisturbed ==
  ASSUME Undisturbed, Agree, Local, Claims, NEW p \in Invocations, SaveCursor(p)
  PROVE  Undisturbs(p)
<1> DEFINE x == ex[p]
           rec == Keeping(x, NoEvent, "none")
           z == Saved(x, rec)
           y == IF x.more THEN Moved(z, "reconcile") ELSE Reconciled(p, z)
<1>1. x.pc = "saveCursor" /\ Ready(x) /\ x \in Executions /\ Fit(x) /\ Fine(p, x)
      /\ x.result = "none" /\ ~x.sinkFailure
  BY SaveCursorEffect DEF Local, Undisturbed, Ready
<1>2. x.mode = "replay" /\ Owns(x)
  BY <1>1 DEF Ready, ModesAt, Owns, OwningSteps
<1>3. \/ head' = head /\ \E w : Becomes(p, w) /\ Fails(p, x, w)
      \/ Wrote(rec) /\ Becomes(p, y)
  BY SaveCursorEffect
<1>4. ASSUME head' = head, NEW w, Becomes(p, w), Fails(p, x, w)
      PROVE  Undisturbs(p)
  BY <1>1, <1>2, <1>4, FailersAreFine DEF Undisturbs, Undisturbed
<1>5. ASSUME Wrote(rec), Becomes(p, y)
      PROVE  Undisturbs(p)
  <2>1. PICK n \in Nat : Agreement(n)
    BY DEF Agree
  <2>2. /\ rec \in Records /\ SameBut(rec, x.ckpt) /\ rec.owner = x.ckpt.owner
        /\ rec.status = "running" /\ Payload(x, rec.body, NoEvent, "none")
    BY <1>1, NoEventType, KeepingEffect
  <2> HIDE DEF rec
  <2>3. /\ head'.status = rec.status /\ head'.body = rec.body
        /\ InStep(x, head.body, journal, delivered, n)
    BY <1>1, <1>2, <1>5, <2>1, <2>2, WritersHold
  <2>4. x.progress # NoProgress => x.progress.first + x.progress.next = x.cursor + 1
    BY <1>1, <1>2, <2>3 DEF InStep, OnBatch
  <2>5. Resumable(head')
    BY <1>1, <1>2, <2>2, <2>3, <2>4, NoEventType, KeepingResumable DEF Fine, Announcing
  <2>6. /\ z \in Executions /\ Fit(z) /\ Fine(p, z) /\ Owns(z) /\ z.pc = "saveCursor"
        /\ z.result = "none" /\ ~z.sinkFailure /\ z.mode = "replay"
    BY <1>1, <1>2, <2>2, SavedIsFine
  <2> HIDE DEF z
  <2>7. ASSUME y = Moved(z, "reconcile")
        PROVE  Fine(p, y)
    <3>1. /\ y.ckpt = z.ckpt /\ y.cause = z.cause /\ y.leaseDown = z.leaseDown
          /\ y.pc = "reconcile" /\ y.mode = z.mode /\ y.ints = z.ints /\ y.ev = z.ev
          /\ y.progress = z.progress /\ y.term = z.term
      BY <2>6, <2>7 DEF Moved, Executions
    <3> HIDE DEF y
    <3>2. Calm(p, y)
      BY <2>6, <3>1 DEF Fine, Calm, Owns, OwningSteps
    <3>3. Batching(p, y)
      BY <2>6, <3>1 DEF Fine, Batching, Announcing, PlainModes
    <3> QED BY <3>2, <3>3 DEF Fine
  <2>8. Fine(p, Reconciled(p, z))
    BY <2>6, ReconciledIsFine
  <2>9. Fine(p, y)
    BY <2>7, <2>8
  <2> QED BY <1>5, <2>5, <2>9 DEF Undisturbs
<1> QED BY <1>3, <1>4, <1>5

LEMMA ReleaseUndisturbed ==
  ASSUME Undisturbed, Local, Claims, NEW p \in Invocations, ReleaseLease(p)
  PROVE  Undisturbs(p)
<1> DEFINE x == ex[p]
           rec == Released(x.ckpt)
<1>1. /\ x.pc = "release" /\ x \in Executions /\ Fine(p, x) /\ head \in Records
      /\ Becomes(p, Over(x, "end", "error")) /\ Quits(x, Over(x, "end", "error"))
  BY ReleaseEffect DEF Local, Undisturbed, Claims, Claimable
<1>2. Fine(p, Over(x, "end", "error"))
  BY <1>1, QuittersAreFine
<1>3. \/ head' = head
      \/ /\ Wrote(rec) /\ x.ckpt.version > 0 /\ rec.body = x.ckpt.body
         /\ rec.status = x.ckpt.status /\ SameBut(rec, x.ckpt)
  BY ReleaseEffect
<1>4. ASSUME Wrote(rec), x.ckpt.version > 0, rec.body = x.ckpt.body,
             rec.status = x.ckpt.status, SameBut(rec, x.ckpt)
      PROVE  Resumable(head')
  <2>1. Owns(x)
    <3>1. x.mode # "hook"
      BY <1>1, <1>4 DEF Local, Sound, Fit, Absent
    <3> QED BY <1>1, <3>1 DEF Owns, OwningSteps
  <2>2. head.body = x.ckpt.body /\ head.status = x.ckpt.status /\ Exists(head)
    BY <1>4, <2>1, HoldersAreCurrent DEF Wrote, SameBut
  <2>3. x.ckpt.status = "running"
    BY <1>1, <2>1 DEF Fine, Calm
  <2>4. head'.status = head.status /\ head'.body = head.body
    BY <1>4, <2>2 DEF Wrote, Written, Records
  <2>5. Resumable(head)
    BY DEF Undisturbed
  <2> QED BY <2>2, <2>3, <2>4, <2>5
          DEF Resumable, validInterruptProgress, checkpointTerminal, TerminalStatuses
<1> QED BY <1>1, <1>2, <1>3, <1>4 DEF Undisturbs, Undisturbed

(* From its work the invocation announces an event of its own.             *)
LEMMA WorkUndisturbed ==
  ASSUME Undisturbed, Local, NEW p \in Invocations, ex[p].pc = "work",
         \/ StartNode(p) \/ EmitCustom(p) \/ CommitActivation(p)
         \/ \E ids \in SUBSET InterruptIDs : Interrupt(p, ids)
         \/ NodeFails(p) \/ WorkFails(p) \/ Complete(p)
  PROVE  Undisturbs(p)
<1> DEFINE x == ex[p]
<1>1. Ready(x) /\ head' = head /\ x \in Executions /\ Fine(p, x)
  BY WorkEffect DEF Local, Undisturbed
<1>2. Owns(x)
  BY <1>1 DEF Ready, ModesAt, Owns, OwningSteps
<1>3. PICK y :
        /\ Becomes(p, y)
        /\ \/ Quits(x, y)
           \/ Ends(p, x, y)
           \/ y = Saving(Starting(x), "step", Stamp(p, x, "nodeStarted"))
           \/ y = Appending(x, "observe", Stamp(p, x, "custom"))
           \/ y = Saving(Completing(x), "step", Stamp(p, x, "nodeCompleted"))
           \/ \E ids \in SUBSET InterruptIDs :
                /\ ids # {}
                /\ y = Saving(Raising(x, p, ids), "interrupt",
                              BatchEvent(Raising(x, p, ids).progress, ids, 0))
           \/ y = Appending(Failing(x), "nodeFailed", Stamp(p, x, "nodeFailed"))
  BY WorkEffect
<1>4. /\ x.progress = NoProgress /\ x.ints = {}
      /\ x.ckpt.owner = p /\ x.ckpt.status = "running"
      /\ x.cause # "none" => x.cause = "lease" /\ x.leaseDown
  BY <1>1, <1>2, CalmOwners DEF Fine, Batching, LeaseCause
<1>5. ASSUME y.ckpt = x.ckpt, y.cause = x.cause, y.leaseDown = x.leaseDown,
             y.pc \in OwningSteps, y.mode # "hook"
      PROVE  Calm(p, y)
  BY <1>4, <1>5 DEF Calm, Owns
<1>6. ASSUME y.ckpt = x.ckpt, y.cause = x.cause, y.leaseDown = x.leaseDown,
             y.pc \in {"savePending", "append"}, y.mode \in {"step", "observe", "nodeFailed"},
             y.ints = x.ints, y.progress = x.progress, y.ev.by = p,
             y.ev.type \notin InterruptTypes \cup {"hook"}
      PROVE  Fine(p, y)
  BY <1>4, <1>5, <1>6 DEF Fine, Batching, Announces, Announcing, OwningSteps, BatchModes
<1>7. \A type : Stamp(p, x, type).type = type /\ Stamp(p, x, type).by = p
  BY DEF Stamp
<1>8. CASE Quits(x, y)
  <2>1. Fine(p, y)
    BY <1>1, <1>8, QuittersAreFine
  <2> QED BY <1>1, <1>3, <2>1 DEF Undisturbs, Undisturbed
<1>9. CASE Ends(p, x, y)
  <2>1. Fine(p, y)
    BY <1>1, <1>2, <1>9, EndersAreFine
  <2> QED BY <1>1, <1>3, <2>1 DEF Undisturbs, Undisturbed
<1>10. CASE \/ y = Saving(Starting(x), "step", Stamp(p, x, "nodeStarted"))
            \/ y = Appending(x, "observe", Stamp(p, x, "custom"))
            \/ y = Saving(Completing(x), "step", Stamp(p, x, "nodeCompleted"))
            \/ y = Appending(Failing(x), "nodeFailed", Stamp(p, x, "nodeFailed"))
  <2>1. /\ y.ckpt = x.ckpt /\ y.cause = x.cause /\ y.leaseDown = x.leaseDown
        /\ y.pc \in {"savePending", "append"} /\ y.mode \in {"step", "observe", "nodeFailed"}
        /\ y.ints = x.ints /\ y.progress = x.progress
    BY <1>1, <1>10 DEF Saving, Appending, Starting, Completing, Failing, Executions
  <2>2. \E type \in {"nodeStarted", "custom", "nodeCompleted", "nodeFailed"} :
          y.ev = Stamp(p, x, type)
    BY <1>1, <1>10 DEF Saving, Appending, Starting, Completing, Failing, Executions
  <2>3. y.ev.by = p /\ y.ev.type \notin InterruptTypes \cup {"hook"}
    BY <1>7, <2>2 DEF InterruptTypes
  <2>4. Fine(p, y)
    BY <1>6, <2>1, <2>3
  <2> QED BY <1>1, <1>3, <2>4 DEF Undisturbs, Undisturbed
<1>11. ASSUME NEW ids \in SUBSET InterruptIDs, ids # {},
              y = Saving(Raising(x, p, ids), "interrupt",
                         BatchEvent(Raising(x, p, ids).progress, ids, 0))
       PROVE  Undisturbs(p)
  <2> DEFINE progress == [first |-> x.seq + 1, next |-> 0, by |-> p]
  <2>1. /\ y.ckpt = x.ckpt /\ y.cause = x.cause /\ y.leaseDown = x.leaseDown
        /\ y.pc = "savePending" /\ y.mode = "interrupt" /\ y.ints = ids
        /\ y.progress = progress /\ y.ev = BatchEvent(progress, ids, 0)
    BY <1>1, <1>11 DEF Saving, Raising, Executions
  <2>2. /\ progress # NoProgress /\ progress.first > 0 /\ progress.next = 0
        /\ 0 < BatchSize(ids) /\ 0 <= BatchSize(ids)
    <3>1. Cardinality(ids) \in Nat /\ x.seq \in Nat
      BY <1>1, RunAssumption, FS_Subset, FS_CardinalityType DEF Executions
    <3> QED BY <3>1 DEF NoProgress, BatchSize
  <2> HIDE DEF progress
  <2>3. Announces(p, y)
    BY <2>1, <2>2 DEF Announces
  <2>4. Fine(p, y)
    BY <1>5, <1>11, <2>1, <2>2, <2>3
       DEF Fine, Batching, Announcing, OwningSteps, BatchModes, PlainModes, ObserveModes
  <2> QED BY <1>1, <1>3, <2>4 DEF Undisturbs, Undisturbed
<1> QED BY <1>3, <1>8, <1>9, <1>10, <1>11

LEMMA HeartbeatUndisturbed ==
  ASSUME Undisturbed, Local, NEW p \in Invocations, NEW faulty, HeartbeatFails(p, faulty)
  PROVE  Undisturbs(p)
<1> DEFINE x == ex[p]
<1>1. Active(p) /\ x.heartbeat = "on" /\ head' = head /\ x \in Executions /\ Fine(p, x)
  BY HeartbeatEffect DEF Local, Undisturbed
<1>2. PICK y : /\ Becomes(p, y) /\ Notified(x, y) /\ y.leaseDown
               /\ y.cause = IF x.cause = "none" THEN "lease" ELSE x.cause
  BY HeartbeatEffect
<1>3. /\ y.pc = x.pc /\ y.mode = x.mode /\ y.ckpt = x.ckpt /\ y.ints = x.ints
      /\ y.progress = x.progress /\ y.ev = x.ev /\ y.term = x.term
  BY ZenonT(60), <1>1, <1>2 DEF Notified, Executions
<1>4. x.pc # "release" => Owns(x)
  BY <1>1 DEF Fine, Calm, Active
<1>5. Calm(p, y)
  BY <1>1, <1>2, <1>3, <1>4 DEF Fine, Calm, Owns
<1>6. Announces(p, x) <=> Announces(p, y)
  BY <1>3 DEF Announces
<1>7. Batching(p, y)
  BY <1>1, <1>3, <1>6 DEF Fine, Batching, Owns
<1> QED BY <1>1, <1>2, <1>5, <1>7 DEF Fine, Undisturbs, Undisturbed

LEMMA QuitUndisturbed ==
  ASSUME Undisturbed, NEW p \in Invocations, head' = head,
         NEW y, Becomes(p, y), Quits(ex[p], y)
  PROVE  Undisturbs(p)
<1>1. Fine(p, y)
  BY QuittersAreFine DEF Undisturbed
<1> QED BY <1>1 DEF Undisturbs, Undisturbed

LEMMA StoreFaultUndisturbed ==
  ASSUME Undisturbed, Local, NEW p \in Invocations, StoreFault(p)
  PROVE  Undisturbs(p)
<1> DEFINE x == ex[p]
<1>1. head' = head
  BY StoreFaultEffect
<1>2. PICK y :
        /\ Becomes(p, y)
        /\ \/ Quits(x, y)
           \/ /\ x.pc \in {"savePending", "confirm", "interrupt", "saveCursor"}
              /\ Ready(x) /\ Fails(p, x, y)
  BY StoreFaultEffect
<1>3. CASE Quits(x, y)
  BY <1>1, <1>2, <1>3, QuitUndisturbed
<1>4. CASE /\ x.pc \in {"savePending", "confirm", "interrupt", "saveCursor"}
           /\ Ready(x) /\ Fails(p, x, y)
  <2>1. Owns(x) /\ x.pc # "release"
    BY <1>4, OwnersOwn
  <2>2. Quits(x, y)
    BY <1>4, <2>1, FailersAreFine DEF Undisturbed
  <2> QED BY <1>1, <1>2, <2>2, QuitUndisturbed
<1> QED BY <1>2, <1>3, <1>4

LEMMA ActsUndisturbed ==
  ASSUME CancelCauses = {}, Undisturbed, Agree, Local, Claims, NEW p \in Invocations, Acts(p)
  PROVE  Undisturbs(p)
<1>1. CASE Step(p)
  <2>1. CASE \/ StartNode(p) \/ EmitCustom(p) \/ CommitActivation(p)
             \/ \E ids \in SUBSET InterruptIDs : Interrupt(p, ids)
             \/ NodeFails(p) \/ WorkFails(p) \/ Complete(p)
    <3>1. ex[p].pc = "work"
      BY <2>1 DEF StartNode, EmitCustom, CommitActivation, Interrupt, NodeFails, WorkFails,
                  Complete, Works, At
    <3> QED BY <2>1, <3>1, WorkUndisturbed
  <2>3. CASE Create(p)
    BY <2>3, CreateUndisturbed
  <2>4. CASE \E res \in Resolutions : Claim(p, res)
    BY <2>4, ClaimUndisturbed
  <2>5. CASE SavePending(p)
    BY <2>5, SavePendingUndisturbed
  <2>6. CASE AppendEvent(p)
    BY <2>6, AppendUndisturbed
  <2>7. CASE Deliver(p)
    BY <2>7, DeliverUndisturbed
  <2>8. CASE Confirm(p)
    BY <2>8, ConfirmUndisturbed
  <2>9. CASE InterruptCheckpoint(p)
    BY <2>9, InterruptUndisturbed
  <2>10. CASE FinishCheckpoint(p)
    BY <2>10, FinishUndisturbed
  <2>11. CASE \E k \in 0..PageSize : Redeliver(p, k)
    BY <2>11, RedeliverUndisturbed
  <2>12. CASE SaveCursor(p)
    BY <2>12, SaveCursorUndisturbed
  <2>13. CASE ReleaseLease(p)
    BY <2>13, ReleaseUndisturbed
  <2> QED BY <1>1, <2>1, <2>3, <2>4, <2>5, <2>6, <2>7, <2>8, <2>9, <2>10, <2>11, <2>12, <2>13
          DEF Step
<1>2. CASE Hook(p)
  BY <1>2, HookUndisturbed
<1>3. CASE Load(p)
  BY <1>3, LoadUndisturbed
<1>4. CASE \E faulty \in BOOLEAN : HeartbeatFails(p, faulty)
  BY <1>4, HeartbeatUndisturbed
<1>5. CASE StoreFault(p)
  BY <1>5, StoreFaultUndisturbed
<1>6. CASE SinkRefuses(p)
  BY <1>6, SinkRefusesEffect, QuitUndisturbed
<1>7. CASE Crash(p)
  BY <1>7, CrashEffect, QuitUndisturbed
<1> QED BY <1>1, <1>2, <1>3, <1>4, <1>5, <1>6, <1>7 DEF Acts

LEMMA UndisturbedSteps ==
  ASSUME CancelCauses = {}, Undisturbed, Agree, Local, Claims, [Next]_vars
  PROVE  Undisturbed'
<1>1. CASE Expire
  BY <1>1, ExpireUndisturbed
<1>2. ASSUME NEW p \in Invocations, Acts(p)
      PROVE  Undisturbed'
  BY <1>2, ActsUndisturbed, StaysUndisturbed
<1>3. CASE UNCHANGED vars
  BY <1>3 DEF vars, Undisturbed
<1> QED BY <1>1, <1>2, <1>3, NextActs

-----------------------------------------------------------------------------
(* The resolutions: only a claim sets them, and only an interrupted run's. *)

Resolves ==
  /\ head.status = "interrupted" /\ head' # head =>
       /\ head'.claim = head.claim + 1
       /\ DOMAIN head'.body.resolved = head.body.ints
       /\ head'.body.ints = {}
  /\ head.status # "interrupted" => head'.body.resolved = head.body.resolved

LEMMA WritersKeepResolved ==
  ASSUME Undisturbed, Local, Claims, NEW p \in Invocations, Owns(ex[p]), NEW rec, Wrote(rec),
         SameBut(rec, ex[p].ckpt), rec.body.resolved = ex[p].ckpt.body.resolved
  PROVE  Resolves
<1>1. head.body = ex[p].ckpt.body /\ head.status = ex[p].ckpt.status
  BY HoldersAreCurrent DEF Wrote, SameBut
<1>2. head.status = "running"
  BY <1>1 DEF Undisturbed, Fine, Calm
<1>3. head'.body = rec.body
  BY DEF Wrote, Written, Records
<1> QED BY <1>1, <1>2, <1>3 DEF Resolves

LEMMA ClaimResolves ==
  ASSUME Undisturbed, Local, Claims, NEW p \in Invocations, NEW res \in Resolutions,
         Claim(p, res)
  PROVE  Resolves
<1> DEFINE x == ex[p]
           rec == Candidate(p, x.ckpt, res)
<1>1. x.pc = "claim" /\ x \in Executions /\ Sound(x) /\ head \in Records
  BY ClaimEffect DEF Local, Claims, Claimable
<1>2. \/ head' = head
      \/ /\ ResolutionsAccepted(x.ckpt, res)
         /\ ClaimOutcome(head, rec, 0) = "ok"
         /\ head' = [rec EXCEPT !.version = @ + 1]
  BY <1>1, ClaimEffect
<1>3. CASE head' = head
  BY <1>3 DEF Resolves
<1>4. CASE /\ ResolutionsAccepted(x.ckpt, res)
           /\ ClaimOutcome(head, rec, 0) = "ok"
           /\ head' = [rec EXCEPT !.version = @ + 1]
  <2>1. /\ rec \in Records /\ rec.version = x.ckpt.version /\ rec.owner = p
        /\ rec.status = "running" /\ rec.body = ClaimedBody(x.ckpt, res)
        /\ rec.claim = x.ckpt.claim + 1
    BY <1>1, CandidateType DEF Executions
  <2>2. x.ckpt.version = head.version
    BY <1>4, <2>1 DEF ClaimOutcome
  <2>3. SameRecord(head, x.ckpt)
    BY <1>1, <2>2 DEF Claims, Entitled, OwningSteps
  <2>4. head.status = x.ckpt.status /\ head.body = x.ckpt.body /\ head.claim = x.ckpt.claim
    BY <1>1, <2>3 DEF SameRecord, Executions, Records
  <2> HIDE DEF rec
  <2>5. head'.claim = head.claim + 1 /\ head'.body = ClaimedBody(x.ckpt, res)
    BY <1>4, <2>1, <2>4 DEF Records
  <2>6. CASE head.status = "interrupted"
    <3>1. head'.body.ints = {} /\ head'.body.resolved = res
      BY <1>1, <2>4, <2>5, <2>6 DEF ClaimedBody, Executions, Records, Bodies
    <3>2. DOMAIN res = head.body.ints
      BY <1>4, <2>4, <2>6 DEF ResolutionsAccepted
    <3> QED BY <2>5, <2>6, <3>1, <3>2 DEF Resolves
  <2>7. CASE head.status # "interrupted"
    <3>1. head'.body.resolved = head.body.resolved
      BY <1>1, <2>4, <2>5, <2>7 DEF ClaimedBody, Executions, Records, Bodies
    <3> QED BY <2>7, <3>1 DEF Resolves
  <2> QED BY <2>6, <2>7
<1> QED BY <1>2, <1>3, <1>4

LEMMA ActsResolve ==
  ASSUME Undisturbed, Agree, Local, Claims, NEW p \in Invocations, Acts(p)
  PROVE  Resolves
<1> DEFINE x == ex[p]
<1>1. head' = head => Resolves
  BY DEF Resolves
<1>2. x \in Executions /\ Sound(x)
  BY DEF Local
<1>3. CASE Step(p)
  <2>1. CASE Create(p)
    <3>1. head' = head \/ (~Exists(head) /\ head' = NewRecord(p))
      BY <2>1, CreateEffect
    <3>2. ~Exists(head) => head = Absent
      BY DEF Claims, Claimable, Exists, Records
    <3>3. Absent.status = "running" /\ Absent.body = EmptyBody
      BY DEF Absent
    <3> QED BY <1>1, <3>1, <3>2, <3>3, NewRecordType DEF Resolves
  <2>2. CASE \E res \in Resolutions : Claim(p, res)
    BY <2>2, ClaimResolves
  <2>3. CASE SavePending(p)
    <3> DEFINE rec == Keeping(x, x.ev, PendingTerm(x))
    <3>1. x.pc = "savePending" /\ Ready(x) /\ (head' = head \/ Wrote(rec))
      BY <2>3, SavePendingEffect
    <3>2. x.ev \in Events /\ PendingTerm(x) \in Terms
      BY <1>2, NoEventType DEF Executions, PendingTerm
    <3>3. SameBut(rec, x.ckpt) /\ rec.body.resolved = x.ckpt.body.resolved
      BY <1>2, <3>2, KeepingEffect DEF Payload
    <3> HIDE DEF rec
    <3> QED BY <1>1, <3>1, <3>3, OwnersOwn, WritersKeepResolved
  <2>4. CASE Confirm(p)
    <3> DEFINE rec == Keeping(x, NoEvent, "none")
    <3>1. x.pc = "confirm" /\ Ready(x) /\ (head' = head \/ Wrote(rec))
      BY <2>4, ConfirmEffect
    <3>2. SameBut(rec, x.ckpt) /\ rec.body.resolved = x.ckpt.body.resolved
      BY <1>2, NoEventType, KeepingEffect DEF Payload
    <3> HIDE DEF rec
    <3> QED BY <1>1, <3>1, <3>2, OwnersOwn, WritersKeepResolved
  <2>5. CASE InterruptCheckpoint(p)
    <3> DEFINE s == Suspended(x)
               rec == Closing(s, "interrupted")
    <3>1. x.pc = "interrupt" /\ Ready(x) /\ (head' = head \/ Wrote(rec))
      BY <2>5, InterruptEffect
    <3>2. s \in Executions /\ s.ckpt = x.ckpt
      BY <1>2, SuspendedFit DEF Sound
    <3> HIDE DEF s
    <3>3. SameBut(rec, x.ckpt) /\ rec.body.resolved = x.ckpt.body.resolved
      BY <3>2, ClosingEffect DEF Payload, Statuses
    <3> HIDE DEF rec
    <3> QED BY <1>1, <3>1, <3>3, OwnersOwn, WritersKeepResolved
  <2>6. CASE FinishCheckpoint(p)
    <3> DEFINE rec == Closing(x, x.term)
    <3>1. /\ x.pc = "finish" /\ Ready(x)
          /\ head' = head \/ (Wrote(rec) /\ x.term \in TerminalStatuses)
      BY <2>6, FinishEffect
    <3>2. x.term \in TerminalStatuses =>
            SameBut(rec, x.ckpt) /\ rec.body.resolved = x.ckpt.body.resolved
      BY <1>2, ClosingEffect DEF Payload, Statuses
    <3> HIDE DEF rec
    <3> QED BY <1>1, <3>1, <3>2, OwnersOwn, WritersKeepResolved
  <2>7. CASE SaveCursor(p)
    <3> DEFINE rec == Keeping(x, NoEvent, "none")
    <3>1. x.pc = "saveCursor" /\ Ready(x) /\ (head' = head \/ Wrote(rec))
      BY <2>7, SaveCursorEffect
    <3>2. SameBut(rec, x.ckpt) /\ rec.body.resolved = x.ckpt.body.resolved
      BY <1>2, NoEventType, KeepingEffect DEF Payload
    <3> HIDE DEF rec
    <3> QED BY <1>1, <3>1, <3>2, OwnersOwn, WritersKeepResolved
  <2>8. CASE ReleaseLease(p)
    <3> DEFINE rec == Released(x.ckpt)
    <3>1. /\ x.pc = "release"
          /\ \/ head' = head
             \/ /\ Wrote(rec) /\ x.ckpt.version > 0
                /\ rec.body = x.ckpt.body /\ SameBut(rec, x.ckpt)
      BY <2>8, ReleaseEffect
    <3>2. x.ckpt.version > 0 => Owns(x)
      BY <1>2, <3>1 DEF Sound, Fit, Absent, Owns, OwningSteps
    <3> HIDE DEF rec
    <3> QED BY <1>1, <3>1, <3>2, WritersKeepResolved
  <2>9. CASE AppendEvent(p) \/ Deliver(p) \/ \E k \in 0..PageSize : Redeliver(p, k)
    BY <1>1, <2>9, AppendEffect, DeliverEffect, RedeliverEffect
  <2>10. CASE \/ StartNode(p) \/ EmitCustom(p) \/ CommitActivation(p)
              \/ \E ids \in SUBSET InterruptIDs : Interrupt(p, ids)
              \/ NodeFails(p) \/ WorkFails(p) \/ Complete(p)
    <3>1. head' = head
      BY <2>10 DEF StartNode, EmitCustom, CommitActivation, Interrupt, NodeFails, WorkFails,
                   Complete, Works
    <3> QED BY <1>1, <3>1
  <2> QED BY <1>3, <2>1, <2>2, <2>3, <2>4, <2>5, <2>6, <2>7, <2>8, <2>9, <2>10 DEF Step
<1>4. CASE \/ Hook(p) \/ Load(p) \/ \E faulty \in BOOLEAN : HeartbeatFails(p, faulty)
           \/ StoreFault(p) \/ SinkRefuses(p) \/ \E why \in CancelCauses : CancelRun(p, why)
           \/ Crash(p)
  <2>1. head' = head
    BY <1>4 DEF Hook, Load, HeartbeatFails, StoreFault, SinkRefuses, CancelRun, Crash
  <2> QED BY <1>1, <2>1
<1> QED BY <1>3, <1>4 DEF Acts

LEMMA ResolvingSteps ==
  ASSUME Undisturbed, Agree, Local, Claims, [Next]_vars
  PROVE  [Resolves]_vars
<1>1. CASE Expire
  <2>1. head.status # "interrupted"
    <3>1. Exists(head)
      BY <1>1 DEF Expire, Claims, Claimable, Exists, Records, Absent
    <3> QED BY <1>1, <3>1
            DEF Expire, Undisturbed, Resumable, checkpointTerminal, TerminalStatuses
  <2>2. head'.body = head.body
    BY <1>1 DEF Expire, Claims, Claimable, Records
  <2> QED BY <2>1, <2>2 DEF Resolves
<1>2. ASSUME NEW p \in Invocations, Acts(p)
      PROVE  Resolves
  BY <1>2, ActsResolve
<1> QED BY <1>1, <1>2, NextActs

-----------------------------------------------------------------------------
(* The journal of a run that nobody cancels tells batches whole and claims *)
(* in order.  Only holders append, so again it suffices to say what the    *)
(* journal's last event leaves open to the checkpoint h and to its holder. *)

(* q was granted a claim, and X says which.                                *)
Stamper(q, h, X) ==
  /\ q \in Invocations /\ X[q].pc \notin {"idle", "claim"}
  /\ X[q].ckpt.claim \in 1..h.claim

(* An event q stamped may come next.                                       *)
Follows(q, h, j, X, n) ==
  /\ Stamper(q, h, X)
  /\ n > 0 /\ j[n].type # "hook" => X[j[n].by].ckpt.claim <= X[q].ckpt.claim

(* The batch has got as far as the journal says.                           *)
Recorded(progress, ints, cursor, j) ==
  progress # NoProgress /\ progress.next > 0 =>
    j[cursor] = BatchEvent(progress, ints, progress.next - 1)

(* After an interrupt's event only its batch goes on, after the workflow's *)
(* nothing does, before the next claim.                                    *)
LastOf(h, j, X, n) ==
  n > 0 =>
    /\ h.body.pending # NoEvent /\ h.body.cursor = n => j[n].type # "interrupted"
    /\ j[n].type = "guardInterrupted" => h.body.progress # NoProgress
    /\ j[n].type = "interrupted" =>
         \/ h.body.progress # NoProgress \/ h.status = "interrupted"
         \/ X[j[n].by].ckpt.claim < h.claim

HeadContinues(h, j, X, n) ==
  LET b == h.body IN
  /\ Recorded(b.progress, b.ints, b.cursor, j)
  /\ LastOf(h, j, X, n)
  /\ b.pending # NoEvent => Follows(b.pending.by, h, j, X, n) /\ b.pending.type # "none"
  /\ b.progress # NoProgress => Follows(b.progress.by, h, j, X, n)

HolderContinues(x, h, j, X, n) ==
  /\ Recorded(x.progress, x.ints, x.cursor, j)
  /\ h.body.progress # NoProgress => x.progress # NoProgress
  /\ x.progress # NoProgress /\ x.pc # "savePending" => h.body.progress # NoProgress
  /\ x.pc \in {"savePending", "work"} /\ n > 0 => j[n].type # "interrupted"
  /\ x.progress # NoProgress => Follows(x.progress.by, h, j, X, n)
  /\ x.pc \in Announcing => x.ev.type # "none"

Stamped(h, j, X, n) ==
  \A s \in 1..n : IF j[s].type = "hook" THEN s = 1 ELSE Stamper(j[s].by, h, X)

(* What BatchesAreWhole says of two events in a row.                       *)
InARow(this, next, X) ==
  /\ this.type = "guardInterrupted" => next.type \in InterruptTypes
  /\ next.type = "interrupted" => this.type = "guardInterrupted"
  /\ this.type = "interrupted" => X[this.by].ckpt.claim < X[next.by].ckpt.claim
  /\ this.type # "hook" => X[this.by].ckpt.claim <= X[next.by].ckpt.claim

Whole(j, X, n) == \A s \in 1..(n - 1) : InARow(j[s], j[s + 1], X)

Tale(h, j, X, n) ==
  /\ HeadContinues(h, j, X, n)
  /\ \A p \in Invocations : Holds(X[p], h) => HolderContinues(X[p], h, j, X, n)
  /\ Stamped(h, j, X, n)
  /\ Whole(j, X, n)

Story == \E n \in Nat : DOMAIN journal = 1..n /\ Tale(head, journal, ex, n)

-----------------------------------------------------------------------------
(* What a step leaves of that.                                             *)

(* An execution that was granted a claim keeps it.                         *)
Stays(x, y) ==
  x.pc \notin {"idle", "claim"} /\ x.ckpt.claim > 0 =>
    y.pc \notin {"idle", "claim"} /\ y.ckpt.claim = x.ckpt.claim

Stayed(h, X, g, Y) ==
  \A q : Stamper(q, h, X) => Stamper(q, g, Y) /\ Y[q].ckpt.claim = X[q].ckpt.claim

LEMMA QuittersStay ==
  ASSUME NEW x, Sound(x), x.ckpt.claim \in Nat, NEW y, Quits(x, y),
         x.pc \notin {"end", "crashed"}
  PROVE  Stays(x, y)
<1>1. x.pc = "create" => x.ckpt.claim = 0
  BY DEF Sound, Placed, Fit, ModesAt, Absent
<1>2. x.pc \in OwningSteps \cup {"idle", "create", "claim", "end", "crashed"}
  BY DEF Sound, Fit, Executions, AllSteps
<1>3. y.pc \notin {"idle", "claim"}
  BY DEF Quits
<1>4. x.pc \in OwningSteps => y.ckpt.claim = x.ckpt.claim
  BY DEF Quits
<1> QED BY <1>1, <1>2, <1>3, <1>4 DEF Stays

LEMMA LeaversStay ==
  ASSUME NEW x, NEW y, NEW result, Leaves(x, y, result), x.ckpt.claim \in Nat
  PROVE  Stays(x, y)
BY DEF Leaves, Stays, Absent

(* A claim once granted is not exchanged for another.                       *)
LEMMA StampersStay ==
  ASSUME Local, NEW p \in Invocations, NEW y, Becomes(p, y), Stays(ex[p], y),
         NEW h, NEW g, h.claim \in Nat, g.claim \in Nat, h.claim <= g.claim
  PROVE  Stayed(h, ex, g, ex')
<1> SUFFICES ASSUME NEW q, Stamper(q, h, ex)
             PROVE  Stamper(q, g, ex') /\ ex'[q].ckpt.claim = ex[q].ckpt.claim
  BY DEF Stayed
<1>1. /\ q \in Invocations /\ ex[q].pc \notin {"idle", "claim"}
      /\ ex[q].ckpt.claim \in 1..h.claim
  BY DEF Stamper
<1>2. ex'[p] = y /\ \A r \in Invocations \ {p} : ex'[r] = ex[r]
  BY LocalStep
<1>3. ex'[q].pc \notin {"idle", "claim"} /\ ex'[q].ckpt.claim = ex[q].ckpt.claim
  BY <1>1, <1>2 DEF Stays
<1> QED BY <1>1, <1>3 DEF Stamper

(* The tale is about the claims alone: it does not mind another step of    *)
(* those who hold them.                                                    *)
LEMMA FollowersStay ==
  ASSUME NEW h, NEW j, NEW X, NEW g, NEW Y, Stayed(h, X, g, Y), NEW n \in Nat,
         NEW q, Follows(q, h, j, X, n),
         n > 0 /\ j[n].type # "hook" => Stamper(j[n].by, h, X)
  PROVE  Follows(q, g, j, Y, n)
<1>1. Stamper(q, h, X)
  BY DEF Follows
<1> QED BY <1>1 DEF Follows, Stayed

LEMMA RestStays ==
  ASSUME NEW h, NEW j, NEW X, NEW Y, Stayed(h, X, h, Y), NEW n \in Nat,
         Stamped(h, j, X, n)
  PROVE  /\ Stamped(h, j, Y, n)
         /\ Whole(j, X, n) => Whole(j, Y, n)
         /\ HeadContinues(h, j, X, n) => HeadContinues(h, j, Y, n)
         /\ \A x : HolderContinues(x, h, j, X, n) => HolderContinues(x, h, j, Y, n)
<1>1. \A s \in 1..n : j[s].type # "hook" => Stamper(j[s].by, h, X)
  BY DEF Stamped
<1>2. \A s \in 1..n : j[s].type # "hook" =>
        Stamper(j[s].by, h, Y) /\ Y[j[s].by].ckpt.claim = X[j[s].by].ckpt.claim
  BY <1>1 DEF Stayed
<1>3. Stamped(h, j, Y, n)
  BY <1>2 DEF Stamped
<1>4. ASSUME Whole(j, X, n)
      PROVE  Whole(j, Y, n)
  <2> SUFFICES ASSUME NEW s \in 1..(n - 1)
               PROVE  InARow(j[s], j[s + 1], Y)
    BY DEF Whole
  <2>1. s \in 1..n /\ s + 1 \in 1..n /\ s + 1 # 1
    OBVIOUS
  <2>2. InARow(j[s], j[s + 1], X)
    BY <1>4 DEF Whole
  <2>3. j[s + 1].type # "hook"
    BY <2>1 DEF Stamped
  <2>4. Y[j[s + 1].by].ckpt.claim = X[j[s + 1].by].ckpt.claim
    BY <1>2, <2>1, <2>3
  <2>5. j[s].type # "hook" => Y[j[s].by].ckpt.claim = X[j[s].by].ckpt.claim
    BY <1>2, <2>1
  <2> HIDE DEF Stayed
  <2> QED BY <2>2, <2>4, <2>5 DEF InARow
<1>5. n > 0 => n \in 1..n
  OBVIOUS
<1>6. \A q : Follows(q, h, j, X, n) => Follows(q, h, j, Y, n)
  BY <1>1, <1>5, FollowersStay
<1>7. LastOf(h, j, X, n) => LastOf(h, j, Y, n)
  BY <1>2, <1>5 DEF LastOf
<1>8. HeadContinues(h, j, X, n) => HeadContinues(h, j, Y, n)
  BY <1>6, <1>7 DEF HeadContinues
<1>9. \A x : HolderContinues(x, h, j, X, n) => HolderContinues(x, h, j, Y, n)
  BY <1>6 DEF HolderContinues
<1> QED BY <1>3, <1>4, <1>8, <1>9

(* A step that leaves the journal alone.                                   *)
LEMMA Retold ==
  ASSUME Local, Claims, NEW p \in Invocations, NEW y, Becomes(p, y), Stays(ex[p], y),
         head'.claim \in Nat, head.claim <= head'.claim, journal' = journal,
         NEW n \in Nat, DOMAIN journal = 1..n, Tale(head, journal, ex, n),
         HeadContinues(head', journal, ex, n),
         \A q \in Invocations \ {p} :
           Holds(ex[q], head') => HolderContinues(ex[q], head', journal, ex, n),
         Holds(y, head') => HolderContinues(y, head', journal, ex, n)
  PROVE  Story'
<1>1. head.claim \in Nat
  BY DEF Claims, Claimable, Records
<1>2. Stayed(head', ex, head', ex')
  BY StampersStay
<1>3. Stamped(head', journal, ex, n)
  <2>1. Stamped(head, journal, ex, n)
    BY DEF Tale
  <2>2. \A q : Stamper(q, head, ex) => Stamper(q, head', ex)
    BY <1>1 DEF Stamper
  <2> QED BY <2>1, <2>2 DEF Stamped
<1>4. Whole(journal, ex, n)
  BY DEF Tale
<1>5. /\ Stamped(head', journal, ex', n) /\ Whole(journal, ex', n)
      /\ HeadContinues(head', journal, ex', n)
      /\ \A x : HolderContinues(x, head', journal, ex, n) =>
                 HolderContinues(x, head', journal, ex', n)
  BY <1>2, <1>3, <1>4, RestStays
<1>6. ex'[p] = y /\ \A q \in Invocations \ {p} : ex'[q] = ex[q]
  BY LocalStep
<1>7. \A q \in Invocations : Holds(ex'[q], head') => HolderContinues(ex'[q], head', journal, ex', n)
  BY <1>5, <1>6
<1>8. Tale(head', journal', ex', n)
  BY <1>5, <1>7 DEF Tale
<1> QED BY <1>8 DEF Story

(* Neither the head nor the journal changes.                               *)
LEMMA QuietlyRetold ==
  ASSUME Local, Claims, NEW p \in Invocations, NEW y, Becomes(p, y), Stays(ex[p], y),
         UNCHANGED <<head, journal>>,
         NEW n \in Nat, DOMAIN journal = 1..n, Tale(head, journal, ex, n),
         Holds(y, head) => HolderContinues(y, head, journal, ex, n)
  PROVE  Story'
<1>1. head.claim \in Nat
  BY DEF Claims, Claimable, Records
<1>2. /\ HeadContinues(head, journal, ex, n)
      /\ \A q \in Invocations \ {p} :
           Holds(ex[q], head) => HolderContinues(ex[q], head, journal, ex, n)
  BY DEF Tale
<1> QED BY <1>1, <1>2, Retold

LEMMA QuitterRetold ==
  ASSUME Local, Claims, Story, NEW p \in Invocations, NEW y, Becomes(p, y), Quits(ex[p], y),
         ex[p].pc \notin {"end", "crashed"}, UNCHANGED <<head, journal>>
  PROVE  Story'
<1>1. PICK n \in Nat : DOMAIN journal = 1..n /\ Tale(head, journal, ex, n)
  BY DEF Story
<1>2. Stays(ex[p], y)
  BY QuittersStay DEF Local, Executions, Records
<1>3. ~Holds(y, head)
  BY DEF Quits, Holds, Owns, OwningSteps
<1> QED BY <1>1, <1>2, <1>3, QuietlyRetold

(* Nobody else holds the head that p writes, claims or creates.            *)
LEMMA WrittenRetold ==
  ASSUME Local, Claims, NEW p \in Invocations, NEW y, Becomes(p, y), Stays(ex[p], y),
         head'.claim \in Nat, journal' = journal,
         \/ Owns(ex[p]) /\ ex[p].ckpt.claim = head.claim /\ head'.claim = head.claim
         \/ head'.claim = head.claim + 1,
         NEW n \in Nat, DOMAIN journal = 1..n, Tale(head, journal, ex, n),
         HeadContinues(head', journal, ex, n),
         Holds(y, head') => HolderContinues(y, head', journal, ex, n)
  PROVE  Story'
<1>1. /\ head.claim \in Nat
      /\ \A q \in Invocations : ex[q].ckpt.claim \in Nat /\ ex[q].ckpt.claim <= head.claim
  BY DEF Claims, Claimable, Records, Entitled, Local, Executions
<1>2. ASSUME NEW q \in Invocations \ {p}
      PROVE  ~Holds(ex[q], head')
  BY <1>1, HoldersAreOne DEF Holds, Granted
<1> QED BY <1>1, <1>2, Retold

-----------------------------------------------------------------------------
(* The steps of the tale.                                                  *)

(* What is known where it begins.                                          *)
TaleOf(n) ==
  DOMAIN journal = 1..n /\ Agreement(n) /\ Tale(head, journal, ex, n)

LEMMA TalesAre ==
  ASSUME Story, Agree
  PROVE  \E n \in Nat : TaleOf(n)
<1>1. PICK n \in Nat : DOMAIN journal = 1..n /\ Tale(head, journal, ex, n)
  BY DEF Story
<1>2. PICK m \in Nat : Agreement(m)
  BY DEF Agree
<1>3. DOMAIN journal = 1..m
  BY <1>2 DEF Agreement, Kept
<1>4. m = n
  <2>1. Last = n
    BY <1>1, LastIs
  <2>2. Last = m
    BY <1>3, LastIs
  <2> QED BY <2>1, <2>2
<1> QED BY <1>1, <1>2, <1>4 DEF TaleOf

LEMMA HoldersTell ==
  ASSUME Undisturbed, Local, Claims, NEW n \in Nat, TaleOf(n), NEW p \in Invocations,
         Owns(ex[p]), ex[p].pc # "release", ex[p].ckpt.claim = head.claim
  PROVE  /\ HolderContinues(ex[p], head, journal, ex, n)
         /\ HeadContinues(head, journal, ex, n)
         /\ InStep(ex[p], head.body, journal, delivered, n)
         /\ HeadAgrees(head, journal, delivered, n)
         /\ head \in Records /\ Exists(head) /\ head.status = "running"
         /\ Fine(p, ex[p]) /\ validInterruptProgress(head)
         /\ Stamper(p, head, ex) /\ \A e : e.by = p => Follows(e.by, head, journal, ex, n)
<1>1. Holds(ex[p], head)
  BY DEF Holds
<1>2. HolderContinues(ex[p], head, journal, ex, n) /\ HeadContinues(head, journal, ex, n)
  BY <1>1 DEF TaleOf, Tale
<1>3. InStep(ex[p], head.body, journal, delivered, n) /\ HeadAgrees(head, journal, delivered, n)
  BY <1>1 DEF TaleOf, Agreement, HolderInStep
<1>4. Fine(p, ex[p]) /\ head \in Records
  BY DEF Undisturbed, Claims, Claimable
<1>5. Exists(head) /\ head.status = "running"
  BY <1>4, HoldersAreCurrent, CalmOwners DEF Fine
<1>6. validInterruptProgress(head)
  BY <1>5 DEF Undisturbed, Resumable, checkpointTerminal, TerminalStatuses
<1>7. ex[p].ckpt.claim \in 1..head.claim
  <2>1. ex[p].ckpt.claim > 0 /\ head.claim \in Nat
    BY <1>4 DEF Claims, Entitled, Granted, Records
  <2> QED BY <2>1
<1>8. Stamper(p, head, ex)
  BY <1>7 DEF Stamper, Owns, OwningSteps
<1>9. n > 0 /\ journal[n].type # "hook" => ex[journal[n].by].ckpt.claim <= ex[p].ckpt.claim
  <2>1. n > 0 /\ journal[n].type # "hook" => Stamper(journal[n].by, head, ex)
    BY DEF TaleOf, Tale, Stamped
  <2> QED BY <2>1, <1>4 DEF Stamper, Records
<1>10. \A e : e.by = p => Follows(e.by, head, journal, ex, n)
  BY <1>8, <1>9 DEF Follows
<1> QED BY <1>2, <1>3, <1>4, <1>5, <1>6, <1>8, <1>10

(* What the event of a batch tells.                                        *)
LEMMA BatchEventsTell ==
  ASSUME NEW progress \in Progresses, NEW ints \in SUBSET InterruptIDs
  PROVE  /\ Cardinality(ints) \in Nat
         /\ BatchSize(ints) = Cardinality(ints) + 1
         /\ \A k \in Nat :
              /\ BatchEvent(progress, ints, k).by = progress.by
              /\ BatchEvent(progress, ints, k).seq = progress.first + k
              /\ BatchEvent(progress, ints, k).type \in InterruptTypes
              /\ k < Cardinality(ints) =>
                   BatchEvent(progress, ints, k).type = "guardInterrupted"
              /\ ~(k < Cardinality(ints)) =>
                   BatchEvent(progress, ints, k).type = "interrupted"
<1>1. Cardinality(ints) \in Nat
  BY RunAssumption, FS_Subset, FS_CardinalityType
<1> QED BY <1>1 DEF BatchEvent, BatchSize, InterruptTypes

(* The batch goes on with its next event, or is over.                      *)
LEMMA BatchesGoOnTold ==
  ASSUME NEW p \in Invocations, NEW z \in Executions, Fit(z), z.result = "none",
         ~z.sinkFailure, NEW h, NEW j, NEW X, NEW n \in Nat, z.cursor = n,
         z.progress # NoProgress, z.progress.next > 0,
         Recorded(z.progress, z.ints, z.cursor, j), h.body.progress # NoProgress,
         Follows(z.progress.by, h, j, X, n),
         NEW mode \in BatchModes, NEW w, w = ContinueBatch(p, z, mode)
  PROVE  Stays(z, w) /\ (Holds(w, h) => HolderContinues(w, h, j, X, n))
<1> DEFINE e == BatchEvent(z.progress, z.ints, z.progress.next)
<1>1. \/ z.progress.next < BatchSize(z.ints) /\ w = Saving(z, mode, e)
      \/ Leaves(z, w, "error")
      \/ w = Interrupting(z, mode)
  BY ContinueBatchEffect
<1>2. z.ckpt.claim \in Nat /\ z.progress \in Progresses /\ z.ints \in SUBSET InterruptIDs
  BY DEF Executions, Records
<1>3. CASE Leaves(z, w, "error")
  BY <1>2, <1>3, LeaversStay DEF Leaves, Holds, Owns, OwningSteps
<1>4. CASE w = Interrupting(z, mode)
  <2>1. /\ w.pc = "interrupt" /\ w.ckpt = z.ckpt /\ w.progress = z.progress
        /\ w.ints = z.ints /\ w.cursor = z.cursor
    BY <1>4 DEF Interrupting, Executions
  <2> QED BY <2>1 DEF Stays, HolderContinues, Announcing
<1>5. CASE z.progress.next < BatchSize(z.ints) /\ w = Saving(z, mode, e)
  <2>1. /\ w.pc = "savePending" /\ w.ckpt = z.ckpt /\ w.progress = z.progress
        /\ w.ints = z.ints /\ w.cursor = z.cursor /\ w.ev = e
    BY <1>5 DEF Saving, Executions
  <2>2. z.progress.next \in Nat /\ z.progress.next - 1 \in Nat
    BY <1>2 DEF Progresses
  <2>3. e.type \in InterruptTypes
    BY <1>2, <2>2, BatchEventsTell
  <2>4. j[n].type = "guardInterrupted"
    BY <1>2, <1>5, <2>2, BatchEventsTell DEF Recorded
  <2> HIDE DEF e
  <2> QED BY <2>1, <2>3, <2>4 DEF Stays, HolderContinues, InterruptTypes
<1> QED BY <1>1, <1>3, <1>4, <1>5

LEMMA ReconciledTold ==
  ASSUME NEW p \in Invocations, NEW z \in Executions, Fit(z), z.result = "none",
         ~z.sinkFailure, NEW h, NEW j, NEW X, NEW n \in Nat,
         z.progress = NoProgress <=> h.body.progress = NoProgress,
         z.progress # NoProgress =>
           z.cursor = n /\ z.progress.next > 0 /\ Follows(z.progress.by, h, j, X, n),
         Recorded(z.progress, z.ints, z.cursor, j), NEW w, w = Reconciled(p, z)
  PROVE  Stays(z, w) /\ (Holds(w, h) => HolderContinues(w, h, j, X, n))
<1>1. \/ z.progress # NoProgress /\ w = ContinueBatch(p, z, "restoreInterrupt")
      \/ z.progress = NoProgress /\ Leaves(z, w, "error")
      \/ z.progress = NoProgress /\ w = Appending(z, "loaded", Stamp(p, z, "loaded"))
  BY ReconciledEffect
<1>2. CASE z.progress # NoProgress /\ w = ContinueBatch(p, z, "restoreInterrupt")
  BY <1>2, BatchesGoOnTold DEF BatchModes
<1>3. CASE Leaves(z, w, "error")
  <2>1. z.ckpt.claim \in Nat
    BY DEF Executions, Records
  <2> QED BY <1>3, <2>1, LeaversStay DEF Leaves, Holds, Owns, OwningSteps
<1>4. CASE z.progress = NoProgress /\ w = Appending(z, "loaded", Stamp(p, z, "loaded"))
  <2>1. /\ w.pc = "append" /\ w.ckpt = z.ckpt /\ w.progress = z.progress
        /\ w.ev = Stamp(p, z, "loaded")
    BY <1>4 DEF Appending, Executions
  <2>2. w.ev.type = "loaded"
    BY <2>1 DEF Stamp
  <2> QED BY <1>4, <2>1, <2>2 DEF Stays, HolderContinues, Recorded
<1> QED BY <1>1, <1>2, <1>3, <1>4

LEMMA InitTells == Init => Story
<1> SUFFICES ASSUME Init PROVE Story
  OBVIOUS
<1>1. DOMAIN journal = 1..0
  BY DEF Init
<1>2. \A p \in Invocations : ~Owns(ex[p])
  BY DEF Init, NewExecution, Owns, OwningSteps
<1>3. HeadContinues(head, journal, ex, 0)
  BY DEF Init, Absent, EmptyBody, HeadContinues, Recorded, LastOf
<1>4. Tale(head, journal, ex, 0)
  BY <1>2, <1>3 DEF Tale, Holds, Stamped, Whole
<1> QED BY <1>1, <1>4 DEF Story

LEMMA CreateTold ==
  ASSUME Story, Agree, Local, Claims, NEW p \in Invocations, Create(p)
  PROVE  Story'
<1> DEFINE x == ex[p]
           z == [x EXCEPT !.ckpt = NewRecord(p), !.heartbeat = "on"]
           e == Stamp(p, x, Start(x))
           w == Saving(z, "start", e)
<1>1. /\ x.pc \in {"idle", "create"} /\ x \in Executions /\ Sound(x)
      /\ UNCHANGED <<journal, delivered, spent>>
  BY CreateEffect DEF Local
<1>2. \/ head' = head /\ \E y : Becomes(p, y) /\ Quits(x, y)
      \/ ~Exists(head) /\ head' = NewRecord(p) /\ Becomes(p, w)
  BY CreateEffect
<1>3. ASSUME head' = head, NEW y, Becomes(p, y), Quits(x, y)
      PROVE  Story'
  BY <1>1, <1>3, QuitterRetold
<1>4. ASSUME ~Exists(head), head' = NewRecord(p), Becomes(p, w)
      PROVE  Story'
  <2> PICK n \in Nat : TaleOf(n)
    BY TalesAre
  <2>1. head = Absent /\ head.claim = 0
    BY <1>4 DEF Claims, Claimable, Exists, Records, Absent
  <2>2. n > 0 => journal[n].type \in ObservedTypes
    BY <2>1 DEF TaleOf, Agreement, HeadAgrees, Absent, EmptyBody
  <2>3. /\ w.pc = "savePending" /\ w.progress = x.progress /\ w.ev = e /\ w.ckpt = NewRecord(p)
    BY <1>1 DEF Saving, Executions
  <2>4. e.type # "none"
    BY StartType DEF Stamp
  <2>5. x.ckpt.claim = 0 /\ (x.pc = "create" => x.progress = NoProgress)
    <3>1. x.pc = "idle" => x = NewExecution
      BY <1>1 DEF Sound, Placed
    <3>2. x.pc = "create" => x.mode = "hook"
      BY <1>1 DEF Sound, Placed, ModesAt
    <3>3. x.pc = "create" => x.ckpt = Absent
      BY <1>1, <3>2 DEF Sound, Fit
    <3>4. x.pc = "create" => x.progress = NoProgress
      BY <1>1, <3>2 DEF TaleOf, Agreement, Hooked
    <3> QED BY <1>1, <3>1, <3>3, <3>4 DEF NewExecution, Absent
  <2>6. x.progress = NoProgress
    BY <1>1, <2>5 DEF Sound, Placed, NewExecution
  <2>7. Stays(x, w)
    BY <2>5 DEF Stays
  <2> DEFINE g == NewRecord(p)
  <2>8. g.claim = 1 /\ g.body = EmptyBody
    BY NewRecordType
  <2>9. HeadContinues(g, journal, ex, n)
    <3>1. n > 0 => journal[n].type \notin InterruptTypes
      BY <2>2 DEF ObservedTypes, InterruptTypes
    <3> HIDE DEF g
    <3> QED BY <2>8, <3>1
            DEF HeadContinues, Recorded, LastOf, EmptyBody, InterruptTypes
  <2>10. HolderContinues(w, g, journal, ex, n)
    <3>1. n > 0 => journal[n].type # "interrupted"
      BY <2>2 DEF ObservedTypes
    <3> HIDE DEF g, w, e
    <3> QED BY <2>3, <2>4, <2>6, <2>8, <3>1 DEF HolderContinues, Recorded, EmptyBody
  <2>11. head'.claim = head.claim + 1 /\ head'.claim \in Nat
    BY <1>4, <2>1, <2>8
  <2> HIDE DEF w
  <2> QED BY <1>1, <1>4, <2>7, <2>9, <2>10, <2>11, WrittenRetold DEF TaleOf
<1> QED BY <1>2, <1>3, <1>4

LEMMA ClaimTold ==
  ASSUME Undisturbed, Story, Agree, Local, Claims, NEW p \in Invocations,
         NEW res \in Resolutions, Claim(p, res)
  PROVE  Story'
<1> DEFINE x == ex[p]
           rec == Candidate(p, x.ckpt, res)
           z == Claiming(x, rec)
           w == Restored(p, z)
<1>1. /\ x.pc = "claim" /\ x \in Executions /\ Sound(x) /\ head \in Records
      /\ UNCHANGED <<journal, delivered, spent>>
  BY ClaimEffect DEF Local, Claims, Claimable
<1>2. \/ head' = head /\ \E y : Becomes(p, y) /\ Quits(x, y)
      \/ /\ Exists(head) /\ ClaimOutcome(head, rec, 0) = "ok"
         /\ head' = [rec EXCEPT !.version = @ + 1]
         /\ z \in Executions /\ Fit(z) /\ z.result = "none" /\ ~z.sinkFailure
         /\ z.mode = "none" /\ z.ckpt = head' /\ z.term = "none"
         /\ Becomes(p, w)
  BY <1>1, ClaimEffect
<1>3. ASSUME head' = head, NEW y, Becomes(p, y), Quits(x, y)
      PROVE  Story'
  BY <1>1, <1>3, QuitterRetold
<1>4. ASSUME /\ Exists(head) /\ ClaimOutcome(head, rec, 0) = "ok"
             /\ head' = [rec EXCEPT !.version = @ + 1]
             /\ z \in Executions /\ Fit(z) /\ z.result = "none" /\ ~z.sinkFailure
             /\ z.mode = "none" /\ z.ckpt = head' /\ z.term = "none"
             /\ Becomes(p, w)
      PROVE  Story'
  <2> PICK n \in Nat : TaleOf(n)
    BY TalesAre
  <2>1. /\ rec \in Records /\ rec.version = x.ckpt.version /\ rec.claim = x.ckpt.claim + 1
        /\ rec.status = "running" /\ rec.body = ClaimedBody(x.ckpt, res)
    BY <1>1, CandidateType DEF Executions
  <2>2. x.ckpt.version = head.version /\ ~checkpointTerminal(head.status)
    BY <1>4, <2>1 DEF ClaimOutcome, checkpointTerminal, TerminalStatuses
  <2>3. SameRecord(head, x.ckpt)
    BY <1>1, <2>2 DEF Claims, Entitled, OwningSteps
  <2>4. head.status = x.ckpt.status /\ head.body = x.ckpt.body /\ head.claim = x.ckpt.claim
    BY <1>1, <2>3 DEF SameRecord, Executions, Records
  <2> HIDE DEF rec
  <2>5. /\ head'.status = "running" /\ head'.body = ClaimedBody(head, res)
        /\ head'.claim = head.claim + 1 /\ head'.claim \in Nat
    <3>1. head'.status = rec.status /\ head'.body = rec.body /\ head'.claim = rec.claim
      BY <1>4, <2>1 DEF Records
    <3>2. ClaimedBody(x.ckpt, res) = ClaimedBody(head, res)
      BY <2>4 DEF ClaimedBody
    <3> QED BY <1>1, <2>1, <2>4, <3>1, <3>2 DEF Records
  <2> DEFINE b == head.body
             c == head'.body
  <2>6. /\ c.cursor = b.cursor /\ c.pending = b.pending /\ c.progress = b.progress
        /\ c.ints = IF head.status = "interrupted" THEN {} ELSE b.ints
    BY <1>1, <2>5 DEF ClaimedBody, Records, Bodies
  <2>7. head.status = "interrupted" => b.progress = NoProgress
    BY <1>4, <2>2 DEF Undisturbed, Resumable, validInterruptProgress
  <2>8. HeadContinues(head, journal, ex, n)
    BY DEF TaleOf, Tale
  <2>9. \A q : Follows(q, head, journal, ex, n) => Follows(q, head', journal, ex, n)
    BY <1>1, <2>5 DEF Follows, Stamper, Records
  <2>10. HeadContinues(head', journal, ex, n)
    <3>1. Recorded(c.progress, c.ints, c.cursor, journal)
      BY <2>6, <2>7, <2>8 DEF HeadContinues, Recorded
    <3>2. LastOf(head', journal, ex, n)
      <4>1. n > 0 /\ journal[n].type = "interrupted" =>
              ex[journal[n].by].ckpt.claim < head'.claim
        <5>1. n > 0 /\ journal[n].type = "interrupted" => Stamper(journal[n].by, head, ex)
          BY DEF TaleOf, Tale, Stamped
        <5> QED BY <1>1, <2>5, <5>1 DEF Stamper, Records
      <4> HIDE DEF b
      <4> QED BY <2>6, <2>8, <4>1 DEF HeadContinues, LastOf, b
    <3> QED BY <2>6, <2>8, <2>9, <3>1, <3>2 DEF HeadContinues
  <2> HIDE DEF z
  <2>11. /\ Resumed(z) \in Executions /\ Resumed(z).progress = c.progress
         /\ Resumed(z).ints = c.ints /\ Resumed(z).cursor = c.cursor
         /\ Resumed(z).ckpt = head'
    BY <1>4, ResumedFit
  <2>12. Holds(w, head') => HolderContinues(w, head', journal, ex, n)
    <3> SUFFICES ASSUME Holds(w, head')
                 PROVE  HolderContinues(w, head', journal, ex, n)
      OBVIOUS
    <3> DEFINE r == Resumed(z)
    <3>1. \/ Leaves(z, w, "error")
          \/ w = Moved(r, "reconcile")
          \/ c.pending # NoEvent /\ w = Replaying(r)
      BY <1>4, RestoredEffect
    <3>2. ~Leaves(z, w, "error")
      BY DEF Leaves, Holds, Owns, OwningSteps
    <3>3. r \in Executions /\ r.progress = c.progress /\ r.ints = c.ints /\ r.cursor = c.cursor
          /\ r.ckpt = head'
      BY <2>11
    <3> HIDE DEF r
    <3>4. /\ w.pc \in {"reconcile", "append"} /\ w.progress = c.progress
          /\ w.ints = c.ints /\ w.cursor = c.cursor
          /\ w.pc = "append" => c.pending # NoEvent /\ w.ev = c.pending
      BY <3>1, <3>2, <3>3 DEF Moved, Replaying, Executions
    <3> QED BY <2>10, <3>4 DEF HeadContinues, HolderContinues, Announcing
  <2>13. Stays(x, w)
    BY <1>1 DEF Stays
  <2> HIDE DEF w
  <2> QED BY <1>1, <1>4, <2>5, <2>10, <2>12, <2>13, WrittenRetold DEF TaleOf
<1> QED BY <1>2, <1>3, <1>4

(* The holder saved rec and goes on with its copy of it.                   *)
LEMMA SavedTold ==
  ASSUME NEW x \in Executions, Owns(x), NEW rec \in Records, SameBut(rec, x.ckpt),
         NEW z, z.ckpt = [rec EXCEPT !.version = @ + 1], NEW y, Stays(z, y), z.pc = x.pc
  PROVE  Stays(x, y)
<1>1. z.ckpt.claim = x.ckpt.claim
  BY DEF SameBut, Records
<1> QED BY <1>1 DEF Stays

LEMMA SavePendingTold ==
  ASSUME Undisturbed, Story, Agree, Local, Claims, NEW p \in Invocations, SavePending(p)
  PROVE  Story'
<1> DEFINE x == ex[p]
           rec == Keeping(x, x.ev, PendingTerm(x))
           y == Moved(Saved(x, rec), "append")
<1>1. /\ x.pc = "savePending" /\ Ready(x) /\ Sound(x) /\ x \in Executions /\ Fine(p, x)
      /\ UNCHANGED <<journal, delivered, spent>>
  BY SavePendingEffect DEF Local, Undisturbed, Ready
<1>2. x.mode \in CommitModes /\ Owns(x)
  BY <1>1 DEF Ready, ModesAt, CommitModes, Owns, OwningSteps
<1>3. \/ head' = head /\ \E w : Becomes(p, w) /\ Fails(p, x, w)
      \/ Wrote(rec) /\ Becomes(p, y)
  BY SavePendingEffect
<1>4. ASSUME head' = head, NEW w, Becomes(p, w), Fails(p, x, w)
      PROVE  Story'
  BY <1>1, <1>2, <1>4, FailersAreFine, QuitterRetold
<1>5. ASSUME Wrote(rec), Becomes(p, y)
      PROVE  Story'
  <2> PICK n \in Nat : TaleOf(n)
    BY TalesAre
  <2>1. x.ev \in Events /\ x.ev # NoEvent /\ PendingTerm(x) \in Terms
    BY <1>1, NoEventType DEF Executions, Sound, Placed, PendingTerm
  <2>2. /\ rec \in Records /\ SameBut(rec, x.ckpt) /\ Payload(x, rec.body, x.ev, PendingTerm(x))
        /\ rec.status = "running"
    BY <1>1, <2>1, KeepingEffect
  <2> HIDE DEF rec
  <2>3. /\ head'.status = "running" /\ head'.body = rec.body /\ head'.claim = head.claim
        /\ x.ckpt.claim = head.claim /\ head.claim \in Nat
    BY <1>1, <1>2, <1>5, <2>2, WritersHold DEF TaleOf, Records
  <2>4. /\ HolderContinues(x, head, journal, ex, n) /\ HeadContinues(head, journal, ex, n)
        /\ InStep(x, head.body, journal, delivered, n)
        /\ \A e : e.by = p => Follows(e.by, head, journal, ex, n)
    BY <1>1, <1>2, <2>3, HoldersTell
  <2>5. \A q : Follows(q, head, journal, ex, n) => Follows(q, head', journal, ex, n)
    BY <2>3 DEF Follows, Stamper
  <2>6. Follows(x.ev.by, head, journal, ex, n)
    <3>1. Announces(p, x)
      BY <1>1, <1>2 DEF Fine, Batching, Announcing
    <3>2. CASE x.progress = NoProgress
      BY <1>2, <2>4, <3>1, <3>2 DEF Announces, CommitModes
    <3>3. CASE x.progress # NoProgress
      BY <2>4, <3>1, <3>3 DEF Announces, HolderContinues, BatchEvent
    <3> QED BY <3>2, <3>3
  <2>7. x.cursor = n /\ (n > 0 => journal[n].type # "interrupted")
    BY <1>1, <2>4 DEF InStep, HolderContinues
  <2>8. HeadContinues(head', journal, ex, n)
    <3>1. LastOf(head', journal, ex, n)
      BY <2>2, <2>3, <2>4, <2>7 DEF LastOf, HeadContinues, HolderContinues, Payload
    <3>2. x.ev.type # "none"
      BY <1>1, <2>4 DEF HolderContinues, Announcing
    <3> QED BY <2>2, <2>3, <2>4, <2>5, <2>6, <3>1, <3>2
            DEF HeadContinues, HolderContinues, Payload
  <2>9. /\ y.pc = "append" /\ y.ckpt = [rec EXCEPT !.version = @ + 1]
        /\ y.ints = x.ints /\ y.progress = x.progress /\ y.ev = x.ev /\ y.cursor = x.cursor
    BY <1>1 DEF Moved, Saved, Executions
  <2>10. HolderContinues(y, head', journal, ex, n)
    <3> HIDE DEF y
    <3> QED BY <1>1, <2>2, <2>3, <2>4, <2>5, <2>9 DEF HolderContinues, Payload, Announcing
  <2>11. Stays(x, y)
    BY <2>2, <2>9 DEF Stays, SameBut, Records
  <2> HIDE DEF y
  <2> QED BY <1>1, <1>2, <1>5, <2>3, <2>8, <2>10, <2>11, WrittenRetold DEF TaleOf
<1> QED BY <1>3, <1>4, <1>5

LEMMA ConfirmTold ==
  ASSUME Undisturbed, Story, Agree, Local, Claims, NEW p \in Invocations, Confirm(p)
  PROVE  Story'
<1> DEFINE x == ex[p]
           rec == Keeping(x, NoEvent, "none")
           z == Saved(x, rec)
           y == Confirmed(p, z)
<1>1. /\ x.pc = "confirm" /\ Ready(x) /\ x \in Executions /\ Fit(x) /\ Fine(p, x)
      /\ x.result = "none" /\ ~x.sinkFailure /\ UNCHANGED <<journal, delivered, spent>>
  BY ConfirmEffect DEF Local, Undisturbed, Ready
<1>2. x.mode \in ModesAt("confirm") /\ Owns(x)
      /\ x.mode \in {"start", "step", "replay"} \cup BatchModes
  BY <1>1 DEF Ready, ModesAt, CommitModes, Owns, OwningSteps, BatchModes
<1>3. \/ head' = head /\ \E w : Becomes(p, w) /\ Fails(p, x, w)
      \/ Wrote(rec) /\ Becomes(p, y)
  BY ConfirmEffect
<1>4. ASSUME head' = head, NEW w, Becomes(p, w), Fails(p, x, w)
      PROVE  Story'
  BY <1>1, <1>2, <1>4, FailersAreFine, QuitterRetold
<1>5. ASSUME Wrote(rec), Becomes(p, y)
      PROVE  Story'
  <2> PICK n \in Nat : TaleOf(n)
    BY TalesAre
  <2>1. /\ rec \in Records /\ SameBut(rec, x.ckpt) /\ Payload(x, rec.body, NoEvent, "none")
        /\ rec.status = "running"
    BY <1>1, NoEventType, KeepingEffect
  <2> HIDE DEF rec
  <2>2. /\ head'.status = "running" /\ head'.body = rec.body /\ head'.claim = head.claim
        /\ x.ckpt.claim = head.claim /\ head.claim \in Nat
    BY <1>1, <1>2, <1>5, <2>1, WritersHold DEF TaleOf, Records
  <2>3. /\ HolderContinues(x, head, journal, ex, n) /\ HeadContinues(head, journal, ex, n)
        /\ InStep(x, head.body, journal, delivered, n) /\ head.status = "running"
        /\ validInterruptProgress(head)
    BY <1>1, <1>2, <2>2, HoldersTell
  <2>4. \A q : Follows(q, head, journal, ex, n) => Follows(q, head', journal, ex, n)
    BY <2>2 DEF Follows, Stamper
  <2>5. x.cursor = n /\ journal[n] = head.body.pending
    BY <1>1, <2>3 DEF InStep
  <2>6. x.progress = NoProgress <=> head.body.progress = NoProgress
    BY <1>1, <2>3 DEF HolderContinues
  <2>7. HeadContinues(head', journal, ex, n)
    <3>1. LastOf(head', journal, ex, n)
      BY <2>1, <2>2, <2>3, <2>6 DEF LastOf, HeadContinues, Payload
    <3> QED BY <2>1, <2>2, <2>3, <2>4, <3>1 DEF HeadContinues, HolderContinues, Payload
  <2>8. /\ z \in Executions /\ Fit(z) /\ Owns(z) /\ z.pc = "confirm"
        /\ z.mode = x.mode /\ z.ints = x.ints /\ z.progress = x.progress /\ z.cursor = x.cursor
        /\ z.result = "none" /\ ~z.sinkFailure /\ z.ckpt = [rec EXCEPT !.version = @ + 1]
    <3>1. z.cursor = x.cursor /\ z.ckpt = [rec EXCEPT !.version = @ + 1]
      BY <1>1 DEF Saved, Executions
    <3>2. rec.owner = x.ckpt.owner
      BY <1>1, NoEventType, KeepingEffect DEF rec
    <3> QED BY <1>1, <1>2, <2>1, <3>1, <3>2, SavedIsFine
  <2> HIDE DEF z
  <2>9. \/ z.mode \in {"start", "step"} /\ y = Moved(z, "work")
        \/ z.mode = "replay" /\ y = Moved(z, "reconcile")
        \/ z.mode \in BatchModes /\ y = ContinueBatch(p, z, z.mode)
    BY <1>2, <2>8, ConfirmedEffect
  <2> HIDE DEF y
  <2>10. x.mode \in PlainModes => x.progress = NoProgress
    BY <1>1, <1>2 DEF Fine, Batching
  <2>11. ASSUME NEW pc \in {"work", "reconcile"}, y = Moved(z, pc),
                pc = "work" => x.progress = NoProgress
         PROVE  Stays(z, y) /\ HolderContinues(y, head', journal, ex, n)
    <3>1. /\ y.ckpt = z.ckpt /\ y.pc = pc /\ y.ints = x.ints
          /\ y.progress = x.progress /\ y.cursor = x.cursor
      BY <2>8, <2>11 DEF Moved, Executions
    <3>2. pc = "work" => journal[n].type # "interrupted"
      BY <2>3, <2>5, <2>6, <2>11 DEF validInterruptProgress, InterruptTypes
    <3>3. Stays(z, y)
      BY <3>1 DEF Stays
    <3>4. head'.body.progress = x.progress
      BY <2>1, <2>2 DEF Payload
    <3> QED BY <2>3, <2>4, <3>1, <3>2, <3>3, <3>4 DEF HolderContinues, Announcing
  <2>12. ASSUME z.mode \in BatchModes, y = ContinueBatch(p, z, z.mode)
         PROVE  Stays(z, y) /\ (Holds(y, head') => HolderContinues(y, head', journal, ex, n))
    <3>1. z.progress # NoProgress /\ z.progress.next > 0
      BY <1>1, <1>2, <2>8, <2>12 DEF Fine, Batching, Announcing
    <3>2. Recorded(z.progress, z.ints, z.cursor, journal) /\ head'.body.progress # NoProgress
      BY <2>1, <2>2, <2>3, <2>8, <3>1 DEF HolderContinues, Payload
    <3>3. Follows(z.progress.by, head', journal, ex, n)
      BY <2>3, <2>4, <2>8, <3>1 DEF HolderContinues
    <3> QED BY <2>5, <2>8, <2>12, <3>1, <3>2, <3>3, BatchesGoOnTold
  <2>13. Stays(z, y) /\ (Holds(y, head') => HolderContinues(y, head', journal, ex, n))
    BY <2>8, <2>9, <2>10, <2>11, <2>12 DEF PlainModes
  <2>14. Stays(x, y)
    BY <1>1, <1>2, <2>1, <2>8, <2>13, SavedTold
  <2> QED BY <1>1, <1>2, <1>5, <2>2, <2>7, <2>13, <2>14, WrittenRetold DEF TaleOf
<1> QED BY <1>3, <1>4, <1>5

(* The checkpoint is closed, and whoever closed it is gone.                *)
LEMMA ClosedTold ==
  ASSUME Undisturbed, Story, Agree, Local, Claims, NEW p \in Invocations, Owns(ex[p]),
         ex[p].pc # "release", NEW rec \in Records, Wrote(rec), SameBut(rec, ex[p].ckpt),
         rec.body.progress = NoProgress, rec.body.pending = NoEvent, journal' = journal,
         NEW n \in Nat, TaleOf(n), n > 0, journal[n].type # "guardInterrupted",
         journal[n].type = "interrupted" => rec.status = "interrupted",
         NEW y, Becomes(p, y), y.pc = "end", y.ckpt.claim = ex[p].ckpt.claim
  PROVE  Story'
<1>1. /\ head'.status = rec.status /\ head'.body = rec.body /\ head'.claim = head.claim
      /\ ex[p].ckpt.claim = head.claim /\ head.claim \in Nat
  BY WritersHold DEF TaleOf, Records
<1>2. HeadContinues(head', journal, ex, n)
  BY <1>1 DEF HeadContinues, Recorded, LastOf
<1>3. Stays(ex[p], y) /\ ~Holds(y, head')
  BY DEF Stays, Holds, Owns, OwningSteps
<1> QED BY <1>1, <1>2, <1>3, WrittenRetold DEF TaleOf

(* The journal of a run about to be suspended ends with its batch.         *)
LEMMA SuspendersClosed ==
  ASSUME NEW p \in Invocations, NEW x \in Executions, Fine(p, x), Owns(x),
         x.pc = "interrupt", x.mode \in BatchModes, NEW h, NEW n \in Nat,
         HolderContinues(x, h, journal, ex, n), InStep(x, h.body, journal, delivered, n)
  PROVE  n > 0 /\ journal[n].type = "interrupted"
<1>1. /\ x.progress # NoProgress /\ x.progress.next = BatchSize(x.ints)
      /\ x.progress \in Progresses /\ x.ints \in SUBSET InterruptIDs
  BY DEF Fine, Batching, Executions
<1>2. /\ x.progress.next > 0 /\ x.progress.next - 1 = Cardinality(x.ints)
      /\ Cardinality(x.ints) \in Nat
  BY <1>1, BatchEventsTell
<1>3. journal[n] = BatchEvent(x.progress, x.ints, x.progress.next - 1)
  BY <1>1, <1>2 DEF HolderContinues, Recorded, InStep
<1>4. journal[n].type = "interrupted"
  BY <1>1, <1>2, <1>3, BatchEventsTell
<1>5. n > 0
  <2>1. x.progress.first + x.progress.next = x.cursor + 1 /\ x.progress.first > 0
    BY <1>1 DEF InStep, OnBatch, BatchModes, Fine, Batching
  <2>2. x.cursor = n
    BY DEF InStep
  <2> QED BY <1>1, <1>2, <2>1, <2>2 DEF Progresses
<1> QED BY <1>4, <1>5

(* The journal of a run about to be finished ends with its end.            *)
LEMMA FinishersClosed ==
  ASSUME NEW x, x.pc = "finish", x.term \in TerminalStatuses, NEW h \in Records,
         NEW n \in Nat, InStep(x, h.body, journal, delivered, n),
         HeadAgrees(h, journal, delivered, n)
  PROVE  n > 0 /\ journal[n].type = x.term
<1>1. /\ journal[n] = h.body.pending /\ h.body.term = x.term
      /\ h.body.cursor = n - 1 /\ h.body.cursor \in Nat
  BY DEF InStep, Records, Bodies
<1>2. h.body.term = IF h.body.pending.type \in TerminalStatuses
                    THEN h.body.pending.type ELSE "none"
  BY DEF HeadAgrees
<1>3. "none" \notin TerminalStatuses
  BY DEF TerminalStatuses
<1> QED BY <1>1, <1>2, <1>3

LEMMA InterruptTold ==
  ASSUME Undisturbed, Story, Agree, Local, Claims, NEW p \in Invocations, InterruptCheckpoint(p)
  PROVE  Story'
<1> DEFINE x == ex[p]
           s == Suspended(x)
           rec == Closing(s, "interrupted")
           z == Saved(s, rec)
<1>1. /\ x.pc = "interrupt" /\ Ready(x) /\ x \in Executions /\ Fit(x) /\ Fine(p, x)
      /\ UNCHANGED <<journal, delivered, spent>>
  BY InterruptEffect DEF Local, Undisturbed, Ready
<1>2. x.mode \in BatchModes /\ Owns(x)
  BY <1>1 DEF Ready, ModesAt, Owns, OwningSteps, BatchModes
<1>3. \/ head' = head /\ \E w : Becomes(p, w) /\ Fails(p, x, w)
      \/ /\ Wrote(rec) /\ ~x.leaseDown
         /\ \E y : /\ Becomes(p, y)
                   /\ \/ Leaves(z, y, "interrupted") /\ y.pc = "end"
                      \/ Ends(p, z, y) /\ x.cause # "none"
  BY InterruptEffect
<1>4. ASSUME head' = head, NEW w, Becomes(p, w), Fails(p, x, w)
      PROVE  Story'
  BY <1>1, <1>2, <1>4, FailersAreFine, QuitterRetold
<1>5. ASSUME Wrote(rec), ~x.leaseDown, NEW y, Becomes(p, y),
             \/ Leaves(z, y, "interrupted") /\ y.pc = "end"
             \/ Ends(p, z, y) /\ x.cause # "none"
      PROVE  Story'
  <2> PICK n \in Nat : TaleOf(n)
    BY TalesAre
  <2>1. x.cause = "none"
    BY <1>1, <1>2, <1>5, CalmOwners DEF Fine
  <2>2. /\ rec \in Records /\ rec.status = "interrupted" /\ SameBut(rec, x.ckpt)
        /\ rec.body.pending = NoEvent /\ rec.body.progress = NoProgress
    <3>1. s \in Executions /\ s.ckpt = x.ckpt /\ s.progress = NoProgress
      BY <1>1, SuspendedFit
    <3> HIDE DEF s
    <3> QED BY <3>1, ClosingEffect DEF Payload, Statuses
  <2>3. y.pc = "end" /\ y.ckpt.claim = x.ckpt.claim
    <3>1. s \in Executions /\ s.ckpt = x.ckpt
      BY <1>1, SuspendedFit
    <3> HIDE DEF rec, s
    <3>2. z.ckpt.claim = rec.claim
      BY <2>2, <3>1 DEF Saved, Executions, Records
    <3>3. rec.claim = x.ckpt.claim
      BY <2>2 DEF SameBut
    <3> HIDE DEF z
    <3> QED BY <1>5, <2>1, <3>2, <3>3 DEF Leaves, Absent
  <2> HIDE DEF rec
  <2>4. x.ckpt.claim = head.claim
    BY <1>1, <1>2, <1>5, <2>2, WritersHold DEF TaleOf
  <2>5. /\ HolderContinues(x, head, journal, ex, n)
        /\ InStep(x, head.body, journal, delivered, n)
    BY <1>1, <1>2, <2>4, HoldersTell
  <2>6. n > 0 /\ journal[n].type = "interrupted"
    BY <1>1, <1>2, <2>5, SuspendersClosed
  <2> QED BY <1>1, <1>2, <1>5, <2>2, <2>3, <2>6, ClosedTold
<1> QED BY <1>3, <1>4, <1>5

LEMMA FinishTold ==
  ASSUME Undisturbed, Story, Agree, Local, Claims, NEW p \in Invocations, FinishCheckpoint(p)
  PROVE  Story'
<1> DEFINE x == ex[p]
           rec == Closing(x, x.term)
<1>1. /\ x.pc = "finish" /\ Ready(x) /\ x \in Executions /\ Fine(p, x)
      /\ UNCHANGED <<journal, delivered, spent>>
  BY FinishEffect DEF Local, Undisturbed
<1>2. \/ head' = head /\ \E y : Becomes(p, y) /\ Quits(x, y)
      \/ /\ Wrote(rec) /\ x.term \in TerminalStatuses
         /\ \E y : /\ Becomes(p, y) /\ y.pc = "end"
                   /\ Leaves(x, y, x.term) \/ Leaves(x, y, "error")
  BY FinishEffect
<1>3. ASSUME head' = head, NEW y, Becomes(p, y), Quits(x, y)
      PROVE  Story'
  BY <1>1, <1>3, QuitterRetold
<1>4. ASSUME Wrote(rec), x.term \in TerminalStatuses, NEW y, Becomes(p, y), y.pc = "end",
             Leaves(x, y, x.term) \/ Leaves(x, y, "error")
      PROVE  Story'
  <2> PICK n \in Nat : TaleOf(n)
    BY TalesAre
  <2>1. Owns(x)
    BY <1>1, OwnersOwn
  <2>2. x.progress = NoProgress
    BY <1>1, <2>1 DEF Fine, Batching
  <2>3. /\ rec \in Records /\ rec.status = x.term /\ SameBut(rec, x.ckpt)
        /\ rec.body.pending = NoEvent /\ rec.body.progress = NoProgress
    BY <1>1, <1>4, <2>2, ClosingEffect DEF Statuses, Payload
  <2> HIDE DEF rec
  <2>4. x.ckpt.claim = head.claim
    BY <1>1, <1>4, <2>1, <2>3, WritersHold DEF TaleOf
  <2>5. InStep(x, head.body, journal, delivered, n) /\ HeadAgrees(head, journal, delivered, n)
        /\ head \in Records
    BY <1>1, <2>1, <2>4, HoldersTell
  <2>6. n > 0 /\ journal[n].type = x.term
    BY <1>1, <1>4, <2>5, FinishersClosed
  <2>7. y.ckpt.claim = x.ckpt.claim
    BY <1>4 DEF Leaves, Absent
  <2>8. journal[n].type \notin InterruptTypes
    BY <1>4, <2>6 DEF TerminalStatuses, InterruptTypes
  <2> QED BY <1>1, <1>4, <2>1, <2>3, <2>6, <2>7, <2>8, ClosedTold DEF InterruptTypes
<1> QED BY <1>2, <1>3, <1>4

LEMMA SaveCursorTold ==
  ASSUME Undisturbed, Story, Agree, Local, Claims, NEW p \in Invocations, SaveCursor(p)
  PROVE  Story'
<1> DEFINE x == ex[p]
           rec == Keeping(x, NoEvent, "none")
           z == Saved(x, rec)
           y == IF x.more THEN Moved(z, "reconcile") ELSE Reconciled(p, z)
<1>1. /\ x.pc = "saveCursor" /\ Ready(x) /\ x \in Executions /\ Fit(x) /\ Fine(p, x)
      /\ x.result = "none" /\ ~x.sinkFailure /\ UNCHANGED <<journal, delivered, spent>>
  BY SaveCursorEffect DEF Local, Undisturbed, Ready
<1>2. Owns(x)
  BY <1>1, OwnersOwn
<1>3. \/ head' = head /\ \E w : Becomes(p, w) /\ Fails(p, x, w)
      \/ Wrote(rec) /\ Becomes(p, y)
  BY SaveCursorEffect
<1>4. ASSUME head' = head, NEW w, Becomes(p, w), Fails(p, x, w)
      PROVE  Story'
  BY <1>1, <1>2, <1>4, FailersAreFine, QuitterRetold
<1>5. ASSUME Wrote(rec), Becomes(p, y)
      PROVE  Story'
  <2> PICK n \in Nat : TaleOf(n)
    BY TalesAre
  <2>1. /\ rec \in Records /\ SameBut(rec, x.ckpt) /\ Payload(x, rec.body, NoEvent, "none")
        /\ rec.status = "running" /\ rec.owner = x.ckpt.owner
    BY <1>1, NoEventType, KeepingEffect
  <2> HIDE DEF rec
  <2>2. /\ head'.status = "running" /\ head'.body = rec.body /\ head'.claim = head.claim
        /\ x.ckpt.claim = head.claim /\ head.claim \in Nat
    BY <1>1, <1>2, <1>5, <2>1, WritersHold DEF TaleOf, Records
  <2>3. /\ HolderContinues(x, head, journal, ex, n) /\ HeadContinues(head, journal, ex, n)
        /\ InStep(x, head.body, journal, delivered, n) /\ head.status = "running"
    BY <1>1, <1>2, <2>2, HoldersTell
  <2>4. \A q : Follows(q, head, journal, ex, n) => Follows(q, head', journal, ex, n)
    BY <2>2 DEF Follows, Stamper
  <2>5. x.progress = NoProgress <=> head.body.progress = NoProgress
    BY <1>1, <2>3 DEF HolderContinues
  <2>6. HeadContinues(head', journal, ex, n)
    <3>1. LastOf(head', journal, ex, n)
      BY <2>1, <2>2, <2>3, <2>5 DEF LastOf, HeadContinues, Payload
    <3> QED BY <2>1, <2>2, <2>3, <2>4, <3>1 DEF HeadContinues, HolderContinues, Payload
  <2>7. /\ z \in Executions /\ Fit(z) /\ Owns(z) /\ z.pc = "saveCursor"
        /\ z.mode = x.mode /\ z.ints = x.ints /\ z.progress = x.progress /\ z.cursor = x.cursor
        /\ z.result = "none" /\ ~z.sinkFailure /\ z.ckpt = [rec EXCEPT !.version = @ + 1]
    <3>1. z.cursor = x.cursor /\ z.ckpt = [rec EXCEPT !.version = @ + 1]
      BY <1>1 DEF Saved, Executions
    <3> QED BY <1>1, <1>2, <2>1, <3>1, SavedIsFine
  <2> HIDE DEF z
  <2>8. head'.body.progress = x.progress
    BY <2>1, <2>2 DEF Payload
  <2>9. CASE x.more
    <3>1. y = Moved(z, "reconcile")
      BY <2>9
    <3> HIDE DEF y
    <3>2. /\ y.ckpt = z.ckpt /\ y.pc = "reconcile" /\ y.ints = x.ints
          /\ y.progress = x.progress /\ y.cursor = x.cursor
      BY <2>7, <3>1 DEF Moved, Executions
    <3>3. HolderContinues(y, head', journal, ex, n)
      BY <2>3, <2>4, <2>8, <3>2 DEF HolderContinues, Announcing
    <3>4. Stays(z, y)
      BY <3>2 DEF Stays
    <3>5. Stays(x, y)
      BY <1>1, <1>2, <2>1, <2>7, <3>4, SavedTold
    <3> QED BY <1>1, <1>2, <1>5, <2>2, <2>6, <3>3, <3>5, WrittenRetold DEF TaleOf
  <2>10. CASE ~x.more
    <3>1. y = Reconciled(p, z)
      BY <2>10
    <3> HIDE DEF y
    <3>2. x.progress # NoProgress => x.cursor = n /\ x.progress.next > 0
      BY <1>1, <1>2, <2>3 DEF InStep, OnBatch, Fine, Batching, Announcing
    <3>3. x.progress # NoProgress => Follows(x.progress.by, head', journal, ex, n)
      BY <2>3, <2>4 DEF HolderContinues
    <3>4. Recorded(z.progress, z.ints, z.cursor, journal)
      BY <2>3, <2>7 DEF HolderContinues
    <3>5. Stays(z, y) /\ (Holds(y, head') => HolderContinues(y, head', journal, ex, n))
      BY <2>7, <2>8, <3>1, <3>2, <3>3, <3>4, ReconciledTold
    <3>6. Stays(x, y)
      BY <1>1, <1>2, <2>1, <2>7, <3>5, SavedTold
    <3> QED BY <1>1, <1>2, <1>5, <2>2, <2>6, <3>5, <3>6, WrittenRetold DEF TaleOf
  <2> QED BY <2>9, <2>10
<1> QED BY <1>3, <1>4, <1>5

(* The holder, or the hook of a run that is not created yet, appends e.    *)
LEMMA NextTold ==
  ASSUME Local, Claims, NEW p \in Invocations, NEW y, Becomes(p, y), Stays(ex[p], y),
         head' = head, NEW n \in Nat, Tale(head, journal, ex, n),
         DOMAIN journal' = 1..(n + 1), \A s \in 1..n : journal'[s] = journal[s],
         NEW e, journal'[n + 1] = e,
         IF e.type = "hook" THEN n = 0 ELSE Stamper(e.by, head, ex),
         n > 0 => InARow(journal[n], e, ex),
         HeadContinues(head, journal', ex, n + 1),
         \A q \in Invocations \ {p} : ~Holds(ex[q], head),
         Holds(y, head) => HolderContinues(y, head, journal', ex, n + 1)
  PROVE  Story'
<1>1. head.claim \in Nat
  BY DEF Claims, Claimable, Records
<1>2. Stayed(head, ex, head, ex')
  BY <1>1, StampersStay
<1>3. Stamped(head, journal', ex, n + 1)
  <2>1. Stamped(head, journal, ex, n)
    BY DEF Tale
  <2>2. \A s \in 1..(n + 1) : s \in 1..n \/ s = n + 1
    OBVIOUS
  <2> QED BY <2>1, <2>2 DEF Stamped
<1>4. Whole(journal', ex, n + 1)
  <2> SUFFICES ASSUME NEW s \in 1..n
               PROVE  InARow(journal'[s], journal'[s + 1], ex)
    <3>1. n + 1 - 1 = n
      OBVIOUS
    <3> QED BY <3>1 DEF Whole
  <2>1. CASE s = n
    BY <2>1
  <2>2. CASE s # n
    <3>1. s \in 1..(n - 1) /\ s + 1 \in 1..n
      BY <2>2
    <3>2. InARow(journal[s], journal[s + 1], ex)
      BY <3>1 DEF Tale, Whole
    <3> QED BY <3>1, <3>2
  <2> QED BY <2>1, <2>2
<1>5. /\ Stamped(head, journal', ex', n + 1) /\ Whole(journal', ex', n + 1)
      /\ HeadContinues(head, journal', ex', n + 1)
      /\ \A x : HolderContinues(x, head, journal', ex, n + 1) =>
                 HolderContinues(x, head, journal', ex', n + 1)
  BY <1>2, <1>3, <1>4, RestStays
<1>6. ex'[p] = y /\ \A q \in Invocations \ {p} : ex'[q] = ex[q]
  BY LocalStep
<1>7. \A q \in Invocations : Holds(ex'[q], head) => HolderContinues(ex'[q], head, journal', ex', n + 1)
  BY <1>5, <1>6
<1>8. Tale(head', journal', ex', n + 1)
  BY <1>5, <1>7 DEF Tale
<1> QED BY <1>8 DEF Story

(* What the holder x announces is the next thing to tell.                  *)
LEMMA AnnouncedTells ==
  ASSUME Undisturbed, Local, Claims, NEW n \in Nat, TaleOf(n), NEW p \in Invocations,
         Owns(ex[p]), ex[p].pc = "append", ex[p].ckpt.claim = head.claim,
         ex[p].cursor = n
  PROVE  LET x == ex[p]
             e == x.ev
             b == head.body
         IN
         /\ Follows(e.by, head, journal, ex, n) /\ e.type # "hook"
         /\ n > 0 => InARow(journal[n], e, ex)
         /\ e.type \in InterruptTypes => b.progress # NoProgress
         /\ b.pending # NoEvent => b.pending = e
         /\ b.progress # NoProgress => e.by = b.progress.by
         /\ x.progress # NoProgress => e.by = x.progress.by
         /\ x.progress # NoProgress /\ x.progress.next > 0 => n > 0
         /\ IF b.pending = NoEvent THEN b.progress = NoProgress ELSE b.cursor = n
<1> DEFINE x == ex[p]
           e == x.ev
           b == head.body
<1>1. /\ HolderContinues(x, head, journal, ex, n) /\ HeadContinues(head, journal, ex, n)
      /\ InStep(x, b, journal, delivered, n)
      /\ head \in Records /\ Exists(head) /\ head.status = "running"
      /\ Fine(p, x) /\ validInterruptProgress(head)
      /\ Stamper(p, head, ex) /\ \A f : f.by = p => Follows(f.by, head, journal, ex, n)
  BY HoldersTell
<1>2. /\ Announced(x, b) /\ OnBatch(x, b, n) /\ Announces(p, x) /\ Batching(p, x)
      /\ e # NoEvent /\ x \in Executions /\ x.mode \in Modes
  BY <1>1 DEF InStep, Fine, Batching, Announcing, Local, Sound, Placed, Executions
<1>3. x.progress \in Progresses /\ x.ints \in SUBSET InterruptIDs
  BY <1>2 DEF Executions
<1>4. /\ x.progress = NoProgress <=> x.ints = {}
      /\ x.progress # NoProgress =>
           /\ x.progress.first > 0 /\ x.progress.next \in Nat
           /\ e = BatchEvent(x.progress, x.ints, x.progress.next)
           /\ x.progress.next < BatchSize(x.ints)
           /\ x.progress.first + x.progress.next = n + 1
  <2>1. x.mode = "terminal" => x.progress = NoProgress
    BY <1>2 DEF Batching, PlainModes
  <2>2. x.progress.next \in Nat
    BY <1>3 DEF Progresses
  <2> QED BY <1>2, <2>1, <2>2 DEF Batching, Announces, OnBatch
<1>5. x.progress # NoProgress => e.by = x.progress.by /\ e.type \in InterruptTypes
  BY <1>3, <1>4, BatchEventsTell
<1>6. x.progress = NoProgress => e.type \notin InterruptTypes \cup {"hook"}
  BY <1>2 DEF Announces
<1>7. x.progress = NoProgress <=> b.progress = NoProgress
  BY <1>1 DEF HolderContinues
<1>8. IF x.mode \in ObserveModes
      THEN b.pending = NoEvent /\ x.progress = NoProgress /\ e.by = p
      ELSE b.pending = e /\ b.cursor = n
  <2>1. x.mode \in ObserveModes => x.progress = NoProgress
    BY <1>2 DEF OnBatch
  <2> QED BY <1>2, <2>1 DEF Announced, Announces, ObserveModes
<1>9. Follows(e.by, head, journal, ex, n)
  BY <1>1, <1>2, <1>8 DEF HeadContinues
<1>10. e.type # "hook"
  BY <1>5, <1>6 DEF InterruptTypes
<1>11. b.progress # NoProgress => e.by = b.progress.by
  <2> SUFFICES ASSUME b.progress # NoProgress PROVE e.by = b.progress.by
    OBVIOUS
  <2>1. b.pending = e
    BY <1>7, <1>8
  <2>2. e = BatchEvent(b.progress, b.ints, b.progress.next)
    BY <1>1, <1>2, <2>1 DEF validInterruptProgress
  <2> QED BY <2>2 DEF BatchEvent
<1>12. ASSUME n > 0
       PROVE  InARow(journal[n], e, ex)
  <2>1. journal[n].type = "guardInterrupted" => e.type \in InterruptTypes
    BY <1>1, <1>5, <1>7, <1>12 DEF HeadContinues, LastOf
  <2>2. ASSUME e.type = "interrupted"
        PROVE  journal[n].type = "guardInterrupted"
    <3>1. x.progress # NoProgress /\ x.ints # {}
      BY <1>4, <1>6, <2>2 DEF InterruptTypes
    <3>2. /\ Cardinality(x.ints) \in Nat /\ ~(x.progress.next < Cardinality(x.ints))
      BY <1>3, <1>4, <2>2, <3>1, BatchEventsTell
    <3>3. Cardinality(x.ints) # 0
      <4>1. IsFiniteSet(x.ints)
        BY <1>3, RunAssumption, FS_Subset
      <4> QED BY <3>1, <4>1, FS_EmptySet
    <3>4. BatchSize(x.ints) = Cardinality(x.ints) + 1
      BY <1>3, BatchEventsTell
    <3>5. /\ x.progress.next = Cardinality(x.ints) /\ x.progress.next > 0
          /\ x.progress.next - 1 \in Nat /\ x.progress.next - 1 < Cardinality(x.ints)
      BY <1>4, <3>1, <3>2, <3>3, <3>4
    <3>6. journal[n] = BatchEvent(x.progress, x.ints, x.progress.next - 1)
      BY <1>1, <3>1, <3>5 DEF HolderContinues, Recorded
    <3> QED BY <1>3, <3>5, <3>6, BatchEventsTell
  <2>3. ASSUME journal[n].type = "interrupted"
        PROVE  ex[journal[n].by].ckpt.claim < ex[e.by].ckpt.claim
    <3>1. x.mode \in ObserveModes
      BY <1>1, <1>2, <1>8, <1>12, <2>3 DEF HeadContinues, LastOf
    <3>2. b.progress = NoProgress /\ e.by = p
      BY <1>7, <1>8, <3>1
    <3> QED BY <1>1, <1>12, <2>3, <3>2 DEF HeadContinues, LastOf
  <2>4. journal[n].type # "hook" => ex[journal[n].by].ckpt.claim <= ex[e.by].ckpt.claim
    BY <1>9, <1>12 DEF Follows
  <2> HIDE DEF e
  <2> QED BY <2>1, <2>2, <2>3, <2>4 DEF InARow
<1>13. x.progress # NoProgress /\ x.progress.next > 0 => n > 0
  BY <1>3, <1>4 DEF Progresses
<1>14. IF b.pending = NoEvent THEN b.progress = NoProgress ELSE b.cursor = n
  BY <1>2, <1>7, <1>8
<1> QED BY <1>5, <1>6, <1>7, <1>8, <1>9, <1>10, <1>11, <1>12, <1>13, <1>14

LEMMA AppendTold ==
  ASSUME Undisturbed, Story, Agree, Local, Claims, HooksComeFirst, NEW p \in Invocations,
         AppendEvent(p)
  PROVE  Story'
<1> DEFINE x == ex[p]
           y == Moved(Counted(x), "deliver")
<1>1. /\ x.pc = "append" /\ UNCHANGED <<head, delivered>> /\ Ready(x) /\ x \in Executions
      /\ Fit(x) /\ x.ev.seq \in Nat /\ Sound(x)
  BY AppendEffect DEF Ready, Executions, Events, Local
<1>2. CASE journal' = journal /\ \E w : Becomes(p, w) /\ Quits(x, w)
  BY <1>1, <1>2, QuitterRetold
<1>3. CASE Fenced(x) /\ Accepts(x.ev) /\ journal' = Journaled(x.ev) /\ Becomes(p, y)
  <2> PICK n \in Nat : TaleOf(n)
    BY TalesAre
  <2>1. /\ y.pc = "deliver" /\ y.mode = x.mode /\ y.ev = x.ev /\ y.cursor = x.cursor
        /\ y.ckpt = x.ckpt /\ y.progress = x.progress /\ y.ints = x.ints
    BY <1>1 DEF Moved, Counted, Executions
  <2> HIDE DEF y
  <2>2. Stays(x, y)
    BY <1>1, <2>1 DEF Stays
  <2>3. Holds(y, head) => Holds(x, head)
    BY <1>1, <2>1 DEF Holds, Owns, OwningSteps
  <2>4. DOMAIN journal = 1..n /\ journal \in [1..n -> Events] /\ Tale(head, journal, ex, n)
    BY DEF TaleOf, Agreement, Kept
  <2>5. Holds(x, head) => HolderContinues(x, head, journal, ex, n)
    BY <2>4 DEF Tale
  <2>6. CASE x.ev.seq \in 1..n
    <3>1. Journaled(x.ev) = [s \in DOMAIN journal |-> journal[s]]
      BY <1>3, <2>4, <2>6 DEF Journaled, Accepts
    <3>2. journal' = journal
      BY <1>3, <2>4, <3>1
    <3>3. Holds(y, head) => HolderContinues(y, head, journal, ex, n)
      BY <1>1, <2>1, <2>3, <2>5 DEF HolderContinues, Announcing
    <3> QED BY <1>1, <1>3, <2>2, <2>4, <3>2, <3>3, QuietlyRetold
  <2>7. CASE x.ev.seq \notin 1..n /\ x.mode = "hook"
    <3>1. x.ev.seq = 1 /\ x.ev.type = "hook"
      BY <1>1, <2>7 DEF TaleOf, Agreement, Hooked
    <3>2. n = 0 /\ ~Exists(head)
      <4>1. n = 0
        BY <2>7, <3>1
      <4> QED BY <1>1, <2>4, <2>7, <3>1, <4>1 DEF HooksComeFirst, Fit
    <3>3. head = Absent
      BY <3>2 DEF Claims, Claimable, Exists, Records
    <3>4. DOMAIN journal' = 1..(n + 1) /\ journal'[n + 1] = x.ev
      BY <1>3, <2>4, <3>1, <3>2 DEF Journaled
    <3>5. HeadContinues(head, journal', ex, n + 1)
      BY <3>1, <3>2, <3>3, <3>4 DEF Absent, EmptyBody, HeadContinues, Recorded, LastOf
    <3>6. \A q \in Invocations : ~Holds(ex[q], head)
      <4>1. head.claim = 0
        BY <3>3 DEF Absent
      <4> QED BY <4>1 DEF Claims, Entitled, Granted, Holds
    <3>7. ~Holds(y, head)
      BY <2>1, <2>7 DEF Holds, Owns
    <3>8. \A s \in 1..n : journal'[s] = journal[s]
      BY <3>2
    <3> HIDE DEF x
    <3> QED BY <1>1, <1>3, <2>2, <2>4, <3>1, <3>2, <3>4, <3>5, <3>6, <3>7, <3>8, NextTold DEF x
  <2>8. CASE x.ev.seq \notin 1..n /\ x.mode # "hook"
    <3>1. Owns(x) /\ x.ckpt.claim = head.claim /\ Holds(x, head)
      BY <1>1, <1>3, <2>8 DEF Fenced, FenceOutcome, Owns, OwningSteps, Holds
    <3>2. /\ HolderContinues(x, head, journal, ex, n) /\ HeadContinues(head, journal, ex, n)
          /\ InStep(x, head.body, journal, delivered, n) /\ head \in Records
          /\ validInterruptProgress(head) /\ Exists(head) /\ head.status = "running"
      BY <1>1, <3>1, HoldersTell
    <3>3. x.cursor = n /\ x.ev.seq = n + 1 /\ head.body.cursor <= n
      <4>1. /\ x.ev.seq = x.cursor + 1 /\ x.cursor <= n /\ head.body.cursor <= x.cursor
            /\ x.cursor \in Nat /\ head.body.cursor \in Nat
        BY <1>1, <3>2 DEF InStep, Executions, Records, Bodies
      <4> QED BY <2>8, <4>1
    <3> DEFINE e == x.ev
               b == head.body
    <3>4. /\ Follows(e.by, head, journal, ex, n) /\ e.type # "hook"
          /\ n > 0 => InARow(journal[n], e, ex)
          /\ e.type \in InterruptTypes => b.progress # NoProgress
          /\ b.pending # NoEvent => b.pending = e
          /\ b.progress # NoProgress => e.by = b.progress.by
          /\ x.progress # NoProgress => e.by = x.progress.by
          /\ x.progress # NoProgress /\ x.progress.next > 0 => n > 0
      BY <1>1, <3>1, <3>3, AnnouncedTells
    <3>5. /\ DOMAIN journal' = 1..(n + 1) /\ \A s \in 1..n : journal'[s] = journal[s]
          /\ journal'[n + 1] = e
      <4>1. journal' = [s \in DOMAIN journal \cup {n + 1} |->
                          IF s = n + 1 THEN e ELSE journal[s]]
        BY <1>3, <3>3 DEF Journaled
      <4>2. DOMAIN journal \cup {n + 1} = 1..(n + 1)
        BY <2>4
      <4> HIDE DEF e
      <4> QED BY <4>1, <4>2
    <3>6. Stamper(e.by, head, ex) /\ \A f : f.by = e.by => Follows(f.by, head, journal', ex, n + 1)
      <4>1. Stamper(e.by, head, ex)
        BY <3>4 DEF Follows
      <4>2. ex[e.by].ckpt.claim \in Nat
        BY <3>2, <4>1 DEF Stamper, Records
      <4> HIDE DEF e
      <4> QED BY <3>5, <4>1, <4>2 DEF Follows
    <3>7. HeadContinues(head, journal', ex, n + 1)
      <4>1. Recorded(b.progress, b.ints, b.cursor, journal')
        <5> SUFFICES ASSUME b.progress # NoProgress, b.progress.next > 0
                     PROVE  journal'[b.cursor] = BatchEvent(b.progress, b.ints, b.progress.next - 1)
          BY DEF Recorded
        <5>1. b.progress.first > 0 /\ b.progress \in Progresses /\ b.cursor \in Nat
          BY <3>2 DEF Undisturbed, Resumable, checkpointTerminal, TerminalStatuses, Records, Bodies
        <5>2. b.cursor = b.progress.first + b.progress.next - 1
          BY <3>2 DEF validInterruptProgress
        <5>3. b.cursor \in 1..n
          BY <3>3, <5>1, <5>2 DEF Progresses
        <5>4. journal[b.cursor] = BatchEvent(b.progress, b.ints, b.progress.next - 1)
          BY <3>2 DEF HeadContinues, Recorded
        <5> HIDE DEF b
        <5> QED BY <3>5, <5>3, <5>4
      <4>2. LastOf(head, journal', ex, n + 1)
        <5>1. b.cursor # n + 1
          <6>1. b.cursor \in Nat
            BY <3>2 DEF Records, Bodies
          <6> QED BY <3>3, <6>1
        <5> HIDE DEF e
        <5> QED BY <3>4, <3>5, <5>1 DEF LastOf, InterruptTypes
      <4>3. b.pending # NoEvent =>
              Follows(b.pending.by, head, journal', ex, n + 1) /\ b.pending.type # "none"
        BY <3>2, <3>4, <3>6 DEF HeadContinues
      <4>4. b.progress # NoProgress => Follows(b.progress.by, head, journal', ex, n + 1)
        BY <3>4, <3>6
      <4> QED BY <4>1, <4>2, <4>3, <4>4 DEF HeadContinues
    <3>8. HolderContinues(y, head, journal', ex, n + 1)
      <4>1. Recorded(y.progress, y.ints, y.cursor, journal')
        BY <2>1, <3>2, <3>3, <3>4, <3>5 DEF HolderContinues, Recorded
      <4>2. y.progress # NoProgress => Follows(y.progress.by, head, journal', ex, n + 1)
        BY <2>1, <3>4, <3>6
      <4>3. y.ev.type # "none"
        BY <1>1, <2>1, <3>2 DEF HolderContinues, Announcing
      <4> QED BY <1>1, <2>1, <3>2, <4>1, <4>2, <4>3 DEF HolderContinues
    <3>9. \A q \in Invocations \ {p} : ~Holds(ex[q], head)
      BY <3>1, HoldersAreOne DEF Holds, Granted
    <3> HIDE DEF e, b
    <3>10. IF e.type = "hook" THEN n = 0 ELSE Stamper(e.by, head, ex)
      BY <3>4, <3>6
    <3>11. n > 0 => InARow(journal[n], e, ex)
      BY <3>4
    <3> HIDE DEF x
    <3> QED BY <1>1, <1>3, <2>2, <2>4, <3>5, <3>7, <3>8, <3>9, <3>10, <3>11, NextTold DEF x
  <2> QED BY <2>6, <2>7, <2>8
<1> QED BY <1>2, <1>3, AppendEffect

(* What the holder goes on with once its event is delivered.               *)
LEMMA EmittedTold ==
  ASSUME NEW p \in Invocations, NEW x \in Executions, Sound(x), Fine(p, x), Owns(x),
         x.pc = "deliver", NEW w, w = Emitted(p, x), NEW h, NEW j, NEW d, NEW X,
         NEW n \in Nat, InStep(x, h.body, j, d, n), j[n] = x.ev,
         HolderContinues(x, h, j, X, n)
  PROVE  Holds(w, h) => HolderContinues(w, h, j, X, n)
<1> DEFINE y == Delivered(x)
<1>1. /\ x.cursor = n - 1 /\ x.seq = n /\ x.ev.seq = n /\ Announced(x, h.body)
      /\ OnBatch(x, h.body, n) /\ Announces(p, x) /\ Batching(p, x) /\ x.mode # "hook"
  BY DEF InStep, Fine, Batching, Announcing, Owns
<1>2. /\ y \in Executions /\ y.cursor = n /\ y.mode = x.mode /\ y.ckpt = x.ckpt
      /\ y.progress = x.progress /\ y.ints = x.ints
  BY <1>1, DeliveredFit DEF Sound
<1>3. x.progress \in Progresses /\ x.ints \in SUBSET InterruptIDs
  BY DEF Executions
<1>4. x.progress # NoProgress =>
        /\ x.progress.next \in Nat /\ x.ev = BatchEvent(x.progress, x.ints, x.progress.next)
        /\ x.ev.type \in InterruptTypes
        /\ x.progress.next < BatchSize(x.ints) /\ h.body.progress # NoProgress
  <2>1. x.progress.next \in Nat
    BY <1>3 DEF Progresses
  <2> QED BY <1>1, <1>3, <2>1, BatchEventsTell DEF Announces, HolderContinues
<1>5. x.mode \in PlainModes => x.progress = NoProgress
  BY <1>1 DEF Batching
<1>6. ASSUME Leaves(x, w, "error")
      PROVE  ~Holds(w, h)
  BY <1>6 DEF Leaves, Holds, Owns, OwningSteps
<1>7. ASSUME x.progress = NoProgress, w.progress = NoProgress,
             w.pc \in {"savePending", "work"} => x.mode \in ObserveModes,
             w.pc \in Announcing => w.ev.type # "none"
      PROVE  HolderContinues(w, h, j, X, n)
  <2>1. x.mode \in ObserveModes => j[n].type # "interrupted"
    BY <1>1 DEF Announced, ObservedTypes
  <2> QED BY <1>7, <2>1 DEF HolderContinues, Recorded
<1>8. ASSUME x.progress # NoProgress, w.pc = "confirm", w.cursor = n, w.ints = x.ints,
             w.progress = [x.progress EXCEPT !.next = @ + 1]
      PROVE  HolderContinues(w, h, j, X, n)
  <2> DEFINE q == w.progress
  <2>1. /\ q.first = x.progress.first /\ q.by = x.progress.by
        /\ q.next = x.progress.next + 1 /\ q.next - 1 = x.progress.next
    BY <1>3, <1>4, <1>8 DEF Progresses
  <2>2. BatchEvent(q, w.ints, q.next - 1) = x.ev
    BY <1>4, <1>8, <2>1 DEF BatchEvent
  <2>3. Follows(q.by, h, j, X, n)
    BY <1>8, <2>1 DEF HolderContinues
  <2>4. Recorded(w.progress, w.ints, w.cursor, j)
    BY <1>8, <2>2 DEF Recorded
  <2>5. w.pc = "confirm" /\ h.body.progress # NoProgress /\ q # NoProgress
    <3>1. NoProgress.next = 0
      BY DEF NoProgress
    <3>2. x.progress.next \in Nat /\ h.body.progress # NoProgress
      BY <1>4, <1>8
    <3> HIDE DEF q
    <3>3. q.next # 0
      BY <2>1, <3>2
    <3> QED BY <1>8, <3>1, <3>2, <3>3
  <2> HIDE DEF q
  <2> QED BY <2>3, <2>4, <2>5 DEF HolderContinues, Announcing, q
<1>9. CASE x.mode = "observe" /\ w = Moved(y, "work")
  <2>1. w.pc = "work" /\ w.progress = x.progress
    BY <1>2, <1>9 DEF Moved, Executions
  <2> QED BY <1>5, <1>7, <1>9, <2>1 DEF PlainModes, ObserveModes, Announcing
<1>10. CASE x.mode = "nodeFailed" /\ (Leaves(x, w, "error") \/ Ends(p, y, w))
  <2>1. Ends(p, y, w) => w.progress = x.progress /\ w.ev.type \in TerminalStatuses
    BY <1>2 DEF Ends, SameWork, Stamp
  <2>2. "none" \notin TerminalStatuses
    BY DEF TerminalStatuses
  <2> QED BY <1>5, <1>6, <1>7, <1>10, <2>1, <2>2 DEF PlainModes, ObserveModes
<1>11. CASE x.mode = "loaded" /\ w = Saving(y, "start", Stamp(p, y, Start(y)))
  <2>1. w.progress = x.progress /\ w.ev.type = Start(y)
    BY <1>2, <1>11 DEF Saving, Executions, Stamp
  <2>2. w.ev.type # "none"
    BY <2>1, StartType
  <2> QED BY <1>5, <1>7, <1>11, <2>1, <2>2 DEF PlainModes, ObserveModes
<1>12. CASE x.mode \in {"start", "step"} /\ w = Moved(y, "confirm")
  <2>1. w.pc = "confirm" /\ w.progress = x.progress
    BY <1>2, <1>12 DEF Moved, Executions
  <2> QED BY <1>5, <1>7, <1>12, <2>1 DEF PlainModes, Announcing
<1>13. CASE x.mode \in BatchModes /\ w = Confirming(y)
  <2>1. /\ w.pc = "confirm" /\ w.cursor = n /\ w.ints = x.ints
        /\ w.progress = [x.progress EXCEPT !.next = @ + 1]
    BY <1>2, <1>13 DEF Confirming, Executions
  <2>2. x.progress # NoProgress
    BY <1>1, <1>13 DEF Batching
  <2> QED BY <1>8, <2>1, <2>2
<1>14. CASE x.mode = "terminal" /\ (Leaves(x, w, "error") \/ w = Finishing(y))
  <2>1. w = Finishing(y) => w.pc = "finish" /\ w.progress = x.progress
    BY <1>2 DEF Finishing, Executions
  <2> QED BY <1>5, <1>6, <1>7, <1>14, <2>1 DEF PlainModes, Announcing
<1>15. Replayed(x) \in Executions /\ Replayed(x).cursor = n /\ Replayed(x).ints = x.ints
       /\ Replayed(x).progress =
            IF ReplaysBatch(x) THEN [x.progress EXCEPT !.next = @ + 1] ELSE x.progress
  BY <1>1, ReplayedFit DEF Sound
<1>16. CASE x.mode = "replay" /\ x.term # "none" /\ (Leaves(x, w, "error") \/ w = Finishing(Replayed(x)))
  <2>1. x.ev.type \in TerminalStatuses
    BY <1>1, <1>16 DEF Batching
  <2>2. x.progress = NoProgress
    BY <1>4, <2>1 DEF TerminalStatuses, InterruptTypes
  <2>3. w = Finishing(Replayed(x)) => w.pc = "finish" /\ w.progress = x.progress
    BY <1>15, <2>2 DEF Finishing, Executions, ReplaysBatch
  <2> QED BY <1>6, <1>7, <1>16, <2>2, <2>3 DEF Announcing
<1>17. CASE x.mode = "replay" /\ x.term = "none" /\ w = Moved(Replayed(x), "confirm")
  <2>1. /\ w.pc = "confirm" /\ w.cursor = n /\ w.ints = x.ints
        /\ w.progress = IF ReplaysBatch(x) THEN [x.progress EXCEPT !.next = @ + 1]
                        ELSE x.progress
    BY <1>15, <1>17 DEF Moved, Executions
  <2>2. CASE x.progress = NoProgress
    BY <1>7, <2>1, <2>2 DEF ReplaysBatch, Announcing
  <2>3. CASE x.progress # NoProgress
    <3>1. x.progress.first + x.progress.next = n
      BY <1>1, <1>17, <2>3 DEF OnBatch
    <3>2. ReplaysBatch(x)
      BY <1>1, <1>4, <2>3, <3>1 DEF ReplaysBatch
    <3> QED BY <1>8, <2>1, <2>3, <3>2
  <2> QED BY <2>2, <2>3
<1> HIDE DEF y
<1> QED BY <1>1, <1>9, <1>10, <1>11, <1>12, <1>13, <1>14, <1>16, <1>17, EmittedEffect DEF y

LEMMA DeliverTold ==
  ASSUME Undisturbed, Story, Agree, Local, Claims, NEW p \in Invocations, Deliver(p)
  PROVE  Story'
<1> DEFINE x == ex[p]
           w == Emitted(p, x)
<1>1. /\ x.pc = "deliver" /\ Sound(x) /\ x \in Executions /\ UNCHANGED <<head, journal>>
      /\ Becomes(p, w) /\ Fine(p, x) /\ x.ckpt.claim \in Nat
  BY DeliverEffect DEF Local, Undisturbed, Executions, Records
<1> PICK n \in Nat : TaleOf(n)
  BY TalesAre
<1>2. DOMAIN journal = 1..n /\ Tale(head, journal, ex, n) /\ OnItsWay(x, journal, n)
  BY DEF TaleOf, Agreement
<1>3. CASE x.mode = "hook"
  <2>1. w = Moved(Delivered(x), "create")
    BY <1>1, <1>3, EmittedEffect DEF BatchModes
  <2>2. w.pc = "create" /\ w.ckpt = x.ckpt
    BY <1>1, <1>3, <2>1 DEF Moved, Delivered, Executions
  <2>3. ~Holds(w, head) /\ Stays(x, w)
    <3> HIDE DEF w
    <3> QED BY <2>2 DEF Holds, Owns, OwningSteps, Stays
  <2> HIDE DEF w
  <2> QED BY <1>1, <1>2, <2>3, QuietlyRetold
<1>4. CASE x.mode # "hook"
  <2>1. Owns(x)
    BY <1>1, <1>4 DEF Owns, OwningSteps
  <2>2. w.ckpt.claim = x.ckpt.claim
    BY <1>1, <1>4, <2>1, EmittedQuiet
  <2>3. w.pc \notin {"idle", "claim"}
    <3> DEFINE y == Delivered(x)
    <3>1. y \in Executions /\ Replayed(x) \in Executions
      BY <1>1, DeliveredFit, ReplayedFit DEF Sound
    <3>2. \/ \E pc \in {"work", "confirm"} : w = Moved(y, pc) \/ w = Moved(Replayed(x), pc)
          \/ Leaves(x, w, "error") \/ Ends(p, y, w)
          \/ w = Saving(y, "start", Stamp(p, y, Start(y)))
          \/ w = Confirming(y) \/ w = Finishing(y) \/ w = Finishing(Replayed(x))
      BY <1>1, <1>4, EmittedEffect
    <3> HIDE DEF w, y
    <3> QED BY <3>1, <3>2 DEF Moved, Leaves, Ends, Saving, Confirming, Finishing, Executions
  <2> HIDE DEF w
  <2>4. Stays(x, w)
    BY <2>2, <2>3 DEF Stays
  <2>5. ASSUME Holds(w, head)
        PROVE  HolderContinues(w, head, journal, ex, n)
    <3>1. x.ckpt.claim = head.claim
      BY <2>2, <2>5 DEF Holds
    <3>2. /\ HolderContinues(x, head, journal, ex, n)
          /\ InStep(x, head.body, journal, delivered, n)
      BY <1>1, <2>1, <3>1, HoldersTell
    <3>3. journal[n] = x.ev
      BY <1>1, <1>2, <3>2 DEF InStep, OnItsWay
    <3> QED BY <1>1, <2>1, <2>5, <3>2, <3>3, EmittedTold DEF w
  <2> QED BY <1>1, <1>2, <2>4, <2>5, QuietlyRetold
<1> QED BY <1>3, <1>4

LEMMA RedeliverTold ==
  ASSUME Undisturbed, Story, Agree, Local, Claims, NEW p \in Invocations,
         NEW k \in 0..PageSize, Redeliver(p, k)
  PROVE  Story'
<1> DEFINE x == ex[p]
           m == Cardinality(Page(x))
           y == Moved(Advancing(x, k, m), "saveCursor")
<1>1. /\ x.pc = "reconcile" /\ Ready(x) /\ UNCHANGED <<head, journal>> /\ x \in Executions
      /\ Fit(x) /\ Fine(p, x) /\ x.result = "none" /\ ~x.sinkFailure /\ x.cursor \in Nat
      /\ x.ckpt.claim \in Nat
  BY RedeliverEffect DEF Ready, Undisturbed, Executions, Records
<1>2. Owns(x)
  BY <1>1, OwnersOwn
<1>3. \/ \E w : Becomes(p, w) /\ Quits(x, w)
      \/ Becomes(p, Reconciled(p, x))
      \/ /\ m # 0 /\ Page(x) = x.cursor + 1 .. x.cursor + m
         /\ Becomes(p, y)
  BY RedeliverEffect
<1>4. ASSUME NEW w, Becomes(p, w), Quits(x, w)
      PROVE  Story'
  BY <1>1, <1>4, QuitterRetold
<1> PICK n \in Nat : TaleOf(n)
  BY TalesAre
<1>5. DOMAIN journal = 1..n /\ Tale(head, journal, ex, n)
  BY DEF TaleOf
<1>6. ASSUME x.ckpt.claim = head.claim
      PROVE  /\ HolderContinues(x, head, journal, ex, n)
             /\ x.cursor <= n /\ head.body.progress = x.progress
             /\ x.progress # NoProgress => x.cursor = n /\ x.progress.next > 0
  <2>1. /\ HolderContinues(x, head, journal, ex, n)
        /\ InStep(x, head.body, journal, delivered, n)
    BY <1>1, <1>2, <1>6, HoldersTell
  <2>2. x.progress # NoProgress => x.progress.next > 0
    BY <1>1, <1>2 DEF Fine, Batching, Announcing
  <2> QED BY <1>1, <2>1, <2>2 DEF InStep, OnBatch
<1>7. ASSUME Becomes(p, Reconciled(p, x))
      PROVE  Story'
  <2> DEFINE w == Reconciled(p, x)
  <2>1. \/ x.progress # NoProgress /\ w = ContinueBatch(p, x, "restoreInterrupt")
        \/ Leaves(x, w, "error")
        \/ w = Appending(x, "loaded", Stamp(p, x, "loaded"))
    BY <1>1, ReconciledEffect
  <2>2. x.progress # NoProgress =>
          \/ Leaves(x, ContinueBatch(p, x, "restoreInterrupt"), "error")
          \/ \E e : ContinueBatch(p, x, "restoreInterrupt") = Saving(x, "restoreInterrupt", e)
          \/ ContinueBatch(p, x, "restoreInterrupt") = Interrupting(x, "restoreInterrupt")
    BY <1>1, ContinueBatchEffect DEF BatchModes
  <2>3. Stays(x, w) /\ (Leaves(x, w, "error") \/ w.ckpt = x.ckpt)
    <3>1. CASE Leaves(x, w, "error")
      BY <1>1, <3>1, LeaversStay
    <3>2. ASSUME \/ \E e : w = Saving(x, "restoreInterrupt", e)
                 \/ w = Interrupting(x, "restoreInterrupt")
                 \/ w = Appending(x, "loaded", Stamp(p, x, "loaded"))
          PROVE  Stays(x, w) /\ w.ckpt = x.ckpt
      <4>1. w.ckpt = x.ckpt /\ w.pc \notin {"idle", "claim"}
        <5> HIDE DEF w
        <5> QED BY <1>1, <3>2 DEF Saving, Interrupting, Appending, Executions
      <4> QED BY <4>1 DEF Stays
    <3> HIDE DEF w
    <3> QED BY <2>1, <2>2, <3>1, <3>2
  <2>4. ASSUME Holds(w, head)
        PROVE  HolderContinues(w, head, journal, ex, n)
    <3>1. x.ckpt.claim = head.claim
      BY <2>3, <2>4 DEF Holds, Owns, OwningSteps, Leaves
    <3>2. Recorded(x.progress, x.ints, x.cursor, journal)
      BY <1>6, <3>1 DEF HolderContinues
    <3>3. x.progress # NoProgress => Follows(x.progress.by, head, journal, ex, n)
      BY <1>6, <3>1 DEF HolderContinues
    <3> HIDE DEF x
    <3> QED BY <1>1, <1>6, <2>4, <3>1, <3>2, <3>3, ReconciledTold
  <2> HIDE DEF w
  <2> QED BY <1>1, <1>5, <1>7, <2>3, <2>4, QuietlyRetold DEF w
<1>8. ASSUME m # 0, Page(x) = x.cursor + 1 .. x.cursor + m, Becomes(p, y)
      PROVE  Story'
  <2>1. /\ y.pc = "saveCursor" /\ y.ckpt = x.ckpt /\ y.progress = x.progress /\ y.ints = x.ints
    BY <1>1 DEF Moved, Advancing, Executions
  <2> HIDE DEF y
  <2>2. Stays(x, y)
    BY <2>1 DEF Stays
  <2>3. ASSUME Holds(y, head)
        PROVE  HolderContinues(y, head, journal, ex, n)
    <3>1. x.ckpt.claim = head.claim
      BY <2>1, <2>3 DEF Holds
    <3>2. m \in Nat
      <4>1. Page(x) \subseteq 1..n
        BY <1>5 DEF Page, Beyond
      <4>2. IsFiniteSet(Page(x))
        BY <4>1, FS_Interval, FS_Subset
      <4> QED BY <4>2, FS_CardinalityType
    <3> HIDE DEF m
    <3>3. x.cursor + m <= n
      <4> HIDE DEF x
      <4> QED BY <1>1, <1>5, <1>6, <1>8, <3>1, <3>2, PagesAreNext
    <3>4. x.progress = NoProgress
      BY <1>1, <1>6, <1>8, <3>1, <3>2, <3>3
    <3> QED BY <1>6, <2>1, <3>1, <3>4 DEF HolderContinues, Recorded, Announcing
  <2> QED BY <1>1, <1>5, <1>8, <2>2, <2>3, QuietlyRetold
<1> HIDE DEF y
<1> QED BY <1>3, <1>4, <1>7, <1>8

LEMMA ReleaseTold ==
  ASSUME Undisturbed, Story, Agree, Local, Claims, NEW p \in Invocations, ReleaseLease(p)
  PROVE  Story'
<1> DEFINE x == ex[p]
           rec == Released(x.ckpt)
           y == Over(x, "end", "error")
<1>1. /\ x.pc = "release" /\ x \in Executions /\ Sound(x) /\ UNCHANGED <<journal, delivered>>
      /\ Becomes(p, y) /\ Quits(x, y) /\ Fine(p, x) /\ x.ckpt.claim \in Nat
  BY ReleaseEffect DEF Undisturbed, Executions, Records
<1> HIDE DEF y
<1>2. CASE head' = head
  BY <1>1, <1>2, QuitterRetold
<1>3. CASE /\ Wrote(rec) /\ x.ckpt.version > 0
           /\ rec.body = x.ckpt.body /\ rec.status = x.ckpt.status
           /\ SameBut(rec, x.ckpt)
  <2> PICK n \in Nat : TaleOf(n)
    BY TalesAre
  <2>1. x.mode # "hook"
    BY <1>1, <1>3 DEF Sound, Fit, Absent
  <2>2. Owns(x)
    BY <1>1, <2>1 DEF Owns, OwningSteps
  <2> HIDE DEF rec
  <2>3. /\ head \in Records /\ rec \in Records /\ rec.version = head.version
        /\ rec.claim = head.claim /\ head' = Written(head, rec, 0, 1) /\ Exists(head)
        /\ x.ckpt.claim = head.claim /\ head.claim \in Nat
    BY <1>3 DEF Wrote, SameBut, Claims, Claimable, Records
  <2>4. head.body = x.ckpt.body /\ head.status = x.ckpt.status
    BY <2>2, <2>3, HoldersAreCurrent
  <2>5. head'.claim = head.claim /\ head'.status = head.status /\ head'.body = head.body
    BY <1>3, <2>3, <2>4, WrittenEffect
  <2>6. HeadContinues(head', journal, ex, n)
    BY <2>5 DEF TaleOf, Tale, HeadContinues, Follows, Stamper, LastOf
  <2>7. Stays(x, y) /\ ~Holds(y, head')
    <3>1. ~Holds(y, head')
      BY <1>1 DEF Quits, Holds, Owns, OwningSteps
    <3> QED BY <1>1, <3>1, QuittersStay
  <2> QED BY <1>1, <2>2, <2>3, <2>5, <2>6, <2>7, WrittenRetold DEF TaleOf
<1> QED BY <1>2, <1>3, ReleaseEffect DEF y

LEMMA WorkTold ==
  ASSUME Undisturbed, Story, Agree, Local, Claims, NEW p \in Invocations, ex[p].pc = "work",
         \/ StartNode(p) \/ EmitCustom(p) \/ CommitActivation(p)
         \/ \E ids \in SUBSET InterruptIDs : Interrupt(p, ids)
         \/ NodeFails(p) \/ WorkFails(p) \/ Complete(p)
  PROVE  Story'
<1> DEFINE x == ex[p]
<1>1. /\ Ready(x) /\ UNCHANGED <<head, journal>> /\ x \in Executions /\ Fine(p, x)
      /\ x.seq \in Nat
  BY WorkEffect DEF Local, Undisturbed, Executions
<1>2. Owns(x)
  BY <1>1, OwnersOwn
<1>3. PICK y :
        /\ Becomes(p, y)
        /\ \/ Quits(x, y)
           \/ Ends(p, x, y)
           \/ y = Saving(Starting(x), "step", Stamp(p, x, "nodeStarted"))
           \/ y = Appending(x, "observe", Stamp(p, x, "custom"))
           \/ y = Saving(Completing(x), "step", Stamp(p, x, "nodeCompleted"))
           \/ \E ids \in SUBSET InterruptIDs :
                /\ ids # {}
                /\ y = Saving(Raising(x, p, ids), "interrupt",
                              BatchEvent(Raising(x, p, ids).progress, ids, 0))
           \/ y = Appending(Failing(x), "nodeFailed", Stamp(p, x, "nodeFailed"))
  BY WorkEffect
<1> PICK n \in Nat : TaleOf(n)
  BY TalesAre
<1>4. DOMAIN journal = 1..n /\ Tale(head, journal, ex, n)
  BY DEF TaleOf
<1>5. x.progress = NoProgress
  BY <1>1, <1>2 DEF Fine, Batching
<1>6. ASSUME y.ckpt = x.ckpt, y.pc \in {"savePending", "append"}, y.ev.type # "none",
             \/ y.progress = NoProgress
             \/ y.pc = "savePending" /\ y.progress.next = 0 /\ y.progress.by = p
      PROVE  Story'
  <2>1. Stays(x, y)
    BY <1>6 DEF Stays
  <2>2. ASSUME Holds(y, head)
        PROVE  HolderContinues(y, head, journal, ex, n)
    <3>1. x.ckpt.claim = head.claim
      BY <1>6, <2>2 DEF Holds
    <3>2. /\ HolderContinues(x, head, journal, ex, n)
          /\ \A e : e.by = p => Follows(e.by, head, journal, ex, n)
      BY <1>2, <3>1, HoldersTell
    <3>3. y.progress # NoProgress => Follows(y.progress.by, head, journal, ex, n)
      BY <1>6, <3>2
    <3>4. Recorded(y.progress, y.ints, y.cursor, journal)
      BY <1>6 DEF Recorded
    <3> HIDE DEF x
    <3> QED BY <1>5, <1>6, <3>2, <3>3, <3>4 DEF HolderContinues, x
  <2> QED BY <1>1, <1>3, <1>4, <2>1, <2>2, QuietlyRetold
<1>7. CASE Quits(x, y)
  BY <1>1, <1>3, <1>7, QuitterRetold
<1>8. CASE Ends(p, x, y)
  <2>1. y.ev.type \in TerminalStatuses /\ y.pc = "savePending" /\ y.ckpt = x.ckpt
        /\ y.progress = NoProgress
    BY <1>5, <1>8 DEF Ends, SameWork, Stamp
  <2> QED BY <1>6, <2>1 DEF TerminalStatuses
<1>9. CASE \/ y = Saving(Starting(x), "step", Stamp(p, x, "nodeStarted"))
           \/ y = Appending(x, "observe", Stamp(p, x, "custom"))
           \/ y = Saving(Completing(x), "step", Stamp(p, x, "nodeCompleted"))
           \/ y = Appending(Failing(x), "nodeFailed", Stamp(p, x, "nodeFailed"))
  <2>1. /\ y.ckpt = x.ckpt /\ y.pc \in {"savePending", "append"} /\ y.progress = x.progress
    BY <1>1, <1>9 DEF Saving, Appending, Starting, Completing, Failing, Executions
  <2>2. \E type \in {"nodeStarted", "custom", "nodeCompleted", "nodeFailed"} :
          y.ev = Stamp(p, x, type)
    BY <1>1, <1>9 DEF Saving, Appending, Starting, Completing, Failing, Executions
  <2>3. y.ev.type # "none"
    BY <2>2 DEF Stamp
  <2> QED BY <1>5, <1>6, <2>1, <2>3
<1>10. ASSUME NEW ids \in SUBSET InterruptIDs,
              y = Saving(Raising(x, p, ids), "interrupt",
                         BatchEvent(Raising(x, p, ids).progress, ids, 0))
       PROVE  Story'
  <2> DEFINE g == [first |-> x.seq + 1, next |-> 0, by |-> p]
  <2>1. y.ckpt = x.ckpt /\ y.pc = "savePending" /\ y.progress = g /\ y.ev = BatchEvent(g, ids, 0)
    BY <1>1, <1>10 DEF Saving, Raising, Executions
  <2>2. g \in Progresses /\ g.next = 0 /\ g.by = p
    BY <1>1 DEF Progresses, Callers
  <2> HIDE DEF g
  <2>3. y.ev.type \in InterruptTypes
    BY <2>1, <2>2, BatchEventsTell
  <2> QED BY <1>6, <2>1, <2>2, <2>3 DEF InterruptTypes
<1> QED BY <1>3, <1>7, <1>8, <1>9, <1>10

LEMMA HeartbeatTold ==
  ASSUME Story, Agree, Local, Claims, NEW p \in Invocations, NEW faulty,
         HeartbeatFails(p, faulty)
  PROVE  Story'
<1> DEFINE x == ex[p]
<1>1. UNCHANGED <<head, journal>> /\ x \in Executions
  BY HeartbeatEffect DEF Local
<1>2. PICK y : Becomes(p, y) /\ Notified(x, y)
  BY HeartbeatEffect
<1> PICK n \in Nat : TaleOf(n)
  BY TalesAre
<1>3. DOMAIN journal = 1..n /\ Tale(head, journal, ex, n)
  BY DEF TaleOf
<1>4. /\ y.pc = x.pc /\ y.mode = x.mode /\ y.ckpt = x.ckpt /\ y.ints = x.ints
      /\ y.progress = x.progress /\ y.ev = x.ev /\ y.cursor = x.cursor
  BY <1>1, <1>2 DEF Notified, Executions
<1>5. Stays(x, y)
  BY <1>4 DEF Stays
<1>6. Holds(y, head) => HolderContinues(y, head, journal, ex, n)
  <2>1. Holds(x, head) => HolderContinues(x, head, journal, ex, n)
    BY <1>3 DEF Tale
  <2> HIDE DEF x
  <2> QED BY <1>4, <2>1 DEF Holds, Owns, HolderContinues
<1> QED BY <1>1, <1>2, <1>3, <1>5, <1>6, QuietlyRetold

LEMMA StoreFaultTold ==
  ASSUME Undisturbed, Story, Agree, Local, Claims, NEW p \in Invocations, StoreFault(p)
  PROVE  Story'
<1> DEFINE x == ex[p]
<1>1. UNCHANGED <<head, journal>> /\ x.pc \notin {"end", "crashed"}
  BY StoreFaultEffect
<1>2. PICK y :
        /\ Becomes(p, y)
        /\ \/ Quits(x, y)
           \/ /\ x.pc \in {"savePending", "confirm", "interrupt", "saveCursor"}
              /\ Ready(x) /\ Fails(p, x, y)
  BY StoreFaultEffect
<1>3. CASE Quits(x, y)
  BY <1>1, <1>2, <1>3, QuitterRetold
<1>4. CASE /\ x.pc \in {"savePending", "confirm", "interrupt", "saveCursor"}
           /\ Ready(x) /\ Fails(p, x, y)
  <2>1. Owns(x) /\ x.pc # "release"
    BY <1>4, OwnersOwn
  <2>2. Quits(x, y)
    BY <1>4, <2>1, FailersAreFine DEF Undisturbed
  <2> QED BY <1>1, <1>2, <2>2, QuitterRetold
<1> QED BY <1>2, <1>3, <1>4

LEMMA HookTold ==
  ASSUME Story, Agree, Local, Claims, NEW p \in Invocations, Hook(p)
  PROVE  Story'
<1> DEFINE x == ex[p]
           y == Appending(x, "hook", Stamp(p, x, "hook"))
<1>1. UNCHANGED <<head, journal>> /\ Becomes(p, y) /\ x.pc = "idle" /\ x \in Executions
  BY HookEffect DEF Local
<1>2. y.mode = "hook"
  BY <1>1 DEF Appending, Executions
<1>3. Stays(x, y) /\ ~Holds(y, head)
  BY <1>1, <1>2 DEF Stays, Holds, Owns
<1> PICK n \in Nat : TaleOf(n)
  BY TalesAre
<1> HIDE DEF y
<1> QED BY <1>1, <1>3, QuietlyRetold DEF TaleOf

LEMMA LoadTold ==
  ASSUME Story, Agree, Local, Claims, NEW p \in Invocations, Load(p)
  PROVE  Story'
<1> DEFINE x == ex[p]
<1>1. x.pc = "idle" /\ UNCHANGED <<head, journal>> /\ x \in Executions
  BY LoadEffect DEF Claims, Claimable, Local
<1>2. PICK y : Becomes(p, y) /\ (Quits(x, y) \/ y = Loading(x))
  BY LoadEffect DEF Claims, Claimable
<1>3. y = Loading(x) => y.pc = "claim"
  BY <1>1 DEF Loading, Executions
<1>4. Stays(x, y) /\ ~Holds(y, head)
  BY <1>1, <1>2, <1>3 DEF Stays, Holds, Owns, OwningSteps, Quits
<1> PICK n \in Nat : TaleOf(n)
  BY TalesAre
<1> QED BY <1>1, <1>2, <1>4, QuietlyRetold DEF TaleOf

LEMMA ExpireTold ==
  ASSUME Story, Claims, Expire
  PROVE  Story'
<1>1. /\ ex' = ex /\ journal' = journal /\ head' = [head EXCEPT !.expires = 0]
      /\ head \in Records
  BY DEF Expire, Claims, Claimable
<1>2. head'.status = head.status /\ head'.body = head.body /\ head'.claim = head.claim
  BY <1>1 DEF Records
<1>3. PICK n \in Nat : DOMAIN journal = 1..n /\ Tale(head, journal, ex, n)
  BY DEF Story
<1>4. \A q : Stamper(q, head, ex) <=> Stamper(q, head', ex)
  BY <1>2 DEF Stamper
<1>5. \A q : Follows(q, head, journal, ex, n) <=> Follows(q, head', journal, ex, n)
  BY <1>4 DEF Follows
<1>6. HeadContinues(head', journal, ex, n) /\ Stamped(head', journal, ex, n)
  BY <1>2, <1>3, <1>4, <1>5 DEF Tale, HeadContinues, LastOf, Stamped
<1>7. \A p \in Invocations :
        Holds(ex[p], head') => HolderContinues(ex[p], head', journal, ex, n)
  BY <1>2, <1>3, <1>5 DEF Tale, Holds, HolderContinues
<1>8. Tale(head', journal', ex', n)
  BY <1>1, <1>3, <1>6, <1>7 DEF Tale
<1> QED BY <1>1, <1>3, <1>8 DEF Story

LEMMA ActsTold ==
  ASSUME CancelCauses = {}, Undisturbed, Story, Agree, Local, Claims, HooksComeFirst,
         NEW p \in Invocations, Acts(p)
  PROVE  Story'
<1>1. CASE Step(p)
  <2>1. CASE \/ StartNode(p) \/ EmitCustom(p) \/ CommitActivation(p)
             \/ \E ids \in SUBSET InterruptIDs : Interrupt(p, ids)
             \/ NodeFails(p) \/ WorkFails(p) \/ Complete(p)
    <3>1. ex[p].pc = "work"
      BY <2>1 DEF StartNode, EmitCustom, CommitActivation, Interrupt, NodeFails, WorkFails,
                  Complete, Works, At
    <3> QED BY <2>1, <3>1, WorkTold
  <2>2. CASE Create(p)
    BY <2>2, CreateTold
  <2>3. CASE \E res \in Resolutions : Claim(p, res)
    BY <2>3, ClaimTold
  <2>4. CASE SavePending(p)
    BY <2>4, SavePendingTold
  <2>5. CASE AppendEvent(p)
    BY <2>5, AppendTold
  <2>6. CASE Deliver(p)
    BY <2>6, DeliverTold
  <2>7. CASE Confirm(p)
    BY <2>7, ConfirmTold
  <2>8. CASE InterruptCheckpoint(p)
    BY <2>8, InterruptTold
  <2>9. CASE FinishCheckpoint(p)
    BY <2>9, FinishTold
  <2>10. CASE \E k \in 0..PageSize : Redeliver(p, k)
    BY <2>10, RedeliverTold
  <2>11. CASE SaveCursor(p)
    BY <2>11, SaveCursorTold
  <2>12. CASE ReleaseLease(p)
    BY <2>12, ReleaseTold
  <2> QED BY <1>1, <2>1, <2>2, <2>3, <2>4, <2>5, <2>6, <2>7, <2>8, <2>9, <2>10, <2>11, <2>12
          DEF Step
<1>2. CASE Hook(p)
  BY <1>2, HookTold
<1>3. CASE Load(p)
  BY <1>3, LoadTold
<1>4. CASE \E faulty \in BOOLEAN : HeartbeatFails(p, faulty)
  BY <1>4, HeartbeatTold
<1>5. CASE StoreFault(p)
  BY <1>5, StoreFaultTold
<1>6. CASE SinkRefuses(p)
  BY <1>6, SinkRefusesEffect, QuitterRetold
<1>7. CASE Crash(p)
  BY <1>7, CrashEffect, QuitterRetold DEF Active
<1> QED BY <1>1, <1>2, <1>3, <1>4, <1>5, <1>6, <1>7 DEF Acts

LEMMA StorySteps ==
  ASSUME CancelCauses = {}, Undisturbed, Story, Agree, Local, Claims, HooksComeFirst,
         [Next]_vars
  PROVE  Story'
<1>1. CASE Expire
  BY <1>1, ExpireTold
<1>2. ASSUME NEW p \in Invocations, Acts(p)
      PROVE  Story'
  BY <1>2, ActsTold
<1>3. CASE UNCHANGED vars
  BY <1>3 DEF vars, Story
<1> QED BY <1>1, <1>2, <1>3, NextActs

LEMMA ToldWhole ==
  ASSUME Story
  PROVE  BatchesAreWhole
<1> PICK n \in Nat : DOMAIN journal = 1..n /\ Tale(head, journal, ex, n)
  BY DEF Story
<1>1. Last = n
  BY LastIs
<1>2. \A s \in 1..(n - 1) : InARow(journal[s], journal[s + 1], ex)
  BY DEF Tale, Whole
<1> HIDE DEF Last
<1> QED BY <1>1, <1>2 DEF BatchesAreWhole, InARow, ClaimOf

-----------------------------------------------------------------------------
(* What RunLifecycle sees of the checkpoint h and a journal j of n events.  *)

ShownStatus(h) == IF Exists(h) THEN h.status ELSE "absent"
ShownOpen(h, j, n) ==
  /\ Exists(h)
  /\ n > 0 /\ j[n].type = "interrupted" => h.status = "running" /\ h.body.ints = {}
  /\ n > 0 => j[n].type \notin TerminalStatuses

(* A step of the run is a step of its lifecycle, or none.                   *)
Simulates == [Lifecycle!Next]_(Lifecycle!vars)

(* The types of the events of a run without hooks.                          *)
RunTypes ==
  {"started", "resumed", "retryStarted", "loaded", "custom", "nodeStarted",
   "nodeCompleted", "nodeFailed"} \cup InterruptTypes \cup TerminalStatuses

LEMMA ShownQuietly ==
  ASSUME NEW n \in Nat, DOMAIN journal = 1..n, journal' = journal,
         ShownStatus(head') = ShownStatus(head), head'.claim = head.claim,
         ShownOpen(head', journal, n) = ShownOpen(head, journal, n)
  PROVE  Simulates
<1>1. Last = n /\ Last' = n
  BY FS_Interval DEF Last
<1>2. UNCHANGED Lifecycle!vars
  BY <1>1 DEF Lifecycle!vars, ShownStatus, ShownOpen
<1> QED BY <1>2 DEF Simulates

LEMMA ShownBegin ==
  ASSUME DOMAIN journal = 1..0, journal' = journal,
         ~Exists(head), head.claim = 0, Exists(head'), head'.status = "running", head'.claim = 1
  PROVE  Simulates
<1>1. Last = 0 /\ Last' = 0
  BY FS_Interval DEF Last
<1>2. Lifecycle!Begin
  BY <1>1 DEF Lifecycle!Begin
<1> QED BY <1>2 DEF Simulates, Lifecycle!Next

LEMMA ShownTakeOver ==
  ASSUME NEW n \in Nat, DOMAIN journal = 1..n, journal' = journal,
         Exists(head), head.status \in {"running", "interrupted"},
         Exists(head'), head'.status = "running", head'.claim = head.claim + 1,
         ShownOpen(head', journal, n) <=> ShownOpen(head, journal, n) \/ head.status = "interrupted"
  PROVE  Simulates
<1>1. Last = n /\ Last' = n
  BY FS_Interval DEF Last
<1>2. Lifecycle!TakeOver
  BY <1>1 DEF Lifecycle!TakeOver, ShownOpen
<1> QED BY <1>2 DEF Simulates, Lifecycle!Next

LEMMA ShownCloses ==
  ASSUME NEW n \in Nat, DOMAIN journal = 1..n, n > 0, journal' = journal,
         Exists(head), head.status = "running", ~ShownOpen(head, journal, n),
         Exists(head'), head'.status = journal[n].type, head'.claim = head.claim,
         journal[n].type \in TerminalStatuses \cup {"interrupted"}
  PROVE  Simulates
<1>1. Last = n /\ Last' = n
  BY FS_Interval DEF Last
<1>2. CASE journal[n].type = "interrupted"
  <2>1. Lifecycle!Suspend
    BY <1>1, <1>2 DEF Lifecycle!Suspend, ShownOpen, TerminalStatuses
  <2> QED BY <2>1 DEF Simulates, Lifecycle!Next
<1>3. CASE journal[n].type \in TerminalStatuses
  <2>1. Lifecycle!End
    BY <1>1, <1>3 DEF Lifecycle!End, ShownOpen, TerminalStatuses
  <2> QED BY <2>1 DEF Simulates, Lifecycle!Next
<1> QED BY <1>2, <1>3

LEMMA ShownRecord ==
  ASSUME NEW n \in Nat, DOMAIN journal = 1..n, DOMAIN journal' = 1..(n + 1),
         \A s \in 1..n : journal'[s] = journal[s],
         head' = head, Exists(head), head.status = "running", ShownOpen(head, journal, n),
         NEW e, journal'[n + 1] = e, e.type \in RunTypes,
         e.type = "interrupted" => head.body.ints # {}
  PROVE  Simulates
<1>1. Last = n /\ Last' = n + 1
  BY FS_Interval DEF Last
<1>2. [s \in 1..(n + 1) |-> journal'[s].type] = Append([s \in 1..n |-> journal[s].type], e.type)
  <2> DEFINE S == {journal[s].type : s \in 1..n} \cup {e.type}
             f == [s \in 1..n |-> journal[s].type]
             g == [s \in 1..(n + 1) |-> journal'[s].type]
  <2>1. f \in Seq(S) /\ Len(f) = n /\ e.type \in S
    OBVIOUS
  <2>2. \A s \in 1..(n + 1) : g[s] = IF s = n + 1 THEN e.type ELSE f[s]
    OBVIOUS
  <2>3. /\ Append(f, e.type) \in Seq(S) /\ Len(Append(f, e.type)) = n + 1
        /\ \A s \in 1..n : Append(f, e.type)[s] = f[s]
        /\ Append(f, e.type)[n + 1] = e.type
    <3> HIDE DEF f, S
    <3> QED BY <2>1, AppendProperties
  <2>4. g \in Seq(S) /\ Len(g) = n + 1
    OBVIOUS
  <2> HIDE DEF f, g, S
  <2>5. g = Append(f, e.type)
    BY <2>2, <2>3, <2>4, SeqEqual
  <2> QED BY <2>5 DEF f, g
<1>3. Lifecycle!Record(e.type)
  <2>1. head.status = "running" /\ Exists(head) /\ Exists(head') /\ head'.status = "running"
    OBVIOUS
  <2>2. ShownOpen(head', journal', n + 1) <=> e.type \notin TerminalStatuses \cup {"interrupted"}
    BY DEF ShownOpen
  <2> QED BY <1>1, <1>2, <2>1, <2>2 DEF Lifecycle!Record, ShownOpen
<1> QED BY <1>3 DEF Simulates, Lifecycle!Next, RunTypes

LEMMA RestSimulates ==
  ASSUME Story, Agree, UNCHANGED <<head, journal>>
  PROVE  Simulates
<1> PICK n \in Nat : TaleOf(n)
  BY TalesAre
<1> QED BY ShownQuietly DEF TaleOf

LEMMA ExpireSimulates ==
  ASSUME Story, Agree, Claims, Expire
  PROVE  Simulates
<1> PICK n \in Nat : TaleOf(n)
  BY TalesAre
<1>1. /\ journal' = journal /\ head' = [head EXCEPT !.expires = 0] /\ head \in Records
  BY DEF Expire, Claims, Claimable
<1>2. /\ head'.status = head.status /\ head'.body = head.body /\ head'.claim = head.claim
      /\ head'.version = head.version
  BY <1>1 DEF Records
<1> QED BY <1>1, <1>2, ShownQuietly DEF TaleOf, ShownStatus, ShownOpen, Exists

LEMMA CreateSimulates ==
  ASSUME HookEvents = FALSE, Story, Agree, Local, Claims, NEW p \in Invocations, Create(p)
  PROVE  Simulates
<1>1. journal' = journal /\ (head' = head \/ (~Exists(head) /\ head' = NewRecord(p)))
  BY CreateEffect
<1>2. CASE head' = head
  BY <1>1, <1>2, RestSimulates
<1>3. CASE ~Exists(head) /\ head' = NewRecord(p)
  <2> PICK n \in Nat : TaleOf(n)
    BY TalesAre
  <2>1. n = 0 /\ DOMAIN journal = 1..0
    BY <1>3 DEF TaleOf, Agreement, HeadAgrees
  <2>2. head.claim = 0
    BY <1>3 DEF Claims, Claimable, Exists, Records, Absent
  <2>3. Exists(head') /\ head'.status = "running" /\ head'.claim = 1
    BY <1>3, NewRecordType DEF Exists
  <2> QED BY <1>1, <1>3, <2>1, <2>2, <2>3, ShownBegin
<1> QED BY <1>1, <1>2, <1>3

LEMMA ClaimSimulates ==
  ASSUME Undisturbed, Story, Agree, Local, Claims, NEW p \in Invocations,
         NEW res \in Resolutions, Claim(p, res)
  PROVE  Simulates
<1> DEFINE x == ex[p]
           rec == Candidate(p, x.ckpt, res)
<1>1. /\ x.pc = "claim" /\ x \in Executions /\ Sound(x) /\ head \in Records
      /\ UNCHANGED <<journal, delivered, spent>>
  BY ClaimEffect DEF Local, Claims, Claimable
<1>2. \/ head' = head
      \/ /\ Exists(head) /\ ClaimOutcome(head, rec, 0) = "ok"
         /\ head' = [rec EXCEPT !.version = @ + 1]
  BY <1>1, ClaimEffect
<1>3. CASE head' = head
  BY <1>1, <1>3, RestSimulates
<1>4. CASE /\ Exists(head) /\ ClaimOutcome(head, rec, 0) = "ok"
           /\ head' = [rec EXCEPT !.version = @ + 1]
  <2> PICK n \in Nat : TaleOf(n)
    BY TalesAre
  <2>1. /\ rec \in Records /\ rec.version = x.ckpt.version /\ rec.claim = x.ckpt.claim + 1
        /\ rec.status = "running" /\ rec.body = ClaimedBody(x.ckpt, res)
    BY <1>1, CandidateType DEF Executions
  <2>2. x.ckpt.version = head.version /\ ~checkpointTerminal(head.status)
    BY <1>4, <2>1 DEF ClaimOutcome, checkpointTerminal, TerminalStatuses
  <2>3. SameRecord(head, x.ckpt)
    BY <1>1, <2>2 DEF Claims, Entitled, OwningSteps
  <2>4. head.status = x.ckpt.status /\ head.body = x.ckpt.body /\ head.claim = x.ckpt.claim
    BY <1>1, <2>3 DEF SameRecord, Executions, Records
  <2> HIDE DEF rec
  <2>5. /\ head'.status = "running" /\ head'.claim = head.claim + 1
        /\ head'.version = head.version + 1
        /\ head'.body.ints = IF head.status = "interrupted" THEN {} ELSE head.body.ints
    <3>1. /\ head'.status = rec.status /\ head'.body = rec.body /\ head'.claim = rec.claim
          /\ head'.version = rec.version + 1
      BY <1>4, <2>1 DEF Records
    <3>2. ClaimedBody(x.ckpt, res) = ClaimedBody(head, res)
      BY <2>4 DEF ClaimedBody
    <3>3. ClaimedBody(head, res).ints = IF head.status = "interrupted" THEN {} ELSE head.body.ints
      BY <1>1 DEF ClaimedBody, Records, Bodies
    <3> QED BY <2>1, <2>2, <2>4, <3>1, <3>2, <3>3
  <2>6. head.status \in {"running", "interrupted"}
    BY <1>1, <2>2 DEF Records, Statuses, checkpointTerminal, TerminalStatuses
  <2>7. Exists(head')
    BY <1>1, <2>5 DEF Exists, Records
  <2>8. head.status = "interrupted" /\ n > 0 => journal[n].type \notin TerminalStatuses
    <3> SUFFICES ASSUME head.status = "interrupted", n > 0
                 PROVE  journal[n].type \notin TerminalStatuses
      OBVIOUS
    <3>1. HeadAgrees(head, journal, delivered, n) /\ head.body.pending = NoEvent
      BY <1>4, <2>2 DEF TaleOf, Agreement, Undisturbed, Resumable
    <3>2. head.body.cursor \in Nat
      BY <1>1 DEF Records, Bodies
    <3>3. CASE n <= head.body.cursor
      BY <2>2, <3>1, <3>2, <3>3 DEF HeadAgrees
    <3>4. CASE ~(n <= head.body.cursor)
      <4>1. journal[n].type \in ObservedTypes
        BY <3>1, <3>2, <3>4 DEF HeadAgrees
      <4> QED BY <4>1, ObservedIsNothing
    <3> QED BY <3>3, <3>4
  <2>9. ShownOpen(head', journal, n) <=> ShownOpen(head, journal, n) \/ head.status = "interrupted"
    BY <1>4, <2>5, <2>6, <2>7, <2>8 DEF ShownOpen
  <2> QED BY <1>1, <1>4, <2>5, <2>6, <2>7, <2>9, ShownTakeOver DEF TaleOf
<1> QED BY <1>2, <1>3, <1>4

(* The holder saves its progress and keeps the run running.                *)
LEMMA KeepingSimulates ==
  ASSUME Local, Claims, NEW p \in Invocations, Owns(ex[p]), ex[p].pc # "release",
         NEW rec \in Records, Wrote(rec), SameBut(rec, ex[p].ckpt), journal' = journal,
         head.status = "running", rec.status = "running", NEW n \in Nat, TaleOf(n),
         \/ n > 0 => journal[n].type # "interrupted"
         \/ rec.body.ints = {} <=> head.body.ints = {}
  PROVE  Simulates
<1>1. /\ head'.status = rec.status /\ head'.body = rec.body /\ head'.claim = head.claim
      /\ Exists(head) /\ Exists(head')
  BY WritersHold DEF TaleOf, Wrote
<1>2. ShownOpen(head', journal, n) <=> ShownOpen(head, journal, n)
  BY <1>1 DEF ShownOpen
<1> QED BY <1>1, <1>2, ShownQuietly DEF TaleOf, ShownStatus, ShownOpen

LEMMA SavePendingSimulates ==
  ASSUME Undisturbed, Story, Agree, Local, Claims, NEW p \in Invocations, SavePending(p)
  PROVE  Simulates
<1> DEFINE x == ex[p]
           rec == Keeping(x, x.ev, PendingTerm(x))
<1>1. /\ x.pc = "savePending" /\ Ready(x) /\ Sound(x) /\ x \in Executions
      /\ journal' = journal /\ (head' = head \/ Wrote(rec))
  BY SavePendingEffect DEF Local
<1>2. Owns(x)
  BY <1>1, OwnersOwn
<1>3. CASE head' = head
  BY <1>1, <1>3, RestSimulates
<1>4. CASE Wrote(rec)
  <2> PICK n \in Nat : TaleOf(n)
    BY TalesAre
  <2>1. x.ev \in Events /\ PendingTerm(x) \in Terms
    BY <1>1, NoEventType DEF Executions, Sound, Placed, PendingTerm
  <2>2. rec \in Records /\ SameBut(rec, x.ckpt) /\ rec.status = "running"
    BY <1>1, <2>1, KeepingEffect
  <2> HIDE DEF rec
  <2>3. x.ckpt.claim = head.claim
    BY <1>1, <1>2, <1>4, <2>2, WritersHold DEF TaleOf
  <2>4. HolderContinues(x, head, journal, ex, n) /\ head.status = "running"
    BY <1>1, <1>2, <2>3, HoldersTell
  <2>5. n > 0 => journal[n].type # "interrupted"
    BY <1>1, <2>4 DEF HolderContinues
  <2> QED BY <1>1, <1>2, <1>4, <2>2, <2>4, <2>5, KeepingSimulates
<1> QED BY <1>1, <1>3, <1>4

(* Interrupts are in the checkpoint while their batch is.                  *)
LEMMA ConfirmingSimulates ==
  ASSUME Undisturbed, Story, Agree, Local, Claims, NEW p \in Invocations,
         ex[p].pc \in {"confirm", "saveCursor"}, Wrote(Keeping(ex[p], NoEvent, "none")),
         journal' = journal
  PROVE  Simulates
<1> DEFINE x == ex[p]
           rec == Keeping(x, NoEvent, "none")
<1>1. x \in Executions /\ Fine(p, x)
  BY DEF Local, Undisturbed
<1>2. Owns(x)
  BY OwnersAreReady, OwnersOwn
<1> PICK n \in Nat : TaleOf(n)
  BY TalesAre
<1>3. /\ rec \in Records /\ SameBut(rec, x.ckpt) /\ Payload(x, rec.body, NoEvent, "none")
      /\ rec.status = "running"
  BY <1>1, NoEventType, KeepingEffect
<1> HIDE DEF rec
<1>4. x.ckpt.claim = head.claim
  BY <1>2, <1>3, WritersHold DEF TaleOf, rec
<1>5. /\ HolderContinues(x, head, journal, ex, n) /\ head.status = "running"
      /\ validInterruptProgress(head)
  BY <1>2, <1>4, HoldersTell
<1>6. x.progress = NoProgress <=> head.body.progress = NoProgress
  BY <1>5 DEF HolderContinues
<1>7. x.progress = NoProgress <=> x.ints = {}
  BY <1>1, <1>2 DEF Fine, Batching
<1>8. head.body.progress = NoProgress <=> head.body.ints = {}
  BY <1>5 DEF validInterruptProgress
<1>9. rec.body.ints = {} <=> head.body.ints = {}
  BY <1>3, <1>6, <1>7, <1>8 DEF Payload
<1> QED BY <1>2, <1>3, <1>5, <1>9, KeepingSimulates DEF rec

LEMMA ConfirmSimulates ==
  ASSUME Undisturbed, Story, Agree, Local, Claims, NEW p \in Invocations,
         Confirm(p) \/ SaveCursor(p)
  PROVE  Simulates
<1>1. /\ ex[p].pc \in {"confirm", "saveCursor"} /\ journal' = journal
      /\ head' = head \/ Wrote(Keeping(ex[p], NoEvent, "none"))
  BY ConfirmEffect, SaveCursorEffect
<1> QED BY <1>1, RestSimulates, ConfirmingSimulates

LEMMA ReleaseSimulates ==
  ASSUME Story, Agree, Local, Claims, NEW p \in Invocations, ReleaseLease(p)
  PROVE  Simulates
<1> DEFINE x == ex[p]
           rec == Released(x.ckpt)
<1>1. x.pc = "release" /\ x \in Executions /\ Sound(x) /\ journal' = journal
  BY ReleaseEffect
<1>2. CASE head' = head
  BY <1>1, <1>2, RestSimulates
<1>3. CASE /\ Wrote(rec) /\ x.ckpt.version > 0
           /\ rec.body = x.ckpt.body /\ rec.status = x.ckpt.status
           /\ SameBut(rec, x.ckpt)
  <2> PICK n \in Nat : TaleOf(n)
    BY TalesAre
  <2>1. x.mode # "hook"
    BY <1>1, <1>3 DEF Sound, Fit, Absent
  <2>2. Owns(x)
    BY <1>1, <2>1 DEF Owns, OwningSteps
  <2> HIDE DEF rec
  <2>3. /\ head \in Records /\ rec \in Records /\ rec.version = head.version
        /\ rec.claim = head.claim /\ head' = Written(head, rec, 0, 1) /\ Exists(head)
        /\ x.ckpt.claim = head.claim
    BY <1>3 DEF Wrote, SameBut, Claims, Claimable, Records
  <2>4. head.body = x.ckpt.body /\ head.status = x.ckpt.status
    BY <2>2, <2>3, HoldersAreCurrent
  <2>5. /\ head'.claim = head.claim /\ head'.status = head.status /\ head'.body = head.body
        /\ head'.version = head.version + 1
    BY <1>3, <2>3, <2>4, WrittenEffect
  <2>6. Exists(head')
    BY <2>3, <2>5 DEF Exists, Records
  <2> QED BY <1>1, <2>3, <2>5, <2>6, ShownQuietly DEF TaleOf, ShownStatus, ShownOpen
<1> QED BY <1>2, <1>3, ReleaseEffect

(* The status catches up with the event that closed the journal.           *)
LEMMA InterruptSimulates ==
  ASSUME Undisturbed, Story, Agree, Local, Claims, NEW p \in Invocations, InterruptCheckpoint(p)
  PROVE  Simulates
<1> DEFINE x == ex[p]
           s == Suspended(x)
           rec == Closing(s, "interrupted")
<1>1. /\ x.pc = "interrupt" /\ x \in Executions /\ Fine(p, x) /\ Ready(x)
      /\ journal' = journal /\ (head' = head \/ Wrote(rec))
  BY InterruptEffect DEF Local, Undisturbed, Ready
<1>2. x.mode \in BatchModes /\ Owns(x)
  BY <1>1 DEF Ready, ModesAt, Owns, OwningSteps, BatchModes
<1>3. CASE head' = head
  BY <1>1, <1>3, RestSimulates
<1>4. CASE Wrote(rec)
  <2> PICK n \in Nat : TaleOf(n)
    BY TalesAre
  <2>1. rec \in Records /\ rec.status = "interrupted" /\ SameBut(rec, x.ckpt)
    <3>1. s \in Executions /\ s.ckpt = x.ckpt
      BY <1>1, SuspendedFit DEF Ready
    <3> HIDE DEF s
    <3> QED BY <3>1, ClosingEffect DEF Statuses
  <2> HIDE DEF rec
  <2>2. /\ x.ckpt.claim = head.claim /\ head'.status = "interrupted" /\ Exists(head')
        /\ head'.claim = head.claim
    BY <1>1, <1>2, <1>4, <2>1, WritersHold DEF TaleOf
  <2>3. /\ HolderContinues(x, head, journal, ex, n) /\ InStep(x, head.body, journal, delivered, n)
        /\ Exists(head) /\ head.status = "running" /\ validInterruptProgress(head)
    BY <1>1, <1>2, <2>2, HoldersTell
  <2>4. journal[n].type = "interrupted" /\ n > 0
    BY <1>1, <1>2, <2>3, SuspendersClosed
  <2>5. head.body.ints # {}
    <3>1. x.progress # NoProgress
      BY <1>1, <1>2 DEF Fine, Batching
    <3> QED BY <1>1, <2>3, <3>1 DEF HolderContinues, validInterruptProgress
  <2>6. ~ShownOpen(head, journal, n)
    BY <2>4, <2>5 DEF ShownOpen
  <2> QED BY <1>1, <2>2, <2>3, <2>4, <2>6, ShownCloses DEF TaleOf
<1> QED BY <1>1, <1>3, <1>4

LEMMA FinishSimulates ==
  ASSUME Undisturbed, Story, Agree, Local, Claims, NEW p \in Invocations, FinishCheckpoint(p)
  PROVE  Simulates
<1> DEFINE x == ex[p]
           rec == Closing(x, x.term)
<1>1. /\ x.pc = "finish" /\ x \in Executions /\ journal' = journal
      /\ head' = head \/ (Wrote(rec) /\ x.term \in TerminalStatuses)
  BY FinishEffect DEF Local
<1>2. Owns(x)
  BY <1>1, OwnersAreReady, OwnersOwn
<1>3. CASE head' = head
  BY <1>1, <1>3, RestSimulates
<1>4. CASE Wrote(rec) /\ x.term \in TerminalStatuses
  <2> PICK n \in Nat : TaleOf(n)
    BY TalesAre
  <2>1. rec \in Records /\ rec.status = x.term /\ SameBut(rec, x.ckpt)
    BY <1>1, <1>4, ClosingEffect DEF Statuses
  <2> HIDE DEF rec
  <2>2. /\ x.ckpt.claim = head.claim /\ head'.status = x.term /\ Exists(head')
        /\ head'.claim = head.claim
    BY <1>1, <1>2, <1>4, <2>1, WritersHold DEF TaleOf
  <2>3. /\ InStep(x, head.body, journal, delivered, n) /\ HeadAgrees(head, journal, delivered, n)
        /\ Exists(head) /\ head.status = "running" /\ head \in Records
    BY <1>1, <1>2, <2>2, HoldersTell
  <2>4. journal[n].type = x.term /\ n > 0
    BY <1>1, <1>4, <2>3, FinishersClosed
  <2>5. ~ShownOpen(head, journal, n)
    BY <1>4, <2>4 DEF ShownOpen
  <2> QED BY <1>1, <1>4, <2>2, <2>3, <2>4, <2>5, ShownCloses DEF TaleOf
<1> QED BY <1>1, <1>3, <1>4

(* The holder records the event it announces in an open log.               *)
LEMMA AppendSimulates ==
  ASSUME HookEvents = FALSE, Undisturbed, Story, Agree, Local, Claims, NEW p \in Invocations,
         AppendEvent(p)
  PROVE  Simulates
<1> DEFINE x == ex[p]
<1>1. /\ x.pc = "append" /\ head' = head /\ Ready(x) /\ x \in Executions /\ Fit(x)
      /\ x.ev \in Events /\ Sound(x)
  BY AppendEffect DEF Ready, Executions, Local
<1>2. CASE journal' = journal
  BY <1>1, <1>2, RestSimulates
<1>3. CASE Fenced(x) /\ Accepts(x.ev) /\ journal' = Journaled(x.ev)
  <2> PICK n \in Nat : TaleOf(n)
    BY TalesAre
  <2>1. DOMAIN journal = 1..n /\ journal \in [1..n -> Events]
    BY DEF TaleOf, Agreement, Kept
  <2>2. CASE x.ev.seq \in 1..n
    <3>1. Journaled(x.ev) = [s \in DOMAIN journal |-> journal[s]]
      BY <1>3, <2>1, <2>2 DEF Journaled, Accepts
    <3>2. journal' = journal
      BY <1>3, <2>1, <3>1
    <3> QED BY <1>1, <3>2, RestSimulates
  <2>3. CASE x.ev.seq \notin 1..n
    <3>1. x.mode # "hook"
      BY <1>1 DEF Fit
    <3>2. Owns(x) /\ x.ckpt.claim = head.claim
      BY <1>1, <1>3, <3>1 DEF Fenced, FenceOutcome, Owns, OwningSteps
    <3>3. /\ HolderContinues(x, head, journal, ex, n) /\ HeadContinues(head, journal, ex, n)
          /\ InStep(x, head.body, journal, delivered, n) /\ head \in Records
          /\ validInterruptProgress(head) /\ Exists(head) /\ head.status = "running"
          /\ HeadAgrees(head, journal, delivered, n)
      BY <1>1, <3>2, HoldersTell
    <3>4. x.cursor = n /\ x.ev.seq = n + 1 /\ head.body.cursor <= n
      <4>1. /\ x.ev.seq = x.cursor + 1 /\ x.cursor <= n /\ head.body.cursor <= x.cursor
            /\ x.cursor \in Nat /\ head.body.cursor \in Nat
        BY <1>1, <3>3 DEF InStep, Executions, Records, Bodies
      <4> QED BY <2>3, <4>1
    <3> DEFINE e == x.ev
               b == head.body
    <3>5. /\ e.type # "hook"
          /\ e.type \in InterruptTypes => b.progress # NoProgress
          /\ IF b.pending = NoEvent THEN b.progress = NoProgress ELSE b.cursor = n
      BY <1>1, <3>2, <3>4, AnnouncedTells
    <3>6. /\ DOMAIN journal' = 1..(n + 1) /\ \A s \in 1..n : journal'[s] = journal[s]
          /\ journal'[n + 1] = e
      <4>1. journal' = [s \in DOMAIN journal \cup {n + 1} |->
                          IF s = n + 1 THEN e ELSE journal[s]]
        BY <1>3, <3>4 DEF Journaled
      <4>2. DOMAIN journal \cup {n + 1} = 1..(n + 1)
        BY <2>1
      <4> HIDE DEF e
      <4> QED BY <4>1, <4>2
    <3>7. ASSUME n > 0, journal[n].type = "interrupted"
          PROVE  b.ints = {}
      <4>1. b.pending = NoEvent
        BY <3>3, <3>5, <3>7 DEF HeadContinues, LastOf
      <4> QED BY <3>3, <3>5, <4>1 DEF validInterruptProgress
    <3>8. ASSUME n > 0
          PROVE  journal[n].type \notin TerminalStatuses
      <4>1. b.cursor \in Nat /\ ~checkpointTerminal(head.status)
        BY <3>3 DEF Records, Bodies, checkpointTerminal, TerminalStatuses
      <4>2. CASE b.cursor = n
        BY <3>3, <3>8, <4>1, <4>2 DEF HeadAgrees
      <4>3. CASE b.cursor # n
        <5>1. journal[n].type \in ObservedTypes
          BY <3>3, <3>4, <3>5, <4>1, <4>3 DEF HeadAgrees
        <5> QED BY <5>1, ObservedIsNothing
      <4> QED BY <4>2, <4>3
    <3>9. ShownOpen(head, journal, n)
      BY <3>3, <3>7, <3>8 DEF ShownOpen
    <3>10. e.type = "interrupted" => b.ints # {}
      BY <3>3, <3>5 DEF InterruptTypes, validInterruptProgress
    <3>11. e.type \in RunTypes
      <4>1. e.type # "none"
        BY <1>1, <3>3 DEF HolderContinues, Announcing
      <4> HIDE DEF e
      <4> QED BY <1>1, <3>5, <4>1 DEF e, Events, RunTypes, ObservedTypes, CommittedTypes,
                                      InterruptTypes, TerminalStatuses
    <3> HIDE DEF e
    <3> QED BY <1>1, <2>1, <3>3, <3>6, <3>9, <3>10, <3>11, ShownRecord
  <2> QED BY <2>2, <2>3
<1> QED BY <1>2, <1>3, AppendEffect

LEMMA ActsSimulate ==
  ASSUME CancelCauses = {}, HookEvents = FALSE, Undisturbed, Story, Agree, Local, Claims,
         NEW p \in Invocations, Acts(p)
  PROVE  Simulates
<1>1. CASE Step(p)
  <2>1. CASE \/ StartNode(p) \/ EmitCustom(p) \/ CommitActivation(p)
             \/ \E ids \in SUBSET InterruptIDs : Interrupt(p, ids)
             \/ NodeFails(p) \/ WorkFails(p) \/ Complete(p)
    <3>1. UNCHANGED <<head, journal>>
      BY <2>1 DEF StartNode, EmitCustom, CommitActivation, Interrupt, NodeFails, WorkFails,
                  Complete, Works
    <3> QED BY <3>1, RestSimulates
  <2>2. CASE Deliver(p) \/ \E k \in 0..PageSize : Redeliver(p, k)
    <3>1. UNCHANGED <<head, journal>>
      BY <2>2 DEF Deliver, Redeliver
    <3> QED BY <3>1, RestSimulates
  <2>3. CASE Create(p)
    BY <2>3, CreateSimulates
  <2>4. CASE \E res \in Resolutions : Claim(p, res)
    BY <2>4, ClaimSimulates
  <2>5. CASE SavePending(p)
    BY <2>5, SavePendingSimulates
  <2>6. CASE AppendEvent(p)
    BY <2>6, AppendSimulates
  <2>7. CASE Confirm(p) \/ SaveCursor(p)
    BY <2>7, ConfirmSimulates
  <2>8. CASE InterruptCheckpoint(p)
    BY <2>8, InterruptSimulates
  <2>9. CASE FinishCheckpoint(p)
    BY <2>9, FinishSimulates
  <2>10. CASE ReleaseLease(p)
    BY <2>10, ReleaseSimulates
  <2> QED BY <1>1, <2>1, <2>2, <2>3, <2>4, <2>5, <2>6, <2>7, <2>8, <2>9, <2>10 DEF Step
<1>2. CASE \/ Hook(p) \/ Load(p) \/ StoreFault(p) \/ SinkRefuses(p) \/ Crash(p)
           \/ \E faulty \in BOOLEAN : HeartbeatFails(p, faulty)
  <2>1. UNCHANGED <<head, journal>>
    BY <1>2 DEF Hook, Load, StoreFault, SinkRefuses, Crash, HeartbeatFails
  <2> QED BY <2>1, RestSimulates
<1> QED BY <1>1, <1>2 DEF Acts

LEMMA SimulationSteps ==
  ASSUME CancelCauses = {}, HookEvents = FALSE, Undisturbed, Story, Agree, Local, Claims,
         [Next]_vars
  PROVE  Simulates
<1>1. CASE Expire
  BY <1>1, ExpireSimulates
<1>2. ASSUME NEW p \in Invocations, Acts(p)
      PROVE  Simulates
  BY <1>2, ActsSimulate
<1>3. CASE UNCHANGED vars
  BY <1>3, RestSimulates DEF vars
<1> QED BY <1>1, <1>2, <1>3, NextActs

LEMMA InitSimulates == Init => Lifecycle!Init
<1> SUFFICES ASSUME Init
             PROVE  Lifecycle!Init
  OBVIOUS
<1>1. Last = 0
  BY FS_EmptySet DEF Last, Init
<1>2. ~Exists(head) /\ head.claim = 0
  BY DEF Init, Absent, Exists
<1> QED BY <1>1, <1>2 DEF Lifecycle!Init

-----------------------------------------------------------------------------
(* Nobody cancels the run.                                                 *)

(* An invocation only stops for the loss of its lease, it holds interrupts  *)
(* exactly while it records their batch, and its checkpoint can be resumed  *)
(* (execution.cancel, commitInterruptBatchEvent, prepareResumeCheckpoint).  *)
THEOREM UncanceledRunsAreUndisturbed ==
  ASSUME CancelCauses = {}
  PROVE  Spec => []Undisturbed
<1>1. Init => Undisturbed
  BY InitUndisturbed
<1>2. Undisturbed /\ Agree /\ Local /\ Claims /\ [Next]_vars => Undisturbed'
  BY UndisturbedSteps
<1> QED BY <1>1, <1>2, ClaimsAreHeldOnce, JournalAgrees, PTL DEF Spec

(* Wherever a run stops, its checkpoint passes the validation that precedes *)
(* a claim, and an interrupted one has interrupts to resolve                *)
(* (prepareResumeCheckpoint, validateCheckpointInterruptProgress).          *)
THEOREM HeadStaysResumable ==
  ASSUME CancelCauses = {}
  PROVE  Spec => []HeadIsResumable
<1>1. Undisturbed => HeadIsResumable
  BY DEF Undisturbed, Resumable, HeadIsResumable, Terminal
<1> QED BY <1>1, UncanceledRunsAreUndisturbed, PTL

(* An interrupted run goes on by a claim that resolves all its interrupts,  *)
(* and the resolutions then stay (resolvePendingInterrupts).                *)
THEOREM ResolutionsAreFinal ==
  ASSUME CancelCauses = {}
  PROVE  Spec => ResolvedOnce
<1>1. Undisturbed /\ Agree /\ Local /\ Claims /\ [Next]_vars
      => [ /\ head.status = "interrupted" /\ head' # head =>
                /\ head'.claim = head.claim + 1
                /\ DOMAIN head'.body.resolved = head.body.ints
                /\ head'.body.ints = {}
           /\ head.status # "interrupted" =>
                head'.body.resolved = head.body.resolved ]_vars
  BY ResolvingSteps DEF Resolves
<1> QED BY <1>1, UncanceledRunsAreUndisturbed, ClaimsAreHeldOnce, JournalAgrees, PTL
        DEF Spec, ResolvedOnce

(* The journal tells the same story as the checkpoint and its holder.       *)
THEOREM JournalTellsTheStory ==
  ASSUME CancelCauses = {}
  PROVE  Spec => []Story
<1>1. Init => Story
  BY InitTells
<1>2. Undisturbed /\ Story /\ Agree /\ Local /\ Claims /\ HooksComeFirst /\ [Next]_vars
      => Story'
  BY StorySteps
<1> QED BY <1>1, <1>2, UncanceledRunsAreUndisturbed, ClaimsAreHeldOnce, JournalAgrees, PTL
        DEF Spec

(* A batch of interrupts is recorded whole, whoever records it, nothing     *)
(* follows it until it is resolved under a new claim, and events stand in   *)
(* the order of the claims that stamped them                                *)
(* (commitInterruptBatchEvent, continueInterruptBatch, AppendFenced).       *)
THEOREM BatchesStayWhole ==
  ASSUME CancelCauses = {}
  PROVE  Spec => []BatchesAreWhole
<1>1. Story => BatchesAreWhole
  BY ToldWhole
<1> QED BY <1>1, JournalTellsTheStory, PTL

(* Seen from outside, a run without hooks is RunLifecycle: whoever owns it  *)
(* and wherever invocations stop, its log only grows, is closed by the      *)
(* event that ends or interrupts the run, and the status follows the log    *)
(* (commitRunningEvent, commitTerminalEvent, finishInterrupt).              *)
THEOREM RunsFollowTheLifecycle ==
  ASSUME CancelCauses = {}, HookEvents = FALSE
  PROVE  Spec => ImplementsLifecycle
<1>1. Init => Lifecycle!Init
  BY InitSimulates
<1>2. Undisturbed /\ Story /\ Agree /\ Local /\ Claims /\ [Next]_vars
      => [Lifecycle!Next]_(Lifecycle!vars)
  BY SimulationSteps DEF Simulates
<1> QED BY <1>1, <1>2, UncanceledRunsAreUndisturbed, JournalTellsTheStory, ClaimsAreHeldOnce,
           JournalAgrees, PTL DEF Spec, ImplementsLifecycle, Lifecycle!Spec

=============================================================================
