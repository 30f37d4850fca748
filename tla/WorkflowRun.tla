----------------------------- MODULE WorkflowRun -----------------------------
(***************************************************************************)
(* One run of a workflow, executed by competing invocations over the Store. *)
(*                                                                         *)
(* An invocation (workflowExecution) commits every lifecycle event of the  *)
(* run in four steps that other invocations, crashes and cancellations may *)
(* fall between: Save a checkpoint that names the pending event, append it *)
(* to the journal under the fence, deliver it to the event sinks, Save the *)
(* checkpoint that confirms it.  Observed events (custom events, node      *)
(* failures, checkpoint.loaded) are only appended and delivered.  A later  *)
(* invocation resumes from whatever the Store holds: it replays the        *)
(* pending event, redelivers what the journal has beyond the confirmed     *)
(* cursor, finishes a half-committed batch of interrupts, and goes on.     *)
(*                                                                         *)
(* Each Store call and each delivery is one action; what the code computes *)
(* between two of them is local and belongs to the action before it.  The  *)
(* clock is reduced to what it decides: a lease is unexpired (expires = 1) *)
(* or not (0), and Expire may end it at any moment, so an invocation whose *)
(* process is paused or whose renewals are slow may lose it.               *)
(***************************************************************************)
EXTENDS StoreOps, FiniteSets

CONSTANTS
  Invocations,    \* calls of Invoke for this RunID; also their OwnerIDs
  InterruptIDs,   \* ids of the interrupts nodes may raise
  Refs,           \* payload refs of interrupt resolutions
  Work,           \* number of node activations the run has to complete
  PageSize,       \* journalReconcilePageSize
  Origin,         \* controlOrigin: "natural" or "external_retry"
  HookEvents,     \* does a BeforeWorkflow hook emit an event?
  CancelCauses,   \* subset of {"canceled", "terminated"}
  MaxSequence,    \* bound: no custom event beyond this sequence
  MaxCrashes, MaxFaults, MaxSinkFailures, MaxCancels   \* bounds on bad luck

ASSUME InvocationsAssumption == NoOwner \notin Invocations
ASSUME RunAssumption ==
  /\ Work \in Nat /\ PageSize \in Nat \ {0} /\ HookEvents \in BOOLEAN
  /\ Origin \in {"natural", "external_retry"}
  /\ CancelCauses \subseteq {"canceled", "terminated"}
  /\ IsFiniteSet(InterruptIDs)

VARIABLES
  head,       \* the Store's record of the run
  journal,    \* the Store's RunLog of the run: sequence -> event
  delivered,  \* events the event sinks have accepted
  ex,         \* invocation -> workflowExecution
  spent       \* how much of each bound on bad luck is used up

vars == <<head, journal, delivered, ex, spent>>

-----------------------------------------------------------------------------
\* Data.  An event is identified by its sequence, its type and the invocation
\* that stamped it (runtimeEvent stamps a timestamp no other one shares).

NoEvent == [seq |-> 0, type |-> "none", by |-> NoOwner]
NoProgress == [first |-> 0, next |-> 0, by |-> NoOwner]
NoResolutions == [i \in {} |-> NoOwner]

InterruptTypes == {"guardInterrupted", "interrupted"}

\* Event k of an interrupt batch: one event for each interrupt, then one for
\* the workflow.
BatchEvent(progress, ints, k) ==
  [seq |-> progress.first + k,
   type |-> IF k < Cardinality(ints) THEN "guardInterrupted" ELSE "interrupted",
   by |-> progress.by]

BatchSize(ints) == Cardinality(ints) + 1

\* What the checkpoint payload says: the event cursor, the pending event and
\* the terminal status it commits, the interrupts waited for, how far their
\* batch has got, their resolutions, and the completed activations.
EmptyBody ==
  [cursor |-> 0, pending |-> NoEvent, term |-> "none", ints |-> {},
   progress |-> NoProgress, resolved |-> NoResolutions, done |-> 0]

Absent ==
  [id |-> 0, version |-> 0, status |-> "running", owner |-> NoOwner,
   claim |-> 0, expires |-> 0, body |-> EmptyBody]

\* validateCheckpointInterruptProgress
validInterruptProgress(rec) ==
  LET b == rec.body IN
  IF b.progress = NoProgress
  THEN /\ b.pending.type \notin InterruptTypes
       /\ ~(rec.status = "running" /\ b.ints # {})
  ELSE /\ rec.status = "running"
       /\ b.ints # {}
       /\ b.progress.next <= BatchSize(b.ints)
       /\ b.cursor = b.progress.first + b.progress.next - 1
       /\ IF b.pending = NoEvent
          THEN b.progress.next > 0
          ELSE /\ b.progress.next < BatchSize(b.ints)
               /\ b.pending = BatchEvent(b.progress, b.ints, b.progress.next)

\* Fault: a resumed attempt announces itself as a new run.
StartFaultAlways(x) == "started"

\* startAttempt: the event that opens an attempt.
Start(x) ==
  IF Origin = "external_retry" THEN "retryStarted"
  ELSE IF x.resume THEN "resumed" ELSE "started"

NewExecution ==
  [pc |-> "idle", mode |-> "none", resume |-> FALSE, ev |-> NoEvent,
   ckpt |-> Absent, seq |-> 0, cursor |-> 0, ints |-> {},
   progress |-> NoProgress, done |-> 0, busy |-> FALSE, term |-> "none",
   more |-> FALSE, cause |-> "none", leaseDown |-> FALSE, heartbeat |-> "off",
   sinkFailure |-> FALSE, result |-> "none"]

Init ==
  /\ head = Absent
  /\ journal = [s \in {} |-> NoEvent]
  /\ delivered = {}
  /\ ex = [p \in Invocations |-> NewExecution]
  /\ spent = [crash |-> 0, fault |-> 0, sink |-> 0, cancel |-> 0]

-----------------------------------------------------------------------------
\* The local control of an invocation: operators from execution to execution.

\* execution.cancel: the first cause stays.
Canceled(x, why) == [x EXCEPT !.cause = IF @ = "none" THEN why ELSE @]

\* matchesCheckpointLeaseError(context.Cause(execution.ctx))
LeaseCause(x) == x.cause = "lease" /\ x.ckpt.owner # NoOwner

\* Of an invocation that is over, only what it told its caller matters, and
\* which claim it had; its memory and its heartbeat are gone.
Over(x, pc, result) ==
  [NewExecution EXCEPT !.pc = pc, !.result = result, !.cause = x.cause,
                       !.ints = IF result = "interrupted" THEN x.ints ELSE {},
                       !.ckpt.claim = x.ckpt.claim]

\* invokeAll returns: after a sink failure the deferred function gives the
\* lease up, otherwise it is left to expire.
Returned(x, result) ==
  IF x.sinkFailure THEN [x EXCEPT !.pc = "release"]
  ELSE Over(x, "end", result)

\* commitRunningEvent, commitTerminalEvent and commitInterruptBatchEvent begin
\* with a Save that names the pending event.
Commit(x, mode, event) ==
  IF x.sinkFailure THEN Returned(x, "error")
  ELSE [x EXCEPT !.pc = "savePending", !.mode = mode, !.ev = event]

\* runtimeEvent
Stamp(p, x, type) == [seq |-> x.seq + 1, type |-> type, by |-> p]

\* Fault: the checkpoint is finished before the event is recorded.
CommitTerminalFaultSilent(p, x, status) ==
  [x EXCEPT !.term = status, !.mode = "terminal", !.pc = "finish"]

CommitTerminal(p, x, status) ==
  Commit([x EXCEPT !.term = status], "terminal", Stamp(p, x, status))

\* emit: a lease-lost invocation no longer emits.
Emit(p, x, mode, type) ==
  IF LeaseCause(x) THEN Returned(x, "error")
  ELSE [x EXCEPT !.pc = "append", !.mode = mode, !.ev = Stamp(p, x, type)]

\* handleError.  kind is "leaseLost" for a checkpointLeaseError of this claim,
\* "plain" for an error that fails the run, anything else is preserved: the
\* result Invoke returns without a terminal event.
HandleError(p, x, kind) ==
  IF LeaseCause(x) \/ kind = "leaseLost"
  THEN Returned(IF kind = "leaseLost" THEN Canceled(x, "lease") ELSE x, "error")
  ELSE IF x.cause # "none"
  THEN CommitTerminal(p, x, IF x.cause = "terminated" THEN "terminated"
                            ELSE "canceled")
  ELSE IF kind = "plain" THEN CommitTerminal(p, x, "failed")
  ELSE Returned(x, kind)

\* Where the error of a commit, an emit or a Save goes: while restoring, while
\* starting the attempt and from commitTerminalEvent it is returned as it is.
Raise(p, x, kind) ==
  IF x.mode \in {"step", "observe", "nodeFailed", "interrupt"}
  THEN HandleError(p, x, IF kind = "leaseLost" THEN "leaseLost" ELSE "error")
  ELSE Returned(x, "error")

\* recordSinkFailure
SinkFailed(p, x) ==
  Raise(p, Canceled([x EXCEPT !.sinkFailure = TRUE], "sink"), "error")

\* continueInterruptBatch: the next event of the batch, or, when all are
\* confirmed, the heartbeat is stopped and the checkpoint interrupted.
ContinueBatch(p, x, mode) ==
  IF x.progress.next < BatchSize(x.ints)
  THEN Commit(x, mode, BatchEvent(x.progress, x.ints, x.progress.next))
  ELSE IF x.heartbeat = "failed" THEN Raise(p, x, "leaseLost")
  ELSE [x EXCEPT !.pc = "interrupt", !.mode = mode, !.heartbeat = "off"]

\* The rest of restore once the journal is reconciled.
Reconciled(p, x) ==
  IF x.progress # NoProgress THEN ContinueBatch(p, x, "restoreInterrupt")
  ELSE Emit(p, x, "loaded", "loaded")

\* stopCheckpointLeaseHeartbeat before Finish: a failed heartbeat is an error.
BeforeFinish(x) ==
  IF x.heartbeat = "failed" THEN Returned(x, "error")
  ELSE [x EXCEPT !.pc = "finish", !.heartbeat = "off"]

\* Fault: confirms one event too many.
EmittedFaultCursor(p, x) ==
  [x EXCEPT !.cursor = x.seq + 1, !.pc = "confirm"]

\* The event is journalled and delivered: what the emitting function does next.
Emitted(p, x) ==
  LET y == [x EXCEPT !.cursor = x.seq] IN
  CASE x.mode = "hook" -> [y EXCEPT !.pc = "create"]
    [] x.mode = "observe" -> [y EXCEPT !.pc = "work"]
    [] x.mode = "nodeFailed" -> HandleError(p, y, "plain")
    [] x.mode = "loaded" -> Commit(y, "start", Stamp(p, y, Start(y)))
    [] x.mode \in {"start", "step"} -> [y EXCEPT !.pc = "confirm"]
    [] x.mode \in {"interrupt", "restoreInterrupt"} ->
         [y EXCEPT !.pc = "confirm", !.progress.next = @ + 1]
    [] x.mode = "terminal" -> BeforeFinish(y)
    [] x.mode = "replay" ->
         LET z == IF /\ x.progress # NoProgress
                     /\ x.progress.next < BatchSize(x.ints)
                     /\ x.progress.first + x.progress.next = x.ev.seq
                  THEN [y EXCEPT !.progress.next = @ + 1] ELSE y
         IN IF x.term # "none" THEN BeforeFinish(z)
            ELSE [z EXCEPT !.pc = "confirm"]

\* Fault: a batch found half done is given up after one event.
ConfirmedFaultGivesUp(p, x) ==
  CASE x.mode \in {"start", "step"} -> [x EXCEPT !.pc = "work"]
    [] x.mode = "replay" -> [x EXCEPT !.pc = "reconcile"]
    [] x.mode = "interrupt" -> ContinueBatch(p, x, x.mode)
    [] x.mode = "restoreInterrupt" -> Returned(x, "error")

\* The pending event is confirmed: where the invocation goes on.
Confirmed(p, x) ==
  CASE x.mode \in {"start", "step"} -> [x EXCEPT !.pc = "work"]
    [] x.mode = "replay" -> [x EXCEPT !.pc = "reconcile"]
    [] x.mode \in {"interrupt", "restoreInterrupt"} -> ContinueBatch(p, x, x.mode)

\* Fault: the progress of an interrupt batch is forgotten.
RestoredFaultNoProgress(p, x) ==
  LET b == x.ckpt.body
      y == [x EXCEPT !.seq = b.cursor, !.cursor = b.cursor, !.done = b.done]
  IN IF b.pending = NoEvent THEN [y EXCEPT !.pc = "reconcile"]
     ELSE [y EXCEPT !.pc = "append", !.mode = "replay", !.ev = b.pending,
                    !.term = b.term]

\* Fault: the pending event is left to the journal reconciliation.
RestoredFaultSkipsPending(p, x) ==
  LET b == x.ckpt.body
  IN [x EXCEPT !.seq = b.cursor, !.cursor = b.cursor, !.ints = b.ints,
               !.progress = b.progress, !.done = b.done, !.pc = "reconcile"]

\* Fault: a pending event found in the journal counts as delivered.
RestoredFaultTrustsJournal(p, x) ==
  LET b == x.ckpt.body
      y == [x EXCEPT !.seq = b.cursor, !.cursor = b.cursor, !.ints = b.ints,
                     !.progress = b.progress, !.done = b.done, !.term = b.term,
                     !.ev = b.pending]
  IN IF b.pending = NoEvent THEN [y EXCEPT !.pc = "reconcile"]
     ELSE IF b.pending.seq \in DOMAIN journal /\ b.ints = {}
     THEN [y EXCEPT !.pc = "confirm", !.mode = "replay", !.seq = b.pending.seq,
                    !.cursor = b.pending.seq]
     ELSE [y EXCEPT !.pc = "append", !.mode = "replay"]

\* restore, up to its first Store call: applyResumePayload and the pending
\* event.
Restored(p, x) ==
  LET b == x.ckpt.body
      y == [x EXCEPT !.seq = b.cursor, !.cursor = b.cursor, !.ints = b.ints,
                     !.progress = b.progress, !.done = b.done, !.busy = FALSE]
  IN IF ~validInterruptProgress(x.ckpt) THEN Returned(x, "error")
     ELSE IF b.pending = NoEvent THEN [y EXCEPT !.pc = "reconcile"]
     ELSE IF b.pending.seq # b.cursor + 1 THEN Returned(y, "error")
     ELSE [y EXCEPT !.pc = "append", !.mode = "replay", !.ev = b.pending,
                    !.term = b.term]

-----------------------------------------------------------------------------
\* The Store calls.

\* writeRequest: the record a Save writes for execution x.
Request(x, pending, term) ==
  [x.ckpt EXCEPT !.body.cursor = x.cursor, !.body.pending = pending,
                 !.body.term = term, !.body.ints = x.ints,
                 !.body.progress = x.progress, !.body.done = x.done]

\* A Save or Finish under the execution's context, which a cancellation ends,
\* or under the finalization context, which only a failed heartbeat ends.
StoreOutcome(x, rec, terminal, finalizing) ==
  IF IF finalizing THEN x.leaseDown ELSE x.cause # "none" THEN "context"
  ELSE WriteOutcome(head, rec, terminal, 0)

\* x after a Save of rec: its copy is what it asked for, one version on.
Saved(x, rec) == [x EXCEPT !.ckpt = [rec EXCEPT !.version = @ + 1]]

\* Save rec for execution x of p, which goes on as y if it succeeds.
Save(p, x, rec, finalizing, y) ==
  IF StoreOutcome(x, rec, FALSE, finalizing) = "ok"
  THEN /\ head' = Written(head, rec, 0, 1)
       /\ ex' = [ex EXCEPT ![p] = y]
  ELSE /\ ex' = [ex EXCEPT ![p] =
                   Raise(p, x, StoreOutcome(x, rec, FALSE, finalizing))]
       /\ UNCHANGED head

\* saveCheckpoint keeps the owner of the copy and asks for a fresh lease.
Running(rec) == [rec EXCEPT !.status = "running", !.expires = 1]

Finalizing(x) == x.mode \in {"terminal", "interrupt", "restoreInterrupt"}

At(p, pc) == ex[p].pc = pc

\* prepareCheckpoint failed: the invocation never had the run.
Refused(x) == Over([x EXCEPT !.ckpt = Absent], "end", "error")

\* prepareCheckpoint of a new run, then startAttempt.
Create(p) ==
  LET x == ex[p]
      rec == [Absent EXCEPT !.version = 1, !.owner = p, !.claim = 1,
                            !.expires = 1]
      y == [x EXCEPT !.ckpt = rec, !.heartbeat = "on"]
  IN /\ At(p, IF HookEvents THEN "create" ELSE "idle")
     /\ IF x.cause = "none" /\ CreateOutcome(head, rec) = "ok"
        THEN /\ head' = Created(rec, 0, 1)
             /\ ex' = [ex EXCEPT ![p] = Commit(y, "start", Stamp(p, y, Start(y)))]
        ELSE /\ ex' = [ex EXCEPT ![p] = Refused(x)]
             /\ UNCHANGED head
     /\ UNCHANGED <<journal, delivered, spent>>

\* A BeforeWorkflow hook emits an event before there is a checkpoint.
Hook(p) ==
  /\ At(p, "idle") /\ HookEvents
  /\ ex' = [ex EXCEPT ![p].pc = "append", ![p].mode = "hook",
                      ![p].ev = Stamp(p, ex[p], "hook")]
  /\ UNCHANGED <<head, journal, delivered, spent>>

\* prepareResumeCheckpoint and activeResumeCheckpoint up to the claim.
Load(p) ==
  /\ At(p, "idle")
  /\ Exists(head)
  /\ ex' = [ex EXCEPT ![p] =
       IF ~checkpointTerminal(head.status) /\ validInterruptProgress(head)
       THEN [@ EXCEPT !.pc = "claim", !.resume = TRUE, !.ckpt = head]
       ELSE Refused(@)]
  /\ UNCHANGED <<head, journal, delivered, spent>>

Resolutions == UNION {[ids -> Refs] : ids \in SUBSET InterruptIDs}

\* Fault: some of the pending interrupts may stay unresolved.
ResolutionsAcceptedFaultPartial(rec, res) ==
  IF rec.status = "interrupted"
  THEN DOMAIN res \subseteq rec.body.ints
  ELSE res = NoResolutions \/ res = rec.body.resolved

\* resolvePendingInterrupts wants exactly the pending ids;
\* validateResolvedInterruptReplay nothing, or what was durably resolved.
ResolutionsAccepted(rec, res) ==
  IF rec.status = "interrupted"
  THEN rec.body.ints # {} /\ DOMAIN res = rec.body.ints
  ELSE res = NoResolutions \/ res = rec.body.resolved

Claim(p, res) ==
  LET x == ex[p]
      old == x.ckpt
      rec == [old EXCEPT !.status = "running", !.owner = p, !.claim = @ + 1,
                         !.expires = 1,
                         !.body.ints = IF old.status = "interrupted" THEN {} ELSE @,
                         !.body.resolved =
                            IF old.status = "interrupted" THEN res ELSE @]
  IN /\ At(p, "claim")
     /\ IF /\ ResolutionsAccepted(old, res)
           /\ x.cause = "none"
           /\ ClaimOutcome(head, rec, 0) = "ok"
        THEN /\ head' = Claimed(rec, 0, 1)
             /\ ex' = [ex EXCEPT ![p] =
                  Restored(p, [x EXCEPT !.heartbeat = "on",
                                        !.ckpt = [rec EXCEPT !.version = @ + 1]])]
        ELSE /\ ex' = [ex EXCEPT ![p] = Refused(x)]
             /\ UNCHANGED head
     /\ UNCHANGED <<journal, delivered, spent>>

SavePending(p) ==
  LET x == ex[p]
      term == IF x.mode = "terminal" THEN x.term ELSE "none"
      rec == Running(Request(x, x.ev, term))
  IN /\ At(p, "savePending")
     /\ Save(p, x, rec, Finalizing(x), [Saved(x, rec) EXCEPT !.pc = "append"])
     /\ UNCHANGED <<journal, delivered, spent>>

\* MemoryLog.Append is idempotent, and refuses a different event under a
\* sequence it already has.
Accepts(event) ==
  event.seq \in DOMAIN journal => journal[event.seq] = event

Journaled(event) ==
  [s \in DOMAIN journal \cup {event.seq} |->
     IF s = event.seq THEN event ELSE journal[s]]

\* emitLockedWithContexts up to the observers: take the next sequence, append
\* under the fence (a hook's event without one).
AppendEvent(p) ==
  LET x == [ex[p] EXCEPT !.seq = @ + 1]
      fence == IF x.mode = "hook" THEN "ok"
               ELSE FenceOutcome(head, x.ckpt.owner, x.ckpt.claim, 0)
  IN /\ At(p, "append")
     /\ IF fence = "ok" /\ Accepts(x.ev)
        THEN /\ journal' = Journaled(x.ev)
             /\ ex' = [ex EXCEPT ![p] = [x EXCEPT !.pc = "deliver"]]
        ELSE /\ ex' = [ex EXCEPT ![p] =
                  IF fence = "leaseLost"
                  THEN Raise(p, Canceled(x, "lease"), "leaseLost")
                  ELSE SinkFailed(p, x)]
             /\ UNCHANGED journal
     /\ UNCHANGED <<head, delivered, spent>>

\* eventDelivery.emit to the strict sinks.
Deliver(p) ==
  /\ At(p, "deliver")
  /\ delivered' = delivered \cup {ex[p].ev}
  /\ ex' = [ex EXCEPT ![p] = Emitted(p, @)]
  /\ UNCHANGED <<head, journal, spent>>

Confirm(p) ==
  LET x == ex[p]
      rec == Running(Request(x, NoEvent, "none"))
  IN /\ At(p, "confirm")
     /\ Save(p, x, rec, Finalizing(x), Confirmed(p, Saved(x, rec)))
     /\ UNCHANGED <<journal, delivered, spent>>

\* Fault: the progress of the batch is left in the interrupted checkpoint.
InterruptCheckpointFaultKeepsProgress(p) ==
  LET x == ex[p]
      rec == [Request(x, NoEvent, "none")
                EXCEPT !.status = "interrupted", !.owner = NoOwner, !.expires = 0]
  IN /\ At(p, "interrupt")
     /\ Save(p, x, rec, TRUE, Returned(Saved(x, rec), "interrupted"))
     /\ UNCHANGED <<journal, delivered, spent>>

\* interruptCheckpoint; the InterruptError is returned from restore, but goes
\* through handleError when a node raised it.
InterruptCheckpoint(p) ==
  LET x == ex[p]
      y == [x EXCEPT !.progress = NoProgress]
      rec == [Request(y, NoEvent, "none")
                EXCEPT !.status = "interrupted", !.owner = NoOwner, !.expires = 0]
      z == Saved(y, rec)
  IN /\ At(p, "interrupt")
     /\ Save(p, x, rec, TRUE,
             IF x.mode = "interrupt" THEN HandleError(p, z, "interrupted")
             ELSE Returned(z, "interrupted"))
     /\ UNCHANGED <<journal, delivered, spent>>

\* Fault: the error of Finish is dropped.
FinishCheckpointFaultUnchecked(p) ==
  LET x == ex[p]
      rec == [Request(x, NoEvent, "none")
                EXCEPT !.status = x.term, !.owner = NoOwner, !.expires = 0]
  IN /\ At(p, "finish")
     /\ IF StoreOutcome(x, rec, TRUE, TRUE) = "ok"
        THEN head' = Written(head, rec, 0, 1)
        ELSE UNCHANGED head
     /\ ex' = [ex EXCEPT ![p] = Returned(x, x.term)]
     /\ UNCHANGED <<journal, delivered, spent>>

\* finishCheckpoint, after commitTerminalEvent or replayPending.
FinishCheckpoint(p) ==
  LET x == ex[p]
      rec == [Request(x, NoEvent, "none")
                EXCEPT !.status = x.term, !.owner = NoOwner, !.expires = 0]
  IN /\ At(p, "finish")
     /\ IF StoreOutcome(x, rec, TRUE, TRUE) = "ok"
        THEN /\ head' = Written(head, rec, 0, 1)
             /\ ex' = [ex EXCEPT ![p] =
                  Returned(x, IF x.mode = "terminal" \/ x.term = "completed"
                              THEN x.term ELSE "error")]
        ELSE /\ ex' = [ex EXCEPT ![p] = Returned(x, "error")]
             /\ UNCHANGED head
     /\ UNCHANGED <<journal, delivered, spent>>

\* One page of reconcileJournal: the records beyond the cursor are redelivered
\* in order.  k of them are, then a strict sink fails, or all are.
Beyond(x) == {s \in DOMAIN journal : s > x.cursor}

Page(x) ==
  {s \in Beyond(x) : Cardinality({t \in Beyond(x) : t <= s}) <= PageSize}

Redeliver(p, k) ==
  LET x == ex[p]
      page == Page(x)
      n == Cardinality(page)
      y == [x EXCEPT !.seq = x.cursor + k, !.cursor = x.cursor + k,
                     !.mode = "replay", !.more = (n = PageSize)]
  IN /\ At(p, "reconcile")
     /\ k \in 0..n
     /\ IF x.cause # "none" \/ page # x.cursor + 1 .. x.cursor + n
        THEN /\ k = 0
             /\ ex' = [ex EXCEPT ![p] = Returned(x, "error")]
             /\ UNCHANGED <<delivered, spent>>
        ELSE /\ delivered' = delivered \cup {journal[x.cursor + i] : i \in 1..k}
             /\ IF k = n
                THEN /\ ex' = [ex EXCEPT ![p] =
                          IF n = 0 THEN Reconciled(p, x)
                          ELSE [y EXCEPT !.pc = "saveCursor"]]
                     /\ UNCHANGED spent
                ELSE /\ spent.sink < MaxSinkFailures
                     /\ spent' = [spent EXCEPT !.sink = @ + 1]
                     /\ ex' = [ex EXCEPT ![p] = SinkFailed(p, y)]
     /\ UNCHANGED <<head, journal>>

\* The Save that confirms a reconciled page.
SaveCursor(p) ==
  LET x == ex[p]
      rec == Running(Request(x, NoEvent, "none"))
      y == Saved(x, rec)
  IN /\ At(p, "saveCursor")
     /\ Save(p, x, rec, FALSE, IF x.more THEN [y EXCEPT !.pc = "reconcile"]
                               ELSE Reconciled(p, y))
     /\ UNCHANGED <<journal, delivered, spent>>

\* Fault: does not return before the Store accepted the release.
ReleaseLeaseFaultInsists(p) ==
  LET x == ex[p]
      rec == [x.ckpt EXCEPT !.owner = NoOwner, !.expires = 0]
  IN /\ At(p, "release")
     /\ StoreOutcome(x, rec, FALSE, TRUE) = "ok"
     /\ head' = Written(head, rec, 0, 1)
     /\ ex' = [ex EXCEPT ![p] = Over(x, "end", "error")]
     /\ UNCHANGED <<journal, delivered, spent>>

\* releaseCheckpointLease, whatever comes of it.
ReleaseLease(p) ==
  LET x == ex[p]
      rec == [x.ckpt EXCEPT !.owner = NoOwner, !.expires = 0]
  IN /\ At(p, "release")
     /\ ex' = [ex EXCEPT ![p] = Over(x, "end", "error")]
     /\ IF /\ x.heartbeat # "failed"
           /\ x.ckpt.version > 0
           /\ x.ckpt.owner # NoOwner \/ x.ckpt.expires # 0
           /\ StoreOutcome(x, rec, FALSE, TRUE) = "ok"
        THEN head' = Written(head, rec, 0, 1)
        ELSE UNCHANGED head
     /\ UNCHANGED <<journal, delivered, spent>>

-----------------------------------------------------------------------------
\* The scheduler loop between commits, one activation at a time.

Works(p, y) ==
  /\ At(p, "work")
  /\ ex' = [ex EXCEPT ![p] = y]
  /\ UNCHANGED <<head, journal, delivered, spent>>

\* emitBatchStarts
StartNode(p) ==
  LET x == ex[p] IN
  /\ ~x.busy /\ x.done < Work
  /\ Works(p, Commit([x EXCEPT !.busy = TRUE], "step", Stamp(p, x, "nodeStarted")))

\* A node emits a custom event.
EmitCustom(p) ==
  LET x == ex[p] IN
  /\ x.busy /\ x.seq < MaxSequence
  /\ Works(p, Emit(p, x, "observe", "custom"))

\* Fault: the activation is only marked completed after its commit.
CommitActivationFaultLate(p) ==
  LET x == ex[p] IN
  /\ x.busy
  /\ Works(p, Commit([x EXCEPT !.busy = FALSE], "step",
                     Stamp(p, x, "nodeCompleted")))

\* commitActivation
CommitActivation(p) ==
  LET x == ex[p] IN
  /\ x.busy
  /\ Works(p, Commit([x EXCEPT !.busy = FALSE, !.done = @ + 1], "step",
                     Stamp(p, x, "nodeCompleted")))

\* handleNodeError of an interrupt: interrupt, finishInterrupt.
Interrupt(p, ids) ==
  LET x == ex[p] IN
  /\ x.busy
  /\ ids # {}
  /\ Works(p, ContinueBatch(p,
       [x EXCEPT !.busy = FALSE, !.ints = ids,
                 !.progress = [first |-> x.seq + 1, next |-> 0, by |-> p]],
       "interrupt"))

\* handleNodeError of any other error of a node.
NodeFails(p) ==
  /\ ex[p].busy
  /\ Works(p, Emit(p, [ex[p] EXCEPT !.busy = FALSE], "nodeFailed", "nodeFailed"))

\* Any other error of the loop: routing, max steps, an iterator source.
WorkFails(p) == Works(p, HandleError(p, ex[p], "plain"))

\* finish
Complete(p) ==
  /\ ~ex[p].busy /\ ex[p].done = Work
  /\ Works(p, CommitTerminal(p, ex[p], "completed"))

-----------------------------------------------------------------------------
\* The environment.

Active(p) == ex[p].pc \notin {"idle", "end", "crashed"}

Expire ==
  /\ head.expires = 1
  /\ head' = [head EXCEPT !.expires = 0]
  /\ UNCHANGED <<journal, delivered, ex, spent>>

\* renewCheckpointLease fails: the lease is lost, or (faulty) the call is.
\* A renewal that succeeds changes nothing at this resolution of time.
HeartbeatFails(p, faulty) ==
  /\ Active(p) /\ ex[p].heartbeat = "on"
  /\ IF faulty
     THEN spent.fault < MaxFaults /\ spent' = [spent EXCEPT !.fault = @ + 1]
     ELSE /\ RenewOutcome(head, p, ex[p].ckpt.claim, 0) # "ok"
          /\ UNCHANGED spent
  /\ ex' = [ex EXCEPT ![p] =
       [Canceled(@, "lease") EXCEPT !.leaseDown = TRUE, !.heartbeat = "failed"]]
  /\ UNCHANGED <<head, journal, delivered>>

\* A Store call's context expires before the Store acts on it: the call fails
\* and changes nothing.
StoreFault(p) ==
  LET x == ex[p] IN
  /\ spent.fault < MaxFaults
  /\ spent' = [spent EXCEPT !.fault = @ + 1]
  /\ x.pc \in {"create", "claim", "savePending", "append", "confirm",
               "interrupt", "finish", "reconcile", "saveCursor", "release"}
  /\ ex' = [ex EXCEPT ![p] =
       CASE x.pc = "append" -> SinkFailed(p, [x EXCEPT !.seq = @ + 1])
         [] x.pc \in {"create", "claim"} -> Refused(x)
         [] x.pc = "release" -> Over(x, "end", "error")
         [] x.pc \in {"finish", "reconcile"} -> Returned(x, "error")
         [] OTHER -> Raise(p, x, "error")]
  /\ UNCHANGED <<head, journal, delivered>>

\* A strict sink refuses the event.
SinkRefuses(p) ==
  /\ At(p, "deliver")
  /\ spent.sink < MaxSinkFailures
  /\ spent' = [spent EXCEPT !.sink = @ + 1]
  /\ ex' = [ex EXCEPT ![p] = SinkFailed(p, @)]
  /\ UNCHANGED <<head, journal, delivered>>

\* The caller cancels its context, or Terminate is called.
CancelRun(p, why) ==
  /\ Active(p)
  /\ spent.cancel < MaxCancels
  /\ spent' = [spent EXCEPT !.cancel = @ + 1]
  /\ ex' = [ex EXCEPT ![p] = Canceled(@, why)]
  /\ UNCHANGED <<head, journal, delivered>>

Crash(p) ==
  /\ Active(p)
  /\ spent.crash < MaxCrashes
  /\ spent' = [spent EXCEPT !.crash = @ + 1]
  /\ ex' = [ex EXCEPT ![p] = Over(@, "crashed", "none")]
  /\ UNCHANGED <<head, journal, delivered>>

\* What an invocation does by itself.
Step(p) ==
  \/ Create(p)
  \/ \E res \in Resolutions : Claim(p, res)
  \/ SavePending(p) \/ AppendEvent(p) \/ Deliver(p) \/ Confirm(p)
  \/ InterruptCheckpoint(p) \/ FinishCheckpoint(p)
  \/ \E k \in 0..PageSize : Redeliver(p, k)
  \/ SaveCursor(p) \/ ReleaseLease(p)
  \/ StartNode(p) \/ EmitCustom(p) \/ CommitActivation(p)
  \/ \E ids \in SUBSET InterruptIDs : Interrupt(p, ids)
  \/ NodeFails(p) \/ WorkFails(p) \/ Complete(p)

Next ==
  \/ Expire
  \/ \E p \in Invocations :
       \/ Hook(p)
       \/ Load(p)
       \/ Step(p)
       \/ \E faulty \in BOOLEAN : HeartbeatFails(p, faulty)
       \/ StoreFault(p)
       \/ SinkRefuses(p)
       \/ \E why \in CancelCauses : CancelRun(p, why)
       \/ Crash(p)

Spec == Init /\ [][Next]_vars

\* Goroutines, Store calls, sinks and nodes return: an invocation under way
\* keeps stepping.  Nobody is obliged to invoke, to crash or to cancel.
FairSpec == Spec /\ \A p \in Invocations : WF_vars(Active(p) /\ Step(p))

-----------------------------------------------------------------------------
\* The session view of the run's journal (ListSessionRuns), for one run.

\* applyLifecycle: the summary's status after a record; "bad" is
\* errInconsistentRunLifecycle.
applyLifecycle(status, type) ==
  IF status \in TerminalStatuses \cup {"bad"} THEN "bad"
  ELSE IF type \in {"started", "retryStarted"}
  THEN IF status = "none" THEN "running" ELSE "bad"
  ELSE IF status = "none" THEN "bad"
  ELSE IF type = "resumed" THEN "running"
  ELSE IF type = "interrupted"
  THEN IF status = "running" THEN "interrupted" ELSE "bad"
  ELSE IF type \in TerminalStatuses THEN type
  ELSE status

Last == Cardinality(DOMAIN journal)

Summary ==
  LET after[s \in 0..Last] ==
        IF s = 0 THEN "none" ELSE applyLifecycle(after[s - 1], journal[s].type)
  IN after[Last]

-----------------------------------------------------------------------------
\* Properties.

Terminal == checkpointTerminal(head.status)
ClaimOf(p) == ex[p].ckpt.claim

TypeOK ==
  /\ head.status \in Statuses
  /\ head.owner \in Invocations \cup {NoOwner}
  /\ head.expires \in {0, 1}
  /\ head.body.ints \subseteq InterruptIDs
  /\ head.body.resolved \in Resolutions
  /\ head.body.done \in 0..Work
  /\ \A s \in DOMAIN journal : journal[s].seq = s
  /\ delivered \subseteq {journal[s] : s \in DOMAIN journal}
  /\ \A p \in Invocations :
       /\ ex[p].ckpt.claim <= head.claim
       /\ ex[p].ckpt.version <= head.version
       /\ ex[p].cursor <= ex[p].seq

\* The journal has no holes and the checkpoint never points past it: a pending
\* event is the next one, and if it, or anything else, is already in the
\* journal behind the cursor, it is that very event, so that replaying it is
\* idempotent.  (commitRunningEvent / replayPending / MemoryLog.Append)
PendingIsReplayable ==
  /\ DOMAIN journal = 1..Last
  /\ head.body.cursor <= Last
  /\ head.body.pending # NoEvent =>
       /\ head.body.pending.seq = head.body.cursor + 1
       /\ Last <= head.body.cursor + 1
       /\ Last = head.body.cursor + 1 => journal[Last] = head.body.pending

\* At-least-once delivery: whatever the checkpoint confirms, the sinks have
\* accepted; and consumers may deduplicate by sequence, because no sequence is
\* ever delivered with two different events, not even by an invocation that
\* lost the run between its append and its delivery.
ConfirmedWasDelivered ==
  /\ \A s \in 1..head.body.cursor : journal[s] \in delivered
  /\ \A d \in delivered : journal[d.seq] = d

\* The durable state is never ahead of, or behind, the journal: the completed
\* activations it holds are the ones whose node.completed is confirmed or
\* pending.  (Only a terminal commit may carry an activation whose own commit
\* was cut short by a cancellation.)
StateMatchesJournal ==
  LET completed == {s \in 1..head.body.cursor : journal[s].type = "nodeCompleted"}
      pending == IF head.body.pending.type = "nodeCompleted" THEN 1 ELSE 0
      recorded == Cardinality(completed) + pending
  IN Exists(head) =>
       IF Terminal \/ head.body.term # "none"
       THEN head.body.done \in {recorded, recorded + 1}
       ELSE head.body.done = recorded

\* A terminal checkpoint is backed by the journal's last event, the only
\* terminal one, and nothing is left unconfirmed.  (commitTerminalEvent)
TerminalIsRecorded ==
  /\ \A s \in 1..Last : journal[s].type \in TerminalStatuses => s = Last
  /\ Terminal =>
       /\ journal[Last].type = head.status
       /\ head.body.cursor = Last
       /\ head.body.pending = NoEvent

\* A batch of interrupts is recorded whole, even if several invocations had to
\* work on it, and nothing follows it until a new claim resolved it; and events
\* are journalled in the order of the claims that stamped them.
\* (commitInterruptBatchEvent / continueInterruptBatch / AppendFenced)
BatchesAreWhole ==
  \A s \in 1..(Last - 1) :
    LET this == journal[s]
        next == journal[s + 1]
    IN /\ this.type = "guardInterrupted" => next.type \in InterruptTypes
       /\ next.type = "interrupted" => this.type = "guardInterrupted"
       /\ this.type = "interrupted" => ClaimOf(this.by) < ClaimOf(next.by)
       /\ this.type # "hook" => ClaimOf(this.by) <= ClaimOf(next.by)

\* Every checkpoint that is not terminal can be resumed: the validation that
\* precedes a claim accepts it, and an interrupted one has interrupts to
\* resolve.  (prepareResumeCheckpoint / restore)
HeadIsResumable ==
  Exists(head) /\ ~Terminal =>
    /\ validInterruptProgress(head)
    /\ head.status = "interrupted" =>
         /\ head.body.ints # {}
         /\ head.body.pending = NoEvent
         /\ head.owner = NoOwner

\* What Invoke told its caller is durable: a terminal result is the
\* checkpoint's, and an InterruptError stands until a newer claim.
ResultIsDurable ==
  \A p \in Invocations :
    /\ ex[p].result \in TerminalStatuses => head.status = ex[p].result
    /\ ex[p].result = "interrupted" /\ head.claim = ClaimOf(p) =>
         /\ head.status = "interrupted"
         /\ head.body.ints = ex[p].ints

\* The session view of a journal that begins with a start event is well formed
\* and never contradicts a terminal or interrupted checkpoint.
SummaryAgrees ==
  Last > 0 /\ journal[1].type \in {"started", "retryStarted"} =>
    /\ Summary # "bad"
    /\ Terminal => Summary = head.status
    /\ head.status = "interrupted" => Summary = "interrupted"

\* An invocation whose claim was superseded changes neither the checkpoint nor
\* the journal any more, whatever it still believes.
StaleInvocationsAreFenced ==
  [][ \A p \in Invocations :
        /\ ex[p].pc \notin {"idle", "claim"}
        /\ ClaimOf(p) < head.claim
        /\ ex'[p] # ex[p]
        => UNCHANGED <<head, journal>> ]_vars

\* Interrupts are resolved once and as a whole: an interrupted run only goes on
\* by a new claim with a resolution for each interrupt it waits for, and those
\* resolutions stay until the next interruption is resolved.
\* (resolvePendingInterrupts / validateResolvedInterruptReplay)
ResolvedOnce ==
  [][ /\ head.status = "interrupted" /\ head' # head =>
           /\ head'.claim = head.claim + 1
           /\ DOMAIN head'.body.resolved = head.body.ints
           /\ head'.body.ints = {}
      /\ head.status # "interrupted" =>
           head'.body.resolved = head.body.resolved ]_vars

\* The run seen from outside: the log is the journal, an owner is a claim, and
\* the log is closed by an event that ends or interrupts the run until the
\* interrupts are resolved.
Lifecycle ==
  INSTANCE RunLifecycle WITH
    EventTypes <- {"started", "resumed", "retryStarted", "loaded", "custom",
                   "nodeStarted", "nodeCompleted", "nodeFailed"}
                  \cup InterruptTypes \cup TerminalStatuses,
    EndTypes <- TerminalStatuses,
    status <- IF Exists(head) THEN head.status ELSE "absent",
    owner <- head.claim,
    log <- [s \in 1..Last |-> journal[s].type],
    open <- /\ Exists(head)
            /\ Last > 0 /\ journal[Last].type = "interrupted" =>
                 head.status = "running" /\ head.body.ints = {}
            /\ Last > 0 => journal[Last].type \notin TerminalStatuses

\* WorkflowRun implements RunLifecycle: no interleaving of invocations, lost
\* leases, failures and crashes shows more than one owner's orderly history.
ImplementsLifecycle == Lifecycle!Spec

\* An invocation that got the run and is left in peace settles it.
Settled == Terminal \/ head.status = "interrupted"

Disturbed(p) ==
  \/ ex[p].pc = "crashed"
  \/ ex[p].cause # "none"
  \/ spent.fault > 0
  \/ head.expires = 0 \/ ClaimOf(p) < head.claim

UndisturbedRunSettles ==
  \A p \in Invocations : ex[p].heartbeat = "on" ~> Settled \/ Disturbed(p)

\* Every invocation returns, even one that lost its lease or met a failure.
EveryInvocationReturns ==
  \A p \in Invocations : Active(p) ~> ~Active(p)
=============================================================================
