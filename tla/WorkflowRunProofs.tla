-------------------------- MODULE WorkflowRunProofs --------------------------
(***************************************************************************)
(* Proofs about WorkflowRun, for any number of invocations, interrupts and *)
(* activations, any page size and any amount of bad luck: the types, who   *)
(* holds which claim, and that an invocation that lost its claim is fenced. *)
(***************************************************************************)
EXTENDS WorkflowRun, FiniteSetTheorems, TLAPS

ObservedTypes == {"hook", "loaded", "custom", "nodeFailed"}
CommittedTypes ==
  {"started", "resumed", "retryStarted", "nodeStarted", "nodeCompleted"}
    \cup InterruptTypes \cup TerminalStatuses
Terms == TerminalStatuses \cup {"none"}
Callers == Invocations \cup {NoOwner}

Events == [seq : Nat, type : ObservedTypes \cup CommittedTypes \cup {"none"}, by : Callers]
Progresses == [first : Nat, next : Nat, by : Callers]
Bodies ==
  [cursor : Nat, pending : Events, term : Terms, ints : SUBSET InterruptIDs,
   progress : Progresses, resolved : Resolutions, done : 0..Work]
Records ==
  [id : {0}, version : Nat, status : Statuses, owner : Callers, claim : Nat,
   expires : {0, 1}, body : Bodies]

ObserveModes == {"observe", "nodeFailed", "loaded"}
CommitModes == {"start", "step", "interrupt", "restoreInterrupt", "terminal"}
Modes == ObserveModes \cup CommitModes \cup {"none", "hook", "replay"}

(* Where an invocation that was granted a claim may be.                    *)
OwningSteps ==
  {"savePending", "append", "deliver", "confirm", "interrupt", "finish", "reconcile",
   "saveCursor", "work", "release"}
AllSteps == OwningSteps \cup {"idle", "create", "claim", "end", "crashed"}

Executions ==
  [pc : AllSteps, mode : Modes, resume : BOOLEAN, ev : Events, ckpt : Records, seq : Nat,
   cursor : Nat, ints : SUBSET InterruptIDs, progress : Progresses, done : 0..Work,
   busy : BOOLEAN, term : Terms, more : BOOLEAN,
   cause : {"none", "sink", "lease", "canceled", "terminated"}, leaseDown : BOOLEAN,
   heartbeat : {"off", "on", "failed"}, sinkFailure : BOOLEAN,
   result : {"none", "error", "interrupted"} \cup TerminalStatuses]

(* The modes in which an invocation may be at a step.                      *)
ModesAt(pc) ==
  CASE pc \in {"idle", "claim", "end", "crashed"} -> {"none"}
    [] pc = "create" -> {"hook"}
    [] pc = "savePending" -> CommitModes
    [] pc \in {"append", "deliver"} -> CommitModes \cup ObserveModes \cup {"hook", "replay"}
    [] pc = "confirm" -> (CommitModes \ {"terminal"}) \cup {"replay"}
    [] pc = "interrupt" -> {"interrupt", "restoreInterrupt"}
    [] pc = "finish" -> {"terminal", "replay"}
    [] pc = "reconcile" -> {"none", "replay"}
    [] pc = "saveCursor" -> {"replay"}
    [] pc = "work" -> {"start", "step", "observe"}
    [] OTHER -> Modes

(* What an invocation knows of itself, whatever it is about to do ...      *)
Fit(x) ==
  /\ x \in Executions
  /\ x.cursor <= x.seq
  /\ x.busy => x.done < Work
  /\ x.mode = "terminal" => x.term \in TerminalStatuses /\ x.ev.type = x.term
  /\ x.mode = "hook" => HookEvents /\ x.ckpt = Absent

(* ... and what holds of it at the step it has come to.                    *)
Placed(x) ==
  /\ x.mode \in ModesAt(x.pc)
  /\ x.sinkFailure => x.pc = "release"
  /\ x.pc \notin {"end", "crashed"} => x.result = "none"
  /\ x.pc = "idle" => x = NewExecution
  /\ x.pc = "claim" => /\ x.ckpt.version > 0 /\ x.seq = 0 /\ x.cursor = 0
                       /\ x.ints = {} /\ x.progress = NoProgress /\ x.term = "none"
  /\ x.pc \in {"append", "deliver", "savePending"} => x.ev # NoEvent

Sound(x) == Fit(x) /\ Placed(x)

(* The claims: nobody is ahead of the head, a claim is granted once, and   *)
(* a copy at the head's version is the head but for the lease.             *)
SameRecord(r, s) == r = [s EXCEPT !.expires = r.expires]

Owns(x) == x.pc \in OwningSteps /\ x.mode # "hook"
Granted(x) == Owns(x) \/ x.result = "interrupted"

Entitled(x, h) ==
  /\ x.ckpt.claim <= h.claim /\ x.ckpt.version <= h.version
  /\ Granted(x) => x.ckpt.claim > 0
  /\ x.pc \in OwningSteps \cup {"claim"} /\ x.ckpt.version = h.version
       => SameRecord(h, x.ckpt)
  /\ Owns(x) /\ x.ckpt.claim = h.claim => x.ckpt.version = h.version

Claimable(h) ==
  /\ h \in Records
  /\ h.claim = 0 <=> h.version = 0
  /\ h.version = 0 => h = Absent

Claims ==
  /\ Claimable(head)
  /\ \A p \in Invocations : Entitled(ex[p], head)
  /\ \A p, q \in Invocations :
       Granted(ex[p]) /\ Granted(ex[q]) /\ ex[p].ckpt.claim = ex[q].ckpt.claim => p = q

Local == ex \in [Invocations -> Executions] /\ \A p \in Invocations : Sound(ex[p])

-----------------------------------------------------------------------------
(* The operators on executions.                                            *)

(* x has left: it gives the lease up, or is over with that result.         *)
Leaves(x, y, result) ==
  \/ /\ y.pc = "release" /\ y.sinkFailure
     /\ y.ckpt = x.ckpt /\ y.mode = x.mode /\ y.result = "none"
  \/ /\ y.pc = "end" /\ ~x.sinkFailure
     /\ y.ckpt = [Absent EXCEPT !.claim = x.ckpt.claim]
     /\ y.mode = "none" /\ y.result = result
     /\ y.ints = IF result = "interrupted" THEN x.ints ELSE {}

(* Names for what the operators change.                                   *)
Saving(x, mode, e) == [x EXCEPT !.pc = "savePending", !.mode = mode, !.ev = e]
Appending(x, mode, e) == [x EXCEPT !.pc = "append", !.mode = mode, !.ev = e]
Interrupting(x, mode) == [x EXCEPT !.pc = "interrupt", !.mode = mode, !.heartbeat = "off"]
Moved(x, pc) == [x EXCEPT !.pc = pc]
Resumed(x) ==
  LET b == x.ckpt.body
  IN [x EXCEPT !.seq = b.cursor, !.cursor = b.cursor, !.ints = b.ints,
               !.progress = b.progress, !.done = b.done, !.busy = FALSE]
Replaying(x) ==
  LET b == x.ckpt.body
  IN [x EXCEPT !.pc = "append", !.mode = "replay", !.ev = b.pending, !.term = b.term]
Delivered(x) == [x EXCEPT !.cursor = x.seq]
Advanced(x) == [x EXCEPT !.progress.next = @ + 1]
Confirming(x) == [x EXCEPT !.pc = "confirm", !.progress.next = @ + 1]
Finishing(x) == [x EXCEPT !.pc = "finish", !.heartbeat = "off"]

SameWork(x, y) ==
  /\ y.ckpt = x.ckpt /\ y.seq = x.seq /\ y.cursor = x.cursor /\ y.ints = x.ints
  /\ y.progress = x.progress /\ y.done = x.done

(* x begins to commit the end of the run.                                  *)
Ends(p, x, y) ==
  /\ y.pc = "savePending" /\ y.mode = "terminal" /\ y.term \in TerminalStatuses
  /\ y.ev = Stamp(p, x, y.term) /\ y.cause = x.cause /\ y.leaseDown = x.leaseDown
  /\ ~x.sinkFailure /\ SameWork(x, y)

Results == {"none", "error", "interrupted"} \cup TerminalStatuses

(* The records of a new run are records.                                   *)
LEMMA NewIsSound ==
  /\ NoEvent \in Events /\ NoProgress \in Progresses /\ NoResolutions \in Resolutions
  /\ EmptyBody \in Bodies /\ Absent \in Records
  /\ NewExecution \in Executions /\ Sound(NewExecution)
<1>1. NoEvent \in Events /\ NoProgress \in Progresses
  BY DEF NoEvent, Events, NoProgress, Progresses, Callers, NoOwner
<1>2. NoResolutions \in Resolutions
  <2>1. NoResolutions \in [{} -> Refs]
    BY DEF NoResolutions
  <2> QED BY <2>1 DEF Resolutions
<1>3. EmptyBody \in Bodies
  BY <1>1, <1>2, RunAssumption DEF EmptyBody, Bodies, Terms
<1>4. Absent \in Records
  BY <1>3 DEF Absent, Records, Statuses, Callers, NoOwner
<1>5. NewExecution \in Executions
  BY <1>1, <1>4, RunAssumption DEF NewExecution, Executions, AllSteps, Modes, Terms
<1>6. Sound(NewExecution)
  BY <1>5 DEF NewExecution, Sound, Fit, Placed, ModesAt
<1> QED BY <1>1, <1>2, <1>3, <1>4, <1>5, <1>6

(* Over *)
LEMMA OverEffect ==
  ASSUME NEW x \in Executions, NEW pc \in {"end", "crashed"}, NEW result \in Results
  PROVE  LET y == Over(x, pc, result) IN
         /\ Sound(y) /\ y.pc = pc /\ y.mode = "none" /\ y.result = result
         /\ y.ckpt = [Absent EXCEPT !.claim = x.ckpt.claim]
         /\ y.ints = IF result = "interrupted" THEN x.ints ELSE {}
<1> DEFINE y == Over(x, pc, result)
<1>1. y = [NewExecution EXCEPT !.pc = pc, !.result = result, !.cause = x.cause,
                       !.ints = IF result = "interrupted" THEN x.ints ELSE {},
                       !.ckpt = [Absent EXCEPT !.claim = x.ckpt.claim]]
  BY DEF Over, NewExecution
<1>2. [Absent EXCEPT !.claim = x.ckpt.claim] \in Records
  BY NewIsSound DEF Records, Executions
<1>3. y \in Executions
  BY ZenonT(60), <1>1, <1>2, NewIsSound DEF Executions, AllSteps, OwningSteps, Results
<1>4. /\ y.pc = pc /\ y.mode = "none" /\ y.result = result
      /\ y.ckpt = [Absent EXCEPT !.claim = x.ckpt.claim]
      /\ y.ints = IF result = "interrupted" THEN x.ints ELSE {}
      /\ y.cursor = 0 /\ y.seq = 0 /\ y.busy = FALSE /\ y.sinkFailure = FALSE
  BY <1>1, NewIsSound DEF NewExecution
<1>5. Sound(y)
  BY <1>3, <1>4 DEF Sound, Fit, Placed, ModesAt
<1> QED BY <1>4, <1>5

(* Returned *)
LEMMA ReturnedEffect ==
  ASSUME NEW x \in Executions, Fit(x), x.result = "none", NEW result \in Results \ {"none"}
  PROVE  Sound(Returned(x, result)) /\ Leaves(x, Returned(x, result), result)
<1>1. CASE x.sinkFailure
  <2> DEFINE y == [x EXCEPT !.pc = "release"]
  <2>1. y \in Executions
    BY DEF Fit, Executions, AllSteps, OwningSteps
  <2>2. /\ y.pc = "release" /\ y.sinkFailure /\ y.ckpt = x.ckpt /\ y.mode = x.mode
        /\ y.result = "none" /\ y.cursor = x.cursor /\ y.seq = x.seq /\ y.busy = x.busy
        /\ y.done = x.done /\ y.term = x.term /\ y.ev = x.ev /\ y.mode \in Modes
    BY <1>1 DEF Fit, Executions
  <2>3. Sound(y)
    BY <2>1, <2>2 DEF Sound, Fit, Placed, ModesAt
  <2> QED BY <1>1, <2>2, <2>3 DEF Returned, Leaves
<1>2. CASE ~x.sinkFailure
  BY <1>2, OverEffect DEF Returned, Leaves, Fit
<1> QED BY <1>1, <1>2

LEMMA ReturnedEnds ==
  ASSUME NEW x \in Executions, ~x.sinkFailure, NEW result \in Results
  PROVE  Returned(x, result).pc = "end"
<1>1. Over(x, "end", result).pc = "end"
  BY ZenonT(60), OverEffect
<1> QED BY <1>1 DEF Returned

(* Commit *)
LEMMA CommitEffect ==
  ASSUME NEW x \in Executions, Fit(x), x.result = "none", NEW mode \in CommitModes,
         NEW event \in Events, event # NoEvent,
         mode = "terminal" => x.term \in TerminalStatuses /\ event.type = x.term
  PROVE  LET y == Commit(x, mode, event) IN
         /\ Sound(y)
         /\ \/ x.sinkFailure /\ Leaves(x, y, "error")
            \/ /\ ~x.sinkFailure
               /\ y = Saving(x, mode, event)
<1>1. CASE x.sinkFailure
  BY <1>1, ReturnedEffect DEF Commit, Results
<1>2. CASE ~x.sinkFailure
  <2> DEFINE y == [x EXCEPT !.pc = "savePending", !.mode = mode, !.ev = event]
  <2>1. y \in Executions
    BY DEF Fit, Executions, AllSteps, OwningSteps, Modes
  <2>2. /\ y.pc = "savePending" /\ y.sinkFailure = x.sinkFailure /\ y.mode = mode
        /\ y.result = "none" /\ y.cursor = x.cursor /\ y.seq = x.seq /\ y.busy = x.busy
        /\ y.done = x.done /\ y.term = x.term /\ y.ev = event
    BY DEF Fit, Executions
  <2>3. Sound(y)
    BY <1>2, <2>1, <2>2 DEF Sound, Fit, Placed, ModesAt, CommitModes
  <2> QED BY <1>2, <2>3 DEF Commit, Saving
<1> QED BY <1>1, <1>2

LEMMA StampType ==
  ASSUME NEW p \in Invocations, NEW x \in Executions,
         NEW type \in ObservedTypes \cup CommittedTypes
  PROVE  /\ Stamp(p, x, type) \in Events /\ Stamp(p, x, type) # NoEvent
         /\ Stamp(p, x, type).seq = x.seq + 1 /\ Stamp(p, x, type).type = type
         /\ Stamp(p, x, type).by = p
BY DEF Stamp, Events, NoEvent, Executions, Callers

LEMMA CommitTerminalEffect ==
  ASSUME NEW p \in Invocations, NEW x \in Executions, Fit(x), x.result = "none", x.mode # "terminal",
         NEW status \in TerminalStatuses
  PROVE  LET y == CommitTerminal(p, x, status) IN
         /\ Sound(y)
         /\ (x.sinkFailure /\ Leaves(x, y, "error")) \/ Ends(p, x, y)
<1> DEFINE z == [x EXCEPT !.term = status]
<1>1. z \in Executions
  BY DEF Fit, Executions, Terms
<1>2. /\ z.term = status /\ z.sinkFailure = x.sinkFailure /\ z.mode = x.mode
      /\ z.result = "none" /\ z.pc = x.pc /\ z.busy = x.busy /\ SameWork(x, z)
      /\ z.ckpt = x.ckpt /\ z.cause = x.cause /\ z.leaseDown = x.leaseDown
  BY DEF Fit, Executions, SameWork
<1>3. Fit(z)
  BY <1>1, <1>2 DEF Fit, SameWork
<1> DEFINE e == Stamp(p, x, status)
           y == CommitTerminal(p, x, status)
<1>4. e \in Events /\ e # NoEvent /\ e.type = status
  BY StampType DEF Fit, CommittedTypes
<1>5. y = Commit(z, "terminal", e)
  BY DEF CommitTerminal
<1> HIDE DEF y
<1>6. /\ Sound(y)
      /\ \/ z.sinkFailure /\ Leaves(z, y, "error")
         \/ /\ ~z.sinkFailure
            /\ y = Saving(z, "terminal", e)
  <2> HIDE DEF z, e
  <2>1. /\ "terminal" \in CommitModes /\ z.result = "none"
        /\ z.term \in TerminalStatuses /\ e.type = z.term
    BY <1>2, <1>4 DEF CommitModes
  <2>2. /\ Sound(Commit(z, "terminal", e))
        /\ \/ z.sinkFailure /\ Leaves(z, Commit(z, "terminal", e), "error")
           \/ /\ ~z.sinkFailure
              /\ Commit(z, "terminal", e) = Saving(z, "terminal", e)
    BY <2>1, <1>1, <1>3, <1>4, CommitEffect, Zenon
  <2> QED BY <2>2, <1>5
<1>7. CASE Leaves(z, y, "error") /\ z.sinkFailure
  BY <1>2, <1>6, <1>7 DEF Leaves, y
<1>8. CASE /\ ~z.sinkFailure
           /\ y = Saving(z, "terminal", e)
  <2> HIDE DEF z, e
  <2>1. /\ y.pc = "savePending" /\ y.mode = "terminal" /\ y.ev = e /\ SameWork(z, y)
        /\ y.term = status /\ y.cause = z.cause /\ y.leaseDown = z.leaseDown
    BY <1>1, <1>2, <1>8 DEF Executions, SameWork, Saving
  <2> QED BY <1>2, <1>6, <1>8, <2>1 DEF Ends, SameWork, e, y
<1> QED BY <1>6, <1>7, <1>8 DEF y

(* Canceled *)
LEMMA CanceledEffect ==
  ASSUME NEW x \in Executions, Fit(x), NEW why \in {"sink", "lease", "canceled", "terminated"}
  PROVE  LET y == Canceled(x, why) IN
         /\ Fit(y)
         /\ y = [x EXCEPT !.cause = y.cause]
         /\ y.cause = IF x.cause = "none" THEN why ELSE x.cause
BY DEF Fit, Executions, Canceled

LEMMA CanceledLeaves ==
  ASSUME NEW x \in Executions, Fit(x), NEW why \in {"sink", "lease", "canceled", "terminated"},
         NEW y, NEW result, Leaves(Canceled(x, why), y, result)
  PROVE  Leaves(x, y, result)
<1> DEFINE z == Canceled(x, why)
<1>1. z.ckpt = x.ckpt /\ z.mode = x.mode /\ z.sinkFailure = x.sinkFailure /\ z.ints = x.ints
  BY DEF Canceled, Executions
<1> QED BY <1>1 DEF Leaves

(* HandleError *)
Handled == {"step", "observe", "nodeFailed", "interrupt"}

LEMMA HandleErrorEffect ==
  ASSUME NEW p \in Invocations, NEW x \in Executions, Fit(x), x.result = "none",
         x.mode # "terminal", NEW kind \in {"leaseLost", "plain", "error", "interrupted"}
  PROVE  LET y == HandleError(p, x, kind) IN
         /\ Sound(y)
         /\ \/ Leaves(x, y, "error")
            \/ kind = "interrupted" /\ Leaves(x, y, "interrupted")
            \/ /\ Ends(p, x, y)
               /\ kind = "plain" \/ x.cause # "none"
               /\ kind # "leaseLost" /\ ~LeaseCause(x)
<1> DEFINE y == HandleError(p, x, kind)
<1>1. CASE kind = "leaseLost"
  <2> DEFINE z == Canceled(x, "lease")
  <2>1. y = Returned(z, "error")
    BY <1>1 DEF HandleError
  <2>2. z \in Executions /\ Fit(z) /\ z.result = "none"
    <3>1. Fit(z)
      BY CanceledEffect
    <3> QED BY <3>1 DEF Fit, Executions, Canceled
  <2>3. Sound(Returned(z, "error")) /\ Leaves(z, Returned(z, "error"), "error")
    BY <2>2, ReturnedEffect DEF Results
  <2>4. Leaves(x, Returned(z, "error"), "error")
    BY <2>3, CanceledLeaves
  <2> QED BY <2>1, <2>3, <2>4
<1>2. CASE kind # "leaseLost" /\ LeaseCause(x)
  <2>1. y = Returned(x, "error")
    BY <1>2 DEF HandleError
  <2> QED BY <2>1, ReturnedEffect DEF Results
<1>3. CASE kind # "leaseLost" /\ ~LeaseCause(x) /\ (x.cause # "none" \/ kind = "plain")
  <2>1. PICK status \in TerminalStatuses : y = CommitTerminal(p, x, status)
    BY <1>3 DEF HandleError, TerminalStatuses
  <2>2. Sound(y) /\ ((x.sinkFailure /\ Leaves(x, y, "error")) \/ Ends(p, x, y))
    <3> HIDE DEF y
    <3> QED BY <2>1, CommitTerminalEffect
  <2> QED BY <1>3, <2>2
<1>4. CASE kind \in {"error", "interrupted"} /\ ~LeaseCause(x) /\ x.cause = "none"
  <2>1. y = Returned(x, kind)
    BY <1>4 DEF HandleError
  <2>2. Sound(Returned(x, kind)) /\ Leaves(x, Returned(x, kind), kind)
    BY <1>4, ReturnedEffect DEF Results
  <2> QED BY <1>4, <2>1, <2>2
<1> QED BY <1>1, <1>2, <1>3, <1>4

(* Raise *)
LEMMA RaiseEffect ==
  ASSUME NEW p \in Invocations, NEW x \in Executions, Fit(x), x.result = "none", NEW kind
  PROVE  LET y == Raise(p, x, kind) IN
         /\ Sound(y)
         /\ \/ Leaves(x, y, "error")
            \/ /\ Ends(p, x, y)
               /\ x.mode \in Handled /\ x.cause # "none"
               /\ kind # "leaseLost" /\ ~LeaseCause(x)
<1> DEFINE y == Raise(p, x, kind)
<1>1. CASE x.mode \in Handled /\ kind = "leaseLost"
  <2>1. y = HandleError(p, x, "leaseLost")
    BY <1>1 DEF Raise, Handled
  <2> QED BY <1>1, <2>1, HandleErrorEffect DEF Handled
<1>2. CASE x.mode \in Handled /\ kind # "leaseLost"
  <2>1. y = HandleError(p, x, "error")
    BY <1>2 DEF Raise, Handled
  <2> QED BY <1>2, <2>1, HandleErrorEffect DEF Handled
<1>3. CASE x.mode \notin Handled
  <2>1. y = Returned(x, "error")
    BY <1>3 DEF Raise, Handled
  <2> QED BY <2>1, ReturnedEffect DEF Results
<1> QED BY <1>1, <1>2, <1>3

(* An invocation whose sink failed only gives the lease up.                *)
LEMMA SinkFailedEffect ==
  ASSUME NEW p \in Invocations, NEW x \in Executions, Fit(x), x.result = "none"
  PROVE  LET y == SinkFailed(p, x) IN
         Sound(y) /\ Leaves(x, y, "error")
<1> DEFINE w == [x EXCEPT !.sinkFailure = TRUE]
           z == Canceled(w, "sink")
           y == Raise(p, z, "error")
<1>1. w \in Executions /\ Fit(w) /\ w.sinkFailure /\ w.ckpt = x.ckpt /\ w.mode = x.mode
      /\ w.result = "none"
  BY DEF Fit, Executions
<1>2. z \in Executions /\ Fit(z) /\ z.sinkFailure /\ z.ckpt = x.ckpt /\ z.mode = x.mode
      /\ z.result = "none"
  <2> HIDE DEF w
  <2>1. Fit(z)
    BY <1>1, CanceledEffect
  <2>2. z.sinkFailure /\ z.ckpt = x.ckpt /\ z.mode = x.mode /\ z.result = "none"
    BY <1>1 DEF Executions, Canceled
  <2> QED BY <2>1, <2>2 DEF Fit
<1>3. Sound(y) /\ (Leaves(z, y, "error") \/ Ends(p, z, y))
  <2> HIDE DEF z
  <2> QED BY <1>2, RaiseEffect
<1>4. ~Ends(p, z, y)
  BY <1>2 DEF Ends
<1>5. SinkFailed(p, x) = y
  BY DEF SinkFailed
<1> QED BY <1>2, <1>3, <1>4, <1>5 DEF Leaves

(* Emit *)
LEMMA EmitEffect ==
  ASSUME NEW p \in Invocations, NEW x \in Executions, Fit(x), x.result = "none",
         ~x.sinkFailure, NEW mode \in ObserveModes, NEW type \in ObservedTypes
  PROVE  LET y == Emit(p, x, mode, type) IN
         /\ Sound(y)
         /\ \/ LeaseCause(x) /\ Leaves(x, y, "error")
            \/ y = Appending(x, mode, Stamp(p, x, type))
<1>1. CASE LeaseCause(x)
  BY <1>1, ReturnedEffect DEF Emit, Results
<1>2. CASE ~LeaseCause(x)
  <2> DEFINE e == Stamp(p, x, type)
             y == [x EXCEPT !.pc = "append", !.mode = mode, !.ev = e]
  <2>1. e \in Events /\ e # NoEvent
    BY StampType
  <2> HIDE DEF e
  <2>2. y \in Executions
    BY <2>1 DEF Fit, Executions, AllSteps, OwningSteps, Modes
  <2>3. /\ y.pc = "append" /\ y.sinkFailure = FALSE /\ y.mode = mode
        /\ y.result = "none" /\ y.cursor = x.cursor /\ y.seq = x.seq /\ y.busy = x.busy
        /\ y.done = x.done /\ y.ev = e
    BY DEF Fit, Executions
  <2>4. Sound(y)
    BY <2>1, <2>2, <2>3 DEF Sound, Fit, Placed, ModesAt, ObserveModes
  <2> QED BY <1>2, <2>4 DEF Emit, e, Appending
<1> QED BY <1>1, <1>2

(* ContinueBatch *)
BatchModes == {"interrupt", "restoreInterrupt"}

LEMMA BatchEventType ==
  ASSUME NEW progress \in Progresses, NEW ints \in SUBSET InterruptIDs, NEW k \in Nat
  PROVE  /\ Cardinality(ints) \in Nat
         /\ BatchSize(ints) = Cardinality(ints) + 1
         /\ BatchEvent(progress, ints, k) \in Events
         /\ BatchEvent(progress, ints, k).type \in InterruptTypes
         /\ BatchEvent(progress, ints, k).seq = progress.first + k
         /\ BatchEvent(progress, ints, k) # NoEvent
<1>1. IsFiniteSet(ints)
  BY RunAssumption, FS_Subset
<1>2. Cardinality(ints) \in Nat
  BY <1>1, FS_CardinalityType
<1> QED BY <1>2 DEF BatchSize, BatchEvent, Progresses, Events, CommittedTypes,
                    InterruptTypes, NoEvent

LEMMA ContinueBatchEffect ==
  ASSUME NEW p \in Invocations, NEW x \in Executions, Fit(x), x.result = "none",
         ~x.sinkFailure, NEW mode \in BatchModes
  PROVE  LET y == ContinueBatch(p, x, mode)
             e == BatchEvent(x.progress, x.ints, x.progress.next)
         IN
         /\ Sound(y)
         /\ \/ /\ x.progress.next < BatchSize(x.ints)
               /\ y = Saving(x, mode, e)
            \/ Leaves(x, y, "error")
            \/ /\ ~(x.progress.next < BatchSize(x.ints))
               /\ y = Interrupting(x, mode)
<1> DEFINE e == BatchEvent(x.progress, x.ints, x.progress.next)
<1>1. CASE x.progress.next < BatchSize(x.ints)
  <2>1. e \in Events /\ e # NoEvent /\ mode \in CommitModes /\ mode # "terminal"
    BY BatchEventType DEF Executions, Progresses, BatchModes, CommitModes
  <2>2. ContinueBatch(p, x, mode) = Commit(x, mode, e)
    BY <1>1 DEF ContinueBatch
  <2> HIDE DEF e
  <2>3. /\ Sound(Commit(x, mode, e))
        /\ \/ x.sinkFailure /\ Leaves(x, Commit(x, mode, e), "error")
           \/ /\ ~x.sinkFailure
              /\ Commit(x, mode, e) = Saving(x, mode, e)
    BY <2>1, CommitEffect
  <2> QED BY <1>1, <2>2, <2>3 DEF e
<1>2. CASE ~(x.progress.next < BatchSize(x.ints)) /\ x.heartbeat = "failed"
  <2>1. ContinueBatch(p, x, mode) = Raise(p, x, "leaseLost")
    BY <1>2 DEF ContinueBatch
  <2> QED BY <2>1, RaiseEffect
<1>3. CASE ~(x.progress.next < BatchSize(x.ints)) /\ x.heartbeat # "failed"
  <2> DEFINE y == [x EXCEPT !.pc = "interrupt", !.mode = mode, !.heartbeat = "off"]
  <2>1. y = ContinueBatch(p, x, mode)
    BY <1>3 DEF ContinueBatch
  <2>2. y \in Executions
    BY ZenonT(60) DEF Executions, AllSteps, OwningSteps, Modes, BatchModes, CommitModes
  <2>3. /\ y.pc = "interrupt" /\ y.sinkFailure = FALSE /\ y.mode = mode
        /\ y.result = "none" /\ y.cursor = x.cursor /\ y.seq = x.seq /\ y.busy = x.busy
        /\ y.done = x.done
    BY DEF Executions
  <2>4. Sound(y)
    BY <2>2, <2>3 DEF Sound, Fit, Placed, ModesAt, BatchModes
  <2> QED BY <1>3, <2>1, <2>4 DEF Interrupting
<1> QED BY <1>1, <1>2, <1>3

(* Reconciled *)
LEMMA ReconciledEffect ==
  ASSUME NEW p \in Invocations, NEW x \in Executions, Fit(x), x.result = "none",
         ~x.sinkFailure
  PROVE  LET y == Reconciled(p, x) IN
         /\ Sound(y)
         /\ \/ x.progress # NoProgress /\ y = ContinueBatch(p, x, "restoreInterrupt")
            \/ x.progress = NoProgress /\ Leaves(x, y, "error")
            \/ /\ x.progress = NoProgress
               /\ y = Appending(x, "loaded", Stamp(p, x, "loaded"))
<1>1. CASE x.progress # NoProgress
  <2>1. Reconciled(p, x) = ContinueBatch(p, x, "restoreInterrupt")
    BY <1>1 DEF Reconciled
  <2>2. "restoreInterrupt" \in BatchModes
    BY DEF BatchModes
  <2>3. Sound(ContinueBatch(p, x, "restoreInterrupt"))
    BY <2>2, ContinueBatchEffect, Zenon
  <2> QED BY <1>1, <2>1, <2>3
<1>2. CASE x.progress = NoProgress
  <2>1. Reconciled(p, x) = Emit(p, x, "loaded", "loaded")
    BY <1>2 DEF Reconciled
  <2>2. "loaded" \in ObserveModes /\ "loaded" \in ObservedTypes
    BY DEF ObserveModes, ObservedTypes
  <2>3. LET y == Emit(p, x, "loaded", "loaded") IN
         /\ Sound(y)
         /\ \/ LeaseCause(x) /\ Leaves(x, y, "error")
            \/ y = Appending(x, "loaded", Stamp(p, x, "loaded"))
    BY <2>2, EmitEffect
  <2> QED BY <1>2, <2>1, <2>3
<1> QED BY <1>1, <1>2

(* BeforeFinish *)
LEMMA BeforeFinishEffect ==
  ASSUME NEW x \in Executions, Fit(x), x.result = "none", ~x.sinkFailure,
         x.mode \in {"terminal", "replay"}
  PROVE  LET y == BeforeFinish(x) IN
         /\ Sound(y)
         /\ \/ Leaves(x, y, "error")
            \/ y = Finishing(x)
<1>1. CASE x.heartbeat = "failed"
  BY <1>1, ReturnedEffect DEF BeforeFinish, Results
<1>2. CASE x.heartbeat # "failed"
  <2> DEFINE y == [x EXCEPT !.pc = "finish", !.heartbeat = "off"]
  <2>2. y \in Executions
    BY DEF Executions, AllSteps, OwningSteps
  <2>3. /\ y.pc = "finish" /\ y.sinkFailure = FALSE /\ y.mode = x.mode
        /\ y.result = "none" /\ y.cursor = x.cursor /\ y.seq = x.seq /\ y.busy = x.busy
        /\ y.done = x.done /\ y.term = x.term /\ y.ev = x.ev
    BY DEF Executions
  <2>4. Sound(y)
    BY <2>2, <2>3 DEF Sound, Fit, Placed, ModesAt
  <2> QED BY <1>2, <2>4 DEF BeforeFinish, Finishing
<1> QED BY <1>1, <1>2

LEMMA MovedSound ==
  ASSUME NEW x \in Executions, Fit(x), x.result = "none", ~x.sinkFailure,
         NEW pc \in {"create", "confirm", "work", "reconcile", "saveCursor", "append", "deliver"},
         x.mode \in ModesAt(pc), pc \in {"append", "deliver"} => x.ev # NoEvent
  PROVE  Sound(Moved(x, pc))
<1> DEFINE y == Moved(x, pc)
<1>1. y \in Executions
  BY DEF Moved, Executions, AllSteps, OwningSteps
<1>2. /\ y.pc = pc /\ y.sinkFailure = FALSE /\ y.mode = x.mode
      /\ y.result = "none" /\ y.cursor = x.cursor /\ y.seq = x.seq /\ y.busy = x.busy
      /\ y.done = x.done /\ y.term = x.term /\ y.ev = x.ev /\ y.ckpt = x.ckpt
  BY DEF Moved, Executions
<1> QED BY <1>1, <1>2 DEF Sound, Fit, Placed

LEMMA DeliveredFit ==
  ASSUME NEW x \in Executions, Fit(x)
  PROVE  LET y == Delivered(x) IN
         /\ y \in Executions /\ Fit(y) /\ y.cursor = x.seq /\ y.seq = x.seq
         /\ y.ckpt = x.ckpt /\ y.ints = x.ints /\ y.progress = x.progress /\ y.done = x.done
         /\ y.result = x.result /\ y.sinkFailure = x.sinkFailure /\ y.mode = x.mode
         /\ y.term = x.term /\ y.ev = x.ev
<1> DEFINE y == Delivered(x)
<1>1. y \in Executions
  BY DEF Delivered, Executions
<1>2. /\ y.cursor = x.seq /\ y.seq = x.seq /\ y.busy = x.busy
      /\ y.ckpt = x.ckpt /\ y.ints = x.ints /\ y.progress = x.progress /\ y.done = x.done
      /\ y.result = x.result /\ y.sinkFailure = x.sinkFailure /\ y.mode = x.mode
      /\ y.term = x.term /\ y.ev = x.ev
  BY DEF Delivered, Executions
<1> QED BY <1>1, <1>2 DEF Fit, Executions

LEMMA AdvancedFit ==
  ASSUME NEW x \in Executions, Fit(x)
  PROVE  LET y == Advanced(x) IN
         /\ y \in Executions /\ Fit(y) /\ y.cursor = x.cursor /\ y.seq = x.seq
         /\ y.ckpt = x.ckpt /\ y.ints = x.ints /\ y.done = x.done
         /\ y.progress = [x.progress EXCEPT !.next = @ + 1]
         /\ y.result = x.result /\ y.sinkFailure = x.sinkFailure /\ y.mode = x.mode
         /\ y.term = x.term /\ y.ev = x.ev
<1> DEFINE y == Advanced(x)
<1>1. [x.progress EXCEPT !.next = @ + 1] \in Progresses
  BY DEF Executions, Progresses
<1>2. y = [x EXCEPT !.progress = [x.progress EXCEPT !.next = @ + 1]]
  BY DEF Advanced, Executions
<1>3. y \in Executions
  BY <1>1, <1>2 DEF Executions
<1>4. /\ y.cursor = x.cursor /\ y.seq = x.seq /\ y.busy = x.busy
      /\ y.ckpt = x.ckpt /\ y.ints = x.ints /\ y.done = x.done
      /\ y.progress = [x.progress EXCEPT !.next = @ + 1]
      /\ y.result = x.result /\ y.sinkFailure = x.sinkFailure /\ y.mode = x.mode
      /\ y.term = x.term /\ y.ev = x.ev
  BY <1>2 DEF Executions
<1> QED BY <1>3, <1>4 DEF Fit

LEMMA ConfirmingIsMoved ==
  ASSUME NEW x \in Executions
  PROVE  Confirming(x) = Moved(Advanced(x), "confirm")
BY DEF Confirming, Moved, Advanced, Executions

(* The batch event replayed is the next one of the batch.                  *)
ReplaysBatch(x) ==
  /\ x.progress # NoProgress
  /\ x.progress.next < BatchSize(x.ints)
  /\ x.progress.first + x.progress.next = x.ev.seq

Replayed(x) == IF ReplaysBatch(x) THEN Advanced(Delivered(x)) ELSE Delivered(x)

(* Emitted *)
LEMMA EmittedForm ==
  ASSUME NEW p \in Invocations, NEW x \in Executions, Sound(x), x.pc = "deliver"
  PROVE  LET y == Delivered(x)
             w == Emitted(p, x)
         IN
         \/ x.mode = "hook" /\ w = Moved(y, "create")
         \/ x.mode = "observe" /\ w = Moved(y, "work")
         \/ x.mode = "nodeFailed" /\ w = HandleError(p, y, "plain")
         \/ x.mode = "loaded" /\ w = Commit(y, "start", Stamp(p, y, Start(y)))
         \/ x.mode \in {"start", "step"} /\ w = Moved(y, "confirm")
         \/ x.mode \in BatchModes /\ w = Confirming(y)
         \/ x.mode = "terminal" /\ w = BeforeFinish(y)
         \/ /\ x.mode = "replay"
            /\ w = IF x.term # "none" THEN BeforeFinish(Replayed(x))
                   ELSE Moved(Replayed(x), "confirm")
<1> DEFINE y == Delivered(x)
           w == Emitted(p, x)
<1>1. x.mode \in {"hook", "observe", "nodeFailed", "loaded", "start", "step", "interrupt",
                  "restoreInterrupt", "terminal", "replay"}
  BY DEF Sound, Placed, ModesAt, CommitModes, ObserveModes
<1>2. CASE x.mode = "hook"
  BY <1>2 DEF Emitted, Delivered, Moved
<1>3. CASE x.mode = "observe"
  BY <1>3 DEF Emitted, Delivered, Moved
<1>4. CASE x.mode = "nodeFailed"
  BY <1>4 DEF Emitted, Delivered
<1>5. CASE x.mode = "loaded"
  BY <1>5 DEF Emitted, Delivered
<1>6. CASE x.mode \in {"start", "step"}
  BY <1>6 DEF Emitted, Delivered, Moved
<1>7. CASE x.mode \in BatchModes
  BY <1>7 DEF Emitted, Delivered, Confirming, BatchModes
<1>8. CASE x.mode = "terminal"
  BY <1>8 DEF Emitted, Delivered
<1>9. CASE x.mode = "replay"
  BY <1>9 DEF Emitted, Delivered, Moved, Replayed, ReplaysBatch, Advanced
<1> QED BY <1>1, <1>2, <1>3, <1>4, <1>5, <1>6, <1>7, <1>8, <1>9 DEF BatchModes

LEMMA ReplayedFit ==
  ASSUME NEW x \in Executions, Fit(x)
  PROVE  LET y == Replayed(x) IN
         /\ y \in Executions /\ Fit(y) /\ y.cursor = x.seq /\ y.seq = x.seq
         /\ y.ckpt = x.ckpt /\ y.ints = x.ints /\ y.done = x.done
         /\ y.progress = IF ReplaysBatch(x) THEN [x.progress EXCEPT !.next = @ + 1]
                         ELSE x.progress
         /\ y.result = x.result /\ y.sinkFailure = x.sinkFailure /\ y.mode = x.mode
         /\ y.term = x.term /\ y.ev = x.ev
<1> DEFINE z == Delivered(x)
<1>1. /\ z \in Executions /\ Fit(z) /\ z.cursor = x.seq /\ z.seq = x.seq
      /\ z.ckpt = x.ckpt /\ z.ints = x.ints /\ z.progress = x.progress /\ z.done = x.done
      /\ z.result = x.result /\ z.sinkFailure = x.sinkFailure /\ z.mode = x.mode
      /\ z.term = x.term /\ z.ev = x.ev
  BY DeliveredFit
<1> HIDE DEF z
<1>2. CASE ReplaysBatch(x)
  <2>1. Replayed(x) = Advanced(z)
    BY <1>2 DEF Replayed, z
  <2>2. LET y == Advanced(z) IN
        /\ y \in Executions /\ Fit(y) /\ y.cursor = z.cursor /\ y.seq = z.seq
        /\ y.ckpt = z.ckpt /\ y.ints = z.ints /\ y.done = z.done
        /\ y.progress = [z.progress EXCEPT !.next = @ + 1]
        /\ y.result = z.result /\ y.sinkFailure = z.sinkFailure /\ y.mode = z.mode
        /\ y.term = z.term /\ y.ev = z.ev
    BY <1>1, AdvancedFit
  <2> QED BY <1>1, <1>2, <2>1, <2>2
<1>3. CASE ~ReplaysBatch(x)
  BY <1>1, <1>3 DEF Replayed, z
<1> QED BY <1>2, <1>3

LEMMA StartType == ASSUME NEW x PROVE Start(x) \in {"started", "resumed", "retryStarted"}
BY DEF Start

LEMMA EmittedEffect ==
  ASSUME NEW p \in Invocations, NEW x \in Executions, Sound(x), x.pc = "deliver"
  PROVE  LET y == Delivered(x)
             w == Emitted(p, x)
         IN
         /\ Sound(w)
         /\ \/ x.mode = "hook" /\ w = Moved(y, "create")
            \/ x.mode = "observe" /\ w = Moved(y, "work")
            \/ x.mode = "nodeFailed" /\ (Leaves(x, w, "error") \/ Ends(p, y, w))
            \/ x.mode = "loaded" /\ w = Saving(y, "start", Stamp(p, y, Start(y)))
            \/ x.mode \in {"start", "step"} /\ w = Moved(y, "confirm")
            \/ x.mode \in BatchModes /\ w = Confirming(y)
            \/ x.mode = "terminal" /\ (Leaves(x, w, "error") \/ w = Finishing(y))
            \/ /\ x.mode = "replay" /\ x.term # "none"
               /\ Leaves(x, w, "error") \/ w = Finishing(Replayed(x))
            \/ /\ x.mode = "replay" /\ x.term = "none"
               /\ w = Moved(Replayed(x), "confirm")
<1> DEFINE y == Delivered(x)
           w == Emitted(p, x)
<1>x. Fit(x) /\ x.result = "none" /\ ~x.sinkFailure
  BY DEF Sound, Placed
<1>y. /\ y \in Executions /\ Fit(y)
      /\ y.ckpt = x.ckpt /\ y.ints = x.ints /\ y.result = "none" /\ ~y.sinkFailure
      /\ y.mode = x.mode
  BY <1>x, DeliveredFit
<1>e. /\ Stamp(p, y, Start(y)) \in Events /\ Stamp(p, y, Start(y)) # NoEvent
  BY <1>y, StartType, StampType DEF CommittedTypes
<1> HIDE DEF y
<1>1. CASE x.mode = "hook" /\ w = Moved(y, "create")
  <2>1. y.mode \in ModesAt("create")
    BY <1>1, <1>y DEF ModesAt
  <2> QED BY <1>1, <1>y, <2>1, MovedSound DEF y
<1>2. CASE x.mode = "observe" /\ w = Moved(y, "work")
  <2>1. y.mode \in ModesAt("work")
    BY <1>2, <1>y DEF ModesAt
  <2> QED BY <1>2, <1>y, <2>1, MovedSound DEF y
<1>3. CASE x.mode = "nodeFailed" /\ w = HandleError(p, y, "plain")
  <2>1. Sound(w) /\ (Leaves(y, w, "error") \/ Ends(p, y, w))
    BY <1>3, <1>y, HandleErrorEffect
  <2>2. Leaves(y, w, "error") => Leaves(x, w, "error")
    BY <1>x, <1>y DEF Leaves
  <2> QED BY <1>3, <2>1, <2>2 DEF y
<1>4. CASE x.mode = "loaded" /\ w = Commit(y, "start", Stamp(p, y, Start(y)))
  <2> DEFINE e == Stamp(p, y, Start(y))
  <2>1. "start" \in CommitModes /\ e \in Events /\ e # NoEvent
    BY <1>e DEF CommitModes
  <2> HIDE DEF e
  <2>2. /\ Sound(Commit(y, "start", e))
        /\ \/ y.sinkFailure /\ Leaves(y, Commit(y, "start", e), "error")
           \/ ~y.sinkFailure /\ Commit(y, "start", e) = Saving(y, "start", e)
    BY <1>y, <2>1, CommitEffect, Zenon
  <2> QED BY <1>4, <1>y, <2>2 DEF y, e
<1>5. CASE x.mode \in {"start", "step"} /\ w = Moved(y, "confirm")
  <2>1. y.mode \in ModesAt("confirm")
    BY <1>5, <1>y DEF ModesAt, CommitModes
  <2> QED BY <1>5, <1>y, <2>1, MovedSound DEF y
<1>6. CASE x.mode \in BatchModes /\ w = Confirming(y)
  <2> DEFINE z == Advanced(y)
  <2>1. z \in Executions /\ Fit(z) /\ z.result = "none" /\ ~z.sinkFailure /\ z.mode = y.mode
    BY <1>y, AdvancedFit
  <2>2. z.mode \in ModesAt("confirm")
    BY <1>6, <1>y, <2>1 DEF ModesAt, CommitModes, BatchModes
  <2>3. w = Moved(z, "confirm")
    BY <1>6, <1>y, ConfirmingIsMoved
  <2>4. Sound(Moved(z, "confirm"))
    <3> HIDE DEF z
    <3> QED BY <2>1, <2>2, MovedSound
  <2> QED BY <1>6, <2>3, <2>4 DEF y
<1>7. CASE x.mode = "terminal" /\ w = BeforeFinish(y)
  <2>1. Sound(w) /\ (Leaves(y, w, "error") \/ w = Finishing(y))
    BY <1>7, <1>y, BeforeFinishEffect
  <2>2. Leaves(y, w, "error") => Leaves(x, w, "error")
    BY <1>x, <1>y DEF Leaves
  <2> QED BY <1>7, <2>1, <2>2 DEF y
<1>8. ASSUME x.mode = "replay"
      PROVE  LET z == Replayed(x) IN
             z \in Executions /\ Fit(z) /\ z.result = "none" /\ ~z.sinkFailure
             /\ z.mode = "replay" /\ z.ckpt = x.ckpt
  BY <1>8, <1>x, ReplayedFit
<1>9. CASE x.mode = "replay" /\ x.term # "none" /\ w = BeforeFinish(Replayed(x))
  <2> DEFINE z == Replayed(x)
  <2>1. z \in Executions /\ Fit(z) /\ z.result = "none" /\ ~z.sinkFailure
        /\ z.mode = "replay" /\ z.ckpt = x.ckpt
    BY <1>8, <1>9
  <2>2. w = BeforeFinish(z)
    BY <1>9
  <2> HIDE DEF z
  <2>3. Sound(w) /\ (Leaves(z, w, "error") \/ w = Finishing(z))
    BY <2>1, <2>2, BeforeFinishEffect
  <2>4. Leaves(z, w, "error") => Leaves(x, w, "error")
    BY <1>x, <2>1, <1>9 DEF Leaves
  <2> QED BY <1>9, <2>3, <2>4 DEF z
<1>10. CASE x.mode = "replay" /\ x.term = "none" /\ w = Moved(Replayed(x), "confirm")
  <2>1. "replay" \in ModesAt("confirm")
    BY DEF ModesAt
  <2>2. Sound(Moved(Replayed(x), "confirm"))
    BY <1>8, <1>10, <2>1, MovedSound, Zenon
  <2> QED BY <1>10, <2>2
<1> QED BY <1>1, <1>2, <1>3, <1>4, <1>5, <1>6, <1>7, <1>9, <1>10, EmittedForm DEF y, BatchModes

(* Confirmed *)
LEMMA ConfirmedEffect ==
  ASSUME NEW p \in Invocations, NEW x \in Executions, Fit(x), x.result = "none",
         ~x.sinkFailure, x.mode \in ModesAt("confirm")
  PROVE  LET w == Confirmed(p, x) IN
         /\ Sound(w)
         /\ \/ x.mode \in {"start", "step"} /\ w = Moved(x, "work")
            \/ x.mode = "replay" /\ w = Moved(x, "reconcile")
            \/ x.mode \in BatchModes /\ w = ContinueBatch(p, x, x.mode)
<1>1. x.mode \in {"start", "step", "replay"} \cup BatchModes
  BY DEF ModesAt, CommitModes, BatchModes
<1>2. CASE x.mode \in {"start", "step"}
  <2>1. Confirmed(p, x) = Moved(x, "work") /\ x.mode \in ModesAt("work")
    BY <1>2 DEF Confirmed, Moved, ModesAt
  <2> QED BY <1>2, <2>1, MovedSound
<1>3. CASE x.mode = "replay"
  <2>1. Confirmed(p, x) = Moved(x, "reconcile") /\ x.mode \in ModesAt("reconcile")
    BY <1>3 DEF Confirmed, Moved, ModesAt
  <2> QED BY <1>3, <2>1, MovedSound
<1>4. CASE x.mode \in BatchModes
  <2>1. Confirmed(p, x) = ContinueBatch(p, x, x.mode)
    BY <1>4 DEF Confirmed, BatchModes
  <2>2. Sound(ContinueBatch(p, x, x.mode))
    BY <1>4, ContinueBatchEffect, Zenon
  <2> QED BY <1>4, <2>1, <2>2
<1> QED BY <1>1, <1>2, <1>3, <1>4

(* Restored *)
LEMMA ResumedFit ==
  ASSUME NEW x \in Executions, x.result = "none", ~x.sinkFailure, x.mode = "none"
  PROVE  LET y == Resumed(x)
             b == x.ckpt.body IN
         /\ y \in Executions /\ Fit(y) /\ y.seq = b.cursor /\ y.cursor = b.cursor
         /\ y.ints = b.ints /\ y.progress = b.progress /\ y.done = b.done
         /\ y.ckpt = x.ckpt /\ y.result = "none" /\ ~y.sinkFailure /\ y.mode = "none"
         /\ y.term = x.term
<1> DEFINE y == Resumed(x)
           b == x.ckpt.body
<1>1. b \in Bodies
  BY DEF Executions, Records
<1>2. /\ b.cursor \in Nat /\ b.ints \in SUBSET InterruptIDs /\ b.progress \in Progresses
      /\ b.done \in 0..Work
  BY <1>1 DEF Bodies
<1>3. y \in Executions
  BY <1>2 DEF Resumed, Executions
<1>4. /\ y.seq = b.cursor /\ y.cursor = b.cursor
      /\ y.ints = b.ints /\ y.progress = b.progress /\ y.done = b.done
      /\ y.ckpt = x.ckpt /\ y.result = "none" /\ ~y.sinkFailure /\ y.mode = "none"
      /\ y.busy = FALSE /\ y.term = x.term
  BY DEF Resumed, Executions
<1>5. Fit(y)
  BY <1>2, <1>3, <1>4 DEF Fit
<1> QED BY <1>3, <1>4, <1>5

LEMMA RestoredEffect ==
  ASSUME NEW p \in Invocations, NEW x \in Executions, Fit(x), x.result = "none",
         ~x.sinkFailure, x.mode = "none"
  PROVE  LET w == Restored(p, x)
             b == x.ckpt.body IN
         /\ Sound(w)
         /\ \/ Leaves(x, w, "error")
            \/ /\ validInterruptProgress(x.ckpt) /\ b.pending = NoEvent
               /\ w = Moved(Resumed(x), "reconcile")
            \/ /\ validInterruptProgress(x.ckpt) /\ b.pending # NoEvent
               /\ b.pending.seq = b.cursor + 1
               /\ w = Replaying(Resumed(x))
<1> DEFINE y == Resumed(x)
           b == x.ckpt.body
           w == Restored(p, x)
<1>1. /\ y \in Executions /\ Fit(y) /\ y.seq = b.cursor /\ y.cursor = b.cursor
      /\ y.ckpt = x.ckpt /\ y.result = "none" /\ ~y.sinkFailure /\ y.mode = "none"
  BY ResumedFit
<1>2. CASE ~validInterruptProgress(x.ckpt)
  <2>1. w = Returned(x, "error")
    BY <1>2 DEF Restored
  <2> QED BY <2>1, ReturnedEffect DEF Results
<1>3. CASE validInterruptProgress(x.ckpt) /\ b.pending = NoEvent
  <2>1. w = Moved(y, "reconcile") /\ "none" \in ModesAt("reconcile")
    BY <1>3 DEF Restored, Moved, Resumed, ModesAt
  <2> HIDE DEF y
  <2>2. Sound(Moved(y, "reconcile"))
    BY <2>1, <1>1, MovedSound
  <2> QED BY <1>3, <2>1, <2>2 DEF y
<1>4. CASE validInterruptProgress(x.ckpt) /\ b.pending # NoEvent /\ b.pending.seq # b.cursor + 1
  <2>1. w = Returned(y, "error")
    BY <1>4 DEF Restored, Resumed
  <2> HIDE DEF y
  <2>2. Sound(Returned(y, "error")) /\ Leaves(y, Returned(y, "error"), "error")
    BY <1>1, ReturnedEffect DEF Results
  <2> QED BY <1>1, <2>1, <2>2 DEF Leaves
<1>5. CASE validInterruptProgress(x.ckpt) /\ b.pending # NoEvent /\ b.pending.seq = b.cursor + 1
  <2> DEFINE z == [y EXCEPT !.pc = "append", !.mode = "replay", !.ev = b.pending, !.term = b.term]
  <2>1. w = z
    BY <1>5 DEF Restored, Resumed
  <2>2. z = Replaying(y)
    BY <1>1 DEF Replaying
  <2> HIDE DEF y
  <2>3. b.pending \in Events /\ b.term \in Terms
    BY DEF Executions, Records, Bodies
  <2> HIDE DEF b
  <2>4. z \in Executions
    BY ZenonT(60), <1>1, <2>3 DEF Executions, AllSteps, OwningSteps, Modes
  <2>5. /\ z.pc = "append" /\ z.sinkFailure = FALSE /\ z.mode = "replay"
        /\ z.result = "none" /\ z.cursor = y.cursor /\ z.seq = y.seq /\ z.busy = y.busy
        /\ z.done = y.done /\ z.ev = b.pending
    BY <1>1 DEF Executions
  <2>6. Sound(z)
    BY <1>1, <1>5, <2>4, <2>5 DEF Sound, Fit, Placed, ModesAt
  <2> QED BY <1>5, <2>1, <2>2, <2>6 DEF y, b
<1> QED BY <1>2, <1>3, <1>4, <1>5

-----------------------------------------------------------------------------
(* The records executions write.                                           *)

SameBut(r, s) == r.id = s.id /\ r.version = s.version /\ r.claim = s.claim

(* What a Save of x writes into the payload.                               *)
Payload(x, body, pending, term) ==
  /\ body.cursor = x.cursor /\ body.pending = pending /\ body.term = term
  /\ body.ints = x.ints /\ body.progress = x.progress /\ body.done = x.done
  /\ body.resolved = x.ckpt.body.resolved

LEMMA RequestEffect ==
  ASSUME NEW x \in Executions, NEW pending \in Events, NEW term \in Terms
  PROVE  LET r == Request(x, pending, term) IN
         /\ r \in Records
         /\ r = [x.ckpt EXCEPT !.body = r.body]
         /\ Payload(x, r.body, pending, term)
<1> DEFINE B == [x.ckpt.body EXCEPT !.cursor = x.cursor, !.pending = pending, !.term = term,
                   !.ints = x.ints, !.progress = x.progress, !.done = x.done]
           r == [x.ckpt EXCEPT !.body = B]
<1>1. x.ckpt \in Records /\ x.ckpt.body \in Bodies
  BY DEF Executions, Records
<1>2. B \in Bodies
  BY <1>1 DEF Bodies, Executions
<1>3. Payload(x, B, pending, term)
  BY <1>1 DEF Payload, Bodies
<1>4. r = Request(x, pending, term)
  BY <1>1 DEF Request, Records, Bodies
<1> HIDE DEF B
<1>5. r \in Records /\ r.body = B
  BY <1>1, <1>2 DEF Records
<1> QED BY <1>3, <1>4, <1>5

LEMMA RunningEffect ==
  ASSUME NEW r \in Records
  PROVE  /\ Running(r) \in Records
         /\ Running(r) = [r EXCEPT !.status = "running", !.expires = 1]
         /\ Running(r).body = r.body /\ Running(r).owner = r.owner
         /\ Running(r).status = "running" /\ SameBut(Running(r), r)
BY DEF Running, Records, Statuses, SameBut

LEMMA EndingEffect ==
  ASSUME NEW r \in Records, NEW status \in Statuses
  PROVE  LET s == [r EXCEPT !.status = status, !.owner = NoOwner, !.expires = 0] IN
         /\ s \in Records
         /\ s.body = r.body /\ s.owner = NoOwner /\ s.status = status /\ SameBut(s, r)
BY DEF Records, Callers, SameBut

(* What the Store accepted.                                                *)
LEMMA WriteAccepted ==
  ASSUME NEW rec, NEW terminal, WriteOutcome(head, rec, terminal, 0) = "ok"
  PROVE  /\ Exists(head) /\ rec.claim = head.claim /\ rec.version = head.version
         /\ ~checkpointTerminal(head.status)
         /\ terminal = checkpointTerminal(rec.status)
         /\ rec.owner # NoOwner => rec.owner = head.owner
         /\ head.owner # NoOwner => Unexpired(head, 0)
BY DEF WriteOutcome

LEMMA StoreAccepted ==
  ASSUME NEW x, NEW rec, NEW terminal, NEW finalizing,
         StoreOutcome(x, rec, terminal, finalizing) = "ok"
  PROVE  /\ IF finalizing THEN ~x.leaseDown ELSE x.cause = "none"
         /\ WriteOutcome(head, rec, terminal, 0) = "ok"
BY DEF StoreOutcome

LEMMA WrittenEffect ==
  ASSUME NEW rec \in Records, head \in Records, Exists(head),
         rec.version = head.version
  PROVE  LET w == Written(head, rec, 0, 1)
             c == [rec EXCEPT !.version = @ + 1] IN
         /\ w \in Records /\ c \in Records /\ SameRecord(w, c)
         /\ w.version = head.version + 1 /\ c.version = head.version + 1
         /\ w.claim = rec.claim /\ c.claim = rec.claim
         /\ w.status = rec.status /\ w.owner = rec.owner /\ w.body = rec.body
         /\ c.status = rec.status /\ c.owner = rec.owner /\ c.body = rec.body
         /\ w.id = 0
<1> DEFINE e == IF rec.owner = NoOwner THEN 0 ELSE Later(head.expires, leaseExpiry(0, 1))
           c == [rec EXCEPT !.version = @ + 1]
           w == Written(head, rec, 0, 1)
<1>1. e \in {0, 1}
  BY DEF Later, leaseExpiry, Records
<1>2. w = [c EXCEPT !.expires = e]
  BY DEF Written
<1>3. c \in Records
  BY DEF Records
<1> HIDE DEF e
<1>4. w \in Records /\ w = [c EXCEPT !.expires = w.expires]
  BY <1>1, <1>2, <1>3 DEF Records
<1>5. /\ w.version = head.version + 1 /\ c.version = head.version + 1
      /\ w.claim = rec.claim /\ c.claim = rec.claim
      /\ w.status = rec.status /\ w.owner = rec.owner /\ w.body = rec.body
      /\ c.status = rec.status /\ c.owner = rec.owner /\ c.body = rec.body
      /\ w.id = 0
  BY <1>2 DEF Records
<1> QED BY <1>3, <1>4, <1>5 DEF SameRecord

LEMMA SavedFit ==
  ASSUME NEW x \in Executions, Fit(x), x.mode # "hook", NEW rec \in Records
  PROVE  LET y == Saved(x, rec) IN
         /\ y \in Executions /\ Fit(y) /\ y.ckpt = [rec EXCEPT !.version = @ + 1]
         /\ y = [x EXCEPT !.ckpt = y.ckpt]
         /\ y.seq = x.seq /\ y.cursor = x.cursor /\ y.ints = x.ints
         /\ y.progress = x.progress /\ y.done = x.done
         /\ y.result = x.result /\ y.sinkFailure = x.sinkFailure /\ y.mode = x.mode
         /\ y.term = x.term /\ y.ev = x.ev
<1> DEFINE c == [rec EXCEPT !.version = @ + 1]
           y == Saved(x, rec)
<1>1. c \in Records
  BY DEF Records
<1>2. y = [x EXCEPT !.ckpt = c]
  BY DEF Saved
<1> HIDE DEF c
<1>3. y \in Executions
  BY <1>1, <1>2 DEF Executions
<1>4. /\ y.ckpt = c /\ y.seq = x.seq /\ y.cursor = x.cursor /\ y.ints = x.ints
      /\ y.progress = x.progress /\ y.done = x.done /\ y.busy = x.busy
      /\ y.result = x.result /\ y.sinkFailure = x.sinkFailure /\ y.mode = x.mode
      /\ y.term = x.term /\ y.ev = x.ev
  BY <1>2 DEF Executions
<1>5. Fit(y)
  BY <1>3, <1>4 DEF Fit
<1> QED BY <1>2, <1>3, <1>4, <1>5 DEF c

-----------------------------------------------------------------------------
(* The actions: what becomes of the invocation that takes a step.          *)

Becomes(p, y) == ex' = [ex EXCEPT ![p] = y] /\ Sound(y)

(* x gives up: it has no result to account for.                            *)
Quits(x, y) ==
  /\ y.result \in {"none", "error"}
  /\ \/ /\ y.pc = "release" /\ x.pc \in OwningSteps /\ y.ckpt = x.ckpt
        /\ y.mode = "hook" <=> x.mode = "hook"
     \/ /\ y.pc \in {"end", "crashed"} /\ y.mode = "none"
        /\ y.ckpt = [Absent EXCEPT !.claim = y.ckpt.claim]
        /\ y.ckpt.claim \in {0, x.ckpt.claim}
        /\ x.pc \in OwningSteps => y.ckpt.claim = x.ckpt.claim

LEMMA LeavesQuits ==
  ASSUME NEW x \in Executions, NEW y, Leaves(x, y, "error"), x.pc \in OwningSteps
  PROVE  Quits(x, y)
<1>1. CASE y.pc = "release" /\ y.ckpt = x.ckpt /\ y.mode = x.mode /\ y.result = "none"
  BY <1>1 DEF Quits
<1>2. CASE y.pc = "end" /\ y.ckpt = [Absent EXCEPT !.claim = x.ckpt.claim]
           /\ y.mode = "none" /\ y.result = "error"
  <2>1. y.ckpt.claim = x.ckpt.claim
    BY <1>2 DEF Absent
  <2> QED BY <1>2, <2>1 DEF Quits
<1> QED BY <1>1, <1>2 DEF Leaves

LEMMA OverQuits ==
  ASSUME NEW x \in Executions, NEW pc \in {"end", "crashed"}, NEW result \in {"none", "error"}
  PROVE  Sound(Over(x, pc, result)) /\ Quits(x, Over(x, pc, result))
<1> DEFINE y == Over(x, pc, result)
<1>1. /\ Sound(y) /\ y.pc = pc /\ y.mode = "none" /\ y.result = result
      /\ y.ckpt = [Absent EXCEPT !.claim = x.ckpt.claim]
  BY OverEffect DEF Results
<1>2. y.ckpt.claim = x.ckpt.claim
  BY <1>1 DEF Absent
<1> QED BY <1>1, <1>2 DEF Quits

LEMMA RefusedQuits ==
  ASSUME NEW x \in Executions, x.pc \in {"idle", "create", "claim"}
  PROVE  Sound(Refused(x)) /\ Quits(x, Refused(x))
<1> DEFINE z == [x EXCEPT !.ckpt = Absent]
           y == Refused(x)
<1>1. z \in Executions /\ z.ckpt.claim = 0
  BY NewIsSound DEF Executions, Absent
<1>2. y = Over(z, "end", "error")
  BY DEF Refused
<1> HIDE DEF z
<1>3. /\ Sound(y) /\ y.pc = "end" /\ y.mode = "none" /\ y.result = "error"
      /\ y.ckpt = [Absent EXCEPT !.claim = z.ckpt.claim]
  BY <1>1, <1>2, OverEffect DEF Results
<1>4. y.ckpt.claim = 0
  BY <1>1, <1>3 DEF Absent
<1> QED BY <1>3, <1>4 DEF Quits, OwningSteps

NewRecord(p) == [Absent EXCEPT !.version = 1, !.owner = p, !.claim = 1, !.expires = 1]

LEMMA NewRecordType ==
  ASSUME NEW p \in Invocations
  PROVE  /\ NewRecord(p) \in Records
         /\ NewRecord(p).version = 1 /\ NewRecord(p).owner = p /\ NewRecord(p).claim = 1
         /\ NewRecord(p).status = "running" /\ NewRecord(p).body = EmptyBody
BY NewIsSound DEF NewRecord, Records, Callers, Absent

LEMMA CreateEffect ==
  ASSUME Local, NEW p \in Invocations, Create(p)
  PROVE  LET x == ex[p]
             z == [x EXCEPT !.ckpt = NewRecord(p), !.heartbeat = "on"] IN
         /\ x.pc = IF HookEvents THEN "create" ELSE "idle"
         /\ UNCHANGED <<journal, delivered, spent>>
         /\ \/ /\ head' = head
               /\ \E y : Becomes(p, y) /\ Quits(x, y)
            \/ /\ ~Exists(head) /\ head' = NewRecord(p)
               /\ Becomes(p, Saving(z, "start", Stamp(p, x, Start(x))))
<1> DEFINE x == ex[p]
           z == [x EXCEPT !.ckpt = NewRecord(p), !.heartbeat = "on"]
           e == Stamp(p, x, Start(x))
           y == Saving(z, "start", e)
<1>1. x.pc = IF HookEvents THEN "create" ELSE "idle"
  BY DEF Create, At
<1>x. x \in Executions /\ Fit(x) /\ x.result = "none" /\ ~x.sinkFailure
  BY <1>1 DEF Local, Sound, Placed
<1>2. CASE head' = head /\ ex' = [ex EXCEPT ![p] = Refused(x)]
  <2>1. Sound(Refused(x)) /\ Quits(x, Refused(x))
    BY <1>1, <1>x, RefusedQuits
  <2>2. Becomes(p, Refused(x))
    BY <1>2, <2>1 DEF Becomes
  <2> QED BY <1>1, <1>2, <2>1, <2>2 DEF Create
<1>3. CASE /\ CreateOutcome(head, NewRecord(p)) = "ok"
           /\ head' = Created(NewRecord(p), 0, 1)
           /\ ex' = [ex EXCEPT ![p] = Commit(z, "start", Stamp(p, z, Start(z)))]
  <2>1. ~Exists(head)
    BY <1>3 DEF CreateOutcome
  <2>2. head' = NewRecord(p)
    <3> DEFINE r == NewRecord(p)
    <3>1. r \in Records /\ r.expires = 1
      BY NewRecordType, NewIsSound DEF NewRecord, Records
    <3> HIDE DEF r
    <3>2. [r EXCEPT !.expires = 1] = r
      BY <3>1 DEF Records
    <3>3. head' = [r EXCEPT !.expires = 1]
      BY <1>3 DEF Created, leaseExpiry, r
    <3> QED BY <3>2, <3>3 DEF r
  <2>3. z \in Executions
    BY <1>x, NewRecordType DEF Executions
  <2>4. Stamp(p, z, Start(z)) = e
    BY <1>x DEF Stamp, Start, Executions
  <2>5. /\ z.sinkFailure = FALSE /\ z.result = "none" /\ z.cursor = x.cursor /\ z.seq = x.seq
        /\ z.busy = x.busy /\ z.done = x.done
    BY <1>x DEF Executions
  <2>6. ex' = [ex EXCEPT ![p] = y]
    BY <1>3, <2>4, <2>5 DEF Commit, Saving
  <2>7. e \in Events /\ e # NoEvent
    BY <1>x, StartType, StampType DEF CommittedTypes
  <2> HIDE DEF z, e
  <2>8. y \in Executions
    BY <2>3, <2>7 DEF Saving, Executions, AllSteps, OwningSteps, Modes, CommitModes
  <2>9. /\ y.pc = "savePending" /\ y.mode = "start" /\ y.ev = e
        /\ y.sinkFailure = FALSE /\ y.result = "none" /\ y.cursor = x.cursor /\ y.seq = x.seq
        /\ y.busy = x.busy /\ y.done = x.done
    BY <2>3, <2>5 DEF Saving, Executions
  <2>10. Sound(y)
    BY <1>x, <2>7, <2>8, <2>9 DEF Sound, Fit, Placed, ModesAt, CommitModes
  <2>11. Becomes(p, y)
    BY <2>6, <2>10 DEF Becomes
  <2> QED BY <1>1, <2>1, <2>2, <2>11 DEF Create, z, e
<1> QED BY <1>2, <1>3 DEF Create, NewRecord

LEMMA HookEffect ==
  ASSUME Local, NEW p \in Invocations, Hook(p)
  PROVE  LET x == ex[p] IN
         /\ x.pc = "idle" /\ HookEvents
         /\ UNCHANGED <<head, journal, delivered, spent>>
         /\ Becomes(p, Appending(x, "hook", Stamp(p, x, "hook")))
<1> DEFINE x == ex[p]
           e == Stamp(p, x, "hook")
           y == Appending(x, "hook", e)
<1>1. x.pc = "idle" /\ HookEvents
  BY DEF Hook, At
<1>2. x = NewExecution /\ Fit(x) /\ x \in Executions
  BY <1>1 DEF Local, Sound, Placed
<1>3. e \in Events /\ e # NoEvent
  BY <1>2, StampType DEF ObservedTypes
<1>4. ex' = [ex EXCEPT ![p] = y]
  BY <1>2 DEF Hook, Appending, Local, Executions
<1> HIDE DEF e
<1>5. y \in Executions
  BY <1>2, <1>3 DEF Appending, Executions, AllSteps, OwningSteps, Modes
<1>6. /\ y.pc = "append" /\ y.mode = "hook" /\ y.ev = e /\ y.ckpt = Absent
      /\ y.sinkFailure = FALSE /\ y.result = "none" /\ y.cursor = x.cursor /\ y.seq = x.seq
      /\ y.busy = x.busy /\ y.done = x.done
  BY <1>2 DEF Appending, Executions, NewExecution
<1>7. Sound(y)
  BY <1>1, <1>2, <1>3, <1>5, <1>6 DEF Sound, Fit, Placed, ModesAt
<1> QED BY <1>1, <1>4, <1>7 DEF Becomes, Hook, e

Loading(x) == [x EXCEPT !.pc = "claim", !.resume = TRUE, !.ckpt = head]

LEMMA LoadEffect ==
  ASSUME Local, head \in Records, NEW p \in Invocations, Load(p)
  PROVE  LET x == ex[p] IN
         /\ x.pc = "idle" /\ Exists(head)
         /\ UNCHANGED <<head, journal, delivered, spent>>
         /\ \E y : /\ Becomes(p, y)
                   /\ \/ Quits(x, y)
                      \/ y = Loading(x) /\ ~checkpointTerminal(head.status)
<1> DEFINE x == ex[p]
           y == Loading(x)
<1>1. x.pc = "idle" /\ Exists(head)
  BY DEF Load, At
<1>2. x = NewExecution /\ Fit(x) /\ x \in Executions
  BY <1>1 DEF Local, Sound, Placed
<1>3. CASE ex' = [ex EXCEPT ![p] = Refused(x)]
  <2>1. Sound(Refused(x)) /\ Quits(x, Refused(x))
    BY <1>1, <1>2, RefusedQuits
  <2> QED BY <1>1, <1>3, <2>1 DEF Load, Becomes
<1>4. CASE ~checkpointTerminal(head.status) /\ ex' = [ex EXCEPT ![p] = y]
  <2>1. y \in Executions
    BY <1>2 DEF Loading, Executions, AllSteps
  <2>2. /\ y.pc = "claim" /\ y.mode = "none" /\ y.ckpt = head
        /\ y.sinkFailure = FALSE /\ y.result = "none" /\ y.cursor = 0 /\ y.seq = 0
        /\ y.busy = FALSE /\ y.ints = {} /\ y.progress = NoProgress /\ y.term = "none"
    BY <1>2 DEF Loading, Executions, NewExecution
  <2>3. Sound(y)
    BY <1>1, <2>1, <2>2 DEF Sound, Fit, Placed, ModesAt, Exists
  <2> QED BY <1>1, <1>4, <2>3 DEF Load, Becomes
<1> QED BY <1>3, <1>4 DEF Load, Loading, Local

(* The record a claim asks for.                                            *)
Candidate(p, old, res) ==
  [old EXCEPT !.status = "running", !.owner = p, !.claim = @ + 1, !.expires = 1,
              !.body.ints = IF old.status = "interrupted" THEN {} ELSE @,
              !.body.resolved = IF old.status = "interrupted" THEN res ELSE @]

ClaimedBody(old, res) ==
  [old.body EXCEPT
     !.ints = IF old.status = "interrupted" THEN {} ELSE old.body.ints,
     !.resolved = IF old.status = "interrupted" THEN res ELSE old.body.resolved]

LEMMA CandidateType ==
  ASSUME NEW p \in Invocations, NEW old \in Records, NEW res \in Resolutions
  PROVE  LET r == Candidate(p, old, res) IN
         /\ r \in Records /\ r.version = old.version /\ r.claim = old.claim + 1
         /\ r.owner = p /\ r.status = "running" /\ r.expires = 1
         /\ r.body = ClaimedBody(old, res)
         /\ r.body \in Bodies
<1> DEFINE B == [old.body EXCEPT
              !.ints = IF old.status = "interrupted" THEN {} ELSE old.body.ints,
              !.resolved = IF old.status = "interrupted" THEN res ELSE old.body.resolved]
           r == [old EXCEPT !.status = "running", !.owner = p, !.claim = old.claim + 1,
                            !.expires = 1, !.body = B]
<1>1. old.body \in Bodies
  BY DEF Records
<1>2. B \in Bodies
  BY <1>1 DEF Bodies
<1>3. r = Candidate(p, old, res)
  BY <1>1 DEF Candidate, Records, Bodies
<1> HIDE DEF B
<1>4. /\ r.version = old.version /\ r.claim = old.claim + 1
      /\ r.owner = p /\ r.status = "running" /\ r.expires = 1 /\ r.body = B
  BY DEF Records
<1>5. r \in Records
  <2> DEFINE k == old.claim + 1
             s == "running"
  <2>1. s \in Statuses /\ p \in Callers /\ k \in Nat
    BY DEF Statuses, Callers, Records
  <2>2. r = [old EXCEPT !.status = s, !.owner = p, !.claim = k, !.expires = 1, !.body = B]
    OBVIOUS
  <2> HIDE DEF k, s, r
  <2> QED BY <1>2, <2>1, <2>2 DEF Records
<1> QED BY <1>2, <1>3, <1>4, <1>5 DEF B, ClaimedBody

Claiming(x, rec) == [x EXCEPT !.heartbeat = "on", !.ckpt = [rec EXCEPT !.version = @ + 1]]

LEMMA ClaimEffect ==
  ASSUME Local, head \in Records, NEW p \in Invocations, NEW res \in Resolutions, Claim(p, res)
  PROVE  LET x == ex[p]
             rec == Candidate(p, x.ckpt, res)
             z == Claiming(x, rec) IN
         /\ x.pc = "claim"
         /\ UNCHANGED <<journal, delivered, spent>>
         /\ \/ /\ head' = head
               /\ \E y : Becomes(p, y) /\ Quits(x, y)
            \/ /\ ResolutionsAccepted(x.ckpt, res) /\ Exists(head)
               /\ ClaimOutcome(head, rec, 0) = "ok"
               /\ head' = [rec EXCEPT !.version = @ + 1]
               /\ z \in Executions /\ Fit(z) /\ z.result = "none" /\ ~z.sinkFailure
               /\ z.mode = "none" /\ z.ckpt = head' /\ z.term = "none"
               /\ Becomes(p, Restored(p, z))
<1> DEFINE x == ex[p]
           rec == Candidate(p, x.ckpt, res)
           z == Claiming(x, rec)
<1>1. x.pc = "claim"
  BY DEF Claim, At
<1>2. /\ x \in Executions /\ Fit(x) /\ x.result = "none" /\ ~x.sinkFailure /\ x.mode = "none"
      /\ x.ckpt \in Records /\ x.term = "none"
  <2>1. Sound(x)
    BY DEF Local
  <2> QED BY <1>1, <2>1 DEF Sound, Placed, ModesAt, Fit, Executions
<1>3. CASE head' = head /\ ex' = [ex EXCEPT ![p] = Refused(x)]
  <2>1. Sound(Refused(x)) /\ Quits(x, Refused(x))
    BY <1>1, <1>2, RefusedQuits
  <2> QED BY <1>1, <1>3, <2>1 DEF Claim, Becomes
<1>4. CASE /\ ResolutionsAccepted(x.ckpt, res) /\ ClaimOutcome(head, rec, 0) = "ok"
           /\ head' = Claimed(rec, 0, 1)
           /\ ex' = [ex EXCEPT ![p] = Restored(p, z)]
  <2>1. rec \in Records /\ rec.expires = 1
    BY <1>2, CandidateType
  <2>2. Exists(head)
    BY <1>4 DEF ClaimOutcome
  <2> HIDE DEF rec
  <2> DEFINE c == [rec EXCEPT !.version = @ + 1]
  <2>3. c \in Records
    BY <2>1 DEF Records
  <2>4. head' = c
    <3>1. c.expires = 1
      BY <2>1 DEF Records
    <3>2. head' = [c EXCEPT !.expires = 1]
      BY <1>4 DEF Claimed, leaseExpiry
    <3> HIDE DEF c
    <3> QED BY <2>3, <3>1, <3>2 DEF Records
  <2>5. z = [x EXCEPT !.heartbeat = "on", !.ckpt = c]
    BY DEF Claiming
  <2> HIDE DEF c, z
  <2>6. /\ z \in Executions /\ z.result = "none" /\ ~z.sinkFailure /\ z.mode = "none"
        /\ z.ckpt = c /\ z.cursor = x.cursor /\ z.seq = x.seq /\ z.busy = x.busy
        /\ z.done = x.done /\ z.term = "none"
    BY <1>2, <2>3, <2>5 DEF Executions
  <2>7. Fit(z)
    BY <1>2, <2>6 DEF Fit
  <2>8. Sound(Restored(p, z))
    BY <2>6, <2>7, RestoredEffect
  <2>9. Becomes(p, Restored(p, z))
    BY <1>4, <2>8 DEF Becomes, Local
  <2> QED BY <1>1, <1>4, <2>2, <2>4, <2>6, <2>7, <2>9 DEF Claim, rec, c, z
<1> QED BY <1>3, <1>4 DEF Claim, Candidate, Claiming

-----------------------------------------------------------------------------
(* The actions of an invocation that owns, or once owned, the run.         *)

(* The Store accepted rec.                                                 *)
Wrote(rec) ==
  /\ rec \in Records /\ Exists(head)
  /\ rec.claim = head.claim /\ rec.version = head.version
  /\ ~checkpointTerminal(head.status)
  /\ rec.owner # NoOwner => rec.owner = head.owner
  /\ head.owner # NoOwner => Unexpired(head, 0)
  /\ head' = Written(head, rec, 0, 1)

(* A step of x failed: x gives up, or commits the end of the run.          *)
Fails(p, x, y) ==
  \/ Quits(x, y)
  \/ Ends(p, x, y) /\ x.mode \in Handled /\ x.cause # "none" /\ ~LeaseCause(x)

Ready(x) ==
  x \in Executions /\ Fit(x) /\ x.result = "none" /\ ~x.sinkFailure /\ x.mode \in ModesAt(x.pc)

LEMMA OwnersAreReady ==
  ASSUME Local, NEW p \in Invocations, ex[p].pc \notin {"release", "end", "crashed"}
  PROVE  Ready(ex[p]) /\ Sound(ex[p])
BY DEF Local, Sound, Placed, Fit, Ready

LEMMA RaiseFails ==
  ASSUME NEW p \in Invocations, NEW x \in Executions, Ready(x), x.pc \in OwningSteps, NEW kind
  PROVE  Sound(Raise(p, x, kind)) /\ Fails(p, x, Raise(p, x, kind))
BY RaiseEffect, LeavesQuits DEF Ready, Fails

LEMMA SaveEffect ==
  ASSUME Local, NEW p \in Invocations, Ready(ex[p]), ex[p].pc \in OwningSteps,
         NEW rec \in Records, NEW finalizing \in BOOLEAN, NEW next,
         Save(p, ex[p], rec, finalizing, next)
  PROVE  \/ /\ head' = head
            /\ \E y : Becomes(p, y) /\ Fails(p, ex[p], y)
         \/ /\ Wrote(rec) /\ ex' = [ex EXCEPT ![p] = next]
            /\ IF finalizing THEN ~ex[p].leaseDown ELSE ex[p].cause = "none"
<1> DEFINE x == ex[p]
           outcome == StoreOutcome(x, rec, FALSE, finalizing)
<1>1. CASE outcome = "ok"
  <2>1. head' = Written(head, rec, 0, 1) /\ ex' = [ex EXCEPT ![p] = next]
    BY <1>1 DEF Save
  <2>2. WriteOutcome(head, rec, FALSE, 0) = "ok"
        /\ IF finalizing THEN ~x.leaseDown ELSE x.cause = "none"
    BY <1>1, StoreAccepted
  <2> QED BY <2>1, <2>2, WriteAccepted DEF Wrote
<1>2. CASE outcome # "ok"
  <2>1. head' = head /\ ex' = [ex EXCEPT ![p] = Raise(p, x, outcome)]
    BY <1>2 DEF Save
  <2> HIDE DEF outcome
  <2>2. Sound(Raise(p, x, outcome)) /\ Fails(p, x, Raise(p, x, outcome))
    BY RaiseFails DEF Ready
  <2> QED BY <2>1, <2>2 DEF Becomes
<1> QED BY <1>1, <1>2

(* The record that keeps the run running.                                  *)
Keeping(x, pending, term) == Running(Request(x, pending, term))

LEMMA KeepingEffect ==
  ASSUME NEW x \in Executions, NEW pending \in Events, NEW term \in Terms
  PROVE  LET r == Keeping(x, pending, term) IN
         /\ r \in Records /\ SameBut(r, x.ckpt) /\ r.owner = x.ckpt.owner
         /\ r.status = "running" /\ Payload(x, r.body, pending, term)
<1> DEFINE q == Request(x, pending, term)
<1>1. q \in Records /\ q = [x.ckpt EXCEPT !.body = q.body] /\ Payload(x, q.body, pending, term)
  BY RequestEffect
<1>2. SameBut(q, x.ckpt) /\ q.owner = x.ckpt.owner
  BY <1>1 DEF SameBut, Executions, Records
<1> HIDE DEF q
<1>3. /\ Running(q) \in Records
      /\ Running(q).body = q.body /\ Running(q).owner = q.owner
      /\ Running(q).status = "running" /\ SameBut(Running(q), q)
  BY <1>1, RunningEffect, Zenon
<1> QED BY <1>1, <1>2, <1>3 DEF Keeping, q, SameBut

PendingTerm(x) == IF x.mode = "terminal" THEN x.term ELSE "none"

LEMMA SavePendingEffect ==
  ASSUME Local, NEW p \in Invocations, SavePending(p)
  PROVE  LET x == ex[p]
             rec == Keeping(x, x.ev, PendingTerm(x)) IN
         /\ x.pc = "savePending" /\ Ready(x)
         /\ UNCHANGED <<journal, delivered, spent>>
         /\ \/ /\ head' = head
               /\ \E y : Becomes(p, y) /\ Fails(p, x, y)
            \/ /\ Wrote(rec) /\ Becomes(p, Moved(Saved(x, rec), "append"))
               /\ IF Finalizing(x) THEN ~x.leaseDown ELSE x.cause = "none"
<1> DEFINE x == ex[p]
           rec == Keeping(x, x.ev, PendingTerm(x))
<1>1. x.pc = "savePending"
  BY DEF SavePending, At
<1>2. Ready(x) /\ Sound(x)
  BY <1>1, OwnersAreReady
<1>3. x.mode \in CommitModes /\ x.mode # "hook" /\ x.ev # NoEvent
  BY <1>1, <1>2 DEF Ready, Sound, Placed, ModesAt, CommitModes
<1>4. x \in Executions /\ x.ev \in Events /\ PendingTerm(x) \in Terms
  BY <1>2 DEF Ready, Executions, PendingTerm, Terms
<1>5. rec \in Records
  BY <1>4, KeepingEffect
<1>6. Save(p, x, rec, Finalizing(x), Moved(Saved(x, rec), "append"))
  BY DEF SavePending, Keeping, PendingTerm, Moved
<1>7. Finalizing(x) \in BOOLEAN
  BY DEF Finalizing
<1> HIDE DEF rec
<1>8. Sound(Moved(Saved(x, rec), "append"))
  <2> DEFINE y == Saved(x, rec)
  <2>1. /\ y \in Executions /\ Fit(y) /\ y.result = x.result
        /\ y.sinkFailure = x.sinkFailure /\ y.mode = x.mode /\ y.ev = x.ev
    BY <1>2, <1>3, <1>5, SavedFit DEF Ready
  <2>2. y.mode \in ModesAt("append") /\ y.result = "none" /\ ~y.sinkFailure /\ y.ev # NoEvent
    BY <1>2, <1>3, <2>1 DEF ModesAt, Ready
  <2> HIDE DEF y
  <2> QED BY <2>1, <2>2, MovedSound DEF y
<1> DEFINE next == Moved(Saved(x, rec), "append")
<1>9. UNCHANGED <<journal, delivered, spent>>
  BY DEF SavePending
<1>10. Save(p, x, rec, Finalizing(x), next)
  BY <1>6
<1> HIDE DEF next
<1>11. \/ /\ head' = head
          /\ \E y : Becomes(p, y) /\ Fails(p, x, y)
       \/ /\ Wrote(rec) /\ ex' = [ex EXCEPT ![p] = next]
          /\ IF Finalizing(x) THEN ~x.leaseDown ELSE x.cause = "none"
  BY <1>1, <1>2, <1>5, <1>7, <1>10, SaveEffect DEF OwningSteps
<1> QED BY <1>1, <1>2, <1>8, <1>9, <1>11 DEF next, Becomes, rec

Counted(x) == [x EXCEPT !.seq = @ + 1]

LEMMA CountedFit ==
  ASSUME NEW x \in Executions, Fit(x)
  PROVE  LET y == Counted(x) IN
         /\ y \in Executions /\ Fit(y) /\ y.seq = x.seq + 1 /\ y.cursor = x.cursor
         /\ y.ckpt = x.ckpt /\ y.ints = x.ints /\ y.progress = x.progress /\ y.done = x.done
         /\ y.result = x.result /\ y.sinkFailure = x.sinkFailure /\ y.mode = x.mode
         /\ y.term = x.term /\ y.ev = x.ev /\ y.pc = x.pc /\ y.cause = x.cause
<1> DEFINE y == Counted(x)
<1>1. y \in Executions
  BY DEF Counted, Executions
<1>2. /\ y.cursor = x.cursor /\ y.seq = x.seq + 1 /\ y.busy = x.busy
      /\ y.ckpt = x.ckpt /\ y.ints = x.ints /\ y.progress = x.progress /\ y.done = x.done
      /\ y.result = x.result /\ y.sinkFailure = x.sinkFailure /\ y.mode = x.mode
      /\ y.term = x.term /\ y.ev = x.ev /\ y.pc = x.pc /\ y.cause = x.cause
  BY DEF Counted, Executions
<1>3. x.cursor <= x.seq + 1
  BY DEF Fit, Executions
<1> QED BY <1>1, <1>2, <1>3 DEF Fit

Fenced(x) ==
  x.mode # "hook" => FenceOutcome(head, x.ckpt.owner, x.ckpt.claim, 0) = "ok"

LEMMA AppendEffect ==
  ASSUME Local, NEW p \in Invocations, AppendEvent(p)
  PROVE  LET x == ex[p] IN
         /\ x.pc = "append" /\ Ready(x)
         /\ UNCHANGED <<head, delivered, spent>>
         /\ \/ /\ journal' = journal
               /\ \E y : Becomes(p, y) /\ Quits(x, y)
            \/ /\ Fenced(x) /\ Accepts(x.ev) /\ journal' = Journaled(x.ev)
               /\ Becomes(p, Moved(Counted(x), "deliver"))
<1> DEFINE x == ex[p]
           z == Counted(x)
<1>1. x.pc = "append"
  BY DEF AppendEvent, At
<1>2. Ready(x) /\ Sound(x)
  BY <1>1, OwnersAreReady
<1>3. x.mode \in ModesAt("append") /\ x.mode \in ModesAt("deliver") /\ x.ev # NoEvent
  BY <1>1, <1>2 DEF Ready, Sound, Placed, ModesAt
<1>4. z \in Executions /\ Fit(z) /\ z.result = "none" /\ ~z.sinkFailure /\ z.mode = x.mode
      /\ z.ev = x.ev /\ z.ckpt = x.ckpt /\ z.pc = x.pc
  BY <1>2, CountedFit DEF Ready
<1> DEFINE fence == IF x.mode = "hook" THEN "ok"
                    ELSE FenceOutcome(head, x.ckpt.owner, x.ckpt.claim, 0)
<1>5. CASE fence = "ok" /\ Accepts(x.ev)
  <2>1. journal' = Journaled(x.ev) /\ ex' = [ex EXCEPT ![p] = Moved(z, "deliver")]
    BY <1>4, <1>5 DEF AppendEvent, Counted, Moved
  <2>2. Sound(Moved(z, "deliver"))
    <3> HIDE DEF z
    <3> QED BY <1>3, <1>4, MovedSound
  <2>3. Fenced(x)
    BY <1>5 DEF Fenced
  <2> QED BY <1>1, <1>2, <1>5, <2>1, <2>2, <2>3 DEF AppendEvent, Becomes
<1>6. CASE ~(fence = "ok" /\ Accepts(x.ev))
  <2> DEFINE lost == Canceled(z, "lease")
             y == IF fence = "leaseLost" THEN Raise(p, lost, "leaseLost")
                  ELSE SinkFailed(p, z)
  <2>1. journal' = journal /\ ex' = [ex EXCEPT ![p] = y]
    BY <1>4, <1>6 DEF AppendEvent, Counted
  <2>2. Sound(y) /\ Leaves(z, y, "error")
    <3>1. lost \in Executions /\ Fit(lost) /\ lost.result = "none"
      <4> HIDE DEF z
      <4>1. Fit(lost)
        BY <1>4, CanceledEffect
      <4> QED BY <1>4, <4>1 DEF Fit, Canceled, Executions
    <3> HIDE DEF lost, z
    <3>2. Sound(Raise(p, lost, "leaseLost")) /\ Leaves(lost, Raise(p, lost, "leaseLost"), "error")
      BY <3>1, RaiseEffect
    <3>3. Leaves(z, Raise(p, lost, "leaseLost"), "error")
      BY <1>4, <3>2, CanceledLeaves DEF lost
    <3>4. Sound(SinkFailed(p, z)) /\ Leaves(z, SinkFailed(p, z), "error")
      BY <1>4, SinkFailedEffect
    <3> QED BY <3>2, <3>3, <3>4
  <2>3. Quits(z, y)
    <3> HIDE DEF z, y
    <3> QED BY <1>1, <1>4, <2>2, LeavesQuits DEF OwningSteps
  <2>4. Quits(x, y)
    <3> HIDE DEF z, y
    <3> QED BY <1>4, <2>3 DEF Quits
  <2> QED BY <1>1, <1>2, <2>1, <2>2, <2>4 DEF AppendEvent, Becomes
<1> QED BY <1>5, <1>6

LEMMA DeliverEffect ==
  ASSUME Local, NEW p \in Invocations, Deliver(p)
  PROVE  LET x == ex[p] IN
         /\ x.pc = "deliver" /\ Ready(x) /\ Sound(x)
         /\ UNCHANGED <<head, journal, spent>>
         /\ delivered' = delivered \cup {x.ev}
         /\ Becomes(p, Emitted(p, x))
<1> DEFINE x == ex[p]
<1>1. x.pc = "deliver"
  BY DEF Deliver, At
<1>2. Ready(x) /\ Sound(x)
  BY <1>1, OwnersAreReady
<1>3. Sound(Emitted(p, x))
  BY <1>1, <1>2, EmittedEffect DEF Ready
<1> QED BY <1>1, <1>2, <1>3 DEF Deliver, Becomes, Local

LEMMA NoEventType == NoEvent \in Events /\ "none" \in Terms
BY NewIsSound DEF Terms

LEMMA ConfirmEffect ==
  ASSUME Local, NEW p \in Invocations, Confirm(p)
  PROVE  LET x == ex[p]
             rec == Keeping(x, NoEvent, "none") IN
         /\ x.pc = "confirm" /\ Ready(x)
         /\ UNCHANGED <<journal, delivered, spent>>
         /\ \/ /\ head' = head
               /\ \E y : Becomes(p, y) /\ Fails(p, x, y)
            \/ /\ Wrote(rec) /\ Becomes(p, Confirmed(p, Saved(x, rec)))
               /\ IF Finalizing(x) THEN ~x.leaseDown ELSE x.cause = "none"
<1> DEFINE x == ex[p]
           rec == Keeping(x, NoEvent, "none")
           next == Confirmed(p, Saved(x, rec))
<1>1. x.pc = "confirm"
  BY DEF Confirm, At
<1>2. Ready(x)
  BY <1>1, OwnersAreReady
<1>3. x.mode \in ModesAt("confirm") /\ x.mode # "hook"
  BY <1>1, <1>2 DEF Ready, ModesAt, CommitModes
<1>4. rec \in Records
  BY <1>2, NoEventType, KeepingEffect DEF Ready
<1>5. Save(p, x, rec, Finalizing(x), next)
  BY DEF Confirm, Keeping
<1>6. Finalizing(x) \in BOOLEAN
  BY DEF Finalizing
<1>7. UNCHANGED <<journal, delivered, spent>>
  BY DEF Confirm
<1>8. Sound(next)
  <2> DEFINE y == Saved(x, rec)
  <2> HIDE DEF rec
  <2>1. /\ y \in Executions /\ Fit(y) /\ y.result = x.result
        /\ y.sinkFailure = x.sinkFailure /\ y.mode = x.mode
    BY <1>2, <1>3, <1>4, SavedFit DEF Ready
  <2> HIDE DEF y
  <2> QED BY <1>2, <1>3, <2>1, ConfirmedEffect DEF Ready, y
<1> HIDE DEF next, rec
<1>9. \/ /\ head' = head
         /\ \E y : Becomes(p, y) /\ Fails(p, x, y)
      \/ /\ Wrote(rec) /\ ex' = [ex EXCEPT ![p] = next]
         /\ IF Finalizing(x) THEN ~x.leaseDown ELSE x.cause = "none"
  BY <1>1, <1>2, <1>4, <1>5, <1>6, SaveEffect DEF OwningSteps
<1> QED BY <1>1, <1>2, <1>7, <1>8, <1>9 DEF next, Becomes, rec

Suspended(x) == [x EXCEPT !.progress = NoProgress]
Closing(x, status) ==
  [Request(x, NoEvent, "none") EXCEPT !.status = status, !.owner = NoOwner, !.expires = 0]

LEMMA ClosingEffect ==
  ASSUME NEW x \in Executions, NEW status \in Statuses
  PROVE  LET r == Closing(x, status) IN
         /\ r \in Records /\ SameBut(r, x.ckpt) /\ r.owner = NoOwner /\ r.status = status
         /\ Payload(x, r.body, NoEvent, "none")
<1> DEFINE q == Request(x, NoEvent, "none")
<1>1. q \in Records /\ q = [x.ckpt EXCEPT !.body = q.body] /\ Payload(x, q.body, NoEvent, "none")
  BY NoEventType, RequestEffect
<1>2. SameBut(q, x.ckpt)
  BY <1>1 DEF SameBut, Executions, Records
<1> HIDE DEF q
<1> DEFINE s == [q EXCEPT !.status = status, !.owner = NoOwner, !.expires = 0]
<1>3. /\ s \in Records
      /\ s.body = q.body /\ s.owner = NoOwner /\ s.status = status /\ SameBut(s, q)
  BY <1>1, EndingEffect
<1>4. s = Closing(x, status)
  BY DEF Closing, q
<1> QED BY <1>1, <1>2, <1>3, <1>4 DEF SameBut

LEMMA SuspendedFit ==
  ASSUME NEW x \in Executions, Fit(x)
  PROVE  LET y == Suspended(x) IN
         /\ y \in Executions /\ Fit(y) /\ y.seq = x.seq /\ y.cursor = x.cursor
         /\ y.ckpt = x.ckpt /\ y.ints = x.ints /\ y.progress = NoProgress /\ y.done = x.done
         /\ y.result = x.result /\ y.sinkFailure = x.sinkFailure /\ y.mode = x.mode
         /\ y.pc = x.pc /\ y.cause = x.cause
<1> DEFINE y == Suspended(x)
<1>1. y \in Executions
  BY NewIsSound DEF Suspended, Executions
<1>2. /\ y.cursor = x.cursor /\ y.seq = x.seq /\ y.busy = x.busy
      /\ y.ckpt = x.ckpt /\ y.ints = x.ints /\ y.progress = NoProgress /\ y.done = x.done
      /\ y.result = x.result /\ y.sinkFailure = x.sinkFailure /\ y.mode = x.mode
      /\ y.term = x.term /\ y.ev = x.ev /\ y.pc = x.pc /\ y.cause = x.cause
  BY DEF Suspended, Executions
<1> QED BY <1>1, <1>2 DEF Fit

LEMMA InterruptEffect ==
  ASSUME Local, NEW p \in Invocations, InterruptCheckpoint(p)
  PROVE  LET x == ex[p]
             rec == Closing(Suspended(x), "interrupted")
             z == Saved(Suspended(x), rec) IN
         /\ x.pc = "interrupt" /\ Ready(x)
         /\ UNCHANGED <<journal, delivered, spent>>
         /\ \/ /\ head' = head
               /\ \E y : Becomes(p, y) /\ Fails(p, x, y)
            \/ /\ Wrote(rec) /\ ~x.leaseDown
               /\ \E y : /\ Becomes(p, y)
                         /\ \/ Leaves(z, y, "interrupted") /\ y.pc = "end"
                            \/ Ends(p, z, y) /\ x.cause # "none"
<1> DEFINE x == ex[p]
           s == Suspended(x)
           rec == Closing(s, "interrupted")
           z == Saved(s, rec)
           next == IF x.mode = "interrupt" THEN HandleError(p, z, "interrupted")
                   ELSE Returned(z, "interrupted")
<1>1. x.pc = "interrupt"
  BY DEF InterruptCheckpoint, At
<1>2. Ready(x)
  BY <1>1, OwnersAreReady
<1>3. x.mode \in BatchModes
  BY <1>1, <1>2 DEF Ready, ModesAt, BatchModes
<1>4. /\ s \in Executions /\ Fit(s) /\ s.result = "none" /\ ~s.sinkFailure
      /\ s.mode = x.mode /\ s.cause = x.cause
  BY <1>2, SuspendedFit DEF Ready
<1>5. rec \in Records /\ rec.owner = NoOwner
  <2> HIDE DEF s
  <2> QED BY <1>4, ClosingEffect DEF Statuses
<1>6. Save(p, x, rec, TRUE, next)
  BY DEF InterruptCheckpoint, Closing, Suspended
<1>7. UNCHANGED <<journal, delivered, spent>>
  BY DEF InterruptCheckpoint
<1>8. /\ Sound(next)
      /\ \/ Leaves(z, next, "interrupted") /\ next.pc = "end"
         \/ Ends(p, z, next) /\ x.cause # "none"
  <2> HIDE DEF s, rec
  <2>1. /\ z \in Executions /\ Fit(z) /\ z.result = "none" /\ ~z.sinkFailure
        /\ z.mode = x.mode /\ z.ckpt = [rec EXCEPT !.version = @ + 1]
    BY <1>3, <1>4, <1>5, SavedFit DEF BatchModes
  <2>2. z.ckpt.owner = NoOwner
    BY <1>5, <2>1 DEF Records
  <2>3. z.cause = x.cause
    BY <1>4 DEF Saved, Executions
  <2> HIDE DEF z
  <2>4. CASE x.mode # "interrupt"
    <3>1. /\ Sound(Returned(z, "interrupted"))
          /\ Leaves(z, Returned(z, "interrupted"), "interrupted")
          /\ Returned(z, "interrupted").pc = "end"
      BY <2>1, ReturnedEffect, ReturnedEnds DEF Results
    <3> QED BY <2>4, <3>1
  <2>5. CASE x.mode = "interrupt" /\ x.cause # "none"
    <3> DEFINE status == IF z.cause = "terminated" THEN "terminated" ELSE "canceled"
    <3>1. next = CommitTerminal(p, z, status)
      BY <2>2, <2>3, <2>5 DEF HandleError, LeaseCause
    <3>2. status \in TerminalStatuses
      BY DEF TerminalStatuses
    <3> HIDE DEF status
    <3>3. Sound(CommitTerminal(p, z, status))
          /\ ((z.sinkFailure /\ Leaves(z, CommitTerminal(p, z, status), "error"))
               \/ Ends(p, z, CommitTerminal(p, z, status)))
      BY <2>1, <2>5, <3>2, CommitTerminalEffect
    <3> QED BY <2>1, <2>5, <3>1, <3>3
  <2>6. CASE x.mode = "interrupt" /\ x.cause = "none"
    <3>1. next = Returned(z, "interrupted")
      BY <2>3, <2>6 DEF HandleError, LeaseCause
    <3>2. /\ Sound(Returned(z, "interrupted"))
          /\ Leaves(z, Returned(z, "interrupted"), "interrupted")
          /\ Returned(z, "interrupted").pc = "end"
      BY <2>1, ReturnedEffect, ReturnedEnds DEF Results
    <3> QED BY <3>1, <3>2
  <2> QED BY <2>4, <2>5, <2>6
<1> HIDE DEF next, rec, z
<1>9. \/ /\ head' = head
         /\ \E y : Becomes(p, y) /\ Fails(p, x, y)
      \/ /\ Wrote(rec) /\ ex' = [ex EXCEPT ![p] = next]
         /\ ~x.leaseDown
  BY <1>1, <1>2, <1>5, <1>6, SaveEffect DEF OwningSteps
<1>10. ASSUME Wrote(rec), ex' = [ex EXCEPT ![p] = next], ~x.leaseDown
       PROVE  /\ Wrote(rec) /\ ~x.leaseDown
              /\ \E y : /\ Becomes(p, y)
                        /\ \/ Leaves(z, y, "interrupted") /\ y.pc = "end"
                           \/ Ends(p, z, y) /\ x.cause # "none"
  BY <1>8, <1>10 DEF Becomes
<1> QED BY <1>1, <1>2, <1>7, <1>9, <1>10 DEF rec, z

LEMMA FinishEffect ==
  ASSUME Local, NEW p \in Invocations, FinishCheckpoint(p)
  PROVE  LET x == ex[p]
             rec == Closing(x, x.term) IN
         /\ x.pc = "finish" /\ Ready(x)
         /\ UNCHANGED <<journal, delivered, spent>>
         /\ \/ /\ head' = head
               /\ \E y : Becomes(p, y) /\ Quits(x, y)
            \/ /\ Wrote(rec) /\ x.term \in TerminalStatuses
               /\ \E y : /\ Becomes(p, y) /\ y.pc = "end"
                         /\ Leaves(x, y, x.term) \/ Leaves(x, y, "error")
<1> DEFINE x == ex[p]
           rec == Closing(x, x.term)
           result == IF x.mode = "terminal" \/ x.term = "completed" THEN x.term ELSE "error"
<1>1. x.pc = "finish"
  BY DEF FinishCheckpoint, At
<1>2. Ready(x)
  BY <1>1, OwnersAreReady
<1>3. UNCHANGED <<journal, delivered, spent>>
  BY DEF FinishCheckpoint
<1>4. CASE head' = head /\ ex' = [ex EXCEPT ![p] = Returned(x, "error")]
  <2>1. Sound(Returned(x, "error")) /\ Leaves(x, Returned(x, "error"), "error")
    BY <1>2, ReturnedEffect DEF Results, Ready
  <2>2. Quits(x, Returned(x, "error"))
    BY <1>1, <1>2, <2>1, LeavesQuits DEF Ready, OwningSteps
  <2> QED BY <1>1, <1>2, <1>3, <1>4, <2>1, <2>2 DEF Becomes
<1>5. CASE /\ StoreOutcome(x, rec, TRUE, TRUE) = "ok"
           /\ head' = Written(head, rec, 0, 1)
           /\ ex' = [ex EXCEPT ![p] = Returned(x, result)]
  <2>1. WriteOutcome(head, rec, TRUE, 0) = "ok"
    BY <1>5, StoreAccepted
  <2>2. rec.status = x.term
    <3> DEFINE q == Request(x, NoEvent, "none")
    <3>1. q \in Records
      BY <1>2, NoEventType, RequestEffect DEF Ready
    <3>2. rec = [q EXCEPT !.status = x.term, !.owner = NoOwner, !.expires = 0]
      BY DEF Closing
    <3> HIDE DEF q, rec
    <3> QED BY <3>1, <3>2 DEF Records
  <2> HIDE DEF rec
  <2>3. x.term \in TerminalStatuses
    BY <2>1, <2>2, WriteAccepted DEF checkpointTerminal
  <2>4. rec \in Records
    BY <1>2, <2>3, ClosingEffect DEF rec, Ready, Statuses
  <2>5. Wrote(rec)
    BY <1>5, <2>1, <2>4, WriteAccepted DEF Wrote
  <2>6. result \in Results \ {"none"} /\ result \in {x.term, "error"}
    BY <2>3 DEF Results, TerminalStatuses
  <2> HIDE DEF result
  <2>7. Sound(Returned(x, result)) /\ Leaves(x, Returned(x, result), result)
    BY <1>2, <2>6, ReturnedEffect DEF Ready
  <2>8. Returned(x, result).pc = "end"
    <3>1. Returned(x, result) = Over(x, "end", result)
      BY <1>2 DEF Returned, Ready
    <3>2. Over(x, "end", result).pc = "end"
      BY ZenonT(60), <1>2, <2>6, OverEffect DEF Ready
    <3> QED BY <3>1, <3>2
  <2> QED BY <1>1, <1>2, <1>3, <1>5, <2>3, <2>5, <2>6, <2>7, <2>8 DEF Becomes, rec
<1> QED BY <1>4, <1>5 DEF FinishCheckpoint, Closing

(* k records of the page are redelivered.                                  *)
Advancing(x, k, n) ==
  [x EXCEPT !.seq = x.cursor + k, !.cursor = x.cursor + k, !.mode = "replay",
            !.more = (n = PageSize)]

LEMMA AdvancingFit ==
  ASSUME NEW x \in Executions, Fit(x), NEW k \in Nat, NEW n
  PROVE  LET y == Advancing(x, k, n) IN
         /\ y \in Executions /\ Fit(y) /\ y.seq = x.cursor + k /\ y.cursor = x.cursor + k
         /\ y.ckpt = x.ckpt /\ y.ints = x.ints /\ y.progress = x.progress /\ y.done = x.done
         /\ y.result = x.result /\ y.sinkFailure = x.sinkFailure /\ y.mode = "replay"
         /\ y.pc = x.pc /\ y.more = (n = PageSize)
<1> DEFINE m == (n = PageSize)
           c == x.cursor + k
           y == Advancing(x, k, n)
<1>1. m \in BOOLEAN /\ c \in Nat
  BY DEF Executions
<1>2. y = [x EXCEPT !.seq = c, !.cursor = c, !.mode = "replay", !.more = m]
  BY DEF Advancing
<1> HIDE DEF m, c, y
<1>3. y \in Executions
  BY <1>1, <1>2 DEF Executions, Modes
<1>4. /\ y.seq = c /\ y.cursor = c /\ y.busy = x.busy /\ y.more = m
      /\ y.ckpt = x.ckpt /\ y.ints = x.ints /\ y.progress = x.progress /\ y.done = x.done
      /\ y.result = x.result /\ y.sinkFailure = x.sinkFailure /\ y.mode = "replay"
      /\ y.pc = x.pc
  BY <1>2 DEF Executions
<1>5. Fit(y)
  BY <1>1, <1>3, <1>4 DEF Fit
<1> QED BY <1>3, <1>4, <1>5 DEF m, c, y

LEMMA RedeliverEffect ==
  ASSUME Local, NEW p \in Invocations, NEW k \in 0..PageSize, Redeliver(p, k)
  PROVE  LET x == ex[p]
             n == Cardinality(Page(x)) IN
         /\ x.pc = "reconcile" /\ Ready(x)
         /\ UNCHANGED <<head, journal>>
         /\ \/ /\ delivered' = delivered
               /\ \E y : Becomes(p, y) /\ Quits(x, y)
            \/ /\ Page(x) = x.cursor + 1 .. x.cursor + n /\ k \in 0..n
               /\ delivered' = delivered \cup {journal[x.cursor + i] : i \in 1..k}
               /\ \/ \E y : Becomes(p, y) /\ Quits(x, y)
                  \/ n = 0 /\ k = 0 /\ Becomes(p, Reconciled(p, x))
                  \/ n # 0 /\ k = n /\ Becomes(p, Moved(Advancing(x, k, n), "saveCursor"))
<1> DEFINE x == ex[p]
           n == Cardinality(Page(x))
           y == Advancing(x, k, n)
<1>1. x.pc = "reconcile"
  BY DEF Redeliver, At
<1>2. Ready(x)
  BY <1>1, OwnersAreReady
<1>k. k \in Nat
  BY RunAssumption
<1>3. UNCHANGED <<head, journal>>
  BY DEF Redeliver
<1>y. /\ y \in Executions /\ Fit(y) /\ y.result = "none" /\ ~y.sinkFailure
      /\ y.mode = "replay" /\ y.pc = x.pc /\ y.ckpt = x.ckpt
  <2> HIDE DEF n
  <2> QED BY <1>2, <1>k, AdvancingFit DEF Ready
<1>4. CASE delivered' = delivered /\ ex' = [ex EXCEPT ![p] = Returned(x, "error")]
  <2>1. Sound(Returned(x, "error")) /\ Leaves(x, Returned(x, "error"), "error")
    BY <1>2, ReturnedEffect DEF Results, Ready
  <2>2. Quits(x, Returned(x, "error"))
    BY <1>1, <1>2, <2>1, LeavesQuits DEF Ready, OwningSteps
  <2> QED BY <1>1, <1>2, <1>3, <1>4, <2>1, <2>2 DEF Becomes
<1>5. CASE /\ Page(x) = x.cursor + 1 .. x.cursor + n /\ k \in 0..n
           /\ delivered' = delivered \cup {journal[x.cursor + i] : i \in 1..k}
           /\ k = n /\ n = 0 /\ ex' = [ex EXCEPT ![p] = Reconciled(p, x)]
  <2>1. Sound(Reconciled(p, x))
    BY <1>2, ReconciledEffect DEF Ready
  <2> QED BY <1>1, <1>2, <1>3, <1>5, <2>1 DEF Becomes
<1>6. CASE /\ Page(x) = x.cursor + 1 .. x.cursor + n /\ k \in 0..n
           /\ delivered' = delivered \cup {journal[x.cursor + i] : i \in 1..k}
           /\ k = n /\ n # 0 /\ ex' = [ex EXCEPT ![p] = Moved(y, "saveCursor")]
  <2>1. "replay" \in ModesAt("saveCursor")
    BY DEF ModesAt
  <2>2. Sound(Moved(y, "saveCursor"))
    <3> HIDE DEF y
    <3> QED BY <1>y, <2>1, MovedSound
  <2> QED BY <1>1, <1>2, <1>3, <1>6, <2>2 DEF Becomes
<1>7. CASE /\ Page(x) = x.cursor + 1 .. x.cursor + n /\ k \in 0..n
           /\ delivered' = delivered \cup {journal[x.cursor + i] : i \in 1..k}
           /\ k # n /\ ex' = [ex EXCEPT ![p] = SinkFailed(p, y)]
  <2> DEFINE w == SinkFailed(p, y)
  <2>1. Sound(w) /\ Leaves(y, w, "error")
    <3> HIDE DEF y
    <3> QED BY <1>y, SinkFailedEffect
  <2>3. Becomes(p, w)
    BY <1>7, <2>1 DEF Becomes
  <2> HIDE DEF w
  <2>2. Quits(x, w)
    <3>2. ~y.sinkFailure /\ ~x.sinkFailure
      BY <1>y, <1>2 DEF Ready
    <3>1. Quits(y, w)
      <4> HIDE DEF y
      <4> QED BY <1>1, <1>y, <2>1, LeavesQuits DEF OwningSteps
    <3> HIDE DEF y
    <3>3. CASE w.pc = "release"
      <4>1. Ready(x) /\ x.mode # "hook"
        BY <1>1, <1>2 DEF Ready, ModesAt
      <4> QED BY <1>1, <1>y, <3>1, <3>3, <4>1 DEF Quits
    <3>4. CASE w.pc # "release"
      BY <1>1, <1>y, <3>1, <3>4 DEF Quits
    <3> QED BY <3>3, <3>4
  <2> QED BY <1>1, <1>2, <1>3, <1>7, <2>2, <2>3
<1> QED BY <1>4, <1>5, <1>6, <1>7 DEF Redeliver, Advancing, Moved

LEMMA SaveCursorEffect ==
  ASSUME Local, NEW p \in Invocations, SaveCursor(p)
  PROVE  LET x == ex[p]
             rec == Keeping(x, NoEvent, "none")
             z == Saved(x, rec) IN
         /\ x.pc = "saveCursor" /\ Ready(x)
         /\ UNCHANGED <<journal, delivered, spent>>
         /\ \/ /\ head' = head
               /\ \E y : Becomes(p, y) /\ Fails(p, x, y)
            \/ /\ Wrote(rec)
               /\ Becomes(p, IF x.more THEN Moved(z, "reconcile") ELSE Reconciled(p, z))
<1> DEFINE x == ex[p]
           rec == Keeping(x, NoEvent, "none")
           z == Saved(x, rec)
           next == IF x.more THEN Moved(z, "reconcile") ELSE Reconciled(p, z)
<1>1. x.pc = "saveCursor"
  BY DEF SaveCursor, At
<1>2. Ready(x)
  BY <1>1, OwnersAreReady
<1>3. x.mode = "replay"
  BY <1>1, <1>2 DEF Ready, ModesAt
<1>4. rec \in Records
  BY <1>2, NoEventType, KeepingEffect DEF Ready
<1>5. Save(p, x, rec, FALSE, next)
  BY DEF SaveCursor, Keeping, Moved
<1>7. UNCHANGED <<journal, delivered, spent>>
  BY DEF SaveCursor
<1>8. Sound(next)
  <2> HIDE DEF rec
  <2>1. /\ z \in Executions /\ Fit(z) /\ z.result = "none"
        /\ ~z.sinkFailure /\ z.mode = "replay"
    BY ZenonT(60), <1>2, <1>3, <1>4, SavedFit DEF Ready
  <2> HIDE DEF z
  <2>2. z.mode \in ModesAt("reconcile")
    BY <2>1 DEF ModesAt
  <2>3. Sound(Moved(z, "reconcile"))
    BY <2>1, <2>2, MovedSound
  <2>4. Sound(Reconciled(p, z))
    BY <2>1, ReconciledEffect
  <2> QED BY <2>3, <2>4
<1> HIDE DEF next, rec
<1>9. \/ /\ head' = head
         /\ \E y : Becomes(p, y) /\ Fails(p, x, y)
      \/ Wrote(rec) /\ ex' = [ex EXCEPT ![p] = next]
  BY <1>1, <1>2, <1>4, <1>5, SaveEffect DEF OwningSteps
<1> QED BY <1>1, <1>2, <1>7, <1>8, <1>9 DEF next, Becomes, rec

Released(c) == [c EXCEPT !.owner = NoOwner, !.expires = 0]

LEMMA ReleaseEffect ==
  ASSUME Local, NEW p \in Invocations, ReleaseLease(p)
  PROVE  LET x == ex[p]
             rec == Released(x.ckpt) IN
         /\ x.pc = "release" /\ x \in Executions /\ Sound(x)
         /\ UNCHANGED <<journal, delivered, spent>>
         /\ Becomes(p, Over(x, "end", "error")) /\ Quits(x, Over(x, "end", "error"))
         /\ \/ head' = head
            \/ /\ Wrote(rec) /\ x.ckpt.version > 0
               /\ rec.body = x.ckpt.body /\ rec.status = x.ckpt.status
               /\ rec.owner = NoOwner /\ SameBut(rec, x.ckpt)
<1> DEFINE x == ex[p]
           rec == Released(x.ckpt)
<1>1. x.pc = "release" /\ x \in Executions /\ Sound(x)
  BY DEF ReleaseLease, At, Local, Sound, Fit
<1>2. Becomes(p, Over(x, "end", "error")) /\ Quits(x, Over(x, "end", "error"))
  BY <1>1, OverQuits DEF ReleaseLease, Becomes
<1>3. CASE head' = head
  BY <1>1, <1>2, <1>3 DEF ReleaseLease
<1>4. CASE /\ x.ckpt.version > 0 /\ StoreOutcome(x, rec, FALSE, TRUE) = "ok"
           /\ head' = Written(head, rec, 0, 1)
  <2> DEFINE c == x.ckpt
  <2>1. c \in Records
    BY <1>1 DEF Executions
  <2> HIDE DEF c
  <2>2. /\ Released(c) \in Records /\ Released(c).body = c.body /\ Released(c).status = c.status
        /\ Released(c).owner = NoOwner /\ SameBut(Released(c), c)
    BY <2>1 DEF Released, Records, Callers, SameBut
  <2>3. WriteOutcome(head, rec, FALSE, 0) = "ok"
    BY <1>4, StoreAccepted
  <2>4. Wrote(rec)
    <3>1. rec \in Records
      BY <2>2 DEF c
    <3> HIDE DEF rec
    <3> QED BY <1>4, <2>3, <3>1, WriteAccepted DEF Wrote
  <2> QED BY <1>1, <1>2, <1>4, <2>2, <2>4 DEF ReleaseLease, c
<1> QED BY <1>3, <1>4 DEF ReleaseLease, Released

(* What an activation leaves of x before x goes on to a commit or an emit. *)
Starting(x) == [x EXCEPT !.busy = TRUE]
Completing(x) == [x EXCEPT !.busy = FALSE, !.done = @ + 1]
Failing(x) == [x EXCEPT !.busy = FALSE]
Raising(x, p, ids) ==
  [x EXCEPT !.busy = FALSE, !.ints = ids,
            !.progress = [first |-> x.seq + 1, next |-> 0, by |-> p]]

SameBusiness(x, z) ==
  /\ z \in Executions /\ Fit(z) /\ z.result = x.result /\ z.sinkFailure = x.sinkFailure
  /\ z.mode = x.mode /\ z.ckpt = x.ckpt /\ z.seq = x.seq /\ z.cursor = x.cursor /\ z.pc = x.pc
  /\ z.cause = x.cause

LEMMA ActivationFit ==
  ASSUME NEW x \in Executions, Fit(x), NEW p \in Invocations, NEW ids \in SUBSET InterruptIDs
  PROVE  /\ x.done < Work => SameBusiness(x, Starting(x))
         /\ Starting(x).done = x.done /\ Starting(x).ints = x.ints
         /\ Starting(x).progress = x.progress
         /\ x.busy => SameBusiness(x, Completing(x))
         /\ Completing(x).done = x.done + 1 /\ Completing(x).ints = x.ints
         /\ Completing(x).progress = x.progress
         /\ SameBusiness(x, Failing(x))
         /\ Failing(x).done = x.done /\ Failing(x).ints = x.ints
         /\ Failing(x).progress = x.progress
         /\ SameBusiness(x, Raising(x, p, ids))
         /\ Raising(x, p, ids).done = x.done /\ Raising(x, p, ids).ints = ids
         /\ Raising(x, p, ids).progress = [first |-> x.seq + 1, next |-> 0, by |-> p]
<1>1. /\ x.done < Work => SameBusiness(x, Starting(x))
      /\ Starting(x).done = x.done /\ Starting(x).ints = x.ints
      /\ Starting(x).progress = x.progress
  BY DEF Starting, SameBusiness, Fit, Executions
<1>2. /\ x.busy => SameBusiness(x, Completing(x))
      /\ Completing(x).done = x.done + 1 /\ Completing(x).ints = x.ints
      /\ Completing(x).progress = x.progress
  <2> DEFINE k == x.done + 1
  <2>1. x.busy => k \in 0..Work
    BY RunAssumption DEF Fit, Executions
  <2>2. Completing(x) = [x EXCEPT !.busy = FALSE, !.done = k]
    BY DEF Completing
  <2> HIDE DEF k
  <2>3. /\ x.busy => SameBusiness(x, Completing(x))
        /\ Completing(x).done = k /\ Completing(x).ints = x.ints
        /\ Completing(x).progress = x.progress
    BY ZenonT(60), <2>1, <2>2 DEF SameBusiness, Fit, Executions
  <2> QED BY <2>3 DEF k
<1>3. /\ SameBusiness(x, Failing(x))
      /\ Failing(x).done = x.done /\ Failing(x).ints = x.ints
      /\ Failing(x).progress = x.progress
  BY DEF Failing, SameBusiness, Fit, Executions
<1>4. /\ SameBusiness(x, Raising(x, p, ids))
      /\ Raising(x, p, ids).done = x.done /\ Raising(x, p, ids).ints = ids
      /\ Raising(x, p, ids).progress = [first |-> x.seq + 1, next |-> 0, by |-> p]
  <2> DEFINE q == [first |-> x.seq + 1, next |-> 0, by |-> p]
  <2>1. q \in Progresses
    BY DEF Progresses, Executions, Callers
  <2>2. Raising(x, p, ids) = [x EXCEPT !.busy = FALSE, !.ints = ids, !.progress = q]
    BY DEF Raising
  <2> HIDE DEF q
  <2>3. SameBusiness(x, Raising(x, p, ids)) /\ Raising(x, p, ids).progress = q
        /\ Raising(x, p, ids).done = x.done /\ Raising(x, p, ids).ints = ids
    BY ZenonT(60), <2>1, <2>2 DEF SameBusiness, Fit, Executions
  <2> QED BY <2>3 DEF q
<1> QED BY <1>1, <1>2, <1>3, <1>4

(* Works: what the scheduler loop makes of x, which is at work.            *)
LEMMA WorkEffect ==
  ASSUME Local, NEW p \in Invocations, ex[p].pc = "work",
         \/ StartNode(p) \/ EmitCustom(p) \/ CommitActivation(p)
         \/ \E ids \in SUBSET InterruptIDs : Interrupt(p, ids)
         \/ NodeFails(p) \/ WorkFails(p) \/ Complete(p)
  PROVE  LET x == ex[p] IN
         /\ Ready(x)
         /\ UNCHANGED <<head, journal, delivered, spent>>
         /\ \E y :
              /\ Becomes(p, y)
              /\ \/ Quits(x, y)
                 \/ Ends(p, x, y)
                 \/ /\ ~x.busy
                    /\ y = Saving(Starting(x), "step", Stamp(p, x, "nodeStarted"))
                 \/ y = Appending(x, "observe", Stamp(p, x, "custom"))
                 \/ /\ x.busy
                    /\ y = Saving(Completing(x), "step", Stamp(p, x, "nodeCompleted"))
                 \/ \E ids \in SUBSET InterruptIDs :
                      /\ x.busy /\ ids # {}
                      /\ y = Saving(Raising(x, p, ids), "interrupt",
                                    BatchEvent(Raising(x, p, ids).progress, ids, 0))
                 \/ /\ x.busy
                    /\ y = Appending(Failing(x), "nodeFailed", Stamp(p, x, "nodeFailed"))
<1> DEFINE x == ex[p]
<1>1. Ready(x) /\ x \in Executions /\ Fit(x) /\ x.result = "none" /\ ~x.sinkFailure
  BY OwnersAreReady DEF Ready
<1>2. x.mode \in {"start", "step", "observe"}
  BY <1>1 DEF Ready, ModesAt
<1>3. ASSUME NEW z, SameBusiness(x, z)
      PROVE  /\ z \in Executions /\ Fit(z) /\ z.result = "none" /\ ~z.sinkFailure
             /\ z.mode # "terminal" /\ z.ckpt = x.ckpt
             /\ \A type : Stamp(p, z, type) = Stamp(p, x, type)
             /\ \A y : Leaves(z, y, "error") => Quits(x, y)
  <2>1. /\ z \in Executions /\ Fit(z) /\ z.result = "none" /\ ~z.sinkFailure
        /\ z.mode # "terminal" /\ z.ckpt = x.ckpt
    BY <1>1, <1>2, <1>3 DEF SameBusiness
  <2>2. \A type : Stamp(p, z, type) = Stamp(p, x, type)
    BY <1>3 DEF SameBusiness, Stamp
  <2>3. ASSUME NEW y, Leaves(z, y, "error")
        PROVE  Quits(x, y)
    <3>1. Leaves(x, y, "error")
      BY <1>1, <1>3, <2>3 DEF Leaves, SameBusiness
    <3> QED BY <1>1, <3>1, LeavesQuits DEF OwningSteps
  <2> QED BY <2>1, <2>2, <2>3
<1>4. ASSUME NEW z \in Executions, SameBusiness(x, z), NEW mode \in CommitModes, mode # "terminal",
             NEW e \in Events, e # NoEvent
      PROVE  Sound(Commit(z, mode, e)) /\ Commit(z, mode, e) = Saving(z, mode, e)
  <2>1. Fit(z) /\ z.result = "none" /\ ~z.sinkFailure
    BY <1>3, <1>4
  <2>2. /\ Sound(Commit(z, mode, e))
        /\ \/ z.sinkFailure /\ Leaves(z, Commit(z, mode, e), "error")
           \/ ~z.sinkFailure /\ Commit(z, mode, e) = Saving(z, mode, e)
    BY <1>4, <2>1, CommitEffect, Zenon
  <2> QED BY <2>1, <2>2
<1>5. ASSUME NEW type \in ObservedTypes \cup CommittedTypes
      PROVE  Stamp(p, x, type) \in Events /\ Stamp(p, x, type) # NoEvent
  BY <1>1, StampType
<1>a. CASE StartNode(p)
  <2> DEFINE z == Starting(x)
             e == Stamp(p, x, "nodeStarted")
  <2>1. SameBusiness(x, z)
    BY <1>1, <1>a, ActivationFit DEF StartNode
  <2>2. e \in Events /\ e # NoEvent /\ "step" \in CommitModes
    BY <1>5 DEF CommittedTypes, CommitModes
  <2>3. ex' = [ex EXCEPT ![p] = Commit(z, "step", e)]
    BY <1>a DEF StartNode, Works, Starting
  <2>4. ~x.busy /\ UNCHANGED <<head, journal, delivered, spent>>
    BY <1>a DEF StartNode, Works
  <2>5. z \in Executions
    BY <2>1 DEF SameBusiness
  <2> HIDE DEF z, e
  <2>6. Sound(Commit(z, "step", e)) /\ Commit(z, "step", e) = Saving(z, "step", e)
    BY <1>4, <2>1, <2>2, <2>5
  <2>7. Becomes(p, Saving(z, "step", e))
    BY <2>3, <2>6 DEF Becomes
  <2> QED BY <1>1, <2>4, <2>7 DEF z, e
<1>b. CASE EmitCustom(p)
  <2> DEFINE e == Stamp(p, x, "custom")
             y == Emit(p, x, "observe", "custom")
  <2>1. "observe" \in ObserveModes /\ "custom" \in ObservedTypes
    BY DEF ObserveModes, ObservedTypes
  <2>2. Sound(y) /\ (Leaves(x, y, "error") \/ y = Appending(x, "observe", e))
    BY <1>1, <2>1, EmitEffect, Zenon
  <2>3. Becomes(p, y) /\ UNCHANGED <<head, journal, delivered, spent>>
    BY <1>b, <2>2 DEF EmitCustom, Works, Becomes
  <2>4. Leaves(x, y, "error") => Quits(x, y)
    BY <1>1, LeavesQuits DEF OwningSteps
  <2> HIDE DEF y
  <2> QED BY <1>1, <2>2, <2>3, <2>4
<1>c. CASE CommitActivation(p)
  <2> DEFINE z == Completing(x)
             e == Stamp(p, x, "nodeCompleted")
  <2>1. SameBusiness(x, z)
    BY <1>1, <1>c, ActivationFit DEF CommitActivation
  <2>2. e \in Events /\ e # NoEvent /\ "step" \in CommitModes
    BY <1>5 DEF CommittedTypes, CommitModes
  <2>3. ex' = [ex EXCEPT ![p] = Commit(z, "step", e)]
    BY <1>c DEF CommitActivation, Works, Completing
  <2>4. x.busy /\ UNCHANGED <<head, journal, delivered, spent>>
    BY <1>c DEF CommitActivation, Works
  <2>5. z \in Executions
    BY <2>1 DEF SameBusiness
  <2> HIDE DEF z, e
  <2>6. Sound(Commit(z, "step", e)) /\ Commit(z, "step", e) = Saving(z, "step", e)
    BY <1>4, <2>1, <2>2, <2>5
  <2>7. Becomes(p, Saving(z, "step", e))
    BY <2>3, <2>6 DEF Becomes
  <2> QED BY <1>1, <2>4, <2>7 DEF z, e
<1>d. CASE \E ids \in SUBSET InterruptIDs : Interrupt(p, ids)
  <2> PICK ids \in SUBSET InterruptIDs : Interrupt(p, ids)
    BY <1>d
  <2> DEFINE z == Raising(x, p, ids)
             e == BatchEvent(z.progress, ids, 0)
             y == ContinueBatch(p, z, "interrupt")
  <2>1. SameBusiness(x, z) /\ z.ints = ids
        /\ z.progress = [first |-> x.seq + 1, next |-> 0, by |-> p]
    BY <1>1, ActivationFit
  <2>2. ex' = [ex EXCEPT ![p] = y] /\ UNCHANGED <<head, journal, delivered, spent>>
        /\ x.busy /\ ids # {}
    BY DEF Interrupt, Works, Raising
  <2>3. z \in Executions /\ Fit(z) /\ z.result = "none" /\ ~z.sinkFailure
    BY <1>3, <2>1
  <2>4. z.progress.next = 0 /\ z.progress \in Progresses
    BY <2>1, <2>3 DEF Executions
  <2>5. 0 < BatchSize(ids)
    BY <2>4, BatchEventType
  <2> HIDE DEF z
  <2>6. y = Commit(z, "interrupt", e)
    BY <2>1, <2>4, <2>5 DEF ContinueBatch
  <2>7. e \in Events /\ e # NoEvent /\ "interrupt" \in CommitModes
    <3>1. "interrupt" \in CommitModes
      BY DEF CommitModes
    <3> DEFINE q == z.progress
    <3>a. q \in Progresses /\ 0 \in Nat /\ ids \in SUBSET InterruptIDs
      BY <2>4
    <3> HIDE DEF q
    <3>b. BatchEvent(q, ids, 0) \in Events /\ BatchEvent(q, ids, 0) # NoEvent
      BY <3>a, BatchEventType, Zenon
    <3>2. e \in Events /\ e # NoEvent
      BY <3>b DEF q
    <3> QED BY <3>1, <3>2
  <2> HIDE DEF y, e
  <2>8. Sound(y) /\ y = Saving(z, "interrupt", e)
    BY <1>4, <2>1, <2>3, <2>6, <2>7
  <2>9. Becomes(p, y)
    BY <2>2, <2>8 DEF Becomes
  <2> QED BY <1>1, <2>2, <2>8, <2>9 DEF z, e
<1>e. CASE NodeFails(p)
  <2> DEFINE z == Failing(x)
             y == Emit(p, z, "nodeFailed", "nodeFailed")
  <2>1. SameBusiness(x, z)
    BY <1>1, ActivationFit
  <2>2. /\ Sound(y) => Becomes(p, y)
        /\ UNCHANGED <<head, journal, delivered, spent>> /\ x.busy
    BY <1>e DEF NodeFails, Works, Failing, Becomes
  <2>3. /\ z \in Executions /\ Fit(z) /\ z.result = "none" /\ ~z.sinkFailure
        /\ Stamp(p, z, "nodeFailed") = Stamp(p, x, "nodeFailed")
        /\ \A w : Leaves(z, w, "error") => Quits(x, w)
    BY <1>3, <2>1
  <2>4. "nodeFailed" \in ObserveModes /\ "nodeFailed" \in ObservedTypes
    BY DEF ObserveModes, ObservedTypes
  <2> HIDE DEF z
  <2>5. Sound(y) /\ (Leaves(z, y, "error")
                       \/ y = Appending(z, "nodeFailed", Stamp(p, z, "nodeFailed")))
    BY <2>3, <2>4, EmitEffect, Zenon
  <2> HIDE DEF y
  <2> QED BY <1>1, <2>2, <2>3, <2>5 DEF z
<1>f. CASE WorkFails(p)
  <2> DEFINE y == HandleError(p, x, "plain")
  <2>1. Sound(y) /\ (Leaves(x, y, "error") \/ Ends(p, x, y))
    BY <1>1, <1>2, HandleErrorEffect
  <2>2. Becomes(p, y) /\ UNCHANGED <<head, journal, delivered, spent>>
    BY <1>f, <2>1 DEF WorkFails, Works, Becomes
  <2> HIDE DEF y
  <2> QED BY <1>1, <2>1, <2>2, LeavesQuits DEF OwningSteps
<1>g. CASE Complete(p)
  <2> DEFINE y == CommitTerminal(p, x, "completed")
  <2>1. Sound(y) /\ Ends(p, x, y)
    BY <1>1, <1>2, CommitTerminalEffect DEF TerminalStatuses
  <2>2. Becomes(p, y) /\ UNCHANGED <<head, journal, delivered, spent>>
    BY <1>g, <2>1 DEF Complete, Works, Becomes
  <2> HIDE DEF y
  <2> QED BY <1>1, <2>1, <2>2
<1> QED BY <1>a, <1>b, <1>c, <1>d, <1>e, <1>f, <1>g

-----------------------------------------------------------------------------
(* What the environment does to an invocation.                             *)

(* x is only told to stop.                                                 *)
Notified(x, y) ==
  y = [x EXCEPT !.cause = y.cause, !.leaseDown = y.leaseDown, !.heartbeat = y.heartbeat]

LEMMA NotifiedSound ==
  ASSUME NEW x \in Executions, Sound(x), x.pc # "idle",
         NEW cause \in {"none", "sink", "lease", "canceled", "terminated"},
         NEW leaseDown \in BOOLEAN, NEW heartbeat \in {"off", "on", "failed"}
  PROVE  LET y == [x EXCEPT !.cause = cause, !.leaseDown = leaseDown,
                            !.heartbeat = heartbeat] IN
         Sound(y) /\ Notified(x, y)
<1> DEFINE y == [x EXCEPT !.cause = cause, !.leaseDown = leaseDown, !.heartbeat = heartbeat]
<1>1. y \in Executions
  BY DEF Executions
<1>2. y.cause = cause /\ y.leaseDown = leaseDown /\ y.heartbeat = heartbeat
  BY DEF Executions
<1>3. /\ y.pc = x.pc /\ y.mode = x.mode /\ y.ev = x.ev /\ y.ckpt = x.ckpt /\ y.seq = x.seq
      /\ y.cursor = x.cursor /\ y.ints = x.ints /\ y.progress = x.progress /\ y.done = x.done
      /\ y.busy = x.busy /\ y.term = x.term /\ y.sinkFailure = x.sinkFailure
      /\ y.result = x.result
  BY DEF Executions
<1>4. Notified(x, y)
  BY <1>2 DEF Notified
<1> HIDE DEF y
<1>5. Fit(y)
  BY <1>1, <1>3 DEF Sound, Fit
<1>6. Placed(y)
  BY <1>3 DEF Sound, Placed
<1> QED BY <1>4, <1>5, <1>6 DEF Sound, y

LEMMA HeartbeatEffect ==
  ASSUME Local, NEW p \in Invocations, NEW faulty, HeartbeatFails(p, faulty)
  PROVE  /\ Active(p) /\ ex[p].heartbeat = "on" /\ UNCHANGED <<head, journal, delivered>>
         /\ \E y : /\ Becomes(p, y) /\ Notified(ex[p], y) /\ y.leaseDown
                   /\ y.cause = IF ex[p].cause = "none" THEN "lease" ELSE ex[p].cause
<1> DEFINE x == ex[p]
           cause == IF x.cause = "none" THEN "lease" ELSE x.cause
           y == [x EXCEPT !.cause = cause, !.leaseDown = TRUE, !.heartbeat = "failed"]
<1>1. Active(p) /\ UNCHANGED <<head, journal, delivered>> /\ x.pc # "idle"
      /\ x.heartbeat = "on"
  BY DEF HeartbeatFails, Active
<1>2. x \in Executions /\ Sound(x)
  BY DEF Local, Sound, Fit
<1>3. ex' = [ex EXCEPT ![p] = y]
  <2>1. ex' = [ex EXCEPT ![p] = [Canceled(x, "lease") EXCEPT !.leaseDown = TRUE,
                                                             !.heartbeat = "failed"]]
    BY DEF HeartbeatFails, Local
  <2>2. Canceled(x, "lease") = [x EXCEPT !.cause = cause]
    BY <1>2 DEF Canceled, Executions
  <2> QED BY <2>1, <2>2
<1>4. cause \in {"none", "sink", "lease", "canceled", "terminated"}
  BY <1>2 DEF Executions
<1> HIDE DEF cause
<1>5. Sound(y) /\ Notified(x, y)
  BY <1>1, <1>2, <1>4, NotifiedSound
<1>6. y.leaseDown /\ y.cause = cause
  BY <1>2 DEF Executions
<1> QED BY <1>1, <1>3, <1>5, <1>6 DEF Becomes, cause

LEMMA CancelEffect ==
  ASSUME Local, NEW p \in Invocations, NEW why \in CancelCauses, CancelRun(p, why)
  PROVE  /\ Active(p) /\ UNCHANGED <<head, journal, delivered>>
         /\ \E y : Becomes(p, y) /\ Notified(ex[p], y)
<1> DEFINE x == ex[p]
           cause == IF x.cause = "none" THEN why ELSE x.cause
           y == [x EXCEPT !.cause = cause, !.leaseDown = x.leaseDown, !.heartbeat = x.heartbeat]
<1>1. Active(p) /\ UNCHANGED <<head, journal, delivered>> /\ x.pc # "idle"
  BY DEF CancelRun, Active
<1>2. x \in Executions /\ Sound(x)
  BY DEF Local, Sound, Fit
<1>3. ex' = [ex EXCEPT ![p] = y]
  <2>1. ex' = [ex EXCEPT ![p] = Canceled(x, why)]
    BY DEF CancelRun, Local
  <2>2. Canceled(x, why) = y
    BY <1>2 DEF Canceled, Executions
  <2> QED BY <2>1, <2>2
<1>4. /\ cause \in {"none", "sink", "lease", "canceled", "terminated"}
      /\ x.leaseDown \in BOOLEAN /\ x.heartbeat \in {"off", "on", "failed"}
  BY <1>2, RunAssumption DEF Executions
<1> HIDE DEF cause
<1>5. Sound(y) /\ Notified(x, y)
  BY <1>1, <1>2, <1>4, NotifiedSound
<1> QED BY <1>1, <1>3, <1>5 DEF Becomes

LEMMA StoreFaultEffect ==
  ASSUME Local, NEW p \in Invocations, StoreFault(p)
  PROVE  /\ ex[p].pc \notin {"idle", "end", "crashed"}
         /\ UNCHANGED <<head, journal, delivered>>
         /\ \E y :
              /\ Becomes(p, y)
              /\ \/ Quits(ex[p], y)
                 \/ /\ ex[p].pc \in {"savePending", "confirm", "interrupt", "saveCursor"}
                    /\ Ready(ex[p]) /\ Fails(p, ex[p], y)
<1> DEFINE x == ex[p]
<1>1. /\ UNCHANGED <<head, journal, delivered>>
      /\ x.pc \in {"create", "claim", "savePending", "append", "confirm",
                   "interrupt", "finish", "reconcile", "saveCursor", "release"}
  BY DEF StoreFault
<1>2. x \in Executions /\ Sound(x) /\ Fit(x) /\ x.result = "none"
  BY <1>1 DEF Local, Sound, Fit, Placed
<1>3. x.pc # "release" => Ready(x)
  BY <1>1, OwnersAreReady
<1>4. CASE x.pc = "append"
  <2> DEFINE z == Counted(x)
             y == SinkFailed(p, z)
  <2>1. /\ z \in Executions /\ Fit(z) /\ z.result = "none" /\ z.pc = x.pc
        /\ z.ckpt = x.ckpt /\ z.mode = x.mode
    BY <1>2, CountedFit
  <2>2. ex' = [ex EXCEPT ![p] = y]
    BY <1>4 DEF StoreFault, Counted
  <2>3. Sound(y) /\ Quits(z, y)
    <3> HIDE DEF z
    <3> QED BY <1>4, <2>1, SinkFailedEffect, LeavesQuits DEF OwningSteps
  <2> HIDE DEF z, y
  <2>4. Quits(x, y)
    BY <2>1, <2>3 DEF Quits
  <2> QED BY <1>1, <2>2, <2>3, <2>4 DEF Becomes
<1>5. CASE x.pc \in {"create", "claim"}
  <2>1. ex' = [ex EXCEPT ![p] = Refused(x)]
    BY <1>5 DEF StoreFault
  <2> QED BY <1>1, <1>2, <1>5, <2>1, RefusedQuits DEF Becomes
<1>6. CASE x.pc = "release"
  <2>1. ex' = [ex EXCEPT ![p] = Over(x, "end", "error")]
    BY <1>6 DEF StoreFault
  <2> QED BY <1>1, <1>2, <2>1, OverQuits DEF Becomes
<1>7. CASE x.pc \in {"finish", "reconcile"}
  <2>1. ex' = [ex EXCEPT ![p] = Returned(x, "error")]
    BY <1>7 DEF StoreFault
  <2>2. Sound(Returned(x, "error")) /\ Leaves(x, Returned(x, "error"), "error")
    BY <1>2, ReturnedEffect DEF Results
  <2>3. Quits(x, Returned(x, "error"))
    BY <1>2, <1>7, <2>2, LeavesQuits DEF OwningSteps
  <2> QED BY <1>1, <2>1, <2>2, <2>3 DEF Becomes
<1>8. CASE x.pc \in {"savePending", "confirm", "interrupt", "saveCursor"}
  <2>1. ex' = [ex EXCEPT ![p] = Raise(p, x, "error")]
    BY <1>8 DEF StoreFault
  <2>2. Sound(Raise(p, x, "error")) /\ Fails(p, x, Raise(p, x, "error"))
    BY <1>2, <1>3, <1>8, RaiseFails DEF OwningSteps
  <2> QED BY <1>1, <1>3, <1>8, <2>1, <2>2 DEF Becomes
<1> QED BY <1>1, <1>4, <1>5, <1>6, <1>7, <1>8

LEMMA SinkRefusesEffect ==
  ASSUME Local, NEW p \in Invocations, SinkRefuses(p)
  PROVE  /\ ex[p].pc = "deliver" /\ UNCHANGED <<head, journal, delivered>>
         /\ \E y : Becomes(p, y) /\ Quits(ex[p], y)
<1> DEFINE x == ex[p]
           y == SinkFailed(p, x)
<1>1. x.pc = "deliver" /\ UNCHANGED <<head, journal, delivered>>
  BY DEF SinkRefuses, At
<1>2. Ready(x)
  BY <1>1, OwnersAreReady
<1>3. ex' = [ex EXCEPT ![p] = y]
  BY DEF SinkRefuses, Local
<1>4. Sound(y) /\ Quits(x, y)
  BY <1>1, <1>2, SinkFailedEffect, LeavesQuits DEF Ready, OwningSteps
<1> QED BY <1>1, <1>3, <1>4 DEF Becomes

LEMMA CrashEffect ==
  ASSUME Local, NEW p \in Invocations, Crash(p)
  PROVE  /\ Active(p) /\ UNCHANGED <<head, journal, delivered>>
         /\ \E y : Becomes(p, y) /\ Quits(ex[p], y)
<1> DEFINE x == ex[p]
           y == Over(x, "crashed", "none")
<1>1. Active(p) /\ UNCHANGED <<head, journal, delivered>>
  BY DEF Crash
<1>2. x \in Executions
  BY DEF Local
<1>3. ex' = [ex EXCEPT ![p] = y]
  BY DEF Crash, Local
<1>4. Sound(y) /\ Quits(x, y)
  BY <1>2, OverQuits
<1> QED BY <1>1, <1>3, <1>4 DEF Becomes

-----------------------------------------------------------------------------
(* Local and Claims are inductive.                                         *)

LEMMA LocalStep ==
  ASSUME Local, NEW p \in Invocations, NEW y, Becomes(p, y)
  PROVE  Local' /\ ex'[p] = y /\ \A q \in Invocations \ {p} : ex'[q] = ex[q]
BY DEF Local, Becomes, Sound, Fit

(* x goes on without a claim of its own making.                            *)
KeepsClaim(x, y) ==
  \/ Quits(x, y)
  \/ /\ y.ckpt = x.ckpt /\ y.result \in {"none", x.result}
     /\ Owns(y) => Owns(x)
     /\ y.pc \in OwningSteps \cup {"claim"} =>
          x.pc \in OwningSteps \cup {"claim"} \/ x.ckpt = Absent

LEMMA QuitsClaims ==
  ASSUME NEW x \in Executions, NEW y \in Executions, NEW h \in Records, Claimable(h),
         Entitled(x, h), KeepsClaim(x, y)
  PROVE  /\ Entitled(y, h)
         /\ Granted(y) => Granted(x) /\ y.ckpt.claim = x.ckpt.claim
<1>1. CASE /\ y.ckpt = x.ckpt /\ y.result \in {"none", x.result}
           /\ Owns(y) => Owns(x)
           /\ y.pc \in OwningSteps \cup {"claim"} =>
                x.pc \in OwningSteps \cup {"claim"} \/ x.ckpt = Absent
  <2>1. Granted(y) => Granted(x)
    BY <1>1 DEF Granted
  <2>2. /\ y.ckpt.claim <= h.claim /\ y.ckpt.version <= h.version
        /\ Granted(y) => y.ckpt.claim > 0
        /\ Owns(y) /\ y.ckpt.claim = h.claim => y.ckpt.version = h.version
    BY <1>1, <2>1 DEF Entitled
  <2>3. ASSUME y.pc \in OwningSteps \cup {"claim"}, y.ckpt.version = h.version
        PROVE  SameRecord(h, y.ckpt)
    <3>1. CASE x.pc \in OwningSteps \cup {"claim"}
      BY <1>1, <2>3, <3>1 DEF Entitled
    <3>2. CASE x.ckpt = Absent
      <4>1. h = Absent
        BY <1>1, <2>3, <3>2 DEF Claimable, Absent
      <4> QED BY <1>1, <3>2, <4>1, NewIsSound DEF SameRecord, Records
    <3> QED BY <1>1, <2>3, <3>1, <3>2
  <2> QED BY <1>1, <2>1, <2>2, <2>3 DEF Entitled
<1>2. CASE Quits(x, y) /\ y.pc = "release"
  <2>1. /\ y.ckpt = x.ckpt /\ y.result \in {"none", "error"} /\ Owns(y) => Owns(x)
        /\ x.pc \in OwningSteps
    BY <1>2 DEF Quits, Owns, OwningSteps
  <2>2. Granted(y) => Granted(x)
    BY <1>2 DEF Quits, Owns, OwningSteps, Granted
  <2>3. y.ckpt = x.ckpt /\ x.pc \in OwningSteps /\ (Owns(y) => Owns(x))
    BY <1>2 DEF Quits, Owns, OwningSteps
  <2> QED BY <2>2, <2>3 DEF Entitled
<1>3. CASE Quits(x, y) /\ y.pc \in {"end", "crashed"}
  <2>1. ~Granted(y) /\ y.pc \notin OwningSteps \cup {"claim"} /\ ~Owns(y)
    BY <1>3 DEF Quits, Granted, Owns, OwningSteps
  <2>2. y.ckpt.version = 0 /\ y.ckpt.claim \in {0, x.ckpt.claim}
    BY <1>3, NewIsSound DEF Quits, Absent
  <2> QED BY <2>1, <2>2 DEF Entitled, Records
<1> QED BY <1>1, <1>2, <1>3 DEF KeepsClaim, Quits

LEMMA KeptClaims ==
  ASSUME Local, Claims, NEW p \in Invocations, NEW y, Becomes(p, y),
         head' = head,
         KeepsClaim(ex[p], y) \/ (y.pc = "claim" /\ y.result = "none" /\ y.ckpt = head)
  PROVE  Claims'
<1>1. /\ ex'[p] = y /\ \A q \in Invocations \ {p} : ex'[q] = ex[q]
      /\ y \in Executions /\ ex[p] \in Executions
  BY LocalStep DEF Becomes, Sound, Fit, Local
<1>2. Claimable(head) /\ head \in Records /\ Entitled(ex[p], head)
  BY DEF Claims, Claimable
<1>3. Entitled(y, head) /\ (Granted(y) => Granted(ex[p]) /\ y.ckpt.claim = ex[p].ckpt.claim)
  <2>1. CASE KeepsClaim(ex[p], y)
    BY <1>1, <1>2, <2>1, QuitsClaims
  <2>2. CASE y.pc = "claim" /\ y.result = "none" /\ y.ckpt = head
    BY <1>2, <2>2 DEF Entitled, Granted, Owns, OwningSteps, SameRecord, Records
  <2> QED BY <2>1, <2>2
<1>4. \A q \in Invocations : Entitled(ex'[q], head)
  BY <1>1, <1>3 DEF Claims
<1>5. \A q \in Invocations : Granted(ex'[q]) =>
        Granted(ex[q]) /\ ex'[q].ckpt.claim = ex[q].ckpt.claim
  BY <1>1, <1>3
<1>6. \A q, r \in Invocations :
        Granted(ex'[q]) /\ Granted(ex'[r]) /\ ex'[q].ckpt.claim = ex'[r].ckpt.claim => q = r
  BY <1>5 DEF Claims
<1> QED BY <1>2, <1>4, <1>6 DEF Claims

(* x wrote rec, which only differs from its copy in what a write may touch. *)
LEMMA WroteClaims ==
  ASSUME Local, Claims, NEW p \in Invocations, NEW y, Becomes(p, y), Owns(ex[p]),
         NEW rec, Wrote(rec), SameBut(rec, ex[p].ckpt),
         \/ Owns(y) /\ y.ckpt = [rec EXCEPT !.version = @ + 1]
         \/ /\ y.pc \in {"end", "crashed"} /\ y.ckpt = [Absent EXCEPT !.claim = ex[p].ckpt.claim]
  PROVE  Claims'
<1> DEFINE x == ex[p]
           c == [rec EXCEPT !.version = @ + 1]
<1>1. /\ ex'[p] = y /\ \A q \in Invocations \ {p} : ex'[q] = ex[q]
      /\ y \in Executions /\ x \in Executions
  BY LocalStep DEF Becomes, Sound, Fit, Local
<1>2. /\ Claimable(head) /\ head \in Records /\ Exists(head) /\ rec \in Records
      /\ rec.claim = head.claim /\ rec.version = head.version
      /\ head' = Written(head, rec, 0, 1)
  BY DEF Claims, Claimable, Wrote
<1>3. /\ head' \in Records /\ c \in Records /\ SameRecord(head', c)
      /\ head'.version = head.version + 1 /\ c.version = head.version + 1
      /\ head'.claim = head.claim /\ c.claim = head.claim
  BY <1>2, WrittenEffect
<1>4. x.ckpt.claim = head.claim /\ Granted(x)
  BY <1>2 DEF SameBut, Granted
<1>5. /\ head.version \in Nat /\ head.claim \in Nat /\ head.version > 0 /\ head.claim > 0
  BY <1>2 DEF Records, Claimable, Exists
<1>6. Claimable(head')
  BY <1>3, <1>5 DEF Claimable
<1>7. ASSUME NEW q \in Invocations, q # p
      PROVE  Entitled(ex'[q], head')
  <2>1. Entitled(ex[q], head) /\ ex'[q] = ex[q]
    BY <1>1, <1>7 DEF Claims
  <2>2. ~(Owns(ex[q]) /\ ex[q].ckpt.claim = head.claim)
    BY <1>4, <1>7 DEF Claims, Granted
  <2>3. ex[q].ckpt \in Records
    BY DEF Local, Executions
  <2> QED BY <1>3, <1>5, <2>1, <2>2, <2>3 DEF Entitled, Records
<1>8. Entitled(y, head')
  <2>1. CASE Owns(y) /\ y.ckpt = c
    <3> HIDE DEF c
    <3> QED BY <1>3, <1>5, <2>1 DEF Entitled
  <2>2. CASE y.pc \in {"end", "crashed"} /\ y.ckpt = [Absent EXCEPT !.claim = x.ckpt.claim]
    <3>1. y.ckpt.claim = head.claim /\ y.ckpt.version = 0
      BY <1>4, <2>2, NewIsSound DEF Absent
    <3>2. ~Owns(y) /\ y.pc \notin OwningSteps \cup {"claim"}
      BY <2>2 DEF Owns, OwningSteps
    <3> QED BY <1>3, <1>5, <3>1, <3>2 DEF Entitled
  <2> QED BY <2>1, <2>2
<1>9. y.ckpt.claim = x.ckpt.claim
  <2>1. CASE y.ckpt = c
    BY <1>3, <1>4, <2>1
  <2>2. CASE y.ckpt = [Absent EXCEPT !.claim = x.ckpt.claim]
    BY <2>2, NewIsSound DEF Absent
  <2> QED BY <2>1, <2>2
<1>10. \A q \in Invocations : Granted(ex'[q]) =>
        Granted(ex[q]) /\ ex'[q].ckpt.claim = ex[q].ckpt.claim
  BY <1>1, <1>4, <1>9
<1>11. \A q, r \in Invocations :
        Granted(ex'[q]) /\ Granted(ex'[r]) /\ ex'[q].ckpt.claim = ex'[r].ckpt.claim => q = r
  BY <1>10 DEF Claims
<1>12. \A q \in Invocations : Entitled(ex'[q], head')
  BY <1>1, <1>7, <1>8
<1> QED BY <1>6, <1>11, <1>12 DEF Claims

(* A new claim is one above all others.                                    *)
LEMMA GrantedClaims ==
  ASSUME Local, Claims, NEW p \in Invocations, NEW y, Becomes(p, y),
         head' \in Records, head'.claim = head.claim + 1, head'.version = head.version + 1,
         \/ y.ckpt = head'
         \/ y.pc \in {"end", "crashed"} /\ y.ckpt = [Absent EXCEPT !.claim = head'.claim]
  PROVE  Claims'
<1>1. /\ ex'[p] = y /\ \A q \in Invocations \ {p} : ex'[q] = ex[q]
      /\ y \in Executions
  BY LocalStep DEF Becomes, Sound, Fit, Local
<1>2. head \in Records /\ head.version \in Nat /\ head.claim \in Nat
  BY DEF Claims, Claimable, Records
<1>3. Claimable(head')
  BY <1>2 DEF Claimable
<1>4. y.ckpt.claim = head.claim + 1
  BY NewIsSound DEF Absent
<1>5. ASSUME NEW q \in Invocations, q # p
      PROVE  Entitled(ex'[q], head') /\ ex'[q].ckpt.claim <= head.claim
  <2>1. Entitled(ex[q], head) /\ ex'[q] = ex[q]
    BY <1>1, <1>5 DEF Claims
  <2>3. ex[q].ckpt \in Records
    BY DEF Local, Executions
  <2> QED BY <1>2, <2>1, <2>3 DEF Entitled, Records
<1>6. Entitled(y, head')
  <2>1. CASE y.ckpt = head'
    BY <1>2, <2>1 DEF Entitled, SameRecord, Records
  <2>2. CASE y.pc \in {"end", "crashed"} /\ y.ckpt = [Absent EXCEPT !.claim = head'.claim]
    <3>1. y.ckpt.version = 0
      BY <2>2, NewIsSound DEF Absent
    <3>2. ~Owns(y) /\ y.pc \notin OwningSteps \cup {"claim"}
      BY <2>2 DEF Owns, OwningSteps
    <3> QED BY <1>2, <1>4, <3>1, <3>2 DEF Entitled
  <2> QED BY <2>1, <2>2
<1>7. \A q, r \in Invocations :
        Granted(ex'[q]) /\ Granted(ex'[r]) /\ ex'[q].ckpt.claim = ex'[r].ckpt.claim => q = r
  <2>1. ASSUME NEW q \in Invocations, NEW r \in Invocations, q # r,
               Granted(ex'[q]), Granted(ex'[r]), ex'[q].ckpt.claim = ex'[r].ckpt.claim
        PROVE  FALSE
    <3>1. CASE q = p
      BY <1>1, <1>2, <1>4, <1>5, <2>1, <3>1
    <3>2. CASE r = p
      BY <1>1, <1>2, <1>4, <1>5, <2>1, <3>2
    <3>3. CASE q # p /\ r # p
      BY <1>1, <2>1, <3>3 DEF Claims
    <3> QED BY <3>1, <3>2, <3>3
  <2> QED BY <2>1
<1> QED BY <1>1, <1>3, <1>5, <1>6, <1>7 DEF Claims

LEMMA FailsKeeps ==
  ASSUME NEW p, NEW x \in Executions, NEW y, Owns(x), Sound(y), Fails(p, x, y) \/ Ends(p, x, y)
  PROVE  KeepsClaim(x, y)
<1>1. CASE Quits(x, y)
  BY <1>1 DEF KeepsClaim
<1>2. CASE Ends(p, x, y)
  <2>1. y.ckpt = x.ckpt /\ y.result = "none"
    BY <1>2 DEF Ends, SameWork, Sound, Placed
  <2> QED BY <2>1 DEF KeepsClaim, Owns
<1> QED BY <1>1, <1>2 DEF Fails

LEMMA OwnersOwn ==
  ASSUME NEW x, Ready(x),
         x.pc \in {"savePending", "confirm", "interrupt", "finish", "saveCursor", "reconcile",
                   "work"}
  PROVE  Owns(x)
BY DEF Ready, ModesAt, CommitModes, Owns, OwningSteps

(* Any y that goes on from a copy at the same place keeps the claim.       *)
LEMMA SameKeeps ==
  ASSUME NEW x \in Executions, NEW y, y.ckpt = x.ckpt, y.result = "none", Owns(x)
  PROVE  KeepsClaim(x, y)
BY DEF KeepsClaim, Owns

LEMMA InitClaims == Init => Local /\ Claims
<1> SUFFICES ASSUME Init PROVE Local /\ Claims
  OBVIOUS
<1>1. Local
  BY NewIsSound DEF Init, Local
<1>2. Claimable(head)
  BY NewIsSound DEF Init, Claimable, Absent
<1>3. ASSUME NEW p \in Invocations PROVE Entitled(ex[p], head) /\ ~Granted(ex[p])
  <2>1. /\ ex[p].pc = "idle" /\ ex[p].ckpt = Absent /\ head = Absent /\ ex[p].result = "none"
        /\ Absent.version = 0 /\ Absent.claim = 0
    BY DEF Init, NewExecution, Absent
  <2> QED BY <2>1 DEF Entitled, Granted, Owns, OwningSteps
<1> QED BY <1>1, <1>2, <1>3 DEF Claims

LEMMA ExpireClaims == Local /\ Claims /\ Expire => Local' /\ Claims'
<1> SUFFICES ASSUME Local, Claims, Expire PROVE Local' /\ Claims'
  OBVIOUS
<1>1. head' = [head EXCEPT !.expires = 0] /\ ex' = ex /\ head.expires = 1 /\ head \in Records
  BY DEF Expire, Claims, Claimable
<1>2. Local'
  BY <1>1 DEF Local
<1>3. /\ head' \in Records /\ head'.claim = head.claim /\ head'.version = head.version
      /\ SameRecord(head', head)
  BY <1>1 DEF Records, SameRecord
<1>4. Claimable(head')
  BY <1>1, <1>3 DEF Claims, Claimable, Absent
<1>5. ASSUME NEW p \in Invocations PROVE Entitled(ex[p], head')
  <2>1. Entitled(ex[p], head) /\ ex[p].ckpt \in Records
    BY DEF Claims, Local, Executions
  <2>2. SameRecord(head, ex[p].ckpt) => SameRecord(head', ex[p].ckpt)
    BY <1>1, <1>3, <2>1 DEF SameRecord, Records
  <2> QED BY <1>3, <2>1, <2>2 DEF Entitled
<1> QED BY <1>1, <1>2, <1>4, <1>5 DEF Claims

LEMMA CreateClaims ==
  ASSUME Local, Claims, NEW p \in Invocations, Create(p)
  PROVE  Local' /\ Claims'
<1> DEFINE x == ex[p]
           z == [x EXCEPT !.ckpt = NewRecord(p), !.heartbeat = "on"]
           e == Stamp(p, x, Start(x))
<1>1. CASE head' = head /\ \E y : Becomes(p, y) /\ Quits(x, y)
  BY <1>1, LocalStep, KeptClaims DEF KeepsClaim
<1>2. CASE ~Exists(head) /\ head' = NewRecord(p) /\ Becomes(p, Saving(z, "start", e))
  <2>1. head.version = 0 /\ head.claim = 0
    BY <1>2 DEF Claims, Claimable, Exists, Records
  <2>2. head' \in Records /\ head'.claim = 1 /\ head'.version = 1
    BY <1>2, NewRecordType
  <2>3. Saving(z, "start", e).ckpt = head'
    BY <1>2 DEF Saving, Local, Executions
  <2> QED BY <1>2, <2>1, <2>2, <2>3, LocalStep, GrantedClaims
<1> QED BY <1>1, <1>2, CreateEffect

LEMMA HookClaims ==
  ASSUME Local, Claims, NEW p \in Invocations, Hook(p)
  PROVE  Local' /\ Claims'
<1> DEFINE x == ex[p]
           y == Appending(x, "hook", Stamp(p, x, "hook"))
<1>1. head' = head /\ Becomes(p, y) /\ x.pc = "idle"
  BY HookEffect
<1>2. x = NewExecution /\ x.ckpt = Absent /\ x.result = "none" /\ x \in Executions
  BY <1>1 DEF Local, Sound, Placed, NewExecution, Fit
<1>3. y.ckpt = Absent /\ y.result = "none" /\ y.mode = "hook" /\ y.pc = "append"
  BY <1>2 DEF Appending, Executions
<1> HIDE DEF y
<1>4. KeepsClaim(x, y)
  BY <1>2, <1>3 DEF KeepsClaim, Owns
<1> QED BY <1>1, <1>4, LocalStep, KeptClaims

LEMMA LoadClaims ==
  ASSUME Local, Claims, NEW p \in Invocations, Load(p)
  PROVE  Local' /\ Claims'
<1> DEFINE x == ex[p]
<1>1. head' = head /\ x.pc = "idle"
  BY LoadEffect DEF Claims, Claimable
<1>2. PICK y : Becomes(p, y) /\ (Quits(x, y) \/ y = Loading(x))
  BY LoadEffect DEF Claims, Claimable
<1>3. CASE Quits(x, y)
  BY <1>1, <1>2, <1>3, LocalStep, KeptClaims DEF KeepsClaim
<1>4. CASE y = Loading(x)
  <2>1. y.pc = "claim" /\ y.ckpt = head /\ y.result = "none"
    BY <1>1, <1>4 DEF Loading, Local, Sound, Placed, Fit, Executions
  <2> QED BY <1>1, <1>2, <2>1, LocalStep, KeptClaims
<1> QED BY <1>2, <1>3, <1>4

LEMMA ClaimClaims ==
  ASSUME Local, Claims, NEW p \in Invocations, NEW res \in Resolutions, Claim(p, res)
  PROVE  Local' /\ Claims'
<1> DEFINE x == ex[p]
           rec == Candidate(p, x.ckpt, res)
           z == Claiming(x, rec)
           y == Restored(p, z)
<1>0. head \in Records
  BY DEF Claims, Claimable
<1>1. CASE head' = head /\ \E w : Becomes(p, w) /\ Quits(x, w)
  BY <1>1, LocalStep, KeptClaims DEF KeepsClaim
<1>2. CASE /\ ClaimOutcome(head, rec, 0) = "ok"
           /\ head' = [rec EXCEPT !.version = @ + 1]
           /\ z \in Executions /\ Fit(z) /\ z.result = "none" /\ ~z.sinkFailure
           /\ z.mode = "none" /\ z.ckpt = head' /\ Becomes(p, y)
  <2>1. rec \in Records
    BY CandidateType DEF Local, Executions
  <2> HIDE DEF rec
  <2>2. rec.version = head.version /\ rec.claim = head.claim + 1
    BY <1>2 DEF ClaimOutcome
  <2>3. head' \in Records /\ head'.claim = head.claim + 1 /\ head'.version = head.version + 1
    BY <1>2, <2>1, <2>2 DEF Records
  <2> HIDE DEF z
  <2>4. \/ Leaves(z, y, "error")
        \/ y = Moved(Resumed(z), "reconcile")
        \/ y = Replaying(Resumed(z))
    BY <1>2, RestoredEffect
  <2>5. Resumed(z) \in Executions /\ Resumed(z).ckpt = z.ckpt
    BY <1>2, ResumedFit
  <2>6. \/ y.ckpt = z.ckpt
        \/ y.pc = "end" /\ y.ckpt = [Absent EXCEPT !.claim = z.ckpt.claim]
    BY <2>4, <2>5 DEF Leaves, Moved, Replaying, Executions
  <2> HIDE DEF y
  <2>7. Becomes(p, y)
    BY <1>2 DEF y
  <2> QED BY <1>2, <2>3, <2>6, <2>7, LocalStep, GrantedClaims
<1> QED BY <1>0, <1>1, <1>2, ClaimEffect

(* What x goes on as after its record was saved.                           *)
LEMMA SavedLeaves ==
  ASSUME NEW x \in Executions, x.mode # "hook", NEW rec \in Records, SameBut(rec, x.ckpt),
         NEW s \in Executions, s.ckpt = x.ckpt,
         NEW z, z.ckpt = [rec EXCEPT !.version = @ + 1], z.mode # "hook", NEW y, NEW result,
         \/ Leaves(z, y, result)
         \/ y.pc \in OwningSteps /\ y.mode # "hook" /\ y.ckpt = z.ckpt
  PROVE  \/ Owns(y) /\ y.ckpt = [rec EXCEPT !.version = @ + 1]
         \/ /\ y.pc \in {"end", "crashed"} /\ y.ckpt = [Absent EXCEPT !.claim = x.ckpt.claim]
<1>1. z.ckpt.claim = x.ckpt.claim
  BY DEF SameBut, Records
<1> QED BY <1>1 DEF Leaves, Owns, OwningSteps

LEMMA FailedClaims ==
  ASSUME Local, Claims, NEW p \in Invocations, Owns(ex[p]), head' = head,
         \E y : Becomes(p, y) /\ Fails(p, ex[p], y)
  PROVE  Local' /\ Claims'
<1> PICK y : Becomes(p, y) /\ Fails(p, ex[p], y)
  OBVIOUS
<1>1. KeepsClaim(ex[p], y)
  BY FailsKeeps DEF Becomes, Local
<1> QED BY <1>1, LocalStep, KeptClaims

LEMMA SavePendingClaims ==
  ASSUME Local, Claims, NEW p \in Invocations, SavePending(p)
  PROVE  Local' /\ Claims'
<1> DEFINE x == ex[p]
           rec == Keeping(x, x.ev, PendingTerm(x))
           z == Saved(x, rec)
           y == Moved(z, "append")
<1>1. Ready(x) /\ Owns(x) /\ x \in Executions /\ Fit(x) /\ x.mode # "hook"
  BY SavePendingEffect, OwnersOwn DEF Ready, Owns
<1>2. CASE head' = head /\ \E w : Becomes(p, w) /\ Fails(p, x, w)
  BY <1>1, <1>2, FailedClaims
<1>3. CASE Wrote(rec) /\ Becomes(p, y)
  <2>1. rec \in Records /\ SameBut(rec, x.ckpt)
    BY <1>1, KeepingEffect DEF Executions, PendingTerm, Terms
  <2> HIDE DEF rec
  <2>2. z \in Executions /\ z.ckpt = [rec EXCEPT !.version = @ + 1] /\ z.mode = x.mode
    BY <1>1, <2>1, SavedFit
  <2> HIDE DEF z
  <2>3. y.ckpt = z.ckpt /\ y.pc = "append" /\ y.mode # "hook"
    BY <1>1, <2>2 DEF Moved, Executions
  <2>4. Owns(y) /\ y.ckpt = [rec EXCEPT !.version = @ + 1]
    BY <2>2, <2>3 DEF Owns, OwningSteps
  <2> HIDE DEF y
  <2>5. Wrote(rec) /\ Becomes(p, y)
    BY <1>3 DEF rec, y, z
  <2> QED BY <1>1, <2>1, <2>4, <2>5, WroteClaims, LocalStep
<1> QED BY <1>2, <1>3, SavePendingEffect

LEMMA AppendClaims ==
  ASSUME Local, Claims, NEW p \in Invocations, AppendEvent(p)
  PROVE  Local' /\ Claims'
<1> DEFINE x == ex[p]
<1>1. head' = head /\ x.pc = "append" /\ x \in Executions /\ Fit(x) /\ x.result = "none"
  BY AppendEffect DEF Ready
<1>2. CASE \E y : Becomes(p, y) /\ Quits(x, y)
  BY <1>1, <1>2, LocalStep, KeptClaims DEF KeepsClaim
<1>3. CASE Becomes(p, Moved(Counted(x), "deliver"))
  <2> DEFINE y == Moved(Counted(x), "deliver")
  <2>1. y.ckpt = x.ckpt /\ y.result = "none" /\ y.mode = x.mode /\ y.pc = "deliver"
    BY <1>1 DEF Moved, Counted, Executions
  <2>2. KeepsClaim(x, y)
    BY <1>1, <2>1 DEF KeepsClaim, Owns, OwningSteps
  <2> QED BY <1>1, <1>3, <2>2, LocalStep, KeptClaims
<1> QED BY <1>2, <1>3, AppendEffect

LEMMA DeliverClaims ==
  ASSUME Local, Claims, NEW p \in Invocations, Deliver(p)
  PROVE  Local' /\ Claims'
<1> DEFINE x == ex[p]
           z == Delivered(x)
           w == Emitted(p, x)
<1>1. /\ head' = head /\ x.pc = "deliver" /\ x \in Executions /\ Fit(x) /\ x.result = "none"
      /\ Sound(x) /\ Becomes(p, w)
  BY DeliverEffect DEF Ready
<1>2. z \in Executions /\ Fit(z) /\ z.ckpt = x.ckpt /\ z.result = "none" /\ z.mode = x.mode
  BY <1>1, DeliveredFit
<1>r. Replayed(x) \in Executions /\ Replayed(x).ckpt = x.ckpt /\ Replayed(x).result = "none"
  BY <1>1, ReplayedFit
<1>3. CASE x.mode = "hook" /\ w = Moved(z, "create")
  <2>1. w.ckpt = x.ckpt /\ w.result = "none" /\ w.pc = "create"
    BY <1>2, <1>3 DEF Moved, Executions
  <2> QED BY <2>1, <1>1, LocalStep, KeptClaims DEF KeepsClaim, Owns, OwningSteps
<1>4. CASE x.mode # "hook" /\ Leaves(x, w, "error")
  <2>1. Quits(x, w)
    BY <1>1, <1>4, LeavesQuits DEF OwningSteps
  <2> QED BY <2>1, <1>1, LocalStep, KeptClaims DEF KeepsClaim
<1>5. CASE x.mode # "hook" /\ w.ckpt = x.ckpt /\ w.result = "none"
  <2>1. Owns(x)
    BY <1>1, <1>5 DEF Owns, OwningSteps
  <2>2. KeepsClaim(x, w)
    BY <1>1, <1>5, <2>1, SameKeeps
  <2> QED BY <1>1, <2>2, LocalStep, KeptClaims
<1>6. \/ x.mode = "hook" /\ w = Moved(z, "create")
      \/ x.mode # "hook" /\ Leaves(x, w, "error")
      \/ x.mode # "hook" /\ w.ckpt = x.ckpt /\ w.result = "none"
  <2>1. Ends(p, z, w) => w.ckpt = x.ckpt /\ w.result = "none"
    BY <1>1, <1>2 DEF Ends, SameWork, Becomes, Sound, Placed
  <2>2. /\ Moved(z, "work").ckpt = x.ckpt /\ Moved(z, "work").result = "none"
        /\ Moved(z, "confirm").ckpt = x.ckpt /\ Moved(z, "confirm").result = "none"
        /\ Confirming(z).ckpt = x.ckpt /\ Confirming(z).result = "none"
        /\ Finishing(z).ckpt = x.ckpt /\ Finishing(z).result = "none"
        /\ Finishing(Replayed(x)).ckpt = x.ckpt /\ Finishing(Replayed(x)).result = "none"
        /\ Moved(Replayed(x), "confirm").ckpt = x.ckpt
        /\ Moved(Replayed(x), "confirm").result = "none"
    <3> HIDE DEF z
    <3> QED BY <1>2, <1>r DEF Moved, Confirming, Finishing, Executions
  <2>3. ASSUME NEW e
        PROVE  Saving(z, "start", e).ckpt = x.ckpt /\ Saving(z, "start", e).result = "none"
    <3> HIDE DEF z
    <3> QED BY <1>2 DEF Saving, Executions
  <2> HIDE DEF w
  <2>4. \/ x.mode = "hook" /\ w = Moved(z, "create")
        \/ x.mode = "observe" /\ w = Moved(z, "work")
        \/ x.mode = "nodeFailed" /\ (Leaves(x, w, "error") \/ Ends(p, z, w))
        \/ x.mode = "loaded" /\ w = Saving(z, "start", Stamp(p, z, Start(z)))
        \/ x.mode \in {"start", "step"} /\ w = Moved(z, "confirm")
        \/ x.mode \in BatchModes /\ w = Confirming(z)
        \/ x.mode = "terminal" /\ (Leaves(x, w, "error") \/ w = Finishing(z))
        \/ /\ x.mode = "replay" /\ x.term # "none"
           /\ Leaves(x, w, "error") \/ w = Finishing(Replayed(x))
        \/ /\ x.mode = "replay" /\ x.term = "none"
           /\ w = Moved(Replayed(x), "confirm")
    BY <1>1, EmittedEffect DEF w
  <2> HIDE DEF z
  <2> QED BY <2>1, <2>2, <2>3, <2>4 DEF BatchModes
<1> QED BY <1>3, <1>4, <1>5, <1>6

LEMMA ConfirmClaims ==
  ASSUME Local, Claims, NEW p \in Invocations, Confirm(p)
  PROVE  Local' /\ Claims'
<1> DEFINE x == ex[p]
           rec == Keeping(x, NoEvent, "none")
           z == Saved(x, rec)
           y == Confirmed(p, z)
<1>1. /\ Ready(x) /\ Owns(x) /\ x \in Executions /\ Fit(x) /\ x.mode # "hook"
      /\ x.mode \in ModesAt("confirm") /\ x.result = "none" /\ ~x.sinkFailure
  BY ConfirmEffect, OwnersOwn DEF Ready, Owns
<1>2. CASE head' = head /\ \E w : Becomes(p, w) /\ Fails(p, x, w)
  BY <1>1, <1>2, FailedClaims
<1>3. CASE Wrote(rec) /\ Becomes(p, y)
  <2>1. rec \in Records /\ SameBut(rec, x.ckpt)
    BY <1>1, NoEventType, KeepingEffect
  <2> HIDE DEF rec
  <2>2. /\ z \in Executions /\ z.ckpt = [rec EXCEPT !.version = @ + 1] /\ z.mode = x.mode
        /\ Fit(z) /\ z.result = "none" /\ ~z.sinkFailure
    BY <1>1, <2>1, SavedFit
  <2> HIDE DEF z
  <2>3. \/ y = Moved(z, "work") \/ y = Moved(z, "reconcile")
        \/ z.mode \in BatchModes /\ y = ContinueBatch(p, z, z.mode)
    BY <1>1, <2>2, ConfirmedEffect
  <2>4. z.mode \in BatchModes =>
          LET w == ContinueBatch(p, z, z.mode) IN
          \/ Leaves(z, w, "error")
          \/ w.pc \in OwningSteps /\ w.mode # "hook" /\ w.ckpt = z.ckpt
    <3> SUFFICES ASSUME z.mode \in BatchModes
                 PROVE  LET w == ContinueBatch(p, z, z.mode) IN
                        \/ Leaves(z, w, "error")
                        \/ w.pc \in OwningSteps /\ w.mode # "hook" /\ w.ckpt = z.ckpt
      OBVIOUS
    <3> DEFINE w == ContinueBatch(p, z, z.mode)
               e == BatchEvent(z.progress, z.ints, z.progress.next)
    <3>1. w = Saving(z, z.mode, e) \/ Leaves(z, w, "error") \/ w = Interrupting(z, z.mode)
      BY <2>2, ContinueBatchEffect
    <3> HIDE DEF w, e
    <3> QED BY <1>1, <2>2, <3>1 DEF Saving, Interrupting, Executions, OwningSteps, w
  <2>5. \/ Leaves(z, y, "error")
        \/ y.pc \in OwningSteps /\ y.mode # "hook" /\ y.ckpt = z.ckpt
    <3> HIDE DEF y
    <3> QED BY <1>1, <2>2, <2>3, <2>4 DEF Moved, Executions, OwningSteps
  <2> HIDE DEF y
  <2>6. \/ Owns(y) /\ y.ckpt = [rec EXCEPT !.version = @ + 1]
        \/ y.pc \in {"end", "crashed"} /\ y.ckpt = [Absent EXCEPT !.claim = x.ckpt.claim]
    BY <1>1, <2>1, <2>2, <2>5, SavedLeaves
  <2>7. Wrote(rec) /\ Becomes(p, y)
    BY <1>3 DEF rec, y, z
  <2> QED BY <1>1, <2>1, <2>6, <2>7, WroteClaims, LocalStep
<1> QED BY <1>2, <1>3, ConfirmEffect

LEMMA ReconciledGoesOn ==
  ASSUME NEW p \in Invocations, NEW z \in Executions, Fit(z), z.result = "none", ~z.sinkFailure
  PROVE  LET w == Reconciled(p, z) IN
         \/ Leaves(z, w, "error")
         \/ w.pc \in OwningSteps /\ w.mode # "hook" /\ w.ckpt = z.ckpt /\ w.result = "none"
<1> DEFINE w == Reconciled(p, z)
           e == BatchEvent(z.progress, z.ints, z.progress.next)
           f == Stamp(p, z, "loaded")
<1>1. \/ w = ContinueBatch(p, z, "restoreInterrupt")
      \/ Leaves(z, w, "error")
      \/ w = Appending(z, "loaded", f)
  BY ReconciledEffect
<1>2. LET v == ContinueBatch(p, z, "restoreInterrupt") IN
      \/ v = Saving(z, "restoreInterrupt", e)
      \/ Leaves(z, v, "error")
      \/ v = Interrupting(z, "restoreInterrupt")
  BY ContinueBatchEffect DEF BatchModes
<1>3. \/ w = Saving(z, "restoreInterrupt", e)
      \/ w = Interrupting(z, "restoreInterrupt")
      \/ w = Appending(z, "loaded", f)
      \/ Leaves(z, w, "error")
  BY <1>1, <1>2
<1> HIDE DEF w, e, f
<1> QED BY <1>3 DEF Saving, Interrupting, Appending, Executions, OwningSteps, w

LEMMA InterruptClaims ==
  ASSUME Local, Claims, NEW p \in Invocations, InterruptCheckpoint(p)
  PROVE  Local' /\ Claims'
<1> DEFINE x == ex[p]
           s == Suspended(x)
           rec == Closing(s, "interrupted")
           z == Saved(s, rec)
<1>1. /\ Ready(x) /\ Owns(x) /\ x \in Executions /\ Fit(x) /\ x.mode # "hook"
      /\ x.result = "none" /\ ~x.sinkFailure
  BY InterruptEffect, OwnersOwn DEF Ready, Owns
<1>2. CASE head' = head /\ \E w : Becomes(p, w) /\ Fails(p, x, w)
  BY <1>1, <1>2, FailedClaims
<1>3. CASE /\ Wrote(rec)
           /\ \E y : Becomes(p, y) /\ (Leaves(z, y, "interrupted") \/ Ends(p, z, y))
  <2> PICK y : Becomes(p, y) /\ (Leaves(z, y, "interrupted") \/ Ends(p, z, y))
    BY <1>3
  <2>0. Wrote(rec)
    BY <1>3
  <2>1. s \in Executions /\ Fit(s) /\ s.ckpt = x.ckpt /\ s.mode = x.mode
    BY <1>1, SuspendedFit
  <2> HIDE DEF s
  <2>2. rec \in Records /\ SameBut(rec, s.ckpt)
    BY <2>1, ClosingEffect DEF Statuses
  <2> HIDE DEF rec
  <2>3. z \in Executions /\ z.ckpt = [rec EXCEPT !.version = @ + 1] /\ z.mode = x.mode
    BY <1>1, <2>1, <2>2, SavedFit
  <2> HIDE DEF z
  <2>4. Ends(p, z, y) => y.pc \in OwningSteps /\ y.mode # "hook" /\ y.ckpt = z.ckpt
    BY DEF Ends, SameWork, OwningSteps
  <2>5. \/ Owns(y) /\ y.ckpt = [rec EXCEPT !.version = @ + 1]
        \/ y.pc \in {"end", "crashed"} /\ y.ckpt = [Absent EXCEPT !.claim = x.ckpt.claim]
    BY <1>1, <2>1, <2>2, <2>3, <2>4, SavedLeaves
  <2> QED BY <1>1, <2>0, <2>1, <2>2, <2>5, WroteClaims, LocalStep
<1> QED BY <1>2, <1>3, InterruptEffect

LEMMA FinishClaims ==
  ASSUME Local, Claims, NEW p \in Invocations, FinishCheckpoint(p)
  PROVE  Local' /\ Claims'
<1> DEFINE x == ex[p]
           rec == Closing(x, x.term)
<1>1. Ready(x) /\ Owns(x) /\ x \in Executions /\ ~x.sinkFailure /\ x.mode # "hook"
  BY FinishEffect, OwnersOwn DEF Ready, Owns
<1>2. CASE head' = head /\ \E w : Becomes(p, w) /\ Quits(x, w)
  BY <1>2, KeptClaims, LocalStep DEF KeepsClaim
<1>3. CASE /\ Wrote(rec) /\ x.term \in TerminalStatuses
           /\ \E y : /\ Becomes(p, y) /\ y.pc = "end"
                     /\ Leaves(x, y, x.term) \/ Leaves(x, y, "error")
  <2> PICK y : /\ Becomes(p, y) /\ y.pc = "end"
               /\ Leaves(x, y, x.term) \/ Leaves(x, y, "error")
    BY <1>3
  <2>1. SameBut(rec, x.ckpt)
    BY <1>1, <1>3, ClosingEffect DEF Statuses
  <2>2. y.pc = "end" /\ y.ckpt = [Absent EXCEPT !.claim = x.ckpt.claim]
    BY DEF Leaves
  <2> HIDE DEF rec
  <2>3. Wrote(rec)
    BY <1>3 DEF rec
  <2> QED BY <1>1, <2>1, <2>2, <2>3, WroteClaims, LocalStep
<1> QED BY <1>2, <1>3, FinishEffect

LEMMA RedeliverClaims ==
  ASSUME Local, Claims, NEW p \in Invocations, NEW k \in 0..PageSize, Redeliver(p, k)
  PROVE  Local' /\ Claims'
<1> DEFINE x == ex[p]
           n == Cardinality(Page(x))
<1>1. /\ Ready(x) /\ Owns(x) /\ x \in Executions /\ ~x.sinkFailure /\ x.mode # "hook"
      /\ head' = head /\ Fit(x) /\ x.result = "none" /\ x.pc = "reconcile"
  BY RedeliverEffect, OwnersOwn DEF Ready, Owns
<1>2. CASE \E y : Becomes(p, y) /\ Quits(x, y)
  BY <1>1, <1>2, KeptClaims, LocalStep DEF KeepsClaim
<1>3. CASE Becomes(p, Reconciled(p, x))
  <2> DEFINE w == Reconciled(p, x)
  <2>1. \/ Leaves(x, w, "error")
        \/ w.pc \in OwningSteps /\ w.mode # "hook" /\ w.ckpt = x.ckpt /\ w.result = "none"
    BY <1>1, ReconciledGoesOn
  <2> HIDE DEF w
  <2>2. KeepsClaim(x, w)
    BY <1>1, <2>1, LeavesQuits, SameKeeps DEF KeepsClaim, OwningSteps
  <2> QED BY <1>1, <1>3, <2>2, KeptClaims, LocalStep DEF w
<1>4. CASE Becomes(p, Moved(Advancing(x, k, n), "saveCursor"))
  <2> DEFINE z == Advancing(x, k, n)
             w == Moved(z, "saveCursor")
  <2>1. z \in Executions /\ z.ckpt = x.ckpt /\ z.result = "none"
    <3> HIDE DEF n
    <3> QED BY <1>1, RunAssumption, AdvancingFit
  <2> HIDE DEF z
  <2>2. w.ckpt = x.ckpt /\ w.result = "none"
    BY <2>1 DEF Moved, Executions
  <2> HIDE DEF w
  <2>3. KeepsClaim(x, w)
    BY <1>1, <2>2, SameKeeps
  <2> QED BY <1>1, <1>4, <2>3, KeptClaims, LocalStep DEF w, z
<1> QED BY <1>2, <1>3, <1>4, RedeliverEffect

LEMMA SaveCursorClaims ==
  ASSUME Local, Claims, NEW p \in Invocations, SaveCursor(p)
  PROVE  Local' /\ Claims'
<1> DEFINE x == ex[p]
           rec == Keeping(x, NoEvent, "none")
           z == Saved(x, rec)
           y == IF x.more THEN Moved(z, "reconcile") ELSE Reconciled(p, z)
<1>1. /\ Ready(x) /\ Owns(x) /\ x \in Executions /\ Fit(x) /\ x.mode # "hook"
      /\ x.result = "none" /\ ~x.sinkFailure
  BY SaveCursorEffect, OwnersOwn DEF Ready, Owns
<1>2. CASE head' = head /\ \E w : Becomes(p, w) /\ Fails(p, x, w)
  BY <1>1, <1>2, FailedClaims
<1>3. CASE Wrote(rec) /\ Becomes(p, y)
  <2>1. rec \in Records /\ SameBut(rec, x.ckpt)
    BY <1>1, NoEventType, KeepingEffect
  <2> HIDE DEF rec
  <2>2. /\ z \in Executions /\ z.ckpt = [rec EXCEPT !.version = @ + 1] /\ z.mode = x.mode
        /\ Fit(z) /\ z.result = "none" /\ ~z.sinkFailure
    BY <1>1, <2>1, SavedFit
  <2> HIDE DEF z
  <2>3. Moved(z, "reconcile").pc = "reconcile" /\ Moved(z, "reconcile").ckpt = z.ckpt
        /\ Moved(z, "reconcile").mode = z.mode
    BY <2>2 DEF Moved, Executions
  <2>4. \/ Leaves(z, y, "error")
        \/ y.pc \in OwningSteps /\ y.mode # "hook" /\ y.ckpt = z.ckpt
    BY <1>1, <2>2, <2>3, ReconciledGoesOn DEF OwningSteps
  <2> HIDE DEF y
  <2>6. \/ Owns(y) /\ y.ckpt = [rec EXCEPT !.version = @ + 1]
        \/ y.pc \in {"end", "crashed"} /\ y.ckpt = [Absent EXCEPT !.claim = x.ckpt.claim]
    BY <1>1, <2>1, <2>2, <2>4, SavedLeaves
  <2>7. Wrote(rec) /\ Becomes(p, y)
    BY <1>3 DEF rec, y, z
  <2> QED BY <1>1, <2>1, <2>6, <2>7, WroteClaims, LocalStep
<1> QED BY <1>2, <1>3, SaveCursorEffect

LEMMA ReleaseClaims ==
  ASSUME Local, Claims, NEW p \in Invocations, ReleaseLease(p)
  PROVE  Local' /\ Claims'
<1> DEFINE x == ex[p]
           rec == Released(x.ckpt)
           y == Over(x, "end", "error")
<1>1. x.pc = "release" /\ x \in Executions /\ Sound(x) /\ Becomes(p, y) /\ Quits(x, y)
  BY ReleaseEffect
<1>2. CASE head' = head
  BY <1>1, <1>2, KeptClaims, LocalStep DEF KeepsClaim
<1>3. CASE Wrote(rec) /\ x.ckpt.version > 0 /\ SameBut(rec, x.ckpt)
  <2>1. x.mode # "hook"
    BY <1>1, <1>3, NewIsSound DEF Sound, Fit, Absent
  <2>2. Owns(x)
    BY <1>1, <2>1 DEF Owns, OwningSteps
  <2>3. y.pc = "end" /\ y.ckpt = [Absent EXCEPT !.claim = x.ckpt.claim]
    BY <1>1, OverEffect DEF Results
  <2> HIDE DEF y, rec
  <2>4. Wrote(rec) /\ SameBut(rec, x.ckpt)
    BY <1>3 DEF rec
  <2> QED BY <1>1, <2>2, <2>3, <2>4, WroteClaims, LocalStep
<1> QED BY <1>2, <1>3, ReleaseEffect

LEMMA WorkClaims ==
  ASSUME Local, Claims, NEW p \in Invocations, ex[p].pc = "work",
         \/ StartNode(p) \/ EmitCustom(p) \/ CommitActivation(p)
         \/ \E ids \in SUBSET InterruptIDs : Interrupt(p, ids)
         \/ NodeFails(p) \/ WorkFails(p) \/ Complete(p)
  PROVE  Local' /\ Claims'
<1> DEFINE x == ex[p]
<1>1. Ready(x) /\ Owns(x) /\ x \in Executions /\ Fit(x) /\ x.result = "none" /\ head' = head
  BY WorkEffect, OwnersOwn DEF Ready
<1>2. PICK y : /\ Becomes(p, y)
               /\ \/ Quits(x, y)
                  \/ Ends(p, x, y)
                  \/ y = Saving(Starting(x), "step", Stamp(p, x, "nodeStarted"))
                  \/ y = Appending(x, "observe", Stamp(p, x, "custom"))
                  \/ y = Saving(Completing(x), "step", Stamp(p, x, "nodeCompleted"))
                  \/ \E ids \in SUBSET InterruptIDs :
                       y = Saving(Raising(x, p, ids), "interrupt",
                                  BatchEvent(Raising(x, p, ids).progress, ids, 0))
                  \/ y = Appending(Failing(x), "nodeFailed", Stamp(p, x, "nodeFailed"))
  BY WorkEffect
<1>3. CASE Quits(x, y)
  BY <1>1, <1>2, <1>3, KeptClaims, LocalStep DEF KeepsClaim
<1>4. CASE Ends(p, x, y)
  BY <1>1, <1>2, <1>4, FailsKeeps, KeptClaims, LocalStep DEF Becomes
<1>5. CASE y.ckpt = x.ckpt /\ y.result = "none"
  BY <1>1, <1>2, <1>5, SameKeeps, KeptClaims, LocalStep
<1>6. ASSUME NEW ids, NEW e, NEW mode
      PROVE  /\ Saving(Starting(x), mode, e).ckpt = x.ckpt
             /\ Saving(Starting(x), mode, e).result = "none"
             /\ Saving(Completing(x), mode, e).ckpt = x.ckpt
             /\ Saving(Completing(x), mode, e).result = "none"
             /\ Saving(Raising(x, p, ids), mode, e).ckpt = x.ckpt
             /\ Saving(Raising(x, p, ids), mode, e).result = "none"
             /\ Appending(x, mode, e).ckpt = x.ckpt
             /\ Appending(x, mode, e).result = "none"
             /\ Appending(Failing(x), mode, e).ckpt = x.ckpt
             /\ Appending(Failing(x), mode, e).result = "none"
  BY <1>1 DEF Saving, Appending, Starting, Completing, Raising, Failing, Executions
<1> QED BY <1>2, <1>3, <1>4, <1>5, <1>6

LEMMA NotifiedClaims ==
  ASSUME Local, Claims, NEW p \in Invocations, ex[p].pc # "idle", head' = head,
         NEW y, Becomes(p, y), Notified(ex[p], y)
  PROVE  Local' /\ Claims'
<1> DEFINE x == ex[p]
<1>1. x \in Executions
  BY DEF Local
<1>2. y.ckpt = x.ckpt /\ y.result = x.result /\ y.mode = x.mode /\ y.pc = x.pc
  BY <1>1 DEF Notified, Executions
<1>3. KeepsClaim(x, y)
  BY <1>2 DEF KeepsClaim, Owns
<1> QED BY <1>3, KeptClaims, LocalStep

LEMMA StoreFaultClaims ==
  ASSUME Local, Claims, NEW p \in Invocations, StoreFault(p)
  PROVE  Local' /\ Claims'
<1> DEFINE x == ex[p]
<1>1. PICK y : Becomes(p, y) /\ (Quits(x, y) \/ (Ready(x) /\ Fails(p, x, y)))
  BY StoreFaultEffect
<1>2. head' = head
  BY StoreFaultEffect
<1>3. KeepsClaim(x, y)
  <2>1. CASE Quits(x, y)
    BY <2>1 DEF KeepsClaim
  <2>2. CASE Ready(x) /\ Fails(p, x, y) /\ ~Quits(x, y)
    <3>1. x.mode \in Handled
      BY <2>2 DEF Fails
    <3>2. Owns(x) /\ x \in Executions /\ Sound(y)
      BY <1>1, <2>2, <3>1 DEF Ready, Handled, ModesAt, Executions, AllSteps, Owns, Becomes
    <3> QED BY <2>2, <3>2, FailsKeeps
  <2> QED BY <1>1, <2>1, <2>2
<1> QED BY <1>1, <1>2, <1>3, KeptClaims, LocalStep

LEMMA SinkRefusesClaims ==
  ASSUME Local, Claims, NEW p \in Invocations, SinkRefuses(p)
  PROVE  Local' /\ Claims'
<1>1. PICK y : Becomes(p, y) /\ Quits(ex[p], y)
  BY SinkRefusesEffect
<1> QED BY <1>1, SinkRefusesEffect, KeptClaims, LocalStep DEF KeepsClaim

LEMMA CrashClaims ==
  ASSUME Local, Claims, NEW p \in Invocations, Crash(p)
  PROVE  Local' /\ Claims'
<1>1. PICK y : Becomes(p, y) /\ Quits(ex[p], y)
  BY CrashEffect
<1> QED BY <1>1, CrashEffect, KeptClaims, LocalStep DEF KeepsClaim

LEMMA HeartbeatClaims ==
  ASSUME Local, Claims, NEW p \in Invocations, NEW faulty, HeartbeatFails(p, faulty)
  PROVE  Local' /\ Claims'
<1>1. PICK y : Becomes(p, y) /\ Notified(ex[p], y)
  BY HeartbeatEffect
<1> QED BY <1>1, HeartbeatEffect, NotifiedClaims DEF Active

LEMMA CancelClaims ==
  ASSUME Local, Claims, NEW p \in Invocations, NEW why \in CancelCauses, CancelRun(p, why)
  PROVE  Local' /\ Claims'
<1>1. PICK y : Becomes(p, y) /\ Notified(ex[p], y)
  BY CancelEffect
<1> QED BY <1>1, CancelEffect, NotifiedClaims DEF Active

LEMMA StepClaims ==
  ASSUME Local, Claims, NEW p \in Invocations, Step(p)
  PROVE  Local' /\ Claims'
<1>1. CASE Create(p)
  BY <1>1, CreateClaims
<1>2. CASE \E res \in Resolutions : Claim(p, res)
  BY <1>2, ClaimClaims
<1>3. CASE SavePending(p)
  BY <1>3, SavePendingClaims
<1>4. CASE AppendEvent(p)
  BY <1>4, AppendClaims
<1>5. CASE Deliver(p)
  BY <1>5, DeliverClaims
<1>6. CASE Confirm(p)
  BY <1>6, ConfirmClaims
<1>7. CASE InterruptCheckpoint(p)
  BY <1>7, InterruptClaims
<1>8. CASE FinishCheckpoint(p)
  BY <1>8, FinishClaims
<1>9. CASE \E k \in 0..PageSize : Redeliver(p, k)
  BY <1>9, RedeliverClaims
<1>10. CASE SaveCursor(p)
  BY <1>10, SaveCursorClaims
<1>11. CASE ReleaseLease(p)
  BY <1>11, ReleaseClaims
<1>12. CASE \/ StartNode(p) \/ EmitCustom(p) \/ CommitActivation(p)
            \/ \E ids \in SUBSET InterruptIDs : Interrupt(p, ids)
            \/ NodeFails(p) \/ WorkFails(p) \/ Complete(p)
  <2>1. ex[p].pc = "work"
    BY <1>12 DEF StartNode, EmitCustom, CommitActivation, Interrupt, NodeFails, WorkFails,
                 Complete, Works, At
  <2> QED BY <1>12, <2>1, WorkClaims
<1> QED BY <1>1, <1>2, <1>3, <1>4, <1>5, <1>6, <1>7, <1>8, <1>9, <1>10, <1>11, <1>12 DEF Step

LEMMA NextClaims ==
  ASSUME Local, Claims, [Next]_vars
  PROVE  Local' /\ Claims'
<1>1. CASE UNCHANGED vars
  BY <1>1 DEF vars, Local, Claims
<1>2. CASE Expire
  BY <1>2, ExpireClaims
<1>3. ASSUME NEW p \in Invocations,
             \/ Hook(p) \/ Load(p) \/ Step(p)
             \/ \E faulty \in BOOLEAN : HeartbeatFails(p, faulty)
             \/ StoreFault(p) \/ SinkRefuses(p)
             \/ \E why \in CancelCauses : CancelRun(p, why)
             \/ Crash(p)
      PROVE  Local' /\ Claims'
  <2>1. CASE Hook(p)
    BY <2>1, HookClaims
  <2>2. CASE Load(p)
    BY <2>2, LoadClaims
  <2>3. CASE Step(p)
    BY <2>3, StepClaims
  <2>4. CASE \E faulty \in BOOLEAN : HeartbeatFails(p, faulty)
    BY <2>4, HeartbeatClaims
  <2>5. CASE StoreFault(p)
    BY <2>5, StoreFaultClaims
  <2>6. CASE SinkRefuses(p)
    BY <2>6, SinkRefusesClaims
  <2>7. CASE \E why \in CancelCauses : CancelRun(p, why)
    BY <2>7, CancelClaims
  <2>8. CASE Crash(p)
    BY <2>8, CrashClaims
  <2> QED BY <1>3, <2>1, <2>2, <2>3, <2>4, <2>5, <2>6, <2>7, <2>8
<1> QED BY <1>1, <1>2, <1>3 DEF Next

-----------------------------------------------------------------------------
(* The fence.  Only the event of a BeforeWorkflow hook is appended without  *)
(* one, and by the time there is a checkpoint its sequence is taken.        *)

HookPlaced(x, j) ==
  x.mode = "hook" => /\ x.pc = "append" => x.ev.seq = 1
                     /\ x.pc \in {"deliver", "create"} => 1 \in DOMAIN j

HooksComeFirst ==
  /\ journal = [s \in DOMAIN journal |-> journal[s]]
  /\ HookEvents /\ Exists(head) => 1 \in DOMAIN journal
  /\ \A p \in Invocations : HookPlaced(ex[p], journal)

(* A step of p neither breaks that order nor goes past the fence.           *)
StaysBehindFence(p) ==
  /\ \E y : Becomes(p, y) /\ HookPlaced(y, journal')
  /\ journal' = journal \/ \E e : journal' = Journaled(e)
  /\ HookEvents /\ Exists(head') => 1 \in DOMAIN journal'
  /\ \/ UNCHANGED <<head, journal>>
     \/ ex[p].pc \in {"idle", "claim"}
     \/ ~(ClaimOf(p) < head.claim)

(* What is left of a hook once its event is out.                            *)
LEMMA UnhookedSteps ==
  ASSUME NEW p, NEW x \in Executions, NEW y, NEW j
  PROVE  /\ Quits(x, y) => HookPlaced(y, j)
         /\ \A result : Leaves(x, y, result) => HookPlaced(y, j)
         /\ Fails(p, x, y) \/ Ends(p, x, y) => HookPlaced(y, j)
         /\ y.mode # "hook" => HookPlaced(y, j)
         /\ y.pc \notin {"append", "deliver", "create"} => HookPlaced(y, j)
<1>1. Quits(x, y) => HookPlaced(y, j)
  BY DEF Quits, HookPlaced
<1>2. ASSUME NEW result, Leaves(x, y, result)
      PROVE  HookPlaced(y, j)
  BY <1>2 DEF Leaves, HookPlaced
<1>3. Ends(p, x, y) => HookPlaced(y, j)
  BY DEF Ends, HookPlaced
<1> QED BY <1>1, <1>2, <1>3 DEF Fails, HookPlaced

LEMMA InitHooks == Init => HooksComeFirst
BY DEF Init, HooksComeFirst, HookPlaced, NewExecution, Exists, Absent

(* Writes keep the run in existence and are made by the claim's holder.     *)
LEMMA WritesAreFenced ==
  ASSUME Local, Claims, HooksComeFirst, NEW p \in Invocations, ex[p].pc # "idle",
         NEW rec, Wrote(rec), SameBut(rec, ex[p].ckpt), journal' = journal,
         NEW y, Becomes(p, y), HookPlaced(y, journal)
  PROVE  StaysBehindFence(p)
<1>1. Exists(head) /\ ClaimOf(p) = head.claim
  BY DEF Wrote, SameBut, ClaimOf
<1>2. head.claim \in Nat
  BY DEF Claims, Claimable, Records
<1> QED BY <1>1, <1>2 DEF StaysBehindFence, HooksComeFirst

LEMMA IdleSteps ==
  ASSUME HooksComeFirst, NEW p \in Invocations, UNCHANGED <<head, journal>>,
         NEW y, Becomes(p, y), HookPlaced(y, journal)
  PROVE  StaysBehindFence(p)
BY DEF StaysBehindFence, HooksComeFirst

LEMMA CreateIsFenced ==
  ASSUME Local, Claims, HooksComeFirst, NEW p \in Invocations, Create(p)
  PROVE  StaysBehindFence(p)
<1> DEFINE x == ex[p]
           z == [x EXCEPT !.ckpt = NewRecord(p), !.heartbeat = "on"]
           y == Saving(z, "start", Stamp(p, x, Start(x)))
<1>1. x \in Executions /\ x.mode \in ModesAt(x.pc)
  BY DEF Local, Sound, Placed
<1>2. CASE /\ head' = head /\ journal' = journal
           /\ \E w : Becomes(p, w) /\ Quits(x, w)
  BY <1>1, <1>2, UnhookedSteps, IdleSteps
<1>3. CASE /\ ~Exists(head) /\ head' = NewRecord(p) /\ journal' = journal
           /\ Becomes(p, y)
  <2>1. y.mode = "start"
    BY <1>1 DEF Saving, Executions
  <2>2. HookPlaced(y, journal)
    BY <2>1 DEF HookPlaced
  <2>3. HookEvents => 1 \in DOMAIN journal
    <3>1. HookEvents => x.pc = "create"
      BY CreateEffect
    <3> QED BY <1>1, <3>1 DEF HooksComeFirst, HookPlaced, ModesAt
  <2>4. head.claim = 0 /\ ClaimOf(p) \in Nat
    BY <1>1, <1>3 DEF Claims, Claimable, Exists, Records, Executions, ClaimOf
  <2> HIDE DEF y
  <2> QED BY <1>3, <2>2, <2>3, <2>4 DEF StaysBehindFence
<1> QED BY <1>2, <1>3, CreateEffect

LEMMA HookIsFenced ==
  ASSUME Local, Claims, HooksComeFirst, NEW p \in Invocations, Hook(p)
  PROVE  StaysBehindFence(p)
<1> DEFINE x == ex[p]
           y == Appending(x, "hook", Stamp(p, x, "hook"))
<1>1. /\ UNCHANGED <<head, journal>> /\ Becomes(p, y)
      /\ x.pc = "idle"
  BY HookEffect
<1>2. x = NewExecution /\ x \in Executions
  BY <1>1 DEF Local, Sound, Placed
<1>3. y.pc = "append" /\ y.ev.seq = 1
  BY <1>2 DEF Appending, Stamp, NewExecution
<1> HIDE DEF y
<1> QED BY <1>1, <1>3, IdleSteps DEF HookPlaced

LEMMA LoadIsFenced ==
  ASSUME Local, Claims, HooksComeFirst, NEW p \in Invocations, Load(p)
  PROVE  StaysBehindFence(p)
<1>1. PICK y : Becomes(p, y) /\ (Quits(ex[p], y) \/ y = Loading(ex[p]))
  BY LoadEffect DEF Claims, Claimable
<1>2. ex[p] \in Executions /\ UNCHANGED <<head, journal>>
  BY LoadEffect DEF Local, Claims, Claimable
<1>3. y = Loading(ex[p]) => y.pc = "claim"
  BY <1>2 DEF Loading, Executions
<1>4. HookPlaced(y, journal)
  BY <1>1, <1>2, <1>3, UnhookedSteps DEF HookPlaced
<1> QED BY <1>1, <1>2, <1>4, IdleSteps

LEMMA ClaimIsFenced ==
  ASSUME Local, Claims, HooksComeFirst, NEW p \in Invocations, NEW res \in Resolutions,
         Claim(p, res)
  PROVE  StaysBehindFence(p)
<1> DEFINE x == ex[p]
           rec == Candidate(p, x.ckpt, res)
           z == Claiming(x, rec)
           w == Restored(p, z)
<1>1. x \in Executions /\ x.pc = "claim" /\ journal' = journal
  BY ClaimEffect DEF Local, Claims, Claimable
<1>2. CASE head' = head /\ \E y : Becomes(p, y) /\ Quits(x, y)
  BY <1>1, <1>2, UnhookedSteps, IdleSteps
<1>3. CASE /\ Exists(head)
           /\ z \in Executions /\ Fit(z) /\ z.result = "none" /\ ~z.sinkFailure
           /\ z.mode = "none" /\ Becomes(p, w)
  <2>1. HookPlaced(w, journal)
    <3> HIDE DEF z
    <3>1. \/ Leaves(z, w, "error")
          \/ w = Moved(Resumed(z), "reconcile")
          \/ w = Replaying(Resumed(z))
      BY <1>3, RestoredEffect
    <3>2. Resumed(z) \in Executions
      BY <1>3, ResumedFit
    <3>3. /\ Moved(Resumed(z), "reconcile").pc = "reconcile"
          /\ Replaying(Resumed(z)).mode = "replay"
      BY <3>2 DEF Moved, Replaying, Executions
    <3> HIDE DEF w
    <3> QED BY <1>3, <3>1, <3>3, UnhookedSteps DEF HookPlaced
  <2> HIDE DEF w
  <2> QED BY <1>1, <1>3, <2>1 DEF StaysBehindFence, HooksComeFirst
<1> QED BY <1>2, <1>3, ClaimEffect DEF Claims, Claimable

LEMMA SavePendingIsFenced ==
  ASSUME Local, Claims, HooksComeFirst, NEW p \in Invocations, SavePending(p)
  PROVE  StaysBehindFence(p)
<1> DEFINE x == ex[p]
           rec == Keeping(x, x.ev, PendingTerm(x))
           y == Moved(Saved(x, rec), "append")
<1>1. /\ x.pc = "savePending" /\ journal' = journal /\ x \in Executions /\ Fit(x)
      /\ x.mode \in CommitModes /\ x.ev \in Events /\ PendingTerm(x) \in Terms
  BY SavePendingEffect DEF Ready, ModesAt, Executions, PendingTerm, Terms
<1>2. CASE head' = head /\ \E w : Becomes(p, w) /\ Fails(p, x, w)
  BY <1>1, <1>2, UnhookedSteps, IdleSteps
<1>3. CASE Wrote(rec) /\ Becomes(p, y)
  <2>1. rec \in Records /\ SameBut(rec, x.ckpt)
    BY <1>1, KeepingEffect
  <2> HIDE DEF rec
  <2>2. y.mode # "hook"
    BY <1>1 DEF CommitModes, Moved, Saved, Executions
  <2> HIDE DEF y
  <2>3. HookPlaced(y, journal)
    BY <2>2 DEF HookPlaced
  <2> QED BY <1>1, <1>3, <2>1, <2>3, WritesAreFenced
<1> QED BY <1>2, <1>3, SavePendingEffect

LEMMA AppendIsFenced ==
  ASSUME Local, Claims, HooksComeFirst, NEW p \in Invocations, AppendEvent(p)
  PROVE  StaysBehindFence(p)
<1> DEFINE x == ex[p]
           y == Moved(Counted(x), "deliver")
<1>1. x.pc = "append" /\ head' = head /\ x \in Executions /\ HookPlaced(x, journal)
  BY AppendEffect DEF Ready, HooksComeFirst
<1>2. CASE journal' = journal /\ \E w : Becomes(p, w) /\ Quits(x, w)
  BY <1>1, <1>2, UnhookedSteps, IdleSteps
<1>3. CASE Fenced(x) /\ Accepts(x.ev) /\ journal' = Journaled(x.ev) /\ Becomes(p, y)
  <2>1. DOMAIN journal' = DOMAIN journal \cup {x.ev.seq}
    BY <1>3 DEF Journaled
  <2>2. y.mode = x.mode
    BY <1>1 DEF Moved, Counted, Executions
  <2>3. HookPlaced(y, journal')
    BY <1>1, <2>1, <2>2 DEF HookPlaced, Moved, Counted, Executions
  <2>4. \/ journal' = journal
        \/ ~(ClaimOf(p) < head.claim)
    <3>1. CASE x.mode = "hook" /\ Exists(head)
      <4>1. x.ev.seq \in DOMAIN journal
        BY <1>1, <3>1 DEF HookPlaced, HooksComeFirst, Sound, Fit, Local
      <4>2. Journaled(x.ev) = [s \in DOMAIN journal |-> journal[s]]
        BY <1>3, <4>1 DEF Journaled, Accepts
      <4> QED BY <1>3, <4>2 DEF HooksComeFirst
    <3>2. CASE ~Exists(head)
      <4>1. head.claim = 0 /\ ClaimOf(p) \in Nat
        BY <1>1, <3>2 DEF Claims, Claimable, Exists, Records, Executions, ClaimOf
      <4> QED BY <4>1
    <3>3. CASE x.mode # "hook"
      <4>1. ClaimOf(p) = head.claim /\ ClaimOf(p) \in Nat
        BY <1>1, <1>3, <3>3 DEF Fenced, FenceOutcome, ClaimOf, Executions, Records
      <4> QED BY <4>1
    <3> QED BY <3>1, <3>2, <3>3
  <2> HIDE DEF y
  <2> QED BY <1>1, <1>3, <2>1, <2>3, <2>4 DEF StaysBehindFence, HooksComeFirst
<1> QED BY <1>2, <1>3, AppendEffect

LEMMA DeliverIsFenced ==
  ASSUME Local, Claims, HooksComeFirst, NEW p \in Invocations, Deliver(p)
  PROVE  StaysBehindFence(p)
<1> DEFINE x == ex[p]
           y == Delivered(x)
           w == Emitted(p, x)
<1>1. /\ x.pc = "deliver" /\ UNCHANGED <<head, journal>> /\ x \in Executions /\ Sound(x)
      /\ Fit(x) /\ Becomes(p, w) /\ HookPlaced(x, journal)
  BY DeliverEffect DEF Ready, HooksComeFirst
<1>2. /\ y \in Executions /\ y.mode = x.mode
      /\ Replayed(x) \in Executions /\ Replayed(x).mode = x.mode
  BY <1>1, DeliveredFit, ReplayedFit
<1>3. \/ x.mode = "hook" /\ w = Moved(y, "create")
      \/ x.mode = "observe" /\ w = Moved(y, "work")
      \/ x.mode = "nodeFailed" /\ (Leaves(x, w, "error") \/ Ends(p, y, w))
      \/ x.mode = "loaded" /\ w = Saving(y, "start", Stamp(p, y, Start(y)))
      \/ x.mode \in {"start", "step"} /\ w = Moved(y, "confirm")
      \/ x.mode \in BatchModes /\ w = Confirming(y)
      \/ x.mode = "terminal" /\ (Leaves(x, w, "error") \/ w = Finishing(y))
      \/ /\ x.mode = "replay" /\ x.term # "none"
         /\ Leaves(x, w, "error") \/ w = Finishing(Replayed(x))
      \/ /\ x.mode = "replay" /\ x.term = "none"
         /\ w = Moved(Replayed(x), "confirm")
  BY <1>1, EmittedEffect
<1>4. HookPlaced(w, journal)
  <2> HIDE DEF y, w
  <2>1. CASE x.mode = "hook"
    <3>1. w = Moved(y, "create")
      BY <1>3, <2>1 DEF BatchModes
    <3>2. w.pc = "create"
      BY <1>2, <3>1 DEF Moved, Executions
    <3> QED BY <1>1, <2>1, <3>2 DEF HookPlaced
  <2>2. CASE Leaves(x, w, "error") \/ Ends(p, y, w)
    BY <1>1, <1>2, <2>2, UnhookedSteps
  <2>3. CASE w.pc \notin {"append", "deliver", "create"}
    BY <2>3 DEF HookPlaced
  <2>4. ASSUME NEW z \in {y, Replayed(x)}, NEW pc
        PROVE  /\ Moved(z, pc).pc = pc /\ Finishing(z).pc = "finish"
               /\ Confirming(z).pc = "confirm"
               /\ Saving(z, "start", Stamp(p, y, Start(y))).pc = "savePending"
    BY <1>2, <2>4 DEF Moved, Finishing, Confirming, Saving, Executions
  <2>5. \/ x.mode = "hook"
        \/ Leaves(x, w, "error") \/ Ends(p, y, w)
        \/ w.pc \notin {"append", "deliver", "create"}
    BY <1>3, <2>4
  <2> QED BY <2>1, <2>2, <2>3, <2>5
<1> QED BY <1>1, <1>4, IdleSteps

LEMMA ConfirmIsFenced ==
  ASSUME Local, Claims, HooksComeFirst, NEW p \in Invocations, Confirm(p)
  PROVE  StaysBehindFence(p)
<1> DEFINE x == ex[p]
           rec == Keeping(x, NoEvent, "none")
           z == Saved(x, rec)
           w == Confirmed(p, z)
<1>1. /\ x.pc = "confirm" /\ Ready(x) /\ journal' = journal /\ x \in Executions /\ Fit(x)
      /\ x.mode \in ModesAt("confirm") /\ x.mode # "hook"
  BY ConfirmEffect DEF Ready, ModesAt, CommitModes
<1>2. CASE head' = head /\ \E y : Becomes(p, y) /\ Fails(p, x, y)
  BY <1>1, <1>2, UnhookedSteps, IdleSteps
<1>3. CASE Wrote(rec) /\ Becomes(p, w)
  <2>1. rec \in Records /\ SameBut(rec, x.ckpt)
    BY <1>1, NoEventType, KeepingEffect
  <2> HIDE DEF rec
  <2>2. z \in Executions /\ Fit(z) /\ z.result = "none" /\ ~z.sinkFailure /\ z.mode = x.mode
    BY <1>1, <2>1, SavedFit DEF Ready
  <2> HIDE DEF z
  <2>3. \/ w = Moved(z, "work") \/ w = Moved(z, "reconcile")
        \/ z.mode \in BatchModes /\ w = ContinueBatch(p, z, z.mode)
    BY <1>1, <2>2, ConfirmedEffect
  <2>4. z.mode \in BatchModes =>
          LET e == BatchEvent(z.progress, z.ints, z.progress.next)
              v == ContinueBatch(p, z, z.mode) IN
          v = Saving(z, z.mode, e) \/ Leaves(z, v, "error") \/ v = Interrupting(z, z.mode)
    BY <2>2, ContinueBatchEffect
  <2>5. ASSUME NEW pc, NEW e
        PROVE  /\ Moved(z, pc).pc = pc /\ Saving(z, z.mode, e).pc = "savePending"
               /\ Interrupting(z, z.mode).pc = "interrupt"
    BY <2>2 DEF Moved, Saving, Interrupting, Executions
  <2> HIDE DEF w
  <2>6. w.pc \notin {"append", "deliver", "create"}
    BY <2>3, <2>4, <2>5 DEF Leaves
  <2> QED BY <1>1, <1>3, <2>1, <2>6, UnhookedSteps, WritesAreFenced
<1> QED BY <1>2, <1>3, ConfirmEffect

LEMMA InterruptIsFenced ==
  ASSUME Local, Claims, HooksComeFirst, NEW p \in Invocations, InterruptCheckpoint(p)
  PROVE  StaysBehindFence(p)
<1> DEFINE x == ex[p]
           s == Suspended(x)
           rec == Closing(s, "interrupted")
           z == Saved(s, rec)
<1>1. x.pc = "interrupt" /\ journal' = journal /\ x \in Executions /\ Fit(x)
      /\ x.mode # "hook"
  BY InterruptEffect DEF Ready, ModesAt
<1>2. CASE head' = head /\ \E w : Becomes(p, w) /\ Fails(p, x, w)
  BY <1>1, <1>2, UnhookedSteps, IdleSteps
<1>3. CASE /\ Wrote(rec)
           /\ \E y : Becomes(p, y) /\ (Leaves(z, y, "interrupted") \/ Ends(p, z, y))
  <2> PICK y : Becomes(p, y) /\ (Leaves(z, y, "interrupted") \/ Ends(p, z, y))
    BY <1>3
  <2>1. s \in Executions /\ Fit(s) /\ s.ckpt = x.ckpt /\ s.mode = x.mode
    BY <1>1, SuspendedFit
  <2>2. Wrote(rec)
    BY <1>3
  <2> HIDE DEF s
  <2>3. rec \in Records /\ SameBut(rec, x.ckpt)
    BY <2>1, ClosingEffect DEF Statuses
  <2> HIDE DEF rec
  <2>4. z \in Executions
    BY <1>1, <2>1, <2>3, SavedFit
  <2> HIDE DEF z
  <2>5. HookPlaced(y, journal)
    BY <2>4, UnhookedSteps
  <2> QED BY <1>1, <2>2, <2>3, <2>5, WritesAreFenced
<1> QED BY <1>2, <1>3, InterruptEffect

LEMMA FinishIsFenced ==
  ASSUME Local, Claims, HooksComeFirst, NEW p \in Invocations, FinishCheckpoint(p)
  PROVE  StaysBehindFence(p)
<1> DEFINE x == ex[p]
           rec == Closing(x, x.term)
<1>1. x.pc = "finish" /\ journal' = journal /\ x \in Executions
  BY FinishEffect DEF Ready
<1>2. CASE head' = head /\ \E w : Becomes(p, w) /\ Quits(x, w)
  BY <1>1, <1>2, UnhookedSteps, IdleSteps
<1>3. CASE /\ Wrote(rec) /\ x.term \in TerminalStatuses
           /\ \E y : /\ Becomes(p, y) /\ y.pc = "end"
                     /\ Leaves(x, y, x.term) \/ Leaves(x, y, "error")
  <2>1. SameBut(rec, x.ckpt)
    BY <1>1, <1>3, ClosingEffect DEF Statuses
  <2>2. PICK y : Becomes(p, y) /\ y.pc = "end"
    BY <1>3
  <2>3. Wrote(rec)
    BY <1>3
  <2> HIDE DEF rec
  <2> QED BY <1>1, <2>1, <2>2, <2>3, UnhookedSteps, WritesAreFenced
<1> QED BY <1>2, <1>3, FinishEffect

LEMMA ReconciledIsUnhooked ==
  ASSUME NEW p \in Invocations, NEW z \in Executions, Fit(z), z.result = "none", ~z.sinkFailure,
         NEW j
  PROVE  HookPlaced(Reconciled(p, z), j)
<1> DEFINE w == Reconciled(p, z)
           e == BatchEvent(z.progress, z.ints, z.progress.next)
           f == Stamp(p, z, "loaded")
<1>1. \/ w = ContinueBatch(p, z, "restoreInterrupt")
      \/ Leaves(z, w, "error")
      \/ w = Appending(z, "loaded", f)
  BY ReconciledEffect
<1>2. LET v == ContinueBatch(p, z, "restoreInterrupt") IN
      \/ v = Saving(z, "restoreInterrupt", e)
      \/ Leaves(z, v, "error")
      \/ v = Interrupting(z, "restoreInterrupt")
  BY ContinueBatchEffect DEF BatchModes
<1> HIDE DEF e, f
<1>3. /\ Saving(z, "restoreInterrupt", e).mode = "restoreInterrupt"
      /\ Interrupting(z, "restoreInterrupt").mode = "restoreInterrupt"
      /\ Appending(z, "loaded", f).mode = "loaded"
  BY DEF Saving, Interrupting, Appending, Executions
<1> HIDE DEF w
<1>4. Leaves(z, w, "error") \/ w.mode # "hook"
  BY <1>1, <1>2, <1>3 DEF w
<1>5. HookPlaced(w, j)
  BY <1>4, UnhookedSteps
<1> QED BY <1>5 DEF w

LEMMA RedeliverIsFenced ==
  ASSUME Local, Claims, HooksComeFirst, NEW p \in Invocations, NEW k \in 0..PageSize,
         Redeliver(p, k)
  PROVE  StaysBehindFence(p)
<1> DEFINE x == ex[p]
           n == Cardinality(Page(x))
           y == Moved(Advancing(x, k, n), "saveCursor")
<1>1. /\ UNCHANGED <<head, journal>> /\ x \in Executions /\ Fit(x)
      /\ x.result = "none" /\ ~x.sinkFailure
  BY RedeliverEffect DEF Ready
<1>2. \/ \E w : Becomes(p, w) /\ Quits(x, w)
      \/ Becomes(p, Reconciled(p, x))
      \/ Becomes(p, y)
  BY RedeliverEffect
<1>3. HookPlaced(y, journal)
  BY <1>1 DEF HookPlaced, Moved, Advancing, Executions
<1> HIDE DEF y
<1> QED BY <1>1, <1>2, <1>3, UnhookedSteps, ReconciledIsUnhooked, IdleSteps

LEMMA SaveCursorIsFenced ==
  ASSUME Local, Claims, HooksComeFirst, NEW p \in Invocations, SaveCursor(p)
  PROVE  StaysBehindFence(p)
<1> DEFINE x == ex[p]
           rec == Keeping(x, NoEvent, "none")
           z == Saved(x, rec)
           y == IF x.more THEN Moved(z, "reconcile") ELSE Reconciled(p, z)
<1>1. /\ x.pc = "saveCursor" /\ Ready(x) /\ journal' = journal /\ x \in Executions /\ Fit(x)
      /\ x.mode # "hook"
  BY SaveCursorEffect DEF Ready, ModesAt
<1>2. CASE head' = head /\ \E w : Becomes(p, w) /\ Fails(p, x, w)
  BY <1>1, <1>2, UnhookedSteps, IdleSteps
<1>3. CASE Wrote(rec) /\ Becomes(p, y)
  <2>1. rec \in Records /\ SameBut(rec, x.ckpt)
    BY <1>1, NoEventType, KeepingEffect
  <2> HIDE DEF rec
  <2>2. z \in Executions /\ Fit(z) /\ z.result = "none" /\ ~z.sinkFailure /\ z.mode = x.mode
    BY <1>1, <2>1, SavedFit DEF Ready
  <2> HIDE DEF z
  <2>3. HookPlaced(Moved(z, "reconcile"), journal)
    BY <2>2 DEF HookPlaced, Moved, Executions
  <2>4. HookPlaced(y, journal)
    BY <2>2, <2>3, ReconciledIsUnhooked
  <2> HIDE DEF y
  <2> QED BY <1>1, <1>3, <2>1, <2>4, WritesAreFenced
<1> QED BY <1>2, <1>3, SaveCursorEffect

LEMMA ReleaseIsFenced ==
  ASSUME Local, Claims, HooksComeFirst, NEW p \in Invocations, ReleaseLease(p)
  PROVE  StaysBehindFence(p)
<1> DEFINE x == ex[p]
           rec == Released(x.ckpt)
           y == Over(x, "end", "error")
<1>1. x.pc = "release" /\ journal' = journal /\ x \in Executions /\ Becomes(p, y) /\ Quits(x, y)
  BY ReleaseEffect
<1> HIDE DEF y
<1>2. CASE head' = head
  BY <1>1, <1>2, UnhookedSteps, IdleSteps
<1>3. CASE Wrote(rec) /\ SameBut(rec, x.ckpt)
  <2> HIDE DEF rec
  <2> QED BY <1>1, <1>3, UnhookedSteps, WritesAreFenced
<1> QED BY <1>2, <1>3, ReleaseEffect

LEMMA WorkIsFenced ==
  ASSUME Local, Claims, HooksComeFirst, NEW p \in Invocations, ex[p].pc = "work",
         \/ StartNode(p) \/ EmitCustom(p) \/ CommitActivation(p)
         \/ \E ids \in SUBSET InterruptIDs : Interrupt(p, ids)
         \/ NodeFails(p) \/ WorkFails(p) \/ Complete(p)
  PROVE  StaysBehindFence(p)
<1> DEFINE x == ex[p]
<1>1. UNCHANGED <<head, journal>> /\ x \in Executions
  BY WorkEffect DEF Ready
<1>2. PICK y : /\ Becomes(p, y)
               /\ \/ Quits(x, y)
                  \/ Ends(p, x, y)
                  \/ y = Saving(Starting(x), "step", Stamp(p, x, "nodeStarted"))
                  \/ y = Appending(x, "observe", Stamp(p, x, "custom"))
                  \/ y = Saving(Completing(x), "step", Stamp(p, x, "nodeCompleted"))
                  \/ \E ids \in SUBSET InterruptIDs :
                       y = Saving(Raising(x, p, ids), "interrupt",
                                  BatchEvent(Raising(x, p, ids).progress, ids, 0))
                  \/ y = Appending(Failing(x), "nodeFailed", Stamp(p, x, "nodeFailed"))
  BY WorkEffect
<1>3. ASSUME NEW ids, NEW e, NEW mode
      PROVE  /\ Saving(Starting(x), mode, e).mode = mode
             /\ Saving(Completing(x), mode, e).mode = mode
             /\ Saving(Raising(x, p, ids), mode, e).mode = mode
             /\ Appending(x, mode, e).mode = mode
             /\ Appending(Failing(x), mode, e).mode = mode
  BY <1>1 DEF Saving, Appending, Starting, Completing, Raising, Failing, Executions
<1>4. Quits(x, y) \/ Ends(p, x, y) \/ y.mode # "hook"
  <2>1. CASE y = Saving(Starting(x), "step", Stamp(p, x, "nodeStarted"))
    <3>1. y.mode = "step"
      BY <1>3, <2>1, Zenon
    <3> QED BY <3>1
  <2>2. CASE y = Appending(x, "observe", Stamp(p, x, "custom"))
    <3>1. y.mode = "observe"
      BY <1>3, <2>2, Zenon
    <3> QED BY <3>1
  <2>3. CASE y = Saving(Completing(x), "step", Stamp(p, x, "nodeCompleted"))
    <3>1. y.mode = "step"
      BY <1>3, <2>3, Zenon
    <3> QED BY <3>1
  <2>4. CASE \E ids \in SUBSET InterruptIDs :
               y = Saving(Raising(x, p, ids), "interrupt",
                          BatchEvent(Raising(x, p, ids).progress, ids, 0))
    <3> PICK ids \in SUBSET InterruptIDs :
               y = Saving(Raising(x, p, ids), "interrupt",
                          BatchEvent(Raising(x, p, ids).progress, ids, 0))
      BY <2>4
    <3> DEFINE e == BatchEvent(Raising(x, p, ids).progress, ids, 0)
    <3>0. y = Saving(Raising(x, p, ids), "interrupt", e)
      OBVIOUS
    <3> HIDE DEF e
    <3>1. y.mode = "interrupt"
      BY <1>1, <3>0 DEF Saving, Raising, Executions
    <3> QED BY <3>1
  <2>5. CASE y = Appending(Failing(x), "nodeFailed", Stamp(p, x, "nodeFailed"))
    <3>1. y.mode = "nodeFailed"
      BY <1>3, <2>5, Zenon
    <3> QED BY <3>1
  <2> QED BY <1>2, <2>1, <2>2, <2>3, <2>4, <2>5
<1>5. HookPlaced(y, journal)
  BY <1>1, <1>4, UnhookedSteps
<1> QED BY <1>1, <1>2, <1>5, IdleSteps

LEMMA NotifiedIsFenced ==
  ASSUME Local, HooksComeFirst, NEW p \in Invocations, UNCHANGED <<head, journal>>,
         NEW y, Becomes(p, y), Notified(ex[p], y)
  PROVE  StaysBehindFence(p)
<1>1. ex[p] \in Executions
  BY DEF Local
<1>2. y.mode = ex[p].mode /\ y.pc = ex[p].pc /\ y.ev = ex[p].ev
  BY <1>1 DEF Notified, Executions
<1>3. HookPlaced(y, journal)
  BY <1>2 DEF HooksComeFirst, HookPlaced
<1> QED BY <1>3, IdleSteps

Acts(p) ==
  \/ Hook(p) \/ Load(p) \/ Step(p)
  \/ \E faulty \in BOOLEAN : HeartbeatFails(p, faulty)
  \/ StoreFault(p) \/ SinkRefuses(p)
  \/ \E why \in CancelCauses : CancelRun(p, why)
  \/ Crash(p)

LEMMA ActsAreFenced ==
  ASSUME Local, Claims, HooksComeFirst, NEW p \in Invocations, Acts(p)
  PROVE  StaysBehindFence(p)
<1>0. ex[p] \in Executions
  BY DEF Local
<1>1. CASE Hook(p)
  BY <1>1, HookIsFenced
<1>2. CASE Load(p)
  BY <1>2, LoadIsFenced
<1>3. CASE Step(p)
  <2>1. CASE Create(p)
    BY <2>1, CreateIsFenced
  <2>2. CASE \E res \in Resolutions : Claim(p, res)
    BY <2>2, ClaimIsFenced
  <2>3. CASE SavePending(p)
    BY <2>3, SavePendingIsFenced
  <2>4. CASE AppendEvent(p)
    BY <2>4, AppendIsFenced
  <2>5. CASE Deliver(p)
    BY <2>5, DeliverIsFenced
  <2>6. CASE Confirm(p)
    BY <2>6, ConfirmIsFenced
  <2>7. CASE InterruptCheckpoint(p)
    BY <2>7, InterruptIsFenced
  <2>8. CASE FinishCheckpoint(p)
    BY <2>8, FinishIsFenced
  <2>9. CASE \E k \in 0..PageSize : Redeliver(p, k)
    BY <2>9, RedeliverIsFenced
  <2>10. CASE SaveCursor(p)
    BY <2>10, SaveCursorIsFenced
  <2>11. CASE ReleaseLease(p)
    BY <2>11, ReleaseIsFenced
  <2>12. CASE \/ StartNode(p) \/ EmitCustom(p) \/ CommitActivation(p)
              \/ \E ids \in SUBSET InterruptIDs : Interrupt(p, ids)
              \/ NodeFails(p) \/ WorkFails(p) \/ Complete(p)
    <3>1. ex[p].pc = "work"
      BY <2>12 DEF StartNode, EmitCustom, CommitActivation, Interrupt, NodeFails, WorkFails,
                   Complete, Works, At
    <3> QED BY <2>12, <3>1, WorkIsFenced
  <2> QED BY <1>3, <2>1, <2>2, <2>3, <2>4, <2>5, <2>6, <2>7, <2>8, <2>9, <2>10, <2>11, <2>12
          DEF Step
<1>4. CASE \E faulty \in BOOLEAN : HeartbeatFails(p, faulty)
  BY <1>4, HeartbeatEffect, NotifiedIsFenced
<1>5. CASE StoreFault(p)
  BY <1>0, <1>5, StoreFaultEffect, UnhookedSteps, IdleSteps
<1>6. CASE SinkRefuses(p)
  BY <1>0, <1>6, SinkRefusesEffect, UnhookedSteps, IdleSteps
<1>7. CASE \E why \in CancelCauses : CancelRun(p, why)
  BY <1>7, CancelEffect, NotifiedIsFenced
<1>8. CASE Crash(p)
  BY <1>0, <1>8, CrashEffect, UnhookedSteps, IdleSteps
<1> QED BY <1>1, <1>2, <1>3, <1>4, <1>5, <1>6, <1>7, <1>8 DEF Acts

LEMMA NextActs == Next <=> Expire \/ \E p \in Invocations : Acts(p)
BY DEF Next, Acts

LEMMA HooksStep ==
  ASSUME Local, Claims, HooksComeFirst, [Next]_vars
  PROVE  HooksComeFirst'
<1>1. CASE UNCHANGED vars
  BY <1>1 DEF vars, HooksComeFirst, HookPlaced
<1>2. CASE Expire
  <2>1. Exists(head') = Exists(head)
    BY <1>2 DEF Expire, Exists, Claims, Claimable, Records
  <2> QED BY <1>2, <2>1 DEF Expire, HooksComeFirst, HookPlaced
<1>3. ASSUME NEW p \in Invocations, StaysBehindFence(p)
      PROVE  HooksComeFirst'
  <2>1. PICK y : Becomes(p, y) /\ HookPlaced(y, journal')
    BY <1>3 DEF StaysBehindFence
  <2>2. ex'[p] = y /\ \A q \in Invocations \ {p} : ex'[q] = ex[q]
    BY <2>1, LocalStep
  <2>3. /\ journal' = [s \in DOMAIN journal' |-> journal'[s]]
        /\ DOMAIN journal \subseteq DOMAIN journal'
    BY <1>3 DEF StaysBehindFence, Journaled, HooksComeFirst
  <2>4. \A q \in Invocations : HookPlaced(ex'[q], journal')
    BY <2>1, <2>2, <2>3 DEF HookPlaced, HooksComeFirst
  <2>5. HookEvents /\ Exists(head') => 1 \in DOMAIN journal'
    BY <1>3 DEF StaysBehindFence
  <2> QED BY <2>3, <2>4, <2>5 DEF HooksComeFirst
<1> QED BY <1>1, <1>2, <1>3, NextActs, ActsAreFenced

LEMMA FenceHolds ==
  ASSUME Local, Claims, HooksComeFirst, Next, NEW p \in Invocations,
         ex[p].pc \notin {"idle", "claim"}, ClaimOf(p) < head.claim, ex'[p] # ex[p]
  PROVE  UNCHANGED <<head, journal>>
<1>1. ~Expire
  BY DEF Expire
<1>2. PICK q \in Invocations : StaysBehindFence(q)
  BY <1>1, NextActs, ActsAreFenced
<1>3. p = q
  <2>1. PICK y : Becomes(q, y)
    BY <1>2 DEF StaysBehindFence
  <2> QED BY <2>1, LocalStep
<1> QED BY <1>2, <1>3 DEF StaysBehindFence

(* The claims and the copies of the checkpoint, in every reachable state.   *)
THEOREM ClaimsAreHeldOnce == Spec => [](Local /\ Claims /\ HooksComeFirst)
<1>1. Init => Local /\ Claims /\ HooksComeFirst
  BY InitClaims, InitHooks
<1>2. Local /\ Claims /\ HooksComeFirst /\ [Next]_vars
        => (Local /\ Claims /\ HooksComeFirst)'
  BY NextClaims, HooksStep
<1> QED BY <1>1, <1>2, PTL DEF Spec

(* The fence of AppendFenced and the version check of write hold off every  *)
(* invocation that lost its claim, however late it acts.                    *)
THEOREM StaleInvocationsStayFenced == Spec => StaleInvocationsAreFenced
<1>1. /\ Local /\ Claims /\ HooksComeFirst
      /\ [Next]_vars
      => [ \A p \in Invocations :
             /\ ex[p].pc \notin {"idle", "claim"}
             /\ ClaimOf(p) < head.claim
             /\ ex'[p] # ex[p]
             => UNCHANGED <<head, journal>> ]_vars
  BY FenceHolds DEF vars
<1> QED BY <1>1, ClaimsAreHeldOnce, PTL DEF Spec, StaleInvocationsAreFenced

=============================================================================
