---------------------------- MODULE NodeAttempt ----------------------------
(***************************************************************************)
(* One activation of one node, from its first attempt to its end: the      *)
(* before_run guards, the hooks and the body, the before_commit guards,    *)
(* and what becomes of the result (committed, skipped, retried with a new  *)
(* input, interrupted until a caller answers, failed), with crashes of the *)
(* process anywhere in between.  src/workflow/guard.go decides within an   *)
(* attempt, src/workflow/workflow.go and activation.go between attempts.   *)
(*                                                                         *)
(* cp is the durable checkpoint of the run, act the record of the          *)
(* activation in memory, proc the attempt that the process is running.     *)
(* A checkpoint is written in one step here: WorkflowRun has the two       *)
(* writes around an event.  Lease and owner are WorkflowRun's as well.     *)
(*                                                                         *)
(* The body is a function or a child workflow with checkpoints of its own. *)
(* child holds what those say: the runs of the child, by the guard retries *)
(* that had happened when each was created (the activation is alone in its *)
(* run, so that a retry is what moves the step in a child's run id), and   *)
(* the questions the child has asked.  Parent and child die together.      *)
(*                                                                         *)
(* Guards and bodies are the application's: every decision in Decisions    *)
(* may be made at every evaluation.  An input is known by the number of    *)
(* guard retries that led to it and the guards that rewrote it, an output  *)
(* by the input the body had, the guards that rewrote it, and its maker:   *)
(* the body, a guard instead of it, or a node of the child workflow, whose *)
(* output may have another type than the body's.                           *)
(***************************************************************************)
EXTENDS Naturals, Sequences, FiniteSets

CONSTANTS
  BeforeRun,      \* the guards bound before the body, in order of binding
  BeforeCommit,   \* the guards bound before the commit, in order of binding
  Decisions,      \* what each guard may decide
  Nested,         \* may the body be a child workflow, a function, or either
  MaxRetries,     \* bound: guard retries
  MaxInterrupts,  \* bound: interrupts
  MaxCrashes      \* bound: crashes

GuardNames == {BeforeRun[k] : k \in 1..Len(BeforeRun)}
                \cup {BeforeCommit[k] : k \in 1..Len(BeforeCommit)}
NoGuard == "none"

DecisionKinds == {"allow", "rewrite_input", "rewrite_output", "retry", "skip",
                  "skip_output", "fail", "interrupt"}

ASSUME GuardsAreNamed ==
  /\ BeforeRun \in Seq(GuardNames) /\ BeforeCommit \in Seq(GuardNames)
  /\ GuardNames \cap {NoGuard, "no output", "body", "child", "mistyped"} = {}
  /\ \A j, k \in 1..Len(BeforeRun) : BeforeRun[j] = BeforeRun[k] => j = k
  /\ \A j, k \in 1..Len(BeforeCommit) : BeforeCommit[j] = BeforeCommit[k] => j = k
ASSUME DecisionsAreKnown ==
  Decisions \in [GuardNames -> SUBSET DecisionKinds]
ASSUME BodyIsKnown == Nested \subseteq BOOLEAN
ASSUME BoundsAreNumbers ==
  MaxRetries \in Nat /\ MaxInterrupts \in Nat /\ MaxCrashes \in Nat

Phases == {"before_run", "before_commit"}
GuardsOf(phase) == IF phase = "before_run" THEN BeforeRun ELSE BeforeCommit
Bindings == Phases \X GuardNames
BoundBeforeRun == {"before_run"} \X GuardNames

Inputs   == [retries : 0..MaxRetries, by : SUBSET GuardNames]
NoInput  == [retries |-> 0, by |-> {}]
Outputs  == [of : Inputs, by : SUBSET GuardNames,
             maker : GuardNames \cup {"body", "child", "mistyped"}]
NoOutput == [of |-> NoInput, by |-> {}, maker |-> "no output"]

ChildRuns   == 1..MaxRetries + 1
NoChild     == 0
ChildStates == {"absent", "running", "interrupted", "over"}

(* checkpointInterrupt and, once answered, checkpointInterruptResolution:  *)
(* of a guard of this node or, without a guard, of a run of the child.     *)
Interrupts  == [guard : GuardNames \cup {NoGuard}, phase : Phases,
                candidate : Outputs \cup {NoOutput},
                child : ChildRuns \cup {NoChild}, asked : Nat]
NoInterrupt == [guard |-> "no interrupt", phase |-> NoGuard, candidate |-> NoOutput,
                child |-> NoChild, asked |-> 0]

ActivationPhases == {"ready", "running", "completed", "skipped", "failed", "interrupted"}
Activations == [phase : ActivationPhases, attempt : Nat, input : Inputs]

Steps == {"down", "idle", "body", "running", "commit", "retry", "skip", "fail", "interrupt"} \cup Phases

VARIABLES
  cp,      \* [act, pending, resolved, output]: the durable checkpoint
  act,     \* the activation record in memory
  proc,    \* [pc, at, input, output, wait]: the attempt under way
  crashes,     \* bound: crashes so far
  interrupts,  \* bound: interrupts so far
  child,   \* [nested, runs, asked]: is there a child workflow, and its checkpoints
  seen     \* history: [bodies, passed, cut, held, failed], see Init

vars == <<cp, act, proc, crashes, interrupts, child, seen>>

Idle == [pc |-> "idle", at |-> 0, input |-> NoInput,
         output |-> NoOutput, wait |-> NoInterrupt]
Down == [Idle EXCEPT !.pc = "down"]

(* A result that is judged or committed is there.                          *)
TypeOK ==
  /\ cp \in [act : Activations, pending : Interrupts \cup {NoInterrupt},
             resolved : Interrupts \cup {NoInterrupt}, output : Outputs \cup {NoOutput}]
  /\ act \in Activations
  /\ proc \in [pc : Steps, at : Nat, input : Inputs, output : Outputs \cup {NoOutput},
               wait : Interrupts \cup {NoInterrupt}]
  /\ proc.pc \in {"before_commit", "commit"} => proc.output \in Outputs
  /\ crashes \in 0..MaxCrashes
  /\ interrupts \in 0..MaxInterrupts
  /\ child \in [nested : BOOLEAN, runs : [ChildRuns -> ChildStates], asked : Nat]
  /\ seen \in [bodies : Seq(Nat), passed : SUBSET Bindings, cut : SUBSET Bindings,
               held : Nat, failed : BOOLEAN]

(* The run is created with the activation ready.  The history: the attempt *)
(* of every body that ran; the bindings that let the value at hand pass,   *)
(* or whose interrupt was answered, and those that ended a phase with a    *)
(* fallback; how many bodies had run when a candidate was last held for an *)
(* answer; and whether a guard or the body itself failed.                  *)
Init ==
  /\ act = [phase |-> "ready", attempt |-> 0, input |-> NoInput]
  /\ cp = [act |-> act, pending |-> NoInterrupt, resolved |-> NoInterrupt, output |-> NoOutput]
  /\ proc = Idle
  /\ crashes = 0
  /\ interrupts = 0
  /\ child \in [nested : Nested, runs : {[r \in ChildRuns |-> "absent"]}, asked : {0}]
  /\ seen = [bodies |-> <<>>, passed |-> {}, cut |-> {}, held |-> 0, failed |-> FALSE]

-----------------------------------------------------------------------------
(* Within an attempt. *)

(* Fault: the guard is passed over in the other phase as well.             *)
shouldRunFaultPhase(g, phase) ==
  ~ (cp.resolved # NoInterrupt /\ cp.resolved.guard = g)

(* A guard is passed over in the phase in which its interrupt was answered. *)
shouldRun(g, phase) ==
  ~ (cp.resolved # NoInterrupt /\ cp.resolved.guard = g /\ cp.resolved.phase = phase)

(* The attempt after guard `at` of a phase: the next guard that should run, *)
(* or what follows the phase.                                              *)
After(phase, at, input, output) ==
  LET left == {k \in at + 1..Len(GuardsOf(phase)) : shouldRun(GuardsOf(phase)[k], phase)}
      next == CHOOSE k \in left : \A j \in left : k <= j
  IN  [Idle EXCEPT !.pc = IF left # {} THEN phase
                          ELSE IF phase = "before_run" THEN "body" ELSE "commit",
                   !.at = IF left # {} THEN next ELSE 0,
                   !.input = input, !.output = output]

(* Fault: whatever interrupt was answered is taken for a candidate's.      *)
ResumesCandidateFaultAny == cp.resolved # NoInterrupt

ResumesCandidate ==
  /\ cp.resolved # NoInterrupt
  /\ cp.resolved.phase = "before_commit"
  /\ cp.resolved.candidate # NoOutput

(* Fault: the body makes a new candidate.                                  *)
FirstStepFaultFresh(input) == After("before_run", 0, input, NoOutput)

(* An answered candidate goes to the before_commit guards as it is, with   *)
(* the input that the activation has, if it has the type of an output.     *)
FirstStep(input) ==
  IF ~ ResumesCandidate THEN After("before_run", 0, input, NoOutput)
  ELSE IF cp.resolved.candidate.maker = "mistyped"
       THEN [Idle EXCEPT !.pc = "fail", !.input = input]
       ELSE After("before_commit", 0, input, cp.resolved.candidate)

Answered == {<<cp.resolved.phase, cp.resolved.guard>>} \cap Bindings

(* Fault: the attempt is counted in memory until its result is committed.  *)
StartAttemptFaultLate ==
  /\ proc.pc = "idle"
  /\ act.phase = "ready"
  /\ act' = [act EXCEPT !.phase = "running", !.attempt = @ + 1]
  /\ proc' = FirstStep(act.input)
  /\ seen' = [seen EXCEPT
       !.passed = Answered \cup (IF ResumesCandidate THEN @ \cap BoundBeforeRun ELSE {}),
       !.cut = IF ResumesCandidate THEN @ \cap BoundBeforeRun ELSE {},
       !.failed = FALSE]
  /\ UNCHANGED <<cp, crashes, interrupts, child>>

(* The attempt is counted and announced, in the checkpoint, before it runs. *)
StartAttempt ==
  /\ proc.pc = "idle"
  /\ act.phase = "ready"
  /\ act' = [act EXCEPT !.phase = "running", !.attempt = @ + 1]
  /\ cp' = [cp EXCEPT !.act = act']
  /\ proc' = FirstStep(act.input)
  /\ seen' = [seen EXCEPT
       !.passed = Answered \cup (IF ResumesCandidate THEN @ \cap BoundBeforeRun ELSE {}),
       !.cut = IF ResumesCandidate THEN @ \cap BoundBeforeRun ELSE {},
       !.failed = FALSE]
  /\ UNCHANGED <<crashes, interrupts, child>>

Guard == GuardsOf(proc.pc)[proc.at]
Binding == <<proc.pc, Guard>>

(* GuardFail, GuardReject, an evaluator's error, and a decision in a phase *)
(* that has no use for it.                                                 *)
Fails(decision) ==
  \/ decision = "fail"
  \/ decision = "rewrite_input" /\ proc.pc = "before_commit"
  \/ decision \in {"rewrite_output", "retry"} /\ proc.pc = "before_run"

Rules(decision) ==
  /\ proc.pc \in Phases
  /\ decision \in Decisions[Guard]
  /\ seen' = [seen EXCEPT
       !.passed = IF decision \in {"allow", "rewrite_input", "rewrite_output"}
                  THEN @ \cup {Binding} ELSE @,
       !.cut = IF decision = "skip_output" THEN @ \cup {Binding} ELSE @,
       !.failed = Fails(decision)]
  /\ UNCHANGED <<cp, act, crashes, interrupts, child>>

GuardAllow ==
  /\ Rules("allow")
  /\ proc' = After(proc.pc, proc.at, proc.input, proc.output)

GuardRewriteInput ==
  /\ Rules("rewrite_input")
  /\ proc.pc = "before_run"
  /\ proc' = After(proc.pc, proc.at, [proc.input EXCEPT !.by = @ \cup {Guard}], proc.output)

GuardRewriteOutput ==
  /\ Rules("rewrite_output")
  /\ proc.pc = "before_commit"
  /\ proc' = After(proc.pc, proc.at, proc.input, [proc.output EXCEPT !.by = @ \cup {Guard}])

(* The fallback output replaces the body's; it ends the phase, and before  *)
(* the body it also ends the hooks and the body.                           *)
GuardSkipOutput ==
  LET fallback == [of |-> proc.input, by |-> {}, maker |-> Guard]
  IN  /\ Rules("skip_output")
      /\ proc' = IF proc.pc = "before_run"
                 THEN After("before_commit", 0, proc.input, fallback)
                 ELSE [Idle EXCEPT !.pc = "commit", !.input = proc.input, !.output = fallback]

GuardSkip ==
  /\ Rules("skip")
  /\ proc' = [proc EXCEPT !.pc = "skip"]

GuardRetry ==
  /\ Rules("retry")
  /\ proc.pc = "before_commit"
  /\ act.input.retries < MaxRetries
  /\ proc' = [proc EXCEPT !.pc = "retry"]

GuardFail ==
  \E decision \in DecisionKinds :
    /\ Fails(decision)
    /\ Rules(decision)
    /\ proc' = [proc EXCEPT !.pc = "fail"]

(* Only before the commit is there a candidate to keep.                    *)
GuardInterrupt ==
  /\ Rules("interrupt")
  /\ interrupts < MaxInterrupts
  /\ proc' = [proc EXCEPT !.pc = "interrupt",
                !.wait = [guard |-> Guard, phase |-> proc.pc,
                          candidate |-> IF proc.pc = "before_commit" THEN proc.output ELSE NoOutput,
                          child |-> NoChild, asked |-> 0]]

-----------------------------------------------------------------------------
(* The body. *)

ResumesChild == cp.resolved.child # NoChild

(* childOptions: the child run whose interrupt was answered or, else, the  *)
(* one of this step.                                                       *)
ChildRun == IF ResumesChild THEN cp.resolved.child ELSE act.input.retries + 1

(* A run is created once.  One that is asked to go on must not be over; it *)
(* takes the answer of its own last question, and that of an earlier one   *)
(* when the two have the same id.                                          *)
ChildMayRun ==
  child.runs[ChildRun] \in IF ResumesChild THEN {"running", "interrupted"} ELSE {"absent"}

(* While the run is not waiting, the process that died may hold its lease. *)
ChildMayRefuse ==
  IF ResumesChild
  THEN ~ (child.runs[ChildRun] = "interrupted" /\ cp.resolved.asked = child.asked)
  ELSE child.runs[ChildRun] # "absent"

StartBody ==
  /\ proc.pc = "body"
  /\ child.nested => ChildMayRun
  /\ proc' = [proc EXCEPT !.pc = "running"]
  /\ child' = IF child.nested THEN [child EXCEPT !.runs[ChildRun] = "running"] ELSE child
  /\ seen' = [seen EXCEPT !.bodies = Append(@, act.attempt)]
  /\ UNCHANGED <<cp, act, crashes, interrupts>>

RefuseChild ==
  /\ proc.pc = "body"
  /\ child.nested
  /\ ChildMayRefuse
  /\ proc' = [proc EXCEPT !.pc = "fail"]
  /\ UNCHANGED <<cp, act, crashes, interrupts, child, seen>>

(* The body returns or, before it was called, a hook or a middleware does. *)
BodyReturns ==
  /\ proc.pc \in {"body", "running"}
  /\ child' = IF child.nested /\ proc.pc = "running"
              THEN [child EXCEPT !.runs[ChildRun] = "over"] ELSE child
  /\ UNCHANGED <<cp, act, crashes, interrupts>>

BodyOutput ==
  /\ BodyReturns
  /\ proc' = After("before_commit", 0, proc.input, [of |-> proc.input, by |-> {}, maker |-> "body"])
  /\ UNCHANGED seen

BodyError ==
  /\ BodyReturns
  /\ proc' = [proc EXCEPT !.pc = "fail"]
  /\ seen' = [seen EXCEPT !.failed = TRUE]

(* A guard of the child interrupts: the child's checkpoint says so before  *)
(* its InterruptError, with the guard's phase and candidate and without    *)
(* its name, becomes this activation's.                                    *)
ChildInterrupts ==
  /\ proc.pc = "running"
  /\ child.nested
  /\ interrupts < MaxInterrupts
  /\ child' = [child EXCEPT !.runs[ChildRun] = "interrupted", !.asked = @ + 1]
  /\ \E phase \in Phases, maker \in {"child", "mistyped"} :
       proc' = [proc EXCEPT !.pc = "interrupt",
                  !.wait = [guard |-> NoGuard, phase |-> phase,
                            candidate |-> IF phase = "before_commit"
                                          THEN [of |-> proc.input, by |-> {}, maker |-> maker]
                                          ELSE NoOutput,
                            child |-> ChildRun, asked |-> child'.asked]]
  /\ UNCHANGED <<cp, act, crashes, interrupts, seen>>

-----------------------------------------------------------------------------
(* What becomes of the result. *)

(* commitActivation and the error path of handleNodeError: the activation  *)
(* ends and the run goes on, or fails, without it.                         *)
Finish(pc, phase) ==
  /\ proc.pc = pc
  /\ act' = [act EXCEPT !.phase = phase]
  /\ cp' = [cp EXCEPT !.act = act', !.output = IF phase = "completed" THEN proc.output ELSE @]
  /\ proc' = Idle
  /\ UNCHANGED <<crashes, interrupts, child, seen>>

CommitActivation == Finish("commit", "completed") \/ Finish("skip", "skipped")
HandleNodeError  == Finish("fail", "failed")

(* The same activation is queued again with the guard's input.             *)
RetryInput == [retries |-> act.input.retries + 1, by |-> {}]

CommitRetry ==
  /\ proc.pc = "retry"
  /\ act' = [act EXCEPT !.phase = "ready", !.input = RetryInput]
  /\ cp' = [cp EXCEPT !.act = act']
  /\ proc' = Idle
  /\ UNCHANGED <<crashes, interrupts, child, seen>>

(* The activation is recorded with the input it started with: what         *)
(* before_run guards made of it is not kept.  The invocation returns.      *)
Interrupt ==
  /\ proc.pc = "interrupt"
  /\ act' = [act EXCEPT !.phase = "interrupted"]
  /\ cp' = [cp EXCEPT !.act = act', !.pending = proc.wait]
  /\ proc' = Down
  /\ interrupts' = interrupts + 1
  /\ seen' = [seen EXCEPT !.held = IF proc.wait.candidate # NoOutput THEN Len(seen.bodies) ELSE @]
  /\ UNCHANGED <<crashes, child>>

Crash ==
  /\ proc.pc # "down"
  /\ crashes < MaxCrashes
  /\ proc' = Down
  /\ crashes' = crashes + 1
  /\ UNCHANGED <<cp, act, interrupts, child, seen>>

Ended == cp.act.phase \in {"completed", "skipped", "failed"}

(* activationRecord.prepareResume. *)
prepareResume(item, resolved) ==
  IF item.phase = "running" \/ (resolved # NoInterrupt /\ item.phase = "interrupted")
  THEN [item EXCEPT !.phase = "ready"]
  ELSE item

(* Fault: the interrupt that was answered stays pending.                   *)
ResumeFaultPending ==
  /\ proc.pc = "down"
  /\ ~ Ended
  /\ cp' = IF cp.pending = NoInterrupt THEN cp ELSE [cp EXCEPT !.resolved = cp.pending]
  /\ act' = prepareResume(cp.act, cp'.resolved)
  /\ proc' = Idle
  /\ UNCHANGED <<crashes, interrupts, child, seen>>

(* claimCheckpoint: the answer of a pending interrupt replaces the answers *)
(* of earlier ones, and stays until it is replaced.                        *)
Resume ==
  /\ proc.pc = "down"
  /\ ~ Ended
  /\ cp' = IF cp.pending = NoInterrupt THEN cp
           ELSE [cp EXCEPT !.resolved = cp.pending, !.pending = NoInterrupt]
  /\ act' = prepareResume(cp.act, cp'.resolved)
  /\ proc' = Idle
  /\ UNCHANGED <<crashes, interrupts, child, seen>>

Next ==
  \/ StartAttempt
  \/ GuardAllow \/ GuardRewriteInput \/ GuardRewriteOutput
  \/ GuardSkipOutput \/ GuardSkip \/ GuardRetry \/ GuardFail \/ GuardInterrupt
  \/ StartBody \/ RefuseChild \/ BodyOutput \/ BodyError \/ ChildInterrupts
  \/ CommitActivation \/ HandleNodeError \/ CommitRetry \/ Interrupt
  \/ Crash \/ Resume

Spec == Init /\ [][Next]_vars

-----------------------------------------------------------------------------
(* Properties. *)

Vetted(phase) ==
  \A k \in 1..Len(GuardsOf(phase)) :
    \/ <<phase, GuardsOf(phase)[k]>> \in seen.passed
    \/ \E j \in 1..k : <<phase, GuardsOf(phase)[j]>> \in seen.cut

(* No output is committed past a guard of the node: every guard of both    *)
(* phases let it pass, or its interrupt was answered, or a fallback took   *)
(* over before its turn; whatever interrupts, answers, retries and crashes *)
(* came between, and whoever made the output.  Of the guards inside a      *)
(* child workflow it says nothing: see ChildIsResumed.  Code: runAttempt,  *)
(* applyGuards and shouldRun, guard.go:282, 392, 422.                      *)
CommittedWasVetted ==
  cp.act.phase = "completed" => Vetted("before_run") /\ Vetted("before_commit")

(* The pair of activation and attempt that a body is told, in RunInfo and  *)
(* GuardMeta, is never told to two runs of the body, so that a body may    *)
(* use it to recognise its own effects after a crash.  Code: startAttempt  *)
(* commits the count before the body runs, workflow.go:2045.               *)
AttemptsAreDistinct ==
  \A j, k \in 1..Len(seen.bodies) : seen.bodies[j] = seen.bodies[k] => j = k

(* While the activation goes on from an answered candidate of its own,     *)
(* with the input that the candidate was made from, its body does not run  *)
(* again, however often the process crashes after the answer.  Of a        *)
(* candidate that a child made see ChildIsResumed, and of one that a guard *)
(* retries RetryRunsTheNode.  Code: runAttempt, guard.go:284.              *)
CandidateIsNotRebuilt ==
  ( /\ ResumesCandidate
    /\ cp.resolved.candidate.maker \notin {"child", "mistyped"}
    /\ cp.resolved.candidate.of.retries = act.input.retries )
    => Len(seen.bodies) = seen.held

(* A question of a child workflow that the checkpoint waits for is the     *)
(* last that the child asked, and the child waits for it too; and an       *)
(* answer is only ever kept for a run of the child that exists.  Two       *)
(* checkpoints are written one after the other, with crashes in between.   *)
(* Code: interruptError and claimCheckpoint, workflow.go:2395, 2930.       *)
ChildAwaitsItsAnswer ==
  /\ cp.pending.child # NoChild =>
       child.runs[cp.pending.child] = "interrupted" /\ cp.pending.asked = child.asked
  /\ cp.resolved.child # NoChild =>
       child.runs[cp.resolved.child] # "absent" /\ cp.resolved.asked <= child.asked

-----------------------------------------------------------------------------
(* What a test or a comment says and the code does not do. *)

(* A node whose child workflow was interrupted goes on in that child, and  *)
(* commits what the child ends with.  Code: checkpointInterruptsForActi-   *)
(* vation keeps the candidate of the child's node, workflow.go:2299, and   *)
(* runAttempt takes it for the output of this one, guard.go:284.           *)
ChildIsResumed ==
  cp.act.phase = "completed" => cp.output.maker # "child"

(* Only a guard or the body can fail a node; a run that is resumed runs it *)
(* again.  Code: childOptions gives the run of a child the same id again,  *)
(* workflow.go:2190, and the answered id after a retry, workflow.go:2195.  *)
FailureIsTheNodes ==
  cp.act.phase = "failed" => seen.failed

(* "GuardRetry retries the node with a new input" (guard.go:119): what is   *)
(* committed after it, and no guard put in its place, was made with that    *)
(* input.  Code: runAttempt starts every attempt after an answer from the   *)
(* candidate of the interrupt, guard.go:284, also from a child's.           *)
RetryRunsTheNode ==
  cp.act.phase = "completed" /\ cp.output.maker \in {"body", "child"} =>
    cp.output.of.retries = cp.act.input.retries

=============================================================================
