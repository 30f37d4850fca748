-------------------------- MODULE NodeAttemptProofs --------------------------
(***************************************************************************)
(* Proofs about NodeAttempt, for any guards bound to either phase, any     *)
(* decisions they may make and any number of retries, interrupts and       *)
(* crashes.                                                                *)
(***************************************************************************)
EXTENDS NodeAttempt, FiniteSetTheorems, SequenceTheorems, TLAPS

UnderWay == Phases \cup {"body", "running", "commit", "retry", "skip", "fail", "interrupt"}

(* The types, with the place of the guard that is to be asked and room for *)
(* the interrupt that is to be raised and the retry that is to be made.    *)
AttemptType ==
  /\ TypeOK
  /\ proc.pc = "interrupt" => interrupts < MaxInterrupts
  /\ proc.pc = "retry" => act.input.retries < MaxRetries
  /\ proc.pc \in Phases => proc.at \in 1..Len(GuardsOf(proc.pc))

(* The bodies that ran are of different attempts, all of them counted in   *)
(* the checkpoint, and the attempt that may still run its body is new.     *)
BodiesAreCounted ==
  /\ proc.pc # "down" => act.attempt = cp.act.attempt
  /\ \A j \in 1..Len(seen.bodies) :
       /\ seen.bodies[j] <= cp.act.attempt
       /\ proc.pc \in {"before_run", "body"} => seen.bodies[j] < cp.act.attempt
  /\ AttemptsAreDistinct

(* An interrupt has a candidate when it was raised before the commit.      *)
HoldsCandidate(i) == i.phase = "before_commit" <=> i.candidate # NoOutput

(* No body has started since the candidate was made that waits for its     *)
(* answer, or was answered: that of a guard of this node is the last       *)
(* body's, and that of a guard of a child workflow is of the child's run   *)
(* that was started last.  An attempt that goes on from it is past the     *)
(* body, or fails by its type.                                             *)
CandidatesAreKept ==
  /\ HoldsCandidate(proc.wait) /\ HoldsCandidate(cp.pending) /\ HoldsCandidate(cp.resolved)
  /\ cp.pending # NoInterrupt => proc.pc = "down"
  /\ cp.pending.candidate # NoOutput => Len(seen.bodies) = seen.held
  /\ ResumesCandidate => /\ proc.pc \notin {"before_run", "body", "running"}
                         /\ Len(seen.bodies) = seen.held

(* The first n guards of a phase let the value pass, or were cut off.      *)
Covered(phase, n) ==
  \A k \in 1..n :
    \/ <<phase, GuardsOf(phase)[k]>> \in seen.passed
    \/ \E j \in 1..k : <<phase, GuardsOf(phase)[j]>> \in seen.cut

(* An attempt has covered every guard before the one it is at.             *)
PhasesAreCovered ==
  /\ proc.pc = "before_run" => Covered("before_run", proc.at - 1)
  /\ proc.pc = "before_commit" => Covered("before_commit", proc.at - 1)
  /\ proc.pc = "commit" => Vetted("before_commit")
  /\ proc.pc \in {"body", "running", "before_commit", "commit"} => Vetted("before_run")

(* What makes CommittedWasVetted inductive: besides, a candidate has passed *)
(* every guard before the body, wherever it is kept.                       *)
Vetting ==
  /\ proc.pc \in UnderWay => act.phase = "running" /\ cp.act = act /\ Answered \subseteq seen.passed
  /\ proc.pc = "idle" /\ Ended => act.phase = cp.act.phase
  /\ PhasesAreCovered
  /\ \A i \in {proc.wait, cp.pending, cp.resolved} : i.phase = "before_commit" => Vetted("before_run")
  /\ CommittedWasVetted

-----------------------------------------------------------------------------

(* A set of numbers that is not empty has a least element.                 *)
LEMMA LeastExists ==
  ASSUME NEW S \in SUBSET Nat, S # {}
  PROVE  \E k \in S : \A j \in S : k <= j
  <1> DEFINE R == OpToRel(<, Nat)
  <1>1. IsWellFoundedOn(R, Nat)
    BY NatLessThanWellFounded
  <1>2. \A j, k \in Nat : <<j, k>> \in R <=> j < k
    BY DEF OpToRel
  <1> HIDE DEF R
  <1>3. PICK k \in S : \A j \in S : ~ (<<j, k>> \in R)
    BY <1>1, WFMin
  <1>4. ASSUME NEW j \in S PROVE k <= j
    <2>1. j \in Nat /\ k \in Nat /\ ~ (j < k)
      BY <1>2, <1>3
    <2> QED
      BY <2>1
  <1> QED
    BY <1>4

(* The guards of a phase are numbered, and named.                          *)
LEMMA GuardsAreNumbered ==
  ASSUME NEW phase \in Phases
  PROVE  /\ Len(GuardsOf(phase)) \in Nat
         /\ \A k \in 1..Len(GuardsOf(phase)) :
              /\ GuardsOf(phase)[k] \in GuardNames
              /\ <<phase, GuardsOf(phase)[k]>> \in Bindings
  <1>1. GuardsOf(phase) \in Seq(GuardNames)
    BY GuardsAreNamed DEF GuardsOf, Phases
  <1>2. /\ Len(GuardsOf(phase)) \in Nat
        /\ \A k \in 1..Len(GuardsOf(phase)) : GuardsOf(phase)[k] \in GuardNames
    BY <1>1, LenProperties, ElementOfSeq
  <1> QED
    BY <1>2 DEF Bindings

(* What After returns: the attempt at the next guard that is not passed    *)
(* over, or, when all that are left are, past the phase.                   *)
LEMMA AfterEffect ==
  ASSUME NEW phase \in Phases, NEW at \in 0..Len(GuardsOf(phase)), NEW input, NEW output,
         NEW next, next = After(phase, at, input, output)
  PROVE  /\ next = [pc |-> next.pc, at |-> next.at, input |-> input, output |-> output,
                    wait |-> NoInterrupt]
         /\ \/ /\ next.pc = phase /\ next.at \in at + 1..Len(GuardsOf(phase))
               /\ \A k \in at + 1..next.at - 1 : ~ shouldRun(GuardsOf(phase)[k], phase)
            \/ /\ next.pc = (IF phase = "before_run" THEN "body" ELSE "commit")
               /\ next.at = 0
               /\ \A k \in at + 1..Len(GuardsOf(phase)) : ~ shouldRun(GuardsOf(phase)[k], phase)
  <1> DEFINE n == Len(GuardsOf(phase))
             left == {k \in at + 1..n : shouldRun(GuardsOf(phase)[k], phase)}
             first == CHOOSE k \in left : \A j \in left : k <= j
  <1>1. n \in Nat /\ at \in Nat
    BY GuardsAreNumbered
  <1>2. left # {} => first \in left /\ \A j \in left : first <= j
    <2> SUFFICES ASSUME left # {} PROVE \E k \in left : \A j \in left : k <= j
      OBVIOUS
    <2>1. left \in SUBSET Nat
      BY <1>1
    <2> QED
      BY <2>1, LeastExists
  <1>3. next = [pc |-> IF left # {} THEN phase
                       ELSE IF phase = "before_run" THEN "body" ELSE "commit",
                at |-> IF left # {} THEN first ELSE 0,
                input |-> input, output |-> output, wait |-> NoInterrupt]
    BY DEF After, Idle
  <1>4. CASE left = {}
    BY <1>1, <1>3, <1>4
  <1>5. CASE left # {}
    <2> HIDE DEF first
    <2>1. first \in at + 1..n
      BY <1>2, <1>5
    <2>2. ASSUME NEW k \in at + 1..first - 1 PROVE ~ shouldRun(GuardsOf(phase)[k], phase)
      <3>1. k \in at + 1..n /\ ~ (first <= k)
        BY <1>1, <2>1
      <3> QED
        BY <1>2, <1>5, <3>1
    <2> QED
      BY <1>3, <1>5, <2>1, <2>2
  <1> QED
    BY <1>4, <1>5

(* The records of an attempt.                                              *)
Procs == [pc : Steps, at : Nat, input : Inputs, output : Outputs \cup {NoOutput},
          wait : Interrupts \cup {NoInterrupt}]

(* What the type invariant says of the attempt under way.                  *)
ProcType(r) ==
  /\ r \in Procs
  /\ r.pc \in {"before_commit", "commit"} => r.output \in Outputs
  /\ r.pc \in Phases => r.at \in 1..Len(GuardsOf(r.pc))

LEMMA IdleIsProc == ProcType(Idle) /\ ProcType(Down)
  BY BoundsAreNumbers DEF ProcType, Procs, Idle, Down, Steps, Phases, Inputs, NoInput

(* The attempt that follows a guard.                                       *)
LEMMA AfterType ==
  ASSUME NEW phase \in Phases, NEW at \in 0..Len(GuardsOf(phase)),
         NEW input \in Inputs, NEW output \in Outputs \cup {NoOutput},
         phase = "before_commit" => output \in Outputs
  PROVE  ProcType(After(phase, at, input, output))
  <1> DEFINE next == After(phase, at, input, output)
  <1>1. next = [pc |-> next.pc, at |-> next.at, input |-> input, output |-> output,
                wait |-> NoInterrupt]
    BY AfterEffect
  <1>2. \/ next.pc = phase /\ next.at \in 1..Len(GuardsOf(phase)) /\ next.at \in Nat
        \/ next.pc = (IF phase = "before_run" THEN "body" ELSE "commit") /\ next.at = 0
    <2>1. Len(GuardsOf(phase)) \in Nat /\ at \in Nat
      BY GuardsAreNumbered
    <2>2. \/ next.pc = phase /\ next.at \in at + 1..Len(GuardsOf(phase))
          \/ next.pc = (IF phase = "before_run" THEN "body" ELSE "commit") /\ next.at = 0
      BY AfterEffect
    <2> QED
      BY <2>1, <2>2
  <1> HIDE DEF next
  <1>3. next \in Procs
    BY <1>1, <1>2 DEF Procs, Steps, Phases
  <1>4. next.output = output
    BY <1>1
  <1>5. ProcType(next)
    BY <1>2, <1>3, <1>4 DEF ProcType, Phases
  <1> QED
    BY <1>5 DEF next

(* The guard that an attempt is at.                                        *)
LEMMA GuardIsBound ==
  ASSUME ProcType(proc), proc.pc \in Phases
  PROVE  /\ Guard \in GuardNames /\ Binding \in Bindings
         /\ proc.at \in 0..Len(GuardsOf(proc.pc))
         /\ proc.input \in Inputs /\ proc.output \in Outputs \cup {NoOutput}
         /\ proc.pc = "before_commit" => proc.output \in Outputs
  BY GuardsAreNumbered DEF ProcType, Procs, Guard, Binding

LEMMA FirstStepType ==
  ASSUME TypeOK, NEW input \in Inputs
  PROVE  ProcType(FirstStep(input))
  <1>1. 0 \in 0..Len(GuardsOf("before_run")) /\ 0 \in 0..Len(GuardsOf("before_commit"))
    BY GuardsAreNumbered DEF Phases
  <1>2. CASE ResumesCandidate
    <2>1. cp.resolved.candidate \in Outputs
      BY <1>2 DEF TypeOK, ResumesCandidate, Interrupts
    <2>2. ProcType([Idle EXCEPT !.pc = "fail", !.input = input])
      BY DEF ProcType, Procs, Idle, Steps, Phases
    <2> QED
      BY <1>1, <1>2, <2>1, <2>2, AfterType DEF FirstStep, Phases
  <1>3. CASE ~ ResumesCandidate
    BY <1>1, <1>3, AfterType DEF FirstStep, Phases
  <1> QED
    BY <1>2, <1>3

(* The run of the child that is created or asked to go on.                 *)
LEMMA ChildRunExists ==
  ASSUME TypeOK
  PROVE  ChildRun \in ChildRuns
  <1>1. cp.resolved.child \in ChildRuns \cup {NoChild}
    <2>1. cp.resolved \in Interrupts \cup {NoInterrupt}
      BY DEF TypeOK
    <2>2. \A i \in Interrupts : i.child \in ChildRuns \cup {NoChild}
      BY DEF Interrupts
    <2>3. NoInterrupt.child = NoChild
      BY DEF NoInterrupt
    <2> QED
      BY <2>1, <2>2, <2>3
  <1>2. act.input.retries \in 0..MaxRetries
    BY DEF TypeOK, Activations, Inputs
  <1>3. act.input.retries + 1 \in ChildRuns
    BY <1>2, BoundsAreNumbers DEF ChildRuns
  <1> QED
    BY <1>1, <1>3 DEF ChildRun, ResumesChild

(* Every step of an activation is typed.                                   *)
LEMMA AttemptTypeIsInductive ==
  ASSUME AttemptType, [Next]_vars
  PROVE  AttemptType'
  <1> DEFINE NoProc ==
               /\ cp \in [act : Activations, pending : Interrupts \cup {NoInterrupt},
                          resolved : Interrupts \cup {NoInterrupt},
                          output : Outputs \cup {NoOutput}]
               /\ act \in Activations
               /\ crashes \in 0..MaxCrashes
               /\ interrupts \in 0..MaxInterrupts
               /\ child \in [nested : BOOLEAN, runs : [ChildRuns -> ChildStates], asked : Nat]
               /\ seen \in [bodies : Seq(Nat), passed : SUBSET Bindings,
                            cut : SUBSET Bindings, held : Nat, failed : BOOLEAN]
             Room == /\ proc.pc = "interrupt" => interrupts < MaxInterrupts
                     /\ proc.pc = "retry" => act.input.retries < MaxRetries
  <1>0. NoProc /\ ProcType(proc) /\ Room
    BY DEF AttemptType, TypeOK, ProcType, Procs
  <1> SUFFICES (NoProc /\ ProcType(proc))' /\ Room'
    BY DEF AttemptType, TypeOK, ProcType, Procs
  <1>00. Room'
    <2>2. \A phase, at, input, output : phase \in Phases =>
            After(phase, at, input, output).pc \in Phases \cup {"body", "commit"}
      BY DEF After, Idle
    <2>3. CASE StartAttempt
      BY <2>2, <2>3 DEF StartAttempt, FirstStep, Phases, Idle
    <2>4. CASE GuardAllow \/ GuardRewriteInput \/ GuardRewriteOutput
      BY <2>2, <2>4 DEF GuardAllow, GuardRewriteInput, GuardRewriteOutput, Rules, Phases
    <2>10. CASE GuardSkipOutput
      BY <2>2, <2>10 DEF GuardSkipOutput, Rules, Phases, Idle
    <2>5. CASE GuardSkip \/ GuardRetry \/ GuardFail
      BY <2>5, <1>0 DEF GuardSkip, GuardRetry, GuardFail, Rules, ProcType, Procs
    <2>6. CASE GuardInterrupt
      BY <2>6 DEF GuardInterrupt, Rules
    <2>7. CASE StartBody \/ RefuseChild \/ BodyError \/ ChildInterrupts
      BY <2>7, <1>0 DEF StartBody, RefuseChild, BodyReturns, BodyError, ChildInterrupts,
                        ProcType, Procs
    <2>11. CASE BodyOutput
      BY <2>2, <2>11 DEF BodyOutput, Phases
    <2>8. CASE CommitActivation \/ HandleNodeError \/ CommitRetry \/ Interrupt \/ Crash \/ Resume
      BY <2>8 DEF CommitActivation, HandleNodeError, Finish, CommitRetry, Interrupt, Crash,
                  Resume, Idle, Down
    <2>9. CASE UNCHANGED vars
      BY <2>9, <1>0 DEF vars
    <2> QED
      BY <2>3, <2>4, <2>5, <2>6, <2>7, <2>8, <2>9, <2>10, <2>11 DEF Next
  <1> SUFFICES (NoProc /\ ProcType(proc))'
    BY <1>00
  <1>1. CASE StartAttempt
    <2>1. ProcType(proc')
      BY <1>1, <1>0, FirstStepType DEF StartAttempt, AttemptType, Activations
    <2>2. act' \in Activations
      <3>1. act \in Activations /\ act.attempt + 1 \in Nat
        BY <1>0 DEF Activations
      <3> QED
        BY <1>1, <3>1 DEF StartAttempt, Activations, ActivationPhases
    <2>3. seen' \in [bodies : Seq(Nat), passed : SUBSET Bindings, cut : SUBSET Bindings,
                     held : Nat, failed : BOOLEAN]
      BY <1>1, <1>0 DEF StartAttempt, Answered
    <2>4. NoProc'
      BY <1>1, <1>0, <2>2, <2>3 DEF StartAttempt
    <2> QED
      BY <2>1, <2>4
  <1>2. ASSUME NEW decision, Rules(decision) PROVE NoProc'
    <2>1. Fails(decision) \in BOOLEAN
      BY DEF Fails
    <2>2. seen' \in [bodies : Seq(Nat), passed : SUBSET Bindings, cut : SUBSET Bindings,
                     held : Nat, failed : BOOLEAN]
      BY <1>2, <1>0, <2>1, GuardIsBound DEF Rules
    <2> QED
      BY <1>2, <1>0, <2>2 DEF Rules
  <1>3. CASE GuardAllow
    BY <1>2, <1>3, <1>0, GuardIsBound, AfterType DEF GuardAllow, Rules
  <1>4. CASE GuardRewriteInput
    <2>1. [proc.input EXCEPT !.by = @ \cup {Guard}] \in Inputs
      BY <1>4, <1>0, GuardIsBound DEF GuardRewriteInput, Rules, Inputs
    <2> QED
      BY <2>1, <1>2, <1>4, <1>0, GuardIsBound, AfterType DEF GuardRewriteInput, Rules
  <1>5. CASE GuardRewriteOutput
    <2>1. [proc.output EXCEPT !.by = @ \cup {Guard}] \in Outputs
      BY <1>5, <1>0, GuardIsBound DEF GuardRewriteOutput, Rules, Outputs
    <2> QED
      BY <2>1, <1>2, <1>5, <1>0, GuardIsBound, AfterType DEF GuardRewriteOutput, Rules
  <1>6. CASE GuardSkipOutput
    <2> DEFINE fallback == [of |-> proc.input, by |-> {}, maker |-> Guard]
    <2>1. fallback \in Outputs /\ proc.input \in Inputs
      BY <1>6, <1>0, GuardIsBound DEF GuardSkipOutput, Rules, Outputs
    <2>2. ProcType(After("before_commit", 0, proc.input, fallback))
      <3>1. 0 \in 0..Len(GuardsOf("before_commit"))
        BY GuardsAreNumbered DEF Phases
      <3> QED
        BY <2>1, <3>1, AfterType DEF Phases
    <2>3. ProcType([Idle EXCEPT !.pc = "commit", !.input = proc.input, !.output = fallback])
      BY <2>1 DEF ProcType, Procs, Idle, Steps, Phases
    <2> QED
      BY <2>2, <2>3, <1>2, <1>6 DEF GuardSkipOutput
  <1>7. ASSUME NEW pc \in {"skip", "retry", "fail"}, proc' = [proc EXCEPT !.pc = pc]
        PROVE  ProcType(proc')
    BY <1>7, <1>0 DEF ProcType, Procs, Steps, Phases
  <1>8. CASE GuardSkip
    BY <1>2, <1>7, <1>8 DEF GuardSkip
  <1>9. CASE GuardRetry
    BY <1>2, <1>7, <1>9 DEF GuardRetry
  <1>10. CASE GuardFail
    BY <1>2, <1>7, <1>10 DEF GuardFail
  <1>11. CASE GuardInterrupt
    <2> DEFINE wait == [guard |-> Guard, phase |-> proc.pc,
                        candidate |-> IF proc.pc = "before_commit" THEN proc.output ELSE NoOutput,
                        child |-> NoChild, asked |-> 0]
    <2>1. wait \in Interrupts
      BY <1>11, <1>0, GuardIsBound DEF GuardInterrupt, Rules, Interrupts
    <2>2. ProcType(proc')
      BY <2>1, <1>11, <1>0 DEF GuardInterrupt, ProcType, Procs, Steps, Phases
    <2> QED
      BY <2>2, <1>2, <1>11 DEF GuardInterrupt
  <1>12. CASE StartBody
    <2>1. Append(seen.bodies, act.attempt) \in Seq(Nat)
      BY <1>0 DEF Activations
    <2>2. [child EXCEPT !.runs[ChildRun] = "running"]
            \in [nested : BOOLEAN, runs : [ChildRuns -> ChildStates], asked : Nat]
      BY <1>0 DEF ChildStates
    <2>3. ProcType(proc')
      BY <1>12, <1>0 DEF StartBody, ProcType, Procs, Steps, Phases
    <2> QED
      BY <1>12, <1>0, <2>1, <2>2, <2>3 DEF StartBody
  <1>20. CASE RefuseChild
    BY <1>7, <1>20, <1>0 DEF RefuseChild
  <1>21. ASSUME BodyReturns
         PROVE  child' \in [nested : BOOLEAN, runs : [ChildRuns -> ChildStates], asked : Nat]
    BY <1>21, <1>0 DEF BodyReturns, ChildStates
  <1>22. CASE BodyOutput
    <2> DEFINE output == [of |-> proc.input, by |-> {}, maker |-> "body"]
    <2>1. 0 \in 0..Len(GuardsOf("before_commit"))
      BY GuardsAreNumbered DEF Phases
    <2>2. output \in Outputs /\ proc.input \in Inputs
      BY <1>0 DEF ProcType, Procs, Outputs
    <2>3. ProcType(After("before_commit", 0, proc.input, output))
      BY <2>1, <2>2, AfterType DEF Phases
    <2> QED
      BY <1>22, <1>21, <1>0, <2>3 DEF BodyOutput, BodyReturns
  <1>23. CASE BodyError
    <2>1. NoProc'
      BY <1>23, <1>21, <1>0 DEF BodyError, BodyReturns
    <2> QED
      BY <2>1, <1>7, <1>23 DEF BodyError
  <1>24. CASE ChildInterrupts
    <2>1. ChildRun \in ChildRuns
      BY <1>0, ChildRunExists DEF AttemptType
    <2>2. child' \in [nested : BOOLEAN, runs : [ChildRuns -> ChildStates], asked : Nat]
      <3>1. child.asked + 1 \in Nat
        BY <1>0
      <3>2. child' = [child EXCEPT !.runs = [child.runs EXCEPT ![ChildRun] = "interrupted"],
                                   !.asked = child.asked + 1]
        BY <1>24, <1>0 DEF ChildInterrupts
      <3>3. [child.runs EXCEPT ![ChildRun] = "interrupted"] \in [ChildRuns -> ChildStates]
        BY <1>0 DEF ChildStates
      <3> QED
        BY <1>0, <3>1, <3>2, <3>3
    <2>3. ASSUME NEW phase \in Phases, NEW maker \in {"child", "mistyped"}
          PROVE  [guard |-> NoGuard, phase |-> phase,
                  candidate |-> IF phase = "before_commit"
                                THEN [of |-> proc.input, by |-> {}, maker |-> maker]
                                ELSE NoOutput,
                  child |-> ChildRun, asked |-> child'.asked] \in Interrupts
      <3>1. [of |-> proc.input, by |-> {}, maker |-> maker] \in Outputs
        BY <1>0 DEF ProcType, Procs, Outputs
      <3> QED
        BY <2>1, <2>2, <3>1 DEF Interrupts
    <2>4. ProcType(proc')
      <3>1. PICK wait \in Interrupts : proc' = [proc EXCEPT !.pc = "interrupt", !.wait = wait]
        BY <1>24, <2>3 DEF ChildInterrupts
      <3> QED
        BY <1>0, <3>1 DEF ProcType, Procs, Steps, Phases
    <2> QED
      BY <1>24, <1>0, <2>2, <2>4 DEF ChildInterrupts
  <1>13. ASSUME NEW pc, NEW phase \in ActivationPhases, Finish(pc, phase)
         PROVE  NoProc' /\ ProcType(proc')
    BY <1>13, <1>0, IdleIsProc DEF Finish, Activations, ProcType, Procs
  <1>14. CASE CommitRetry
    <2>1. RetryInput \in Inputs
      <3>1. act.input.retries \in 0..MaxRetries /\ act.input.retries < MaxRetries
        BY <1>14, <1>0 DEF CommitRetry, Activations, Inputs
      <3> QED
        BY <3>1, BoundsAreNumbers DEF RetryInput, Inputs
    <2> QED
      BY <1>14, <1>0, <2>1, IdleIsProc DEF CommitRetry, Activations, ActivationPhases
  <1>15. CASE Interrupt
    <2>1. Len(seen.bodies) \in Nat /\ interrupts' \in 0..MaxInterrupts
      BY <1>15, <1>0, LenProperties, BoundsAreNumbers DEF Interrupt
    <2> QED
      BY <1>15, <1>0, <2>1, IdleIsProc
      DEF Interrupt, Activations, ActivationPhases, ProcType, Procs
  <1>16. CASE Crash
    BY <1>16, <1>0, IdleIsProc, BoundsAreNumbers DEF Crash
  <1>17. CASE Resume
    BY <1>17, <1>0, IdleIsProc DEF Resume, prepareResume, Activations, ActivationPhases
  <1>18. CASE UNCHANGED vars
    BY <1>18, <1>0 DEF vars, ProcType
  <1>19. CASE CommitActivation \/ HandleNodeError
    BY <1>13, <1>19 DEF CommitActivation, HandleNodeError, ActivationPhases
  <1> QED
    BY <1>1, <1>3, <1>4, <1>5, <1>6, <1>8, <1>9, <1>10, <1>11, <1>12, <1>14, <1>15, <1>16,
       <1>17, <1>18, <1>19, <1>20, <1>22, <1>23, <1>24 DEF Next

(* Every reachable state is typed; a result that is judged or committed is *)
(* there, and an attempt that is judged is at a guard of its phase.        *)
THEOREM AttemptTypeCorrect == Spec => []AttemptType
  <1>1. Init => AttemptType
    <2> SUFFICES ASSUME Init PROVE AttemptType
      OBVIOUS
    <2>1. proc = Idle /\ ProcType(Idle)
      BY IdleIsProc DEF Init
    <2>2. act \in Activations
      BY BoundsAreNumbers DEF Init, Activations, ActivationPhases, Inputs, NoInput
    <2>5. child \in [nested : BOOLEAN, runs : [ChildRuns -> ChildStates], asked : Nat]
      BY BodyIsKnown DEF Init, ChildStates
    <2>3. seen \in [bodies : Seq(Nat), passed : SUBSET Bindings, cut : SUBSET Bindings,
                    held : Nat, failed : BOOLEAN]
      BY EmptySeq DEF Init
    <2>4. proc.pc = "idle"
      BY DEF Init, Idle
    <2> QED
      BY <2>1, <2>2, <2>3, <2>4, <2>5, BoundsAreNumbers
      DEF Init, AttemptType, TypeOK, ProcType, Procs, Phases
  <1>2. AttemptType /\ [Next]_vars => AttemptType'
    BY AttemptTypeIsInductive
  <1> QED
    BY <1>1, <1>2, PTL DEF Spec

(* The type invariant that the run checks follows.                         *)
THEOREM TypeCorrect == Spec => []TypeOK
  <1>1. AttemptType => TypeOK
    BY DEF AttemptType
  <1> QED
    BY <1>1, AttemptTypeCorrect, PTL

-----------------------------------------------------------------------------

(* Where the guards of a phase lead: on in the phase, or past it.          *)
LEMMA AfterMoves ==
  ASSUME NEW phase \in Phases, NEW at, NEW input, NEW output
  PROVE  After(phase, at, input, output).pc
           \in {phase, IF phase = "before_run" THEN "body" ELSE "commit"}
  BY DEF After, Idle

(* An attempt that goes on in or past a phase waits for nothing.           *)
LEMMA AfterWaits ==
  ASSUME NEW phase, NEW at, NEW input, NEW output
  PROVE  After(phase, at, input, output).wait = NoInterrupt
  BY DEF After, Idle

(* A guard's decision changes neither a record nor the bodies that ran, and *)
(* only one before the body can lead to another, or to the body.           *)
LEMMA GuardEffect ==
  ASSUME AttemptType,
         \/ GuardAllow \/ GuardRewriteInput \/ GuardRewriteOutput
         \/ GuardSkipOutput \/ GuardSkip \/ GuardRetry \/ GuardFail \/ GuardInterrupt
  PROVE  /\ UNCHANGED <<cp, act, crashes, interrupts, child>>
         /\ seen'.bodies = seen.bodies /\ seen'.held = seen.held
         /\ proc.pc \in Phases
         /\ proc'.pc \in {"before_run", "body"} => proc.pc = "before_run"
         /\ proc'.pc # "running"
         /\ proc'.pc \notin {"idle", "down"}
         /\ proc'.pc \in UnderWay
  <1>0. /\ proc \in Procs
        /\ seen \in [bodies : Seq(Nat), passed : SUBSET Bindings, cut : SUBSET Bindings,
                     held : Nat, failed : BOOLEAN]
    BY DEF AttemptType, TypeOK, Procs
  <1>1. ASSUME NEW decision, Rules(decision)
        PROVE  /\ UNCHANGED <<cp, act, crashes, interrupts, child>>
               /\ seen'.bodies = seen.bodies /\ seen'.held = seen.held
               /\ proc.pc \in Phases
    BY <1>0, <1>1 DEF Rules
  <1>2. CASE GuardAllow
    <2>1. proc'.pc \in {proc.pc, IF proc.pc = "before_run" THEN "body" ELSE "commit"}
      BY <1>1, <1>2, AfterMoves DEF GuardAllow
    <2> QED
      BY <1>1, <1>2, <2>1 DEF GuardAllow, Phases, UnderWay
  <1>3. CASE GuardRewriteInput
    BY <1>1, <1>3, AfterMoves DEF GuardRewriteInput, Rules, Phases, UnderWay
  <1>4. CASE GuardRewriteOutput
    BY <1>1, <1>4, AfterMoves DEF GuardRewriteOutput, Rules, Phases, UnderWay
  <1>5. CASE GuardSkipOutput
    <2>1. ASSUME NEW input, NEW fallback
          PROVE  [Idle EXCEPT !.pc = "commit", !.input = input, !.output = fallback].pc = "commit"
      BY DEF Idle
    <2>2. ASSUME NEW input, NEW fallback
          PROVE  After("before_commit", 0, input, fallback).pc \in {"before_commit", "commit"}
      BY AfterMoves DEF Phases
    <2>3. proc'.pc \in {"before_commit", "commit"}
      BY <1>5, <2>1, <2>2 DEF GuardSkipOutput
    <2> QED
      BY <1>1, <1>5, <2>3 DEF GuardSkipOutput, Phases, UnderWay
  <1>6. CASE GuardSkip \/ GuardRetry \/ GuardFail
    <2>1. proc'.pc \in {"skip", "retry", "fail"}
      BY <1>0, <1>6 DEF GuardSkip, GuardRetry, GuardFail, Procs
    <2> QED
      BY <1>1, <1>6, <2>1 DEF GuardSkip, GuardRetry, GuardFail, UnderWay, Phases
  <1>7. CASE GuardInterrupt
    <2>1. proc'.pc = "interrupt"
      BY <1>0, <1>7 DEF GuardInterrupt, Procs
    <2> QED
      BY <1>1, <1>7, <2>1 DEF GuardInterrupt, UnderWay, Phases
  <1> QED
    BY <1>2, <1>3, <1>4, <1>5, <1>6, <1>7

(* What the start of a body does, and what its return leaves behind.       *)
LEMMA StartBodyEffect ==
  ASSUME AttemptType, StartBody
  PROVE  /\ UNCHANGED <<cp, act, crashes, interrupts>>
         /\ proc.pc = "body" /\ proc'.pc = "running" /\ proc'.wait = proc.wait
         /\ seen' = [seen EXCEPT !.bodies = Append(@, act.attempt)]
  BY DEF StartBody, AttemptType, TypeOK

LEMMA BodyEffect ==
  ASSUME AttemptType, RefuseChild \/ BodyOutput \/ BodyError \/ ChildInterrupts
  PROVE  /\ UNCHANGED <<cp, act, crashes, interrupts>>
         /\ proc.pc \in {"body", "running"}
         /\ seen'.bodies = seen.bodies /\ seen'.held = seen.held
         /\ seen'.passed = seen.passed /\ seen'.cut = seen.cut
         /\ proc'.pc \in {"before_commit", "commit", "fail", "interrupt"}
  <1>0. /\ proc \in Procs
        /\ seen \in [bodies : Seq(Nat), passed : SUBSET Bindings, cut : SUBSET Bindings,
                     held : Nat, failed : BOOLEAN]
    BY DEF AttemptType, TypeOK, Procs
  <1>1. CASE RefuseChild
    BY <1>0, <1>1 DEF RefuseChild, Procs
  <1>2. CASE BodyOutput
    BY <1>2, AfterMoves DEF BodyOutput, BodyReturns, Phases
  <1>3. CASE BodyError
    BY <1>0, <1>3 DEF BodyError, BodyReturns, Procs
  <1>4. CASE ChildInterrupts
    BY <1>0, <1>4 DEF ChildInterrupts, Procs
  <1> QED
    BY <1>1, <1>2, <1>3, <1>4

(* What the return of a body does to the interrupt of the attempt.         *)
LEMMA BodyWaits ==
  ASSUME AttemptType, RefuseChild \/ BodyOutput \/ BodyError \/ ChildInterrupts
  PROVE  \/ proc'.wait \in {proc.wait, NoInterrupt}
         \/ /\ proc'.pc = "interrupt"
            /\ HoldsCandidate(proc'.wait)
            /\ proc'.wait.child = ChildRun
            /\ proc'.wait.asked = child.asked + 1
            /\ child'.runs[ChildRun] = "interrupted" /\ child'.asked = child.asked + 1
  <1>0. /\ proc \in Procs
        /\ child \in [nested : BOOLEAN, runs : [ChildRuns -> ChildStates], asked : Nat]
    BY DEF AttemptType, TypeOK, Procs
  <1>1. CASE RefuseChild \/ BodyError
    BY <1>0, <1>1 DEF RefuseChild, BodyError, Procs
  <1>2. CASE BodyOutput
    BY <1>2, AfterWaits DEF BodyOutput
  <1>3. CASE ChildInterrupts
    <2>1. PICK phase \in Phases, maker \in {"child", "mistyped"} :
            proc' = [proc EXCEPT !.pc = "interrupt",
                       !.wait = [guard |-> NoGuard, phase |-> phase,
                                 candidate |-> IF phase = "before_commit"
                                               THEN [of |-> proc.input, by |-> {}, maker |-> maker]
                                               ELSE NoOutput,
                                 child |-> ChildRun, asked |-> child'.asked]]
      BY <1>3 DEF ChildInterrupts
    <2>2. [of |-> proc.input, by |-> {}, maker |-> maker] # NoOutput
      BY DEF NoOutput
    <2>3. ChildRun \in ChildRuns
      BY ChildRunExists DEF AttemptType
    <2>4. child'.runs[ChildRun] = "interrupted" /\ child'.asked = child.asked + 1
      BY <1>0, <1>3, <2>3 DEF ChildInterrupts
    <2>5. /\ proc'.pc = "interrupt"
          /\ proc'.wait = [guard |-> NoGuard, phase |-> phase,
                           candidate |-> IF phase = "before_commit"
                                         THEN [of |-> proc.input, by |-> {}, maker |-> maker]
                                         ELSE NoOutput,
                           child |-> ChildRun, asked |-> child'.asked]
      BY <1>0, <2>1 DEF Procs
    <2> QED
      BY <2>2, <2>4, <2>5 DEF HoldsCandidate
  <1> QED
    BY <1>1, <1>2, <1>3

(* The bodies of one activation are numbered without repetition, however   *)
(* often the process crashes: every attempt is counted in the checkpoint   *)
(* before its body runs, and has one body.                                 *)
THEOREM AttemptsAreNumbered == Spec => []AttemptsAreDistinct
  <1>1. Init => BodiesAreCounted
    BY DEF Init, BodiesAreCounted, AttemptsAreDistinct
  <1>2. ASSUME AttemptType, BodiesAreCounted, [Next]_vars
        PROVE  BodiesAreCounted'
    <2> DEFINE n == Len(seen.bodies)
    <2>0. /\ n \in Nat /\ seen.bodies \in Seq(Nat) /\ act.attempt \in Nat
          /\ cp.act.attempt \in Nat /\ act \in Activations /\ cp.act \in Activations
          /\ \A j \in 1..n : seen.bodies[j] \in Nat
      BY <1>2, LenProperties, ElementOfSeq DEF AttemptType, TypeOK, Activations
    <2> USE <1>2 DEF BodiesAreCounted
    <2>1. CASE StartAttempt
      <3>1. act'.attempt = act.attempt + 1 /\ cp'.act = act' /\ seen'.bodies = seen.bodies
        BY <2>0, <2>1 DEF StartAttempt, AttemptType, TypeOK, Activations
      <3>2. \A j \in 1..n : seen.bodies[j] < cp'.act.attempt
        <4>1. cp'.act.attempt = cp.act.attempt + 1
          BY <2>1, <3>1 DEF StartAttempt
        <4> QED
          BY <2>0, <4>1
      <3> QED
        BY <2>0, <3>1, <3>2 DEF AttemptsAreDistinct
    <2>2. CASE \/ GuardAllow \/ GuardRewriteInput \/ GuardRewriteOutput
               \/ GuardSkipOutput \/ GuardSkip \/ GuardRetry \/ GuardFail \/ GuardInterrupt
      BY <2>2, GuardEffect DEF Phases, AttemptsAreDistinct
    <2>3. CASE StartBody
      <3>1. /\ seen'.bodies = Append(seen.bodies, act.attempt) /\ UNCHANGED <<cp, act>>
            /\ proc.pc = "body" /\ proc'.pc \notin {"before_run", "body"}
        BY <2>3, StartBodyEffect DEF AttemptType, TypeOK
      <3>2. /\ Len(seen'.bodies) = n + 1 /\ seen'.bodies[n + 1] = act.attempt
            /\ \A j \in 1..n : seen'.bodies[j] = seen.bodies[j]
        BY <2>0, <3>1
      <3> QED
        BY SMTT(30), <2>0, <3>1, <3>2 DEF AttemptsAreDistinct
    <2>10. CASE RefuseChild \/ BodyOutput \/ BodyError \/ ChildInterrupts
      BY <2>10, BodyEffect DEF AttemptsAreDistinct
    <2>4. ASSUME UNCHANGED seen, cp'.act.attempt = cp.act.attempt,
                 proc'.pc \notin {"before_run", "body"},
                 proc'.pc # "down" => act'.attempt = cp.act.attempt
          PROVE  BodiesAreCounted'
      BY <2>4 DEF AttemptsAreDistinct
    <2>5. CASE CommitActivation \/ HandleNodeError \/ CommitRetry
      <3>1. /\ act'.attempt = act.attempt /\ cp'.act = act' /\ proc' = Idle
            /\ proc.pc # "down" /\ UNCHANGED seen
        BY <2>0, <2>5
        DEF CommitActivation, HandleNodeError, Finish, CommitRetry, AttemptType, TypeOK,
            Activations
      <3> QED
        BY <2>4, <3>1 DEF Idle
    <2>6. CASE Interrupt
      BY <2>0, <2>6 DEF Interrupt, Down, Idle, AttemptType, TypeOK, Activations,
                        AttemptsAreDistinct
    <2>7. CASE Crash
      BY <2>4, <2>7 DEF Crash, Down, Idle
    <2>8. CASE Resume
      BY <2>0, <2>4, <2>8
      DEF Resume, Idle, prepareResume, AttemptType, TypeOK, Activations
    <2>9. CASE UNCHANGED vars
      BY <2>9 DEF vars, AttemptsAreDistinct
    <2> QED
      BY <2>1, <2>2, <2>3, <2>5, <2>6, <2>7, <2>8, <2>9, <2>10 DEF Next
  <1>3. BodiesAreCounted => AttemptsAreDistinct
    BY DEF BodiesAreCounted
  <1>4. Spec => []AttemptType
    BY AttemptTypeCorrect
  <1> QED
    BY <1>1, <1>2, <1>3, <1>4, PTL DEF Spec

-----------------------------------------------------------------------------

(* No output is the missing one.                                           *)
LEMMA OutputsAreThere ==
  /\ NoOutput \notin Outputs
  /\ HoldsCandidate(NoInterrupt)
  BY GuardsAreNamed DEF NoOutput, Outputs, HoldsCandidate, NoInterrupt, NoGuard

(* What a guard's decision does to the interrupt of the attempt.           *)
LEMMA GuardWaits ==
  ASSUME AttemptType, HoldsCandidate(proc.wait),
         \/ GuardAllow \/ GuardRewriteInput \/ GuardRewriteOutput
         \/ GuardSkipOutput \/ GuardSkip \/ GuardRetry \/ GuardFail \/ GuardInterrupt
  PROVE  /\ HoldsCandidate(proc'.wait)
         /\ proc'.wait \in {proc.wait, NoInterrupt} \/ proc'.wait.phase = proc.pc
  <1>0. proc \in Procs /\ ProcType(proc)
    BY DEF AttemptType, TypeOK, Procs, ProcType
  <1>1. CASE GuardAllow \/ GuardRewriteInput \/ GuardRewriteOutput
    BY <1>1, AfterWaits, OutputsAreThere DEF GuardAllow, GuardRewriteInput, GuardRewriteOutput
  <1>2. CASE GuardSkipOutput
    <2>1. ASSUME NEW input, NEW fallback
          PROVE  [Idle EXCEPT !.pc = "commit", !.input = input, !.output = fallback].wait
                   = NoInterrupt
      BY DEF Idle
    <2> QED
      BY <1>2, <2>1, AfterWaits, OutputsAreThere DEF GuardSkipOutput
  <1>3. CASE GuardSkip \/ GuardRetry \/ GuardFail
    BY <1>0, <1>3 DEF GuardSkip, GuardRetry, GuardFail, Procs
  <1>4. CASE GuardInterrupt
    <2>1. proc'.wait = [guard |-> Guard, phase |-> proc.pc,
                        candidate |-> IF proc.pc = "before_commit" THEN proc.output ELSE NoOutput,
                        child |-> NoChild, asked |-> 0]
      BY <1>0, <1>4 DEF GuardInterrupt, Procs
    <2>2. proc.pc = "before_commit" => proc.output # NoOutput
      BY <1>0, OutputsAreThere DEF ProcType
    <2> QED
      BY <2>1, <2>2 DEF HoldsCandidate
  <1> QED
    BY <1>1, <1>2, <1>3, <1>4

(* An attempt that resumes from an answered candidate starts past the body, *)
(* or fails by the candidate's type, and no body has started since the     *)
(* candidate was made, whether a guard of this node or one of a child      *)
(* workflow asked about it.                                                *)
THEOREM CandidatesAreLast == Spec => []CandidatesAreKept
  <1>1. Init => CandidatesAreKept
    <2> SUFFICES ASSUME Init PROVE CandidatesAreKept
      OBVIOUS
    <2>1. /\ proc.wait = NoInterrupt /\ cp.pending = NoInterrupt /\ cp.resolved = NoInterrupt
          /\ NoInterrupt.candidate = NoOutput
      BY DEF Init, Idle, NoInterrupt
    <2> QED
      BY <2>1, OutputsAreThere DEF CandidatesAreKept, CandidateIsNotRebuilt, ResumesCandidate
  <1>2. ASSUME AttemptType, CandidatesAreKept, [Next]_vars
        PROVE  CandidatesAreKept'
    <2>0. /\ proc \in Procs
          /\ cp \in [act : Activations, pending : Interrupts \cup {NoInterrupt},
                     resolved : Interrupts \cup {NoInterrupt},
                     output : Outputs \cup {NoOutput}]
          /\ seen \in [bodies : Seq(Nat), passed : SUBSET Bindings,
                       cut : SUBSET Bindings, held : Nat, failed : BOOLEAN]
          /\ NoInterrupt.candidate = NoOutput
      BY <1>2 DEF AttemptType, TypeOK, Procs, NoInterrupt
    <2> USE <1>2, OutputsAreThere DEF CandidatesAreKept, CandidateIsNotRebuilt, ResumesCandidate
    <2>1. CASE StartAttempt
      <3>1. /\ cp'.pending = cp.pending /\ cp'.resolved = cp.resolved
            /\ seen'.bodies = seen.bodies /\ seen'.held = seen.held
        BY <2>0, <2>1 DEF StartAttempt
      <3>2. proc'.wait = NoInterrupt
        BY <2>1, AfterWaits DEF StartAttempt, FirstStep, Idle
      <3>3. ResumesCandidate => proc'.pc \in {"before_commit", "commit", "fail"}
        BY <2>1, AfterMoves DEF StartAttempt, FirstStep, Phases, Idle
      <3>4. cp.pending = NoInterrupt
        BY <2>1 DEF StartAttempt
      <3> QED
        BY <2>0, <3>1, <3>2, <3>3, <3>4
    <2>2. CASE \/ GuardAllow \/ GuardRewriteInput \/ GuardRewriteOutput
               \/ GuardSkipOutput \/ GuardSkip \/ GuardRetry \/ GuardFail \/ GuardInterrupt
      <3>1. /\ cp' = cp /\ seen'.bodies = seen.bodies /\ seen'.held = seen.held
            /\ proc.pc # "down"
            /\ proc'.pc \in {"before_run", "body"} => proc.pc = "before_run"
            /\ proc'.pc # "running"
        BY <2>2, GuardEffect DEF Phases
      <3>2. HoldsCandidate(proc'.wait)
        BY <2>2, GuardWaits
      <3> QED
        BY <3>1, <3>2
    <2>3. CASE StartBody
      <3>1. /\ cp' = cp /\ proc.pc = "body" /\ proc'.pc = "running"
            /\ proc'.wait = proc.wait
        BY <2>3, StartBodyEffect
      <3>2. ~ ResumesCandidate /\ cp.pending = NoInterrupt
        BY <3>1
      <3> QED
        BY <2>0, <3>1, <3>2
    <2>11. CASE RefuseChild \/ BodyOutput \/ BodyError \/ ChildInterrupts
      <3>1. /\ cp' = cp /\ proc.pc \in {"body", "running"}
            /\ proc'.pc \notin {"before_run", "body", "running"}
            /\ seen'.held = seen.held /\ seen'.bodies = seen.bodies
        BY <2>11, BodyEffect
      <3>2. HoldsCandidate(proc'.wait)
        BY <2>0, <2>11, BodyWaits
      <3> QED
        BY <2>0, <3>1, <3>2
    <2>4. ASSUME proc'.pc \in {"idle", "down"}, proc'.wait = NoInterrupt,
                 UNCHANGED seen, cp'.pending = cp.pending, cp'.resolved = cp.resolved,
                 proc'.pc # "down" => cp.pending = NoInterrupt
          PROVE  CandidatesAreKept'
      BY <2>4
    <2>5. Idle.pc = "idle" /\ Idle.wait = NoInterrupt /\ Down.pc = "down" /\ Down.wait = NoInterrupt
      BY DEF Idle, Down
    <2>6. CASE CommitActivation \/ HandleNodeError \/ CommitRetry
      <3>1. /\ cp'.pending = cp.pending /\ cp'.resolved = cp.resolved /\ proc' = Idle
            /\ proc.pc # "down" /\ UNCHANGED seen
        BY <2>0, <2>6 DEF CommitActivation, HandleNodeError, Finish, CommitRetry
      <3> QED
        BY <2>4, <2>5, <3>1
    <2>7. CASE Interrupt
      <3>1. /\ cp'.pending = proc.wait /\ cp'.resolved = cp.resolved /\ proc' = Down
            /\ seen'.bodies = seen.bodies
            /\ seen'.held = IF proc.wait.candidate # NoOutput THEN Len(seen.bodies) ELSE seen.held
        BY <2>0, <2>7 DEF Interrupt
      <3> QED
        BY <2>5, <3>1
    <2>8. CASE Crash
      BY <2>4, <2>5, <2>8 DEF Crash
    <2>9. CASE Resume
      <3>1. /\ proc' = Idle /\ UNCHANGED seen
            /\ \/ cp.pending = NoInterrupt /\ cp' = cp
               \/ /\ cp.pending # NoInterrupt /\ cp'.pending = NoInterrupt
                  /\ cp'.resolved = cp.pending
        BY <2>0, <2>9 DEF Resume
      <3> QED
        BY <2>0, <2>4, <2>5, <3>1
    <2>10. CASE UNCHANGED vars
      BY <2>10 DEF vars
    <2> QED
      BY <2>1, <2>2, <2>3, <2>6, <2>7, <2>8, <2>9, <2>10, <2>11 DEF Next
  <1> QED
    BY <1>1, <1>2, AttemptTypeCorrect, PTL DEF Spec

(* While the activation goes on from an answered candidate of its own and  *)
(* the input it was made from, its body does not run again.                *)
THEOREM BodiesAreNotRepeated == Spec => []CandidateIsNotRebuilt
  <1>1. CandidatesAreKept => CandidateIsNotRebuilt
    BY DEF CandidatesAreKept, CandidateIsNotRebuilt
  <1> QED
    BY <1>1, CandidatesAreLast, PTL

-----------------------------------------------------------------------------

(* What was covered stays so while the history of the attempt grows.       *)
LEMMA CoverIsKept ==
  ASSUME seen.passed \subseteq seen'.passed, seen.cut \subseteq seen'.cut
  PROVE  /\ \A phase, n : Covered(phase, n) => Covered(phase, n)'
         /\ \A phase : Vetted(phase) => Vetted(phase)'
  BY DEF Covered, Vetted

(* A guard that is passed over was answered, so that After covers what it  *)
(* leaves behind.                                                          *)
LEMMA AfterCovers ==
  ASSUME NEW phase \in Phases, NEW at \in 0..Len(GuardsOf(phase)), NEW input, NEW output,
         NEW next, next = After(phase, at, input, output),
         Covered(phase, at)', Answered \subseteq seen'.passed
  PROVE  /\ next.pc \in {phase, IF phase = "before_run" THEN "body" ELSE "commit"}
         /\ next.pc = phase => Covered(phase, next.at - 1)'
         /\ next.pc # phase => Vetted(phase)'
  <1> DEFINE n == Len(GuardsOf(phase))
  <1>1. n \in Nat /\ at \in Nat
    BY GuardsAreNumbered
  <1>2. ASSUME NEW k \in 1..n, ~ shouldRun(GuardsOf(phase)[k], phase)
        PROVE  <<phase, GuardsOf(phase)[k]>> \in seen'.passed
    BY <1>2, GuardsAreNumbered DEF shouldRun, Answered
  <1>3. ASSUME NEW m \in at..n,
               \A k \in at + 1..m : ~ shouldRun(GuardsOf(phase)[k], phase)
        PROVE  Covered(phase, m)'
    <2> SUFFICES ASSUME NEW k \in 1..m
                 PROVE  \/ <<phase, GuardsOf(phase)[k]>> \in seen'.passed
                        \/ \E j \in 1..k : <<phase, GuardsOf(phase)[j]>> \in seen'.cut
      BY DEF Covered
    <2>1. CASE k \in 1..at
      BY <2>1 DEF Covered
    <2>2. CASE k \notin 1..at
      <3>1. k \in at + 1..m /\ k \in 1..n
        BY <1>1, <2>2
      <3> QED
        BY <1>2, <1>3, <3>1
    <2> QED
      BY <2>1, <2>2
  <1>4. \/ /\ next.pc = phase /\ next.at \in at + 1..n
           /\ \A k \in at + 1..next.at - 1 : ~ shouldRun(GuardsOf(phase)[k], phase)
        \/ /\ next.pc = (IF phase = "before_run" THEN "body" ELSE "commit")
           /\ \A k \in at + 1..n : ~ shouldRun(GuardsOf(phase)[k], phase)
    BY AfterEffect
  <1>5. next.pc \in {phase, IF phase = "before_run" THEN "body" ELSE "commit"}
    BY <1>4
  <1>6. ASSUME next.pc = phase PROVE Covered(phase, next.at - 1)'
    <2>1. /\ next.at \in at + 1..n
          /\ \A k \in at + 1..next.at - 1 : ~ shouldRun(GuardsOf(phase)[k], phase)
      BY <1>4, <1>6 DEF Phases
    <2>2. next.at - 1 \in at..n
      BY <1>1, <2>1
    <2> QED
      BY <1>3, <2>1, <2>2
  <1>7. ASSUME next.pc # phase PROVE Vetted(phase)'
    <2>1. \A k \in at + 1..n : ~ shouldRun(GuardsOf(phase)[k], phase)
      BY <1>4, <1>7
    <2>2. Covered(phase, n)'
      BY <1>1, <1>3, <2>1
    <2> QED
      BY <2>2 DEF Covered, Vetted
  <1> QED
    BY <1>5, <1>6, <1>7

(* Nothing is behind the start of a phase.                                 *)
LEMMA StartIsCovered ==
  ASSUME NEW phase \in Phases
  PROVE  Covered(phase, 0)' /\ 0 \in 0..Len(GuardsOf(phase))
  BY GuardsAreNumbered DEF Covered

(* A guard that lets the value pass covers itself, one that gives the      *)
(* output covers the phase.                                                *)
LEMMA GuardCovers ==
  ASSUME NEW phase \in Phases, NEW at \in 1..Len(GuardsOf(phase)), Covered(phase, at - 1),
         seen.passed \subseteq seen'.passed, seen.cut \subseteq seen'.cut
  PROVE  /\ <<phase, GuardsOf(phase)[at]>> \in seen'.passed => Covered(phase, at)'
         /\ <<phase, GuardsOf(phase)[at]>> \in seen'.cut => Vetted(phase)'
  <1> DEFINE n == Len(GuardsOf(phase))
  <1>1. n \in Nat /\ at \in Nat
    BY GuardsAreNumbered
  <1>2. Covered(phase, at - 1)'
    BY CoverIsKept
  <1>3. \A k \in 1..n : k \in 1..at - 1 \/ at \in 1..k
    BY <1>1
  <1>4. \A k \in 1..at : k \in 1..at - 1 \/ k = at
    BY <1>1
  <1> QED
    BY <1>2, <1>3, <1>4 DEF Covered, Vetted

(* What a guard's decision covers.                                         *)
LEMMA GuardsVet ==
  ASSUME AttemptType, Vetting,
         \/ GuardAllow \/ GuardRewriteInput \/ GuardRewriteOutput
         \/ GuardSkipOutput \/ GuardSkip \/ GuardRetry \/ GuardFail \/ GuardInterrupt
  PROVE  /\ seen.passed \subseteq seen'.passed /\ seen.cut \subseteq seen'.cut
         /\ PhasesAreCovered'
  <1>0. /\ proc \in Procs /\ proc.pc \in Phases
        /\ seen \in [bodies : Seq(Nat), passed : SUBSET Bindings, cut : SUBSET Bindings,
                     held : Nat, failed : BOOLEAN]
        /\ proc.at \in 1..Len(GuardsOf(proc.pc)) /\ proc.at \in 0..Len(GuardsOf(proc.pc))
    <2>1. proc.pc \in Phases
      BY GuardEffect
    <2> QED
      BY <2>1, GuardsAreNumbered DEF AttemptType, TypeOK, Procs
  <1>1. /\ seen.passed \subseteq seen'.passed /\ seen.cut \subseteq seen'.cut
        /\ Answered \subseteq seen'.passed
    <2>1. ASSUME NEW decision, Rules(decision)
          PROVE  seen.passed \subseteq seen'.passed /\ seen.cut \subseteq seen'.cut
      BY <1>0, <2>1 DEF Rules
    <2>2. seen.passed \subseteq seen'.passed /\ seen.cut \subseteq seen'.cut
      BY <2>1 DEF GuardAllow, GuardRewriteInput, GuardRewriteOutput, GuardSkipOutput,
                  GuardSkip, GuardRetry, GuardFail, GuardInterrupt
    <2>3. Answered \subseteq seen.passed
      BY <1>0 DEF Vetting, UnderWay
    <2> QED
      BY <2>2, <2>3
  <1> PICK phase, at, next : phase \in Phases /\ phase = proc.pc /\ at = proc.at /\ next = proc'
    BY <1>0
  <1>2. /\ Covered(phase, at - 1)
        /\ phase = "before_commit" => Vetted("before_run")'
    BY <1>0, <1>1, CoverIsKept DEF Vetting, PhasesAreCovered, Phases
  <1>3. /\ Binding \in seen'.passed => Covered(phase, at)'
        /\ Binding \in seen'.cut => Vetted(phase)'
    BY <1>0, <1>1, <1>2, GuardCovers DEF Binding, Guard
  <1>4. CASE GuardAllow \/ GuardRewriteInput \/ GuardRewriteOutput
    <2>1. Binding \in seen'.passed
      BY ZenonT(60), <1>0, <1>4 DEF GuardAllow, GuardRewriteInput, GuardRewriteOutput, Rules
    <2>2. \E input, output : next = After(phase, at, input, output)
      BY <1>4 DEF GuardAllow, GuardRewriteInput, GuardRewriteOutput
    <2>3. /\ next.pc \in {phase, IF phase = "before_run" THEN "body" ELSE "commit"}
          /\ next.pc = phase => Covered(phase, next.at - 1)'
          /\ next.pc # phase => Vetted(phase)'
      BY <1>0, <1>1, <1>3, <2>1, <2>2, AfterCovers
    <2> QED
      BY <1>1, <1>2, <2>3 DEF PhasesAreCovered, Phases
  <1>5. CASE GuardSkipOutput
    <2>1. Vetted(phase)'
      BY <1>0, <1>3, <1>5 DEF GuardSkipOutput, Rules
    <2>2. CASE phase = "before_run"
      <3>1. \E fallback : next = After("before_commit", 0, proc.input, fallback)
        BY <1>5, <2>2 DEF GuardSkipOutput
      <3>2. /\ next.pc \in {"before_commit", "commit"}
            /\ next.pc = "before_commit" => Covered("before_commit", next.at - 1)'
            /\ next.pc # "before_commit" => Vetted("before_commit")'
        BY <1>1, <3>1, StartIsCovered, AfterCovers DEF Phases
      <3> QED
        BY <1>1, <2>1, <2>2, <3>2 DEF PhasesAreCovered
    <2>3. CASE phase = "before_commit"
      <3>1. next.pc = "commit"
        BY <1>5, <2>3 DEF GuardSkipOutput, Idle
      <3> QED
        BY <1>1, <1>2, <2>1, <2>3, <3>1 DEF PhasesAreCovered
    <2> QED
      BY <2>2, <2>3 DEF Phases
  <1>6. CASE GuardSkip \/ GuardRetry \/ GuardFail \/ GuardInterrupt
    <2>1. next.pc \in {"skip", "retry", "fail", "interrupt"}
      BY <1>0, <1>6 DEF GuardSkip, GuardRetry, GuardFail, GuardInterrupt, Procs
    <2> QED
      BY <1>1, <2>1 DEF PhasesAreCovered
  <1> QED
    BY <1>4, <1>5, <1>6

(* The start of an attempt forgets what the last one covered, but for what *)
(* led to the candidate it resumes from.                                   *)
LEMMA StartsVetted ==
  ASSUME AttemptType, CandidatesAreKept, Vetting, StartAttempt
  PROVE  Vetting'
  <1>0. /\ seen \in [bodies : Seq(Nat), passed : SUBSET Bindings, cut : SUBSET Bindings,
                     held : Nat, failed : BOOLEAN]
        /\ cp \in [act : Activations, pending : Interrupts \cup {NoInterrupt},
                   resolved : Interrupts \cup {NoInterrupt}, output : Outputs \cup {NoOutput}]
        /\ act \in Activations
    BY DEF AttemptType, TypeOK
  <1>1. /\ cp'.act = act' /\ act'.phase = "running"
        /\ cp'.resolved = cp.resolved /\ cp'.pending = NoInterrupt
        /\ seen'.passed = Answered \cup
             (IF ResumesCandidate THEN seen.passed \cap BoundBeforeRun ELSE {})
        /\ seen'.cut = IF ResumesCandidate THEN seen.cut \cap BoundBeforeRun ELSE {}
    BY <1>0 DEF StartAttempt, CandidatesAreKept, Activations
  <1>a. NoInterrupt.phase # "before_commit"
    BY DEF NoInterrupt, NoGuard
  <1>2. ResumesCandidate <=> cp.resolved.phase = "before_commit"
    BY <1>a DEF CandidatesAreKept, HoldsCandidate, ResumesCandidate
  <1>3. ASSUME ResumesCandidate PROVE Vetted("before_run")'
    <2>1. Vetted("before_run")
      BY <1>2, <1>3 DEF Vetting
    <2>2. \A k \in 1..Len(GuardsOf("before_run")) :
            <<"before_run", GuardsOf("before_run")[k]>> \in BoundBeforeRun
      BY GuardsAreNumbered DEF Phases, BoundBeforeRun
    <2>3. /\ seen.passed \cap BoundBeforeRun \subseteq seen'.passed
          /\ seen.cut \cap BoundBeforeRun \subseteq seen'.cut
      BY <1>1, <1>3
    <2>4. Len(GuardsOf("before_run")) \in Nat
      BY GuardsAreNumbered DEF Phases
    <2>5. \A k \in 1..Len(GuardsOf("before_run")) : \A j \in 1..k :
            j \in 1..Len(GuardsOf("before_run"))
      BY <2>4
    <2> QED
      BY <2>1, <2>2, <2>3, <2>5 DEF Vetted
  <1>4. PICK next : next = proc'
    OBVIOUS
  <1>5. next.wait = NoInterrupt
    BY <1>4, AfterWaits DEF StartAttempt, FirstStep, Idle
  <1>6. Answered \subseteq seen'.passed /\ Answered' = Answered
    BY <1>1 DEF Answered
  <1>7. PhasesAreCovered'
    <2>3. CASE ResumesCandidate /\ cp.resolved.candidate.maker = "mistyped"
      BY <1>4, <2>3 DEF StartAttempt, FirstStep, Idle, PhasesAreCovered
    <2>1. CASE ResumesCandidate /\ cp.resolved.candidate.maker # "mistyped"
      <3>1. next = After("before_commit", 0, act.input, cp.resolved.candidate)
        BY <1>4, <2>1 DEF StartAttempt, FirstStep
      <3>2. /\ next.pc \in {"before_commit", "commit"}
            /\ next.pc = "before_commit" => Covered("before_commit", next.at - 1)'
            /\ next.pc # "before_commit" => Vetted("before_commit")'
        BY <1>6, <3>1, StartIsCovered, AfterCovers DEF Phases
      <3> QED
        BY <1>3, <1>4, <2>1, <3>2 DEF PhasesAreCovered
    <2>2. CASE ~ ResumesCandidate
      <3>1. next = After("before_run", 0, act.input, NoOutput)
        BY <1>4, <2>2 DEF StartAttempt, FirstStep
      <3>2. /\ next.pc \in {"before_run", "body"}
            /\ next.pc = "before_run" => Covered("before_run", next.at - 1)'
            /\ next.pc # "before_run" => Vetted("before_run")'
        BY <1>6, <3>1, StartIsCovered, AfterCovers DEF Phases
      <3> QED
        BY <1>4, <3>2 DEF PhasesAreCovered
    <2> QED
      BY <2>1, <2>2, <2>3
  <1>8. next.pc # "idle"
    BY <1>4, AfterMoves DEF StartAttempt, FirstStep, Phases, Idle
  <1>9. CommittedWasVetted'
    BY <1>1 DEF CommittedWasVetted
  <1> QED
    BY <1>1, <1>2, <1>3, <1>4, <1>5, <1>6, <1>7, <1>8, <1>9, <1>a DEF Vetting

(* No output is committed past a guard of the node, whoever made it: its   *)
(* body, a guard, or a node of a child workflow; through any sequence of   *)
(* rewrites, fallbacks, interrupts, answers, retries and crashes.          *)
THEOREM CommitsAreVetted == Spec => []CommittedWasVetted
  <1>1. Init => Vetting
    <2> SUFFICES ASSUME Init PROVE Vetting
      OBVIOUS
    <2>1. /\ proc.pc = "idle" /\ proc.wait = NoInterrupt /\ cp.pending = NoInterrupt
          /\ cp.resolved = NoInterrupt /\ cp.act = act /\ act.phase = "ready"
          /\ NoInterrupt.phase = "none"
      BY DEF Init, Idle, NoInterrupt, NoGuard
    <2> QED
      BY <2>1 DEF Vetting, UnderWay, Phases, PhasesAreCovered, CommittedWasVetted, Ended
  <1>2. ASSUME AttemptType, CandidatesAreKept, Vetting, [Next]_vars
        PROVE  Vetting'
    <2>0. /\ proc \in Procs
          /\ cp \in [act : Activations, pending : Interrupts \cup {NoInterrupt},
                     resolved : Interrupts \cup {NoInterrupt},
                     output : Outputs \cup {NoOutput}]
          /\ act \in Activations
          /\ seen \in [bodies : Seq(Nat), passed : SUBSET Bindings,
                       cut : SUBSET Bindings, held : Nat, failed : BOOLEAN]
          /\ NoInterrupt.phase # "before_commit"
          /\ HoldsCandidate(proc.wait)
      BY <1>2 DEF AttemptType, TypeOK, Procs, NoInterrupt, NoGuard, CandidatesAreKept
    <2> USE <1>2
    <2>1. CASE StartAttempt
      BY <2>1, StartsVetted
    <2>2. CASE \/ GuardAllow \/ GuardRewriteInput \/ GuardRewriteOutput
               \/ GuardSkipOutput \/ GuardSkip \/ GuardRetry \/ GuardFail \/ GuardInterrupt
      <3>1. /\ UNCHANGED <<cp, act>> /\ proc.pc \in Phases
            /\ proc'.pc \in UnderWay /\ proc'.pc # "idle"
        BY <2>2, GuardEffect
      <3>2. /\ seen.passed \subseteq seen'.passed /\ seen.cut \subseteq seen'.cut
            /\ PhasesAreCovered'
        BY <2>2, GuardsVet
      <3>3. \A phase : Vetted(phase) => Vetted(phase)'
        BY <3>2, CoverIsKept
      <3>4. act.phase = "running" /\ cp.act = act /\ Answered \subseteq seen.passed
        BY <3>1 DEF Vetting, UnderWay
      <3>5. proc'.wait.phase = "before_commit" => Vetted("before_run")'
        <4>1. proc'.wait \in {proc.wait, NoInterrupt} \/ proc'.wait.phase = proc.pc
          BY <2>0, <2>2, GuardWaits
        <4> QED
          BY <2>0, <3>3, <4>1 DEF Vetting, PhasesAreCovered
      <3>6. Answered' = Answered
        BY <3>1 DEF Answered
      <3>7. CommittedWasVetted'
        BY <3>1, <3>4 DEF CommittedWasVetted
      <3> QED
        BY <3>1, <3>2, <3>3, <3>4, <3>5, <3>6, <3>7 DEF Vetting
    <2>12. CASE StartBody
      <3>1. /\ UNCHANGED <<cp, act>> /\ proc.pc = "body" /\ proc'.pc = "running"
            /\ proc'.wait = proc.wait /\ seen'.passed = seen.passed /\ seen'.cut = seen.cut
        BY <2>0, <2>12, StartBodyEffect
      <3>2. \A phase : Vetted(phase) => Vetted(phase)'
        BY <3>1, CoverIsKept
      <3>3. /\ Vetted("before_run")' /\ act.phase = "running" /\ cp.act = act
            /\ Answered \subseteq seen'.passed /\ Answered' = Answered
        BY <3>1, <3>2 DEF Vetting, PhasesAreCovered, UnderWay, Answered
      <3>4. CommittedWasVetted'
        BY <3>1, <3>3 DEF CommittedWasVetted
      <3> QED
        BY <3>1, <3>2, <3>3, <3>4 DEF Vetting, PhasesAreCovered, UnderWay, Phases
    <2>3. CASE RefuseChild \/ BodyOutput \/ BodyError \/ ChildInterrupts
      <3>1. /\ UNCHANGED <<cp, act>> /\ proc.pc \in {"body", "running"}
            /\ proc'.pc \in {"before_commit", "commit", "fail", "interrupt"}
            /\ seen'.passed = seen.passed /\ seen'.cut = seen.cut
        BY <2>0, <2>3, BodyEffect
      <3>2. \A phase : Vetted(phase) => Vetted(phase)'
        BY <3>1, CoverIsKept
      <3>3. /\ Vetted("before_run")' /\ act.phase = "running" /\ cp.act = act
            /\ Answered \subseteq seen'.passed /\ Answered' = Answered
        BY <3>1, <3>2 DEF Vetting, PhasesAreCovered, UnderWay, Answered
      <3>4. PhasesAreCovered'
        <4>1. PICK next : next = proc'
          OBVIOUS
        <4>2. CASE next.pc \in {"fail", "interrupt"}
          BY <4>1, <4>2 DEF PhasesAreCovered
        <4>3. CASE next.pc \notin {"fail", "interrupt"}
          <5>1. \E output : next = After("before_commit", 0, proc.input, output)
            BY <2>0, <2>3, <4>1, <4>3
            DEF RefuseChild, BodyOutput, BodyError, ChildInterrupts, Procs
          <5>2. /\ next.pc = "before_commit" => Covered("before_commit", next.at - 1)'
                /\ next.pc # "before_commit" => Vetted("before_commit")'
            BY <3>3, <5>1, StartIsCovered, AfterCovers DEF Phases
          <5> QED
            BY <3>1, <3>3, <4>1, <5>2 DEF PhasesAreCovered
        <4> QED
          BY <4>2, <4>3
      <3>5. CommittedWasVetted'
        BY <3>1, <3>3 DEF CommittedWasVetted
      <3> QED
        BY <3>1, <3>2, <3>3, <3>4, <3>5 DEF Vetting, UnderWay
    <2>4. ASSUME UNCHANGED seen, proc' \in {Idle, Down},
                 cp'.pending = cp.pending, cp'.resolved = cp.resolved,
                 cp'.act.phase = "completed" =>
                   Vetted("before_run") /\ Vetted("before_commit"),
                 proc' = Idle /\ Ended' => act'.phase = cp'.act.phase
          PROVE  Vetting'
      <3>1. \A phase : Vetted(phase) => Vetted(phase)'
        BY <2>4, CoverIsKept
      <3>2. /\ proc'.pc \in {"idle", "down"} /\ proc'.wait = NoInterrupt
            /\ proc'.pc = "idle" => proc' = Idle
        BY <2>4 DEF Idle, Down
      <3> QED
        BY <2>0, <2>4, <3>1, <3>2
        DEF Vetting, UnderWay, Phases, PhasesAreCovered, CommittedWasVetted
    <2>5. ASSUME NEW pc, NEW phase \in ActivationPhases, Finish(pc, phase),
                 phase = "completed" => pc = "commit"
          PROVE  Vetting'
      <3>1. /\ cp'.act = act' /\ act'.phase = phase /\ cp'.pending = cp.pending
            /\ cp'.resolved = cp.resolved /\ proc' = Idle /\ UNCHANGED seen
        BY <2>0, <2>5 DEF Finish, Activations
      <3>2. phase = "completed" => Vetted("before_run") /\ Vetted("before_commit")
        BY <2>5 DEF Finish, Vetting, PhasesAreCovered
      <3> QED
        BY <2>4, <3>1, <3>2
    <2>6. CASE CommitRetry
      <3>1. /\ cp'.act = act' /\ act'.phase = "ready" /\ cp'.pending = cp.pending
            /\ cp'.resolved = cp.resolved /\ proc' = Idle /\ UNCHANGED seen
        BY <2>0, <2>6 DEF CommitRetry, Activations
      <3> QED
        BY <2>4, <3>1
    <2>7. CASE Interrupt
      <3>1. /\ cp'.act.phase = "interrupted" /\ cp'.pending = proc.wait
            /\ cp'.resolved = cp.resolved /\ proc' = Down
            /\ seen'.passed = seen.passed /\ seen'.cut = seen.cut
        BY <2>0, <2>7 DEF Interrupt, Activations
      <3>2. \A phase : Vetted(phase) => Vetted(phase)'
        BY <3>1, CoverIsKept
      <3>3. proc'.pc = "down" /\ proc'.wait = NoInterrupt
        BY <3>1 DEF Down, Idle
      <3> QED
        BY <2>0, <3>1, <3>2, <3>3
        DEF Vetting, UnderWay, Phases, PhasesAreCovered, CommittedWasVetted
    <2>8. CASE Crash
      BY <2>4, <2>8 DEF Crash, Vetting, CommittedWasVetted, Idle, Down
    <2>9. CASE Resume
      <3>1. /\ proc' = Idle /\ UNCHANGED seen /\ ~ Ended /\ cp'.act = cp.act
            /\ \/ cp' = cp
               \/ cp'.pending = NoInterrupt /\ cp'.resolved = cp.pending
        BY <2>0, <2>9 DEF Resume
      <3>2. \A phase : Vetted(phase) => Vetted(phase)'
        BY <3>1, CoverIsKept
      <3>3. proc'.pc = "idle" /\ proc'.wait = NoInterrupt
        BY <3>1 DEF Idle
      <3> QED
        BY <2>0, <3>1, <3>2, <3>3
        DEF Vetting, UnderWay, Phases, PhasesAreCovered, CommittedWasVetted, Ended
    <2>10. CASE UNCHANGED vars
      <3>1. \A phase, n : Vetted(phase)' = Vetted(phase) /\ Covered(phase, n)' = Covered(phase, n)
        BY <2>10 DEF vars, Vetted, Covered
      <3> QED
        BY <2>10, <3>1
        DEF vars, Vetting, PhasesAreCovered, CommittedWasVetted, Answered, Ended
    <2>11. CASE CommitActivation \/ HandleNodeError
      BY <2>5, <2>11 DEF CommitActivation, HandleNodeError, ActivationPhases
    <2> QED
      BY <2>1, <2>2, <2>3, <2>6, <2>7, <2>8, <2>9, <2>10, <2>11, <2>12 DEF Next
  <1>3. Vetting => CommittedWasVetted
    BY DEF Vetting
  <1> QED
    BY <1>1, <1>2, <1>3, AttemptTypeCorrect, CandidatesAreLast, PTL DEF Spec

-----------------------------------------------------------------------------

(* What makes ChildAwaitsItsAnswer inductive: an attempt that is about to  *)
(* wait for a child has the child's last question, and one that waits for  *)
(* nothing holds no interrupt.                                             *)
ChildIsAsked ==
  /\ proc.pc # "interrupt" => proc.wait = NoInterrupt
  /\ proc.wait.child # NoChild =>
       child.runs[proc.wait.child] = "interrupted" /\ proc.wait.asked = child.asked
  /\ ChildAwaitsItsAnswer

(* A guard of this node asks without its child.                            *)
LEMMA GuardAsksAlone ==
  ASSUME AttemptType, ChildIsAsked,
         \/ GuardAllow \/ GuardRewriteInput \/ GuardRewriteOutput
         \/ GuardSkipOutput \/ GuardSkip \/ GuardRetry \/ GuardFail \/ GuardInterrupt
  PROVE  /\ proc'.pc # "interrupt" => proc'.wait = NoInterrupt
         /\ proc'.wait.child = NoChild
  <1>0. proc \in Procs /\ NoInterrupt.child = NoChild
    BY DEF AttemptType, TypeOK, Procs, NoInterrupt
  <1>1. proc.wait = NoInterrupt
    BY GuardEffect DEF ChildIsAsked, Phases
  <1>2. CASE GuardAllow \/ GuardRewriteInput \/ GuardRewriteOutput
    BY <1>0, <1>2, AfterWaits DEF GuardAllow, GuardRewriteInput, GuardRewriteOutput
  <1>3. CASE GuardSkipOutput
    <2>1. ASSUME NEW input, NEW fallback
          PROVE  [Idle EXCEPT !.pc = "commit", !.input = input, !.output = fallback].wait
                   = NoInterrupt
      BY DEF Idle
    <2> QED
      BY <1>0, <1>3, <2>1, AfterWaits DEF GuardSkipOutput
  <1>4. CASE GuardSkip \/ GuardRetry \/ GuardFail
    BY <1>0, <1>1, <1>4 DEF GuardSkip, GuardRetry, GuardFail, Procs
  <1>5. CASE GuardInterrupt
    BY <1>0, <1>5 DEF GuardInterrupt, Procs
  <1> QED
    BY <1>2, <1>3, <1>4, <1>5

(* However often parent and child die between their two checkpoints, the   *)
(* parent waits for the question that its child waits with.                *)
THEOREM ChildrenAwaitTheirAnswers == Spec => []ChildAwaitsItsAnswer
  <1>0. Idle.wait = NoInterrupt /\ NoInterrupt.child = NoChild
    BY DEF Idle, NoInterrupt
  <1>1. ASSUME Init
        PROVE  ChildIsAsked
    <2>1. proc.wait = NoInterrupt /\ cp.pending = NoInterrupt /\ cp.resolved = NoInterrupt
      BY <1>0, <1>1 DEF Init
    <2> QED
      BY <1>0, <2>1 DEF ChildIsAsked, ChildAwaitsItsAnswer
  <1>2. ASSUME AttemptType, CandidatesAreKept, ChildIsAsked, [Next]_vars
        PROVE  ChildIsAsked'
    <2>0. /\ proc \in Procs
          /\ cp \in [act : Activations, pending : Interrupts \cup {NoInterrupt},
                     resolved : Interrupts \cup {NoInterrupt},
                     output : Outputs \cup {NoOutput}]
          /\ child \in [nested : BOOLEAN, runs : [ChildRuns -> ChildStates], asked : Nat]
          /\ NoInterrupt.child = NoChild /\ NoInterrupt.asked = 0
          /\ cp.pending # NoInterrupt => proc.pc = "down"
          /\ ChildRun \in ChildRuns
      BY <1>2, ChildRunExists DEF AttemptType, TypeOK, Procs, NoInterrupt, CandidatesAreKept
    <2>a. /\ cp.resolved.child \in ChildRuns \cup {NoChild} /\ cp.resolved.asked \in Nat
          /\ cp.pending.child \in ChildRuns \cup {NoChild} /\ cp.pending.asked \in Nat
          /\ proc.wait.child \in ChildRuns \cup {NoChild}
      BY <2>0 DEF Interrupts, Procs
    <2> USE <1>2 DEF ChildIsAsked, ChildAwaitsItsAnswer
    <2>1. CASE StartAttempt
      <3>1. /\ cp'.pending = cp.pending /\ cp'.resolved = cp.resolved /\ child' = child
        BY <2>0, <2>1 DEF StartAttempt
      <3>2. proc'.wait = NoInterrupt
        BY <2>1, AfterWaits DEF StartAttempt, FirstStep, Idle
      <3> QED
        BY <2>0, <3>1, <3>2
    <2>2. CASE \/ GuardAllow \/ GuardRewriteInput \/ GuardRewriteOutput
               \/ GuardSkipOutput \/ GuardSkip \/ GuardRetry \/ GuardFail \/ GuardInterrupt
      BY <2>2, GuardEffect, GuardAsksAlone
    <2>3. CASE StartBody
      <3>1. /\ cp' = cp /\ proc.pc = "body" /\ proc'.wait = NoInterrupt
            /\ cp.pending = NoInterrupt
        BY <2>0, <2>3, StartBodyEffect
      <3>2. /\ child'.asked = child.asked
            /\ \A r \in ChildRuns : child'.runs[r] \in {child.runs[r], "running"}
        BY <2>0, <2>3 DEF StartBody
      <3> QED
        BY <2>0, <2>a, <3>1, <3>2
    <2>4. CASE RefuseChild \/ BodyOutput \/ BodyError \/ ChildInterrupts
      <3>1. /\ cp' = cp /\ proc.wait = NoInterrupt /\ cp.pending = NoInterrupt
        BY <2>0, <2>4, BodyEffect
      <3>2. /\ child'.asked \in Nat /\ child.asked <= child'.asked
            /\ \A r \in ChildRuns :
                 child'.runs[r] \in {child.runs[r], "over", "interrupted"}
        <4>1. CASE child' = child
          BY <2>0, <4>1
        <4>2. CASE child' = [child EXCEPT !.runs[ChildRun] = "over"]
          BY <2>0, <4>2
        <4>3. CASE child' = [child EXCEPT !.runs[ChildRun] = "interrupted", !.asked = @ + 1]
          BY <2>0, <4>3
        <4> QED
          BY <2>4, <4>1, <4>2, <4>3
          DEF RefuseChild, BodyOutput, BodyError, BodyReturns, ChildInterrupts
      <3>3. /\ proc'.pc # "interrupt" => proc'.wait = NoInterrupt
            /\ proc'.wait.child # NoChild =>
                 child'.runs[proc'.wait.child] = "interrupted" /\ proc'.wait.asked = child'.asked
        BY <2>0, <2>4, <3>1, BodyWaits
      <3> QED
        BY <2>0, <2>a, <3>1, <3>2, <3>3
    <2>5. Idle.wait = NoInterrupt /\ Down.wait = NoInterrupt
      BY DEF Idle, Down
    <2>6. CASE CommitActivation \/ HandleNodeError \/ CommitRetry
      <3>1. /\ cp'.pending = cp.pending /\ cp'.resolved = cp.resolved /\ proc' = Idle
            /\ child' = child
        BY <2>0, <2>6 DEF CommitActivation, HandleNodeError, Finish, CommitRetry
      <3> QED
        BY <2>0, <2>5, <3>1
    <2>7. CASE Interrupt
      <3>1. /\ cp'.pending = proc.wait /\ cp'.resolved = cp.resolved /\ proc' = Down
            /\ child' = child
        BY <2>0, <2>7 DEF Interrupt
      <3> QED
        BY <2>0, <2>5, <3>1
    <2>8. CASE Crash
      BY <2>0, <2>5, <2>8 DEF Crash
    <2>9. CASE Resume
      <3>1. /\ proc' = Idle /\ child' = child
            /\ \/ cp' = cp
               \/ cp'.pending = NoInterrupt /\ cp'.resolved = cp.pending
        BY <2>0, <2>9 DEF Resume
      <3> QED
        BY <2>0, <2>a, <2>5, <3>1
    <2>10. CASE UNCHANGED vars
      BY <2>10 DEF vars
    <2> QED
      BY <2>1, <2>2, <2>3, <2>4, <2>6, <2>7, <2>8, <2>9, <2>10 DEF Next
  <1>3. ChildIsAsked => ChildAwaitsItsAnswer
    BY DEF ChildIsAsked
  <1> QED
    BY <1>1, <1>2, <1>3, AttemptTypeCorrect, CandidatesAreLast, PTL DEF Spec

=============
