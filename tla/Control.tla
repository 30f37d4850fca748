------------------------------- MODULE Control -------------------------------
(***************************************************************************)
(* Retry and JumpTo: a new run that starts from a checkpoint of a failed    *)
(* one (src/workflow/control.go).                                          *)
(*                                                                         *)
(* Retry takes the stable checkpoint of one NodeStarted event of the failed *)
(* run, JumpTo that of any event; here both take that of a NodeStarted      *)
(* event, and mark remembers one of the failed run's.  The new run has its  *)
(* own checkpoint, so the variables of Scheduler go on as the new run's     *)
(* and those of the failed run stay behind in control.                     *)
(***************************************************************************)
EXTENDS Scheduler

CONSTANTS
  JumpTargets,  \* nodes that JumpTo may be asked for
  Marks         \* bound: nodes whose NodeStarted events may be asked for

ASSUME ControlAssumption == JumpTargets \subseteq Nodes /\ Marks \subseteq Nodes

VARIABLES
  mark,     \* [state, act]: a checkpoint and the activation whose start it records
  control   \* the command that started the run, and what it found

controlVars == <<vars, mark, control>>

NoMark == [state |-> Fresh(CHOOSE n \in Entries : TRUE), act |-> 0]
NoControl == [kind |-> "none", act |-> 0, source |-> NoMark.state, head |-> NoMark.state]

ControlInit == Init /\ mark = NoMark /\ control = NoControl

-----------------------------------------------------------------------------
(* The state a new run starts with *)

(* A set and an iterator of the failed run that the source does not know:   *)
(* their numbers are not used again.                                       *)
GoneSet ==
  [policy |-> NoDispatch.settle, branches |-> <<>>, out |-> [b \in {} |-> NoOutcome], open |-> 0,
   cause |-> "none", selected |-> <<>>, decided |-> TRUE, settled |-> TRUE, failed |-> FALSE]
GoneSource ==
  [set |-> 0, of |-> [target |-> CHOOSE n \in Nodes : TRUE, items |-> 0, end |-> "closed"],
   epoch |-> 0, pulled |-> 0, at |-> 0, open |-> FALSE, live |-> FALSE]

(* mergeRetryHead: what is scheduled next continues the head's numbers.  The *)
(* iterators of the source are known, but no process holds them.           *)
MergedHead(s, head) ==
  [s EXCEPT
     !.act = head.act,
     !.sets = [i \in DOMAIN head.sets |-> IF i \in DOMAIN s.sets THEN RestoredSet(s.sets[i]) ELSE GoneSet],
     !.sources = [i \in DOMAIN head.sources |->
       IF i \in DOMAIN s.sources THEN [s.sources[i] EXCEPT !.live = FALSE] ELSE GoneSource],
     !.clock = Max({@, head.clock}),
     !.revision = Max({@, head.revision}) + 1,
     !.step = 1]

(* Nothing but the source is pending: no activation, iterator or other set. *)
IsolatedRetrySource(s, a) ==
  /\ s.queue = <<a>>
  /\ OpenSources(s) = {}
  /\ \A b \in DOMAIN s.act \ {a} : s.act[b].phase \in Over
  /\ \A i \in DOMAIN s.sets \ {s.act[a].set} : s.sets[i].settled

(* Fault: a branch is retried whatever else is pending.                    *)
RetryableFaultPending(m) ==
  m.state.act[m.act].set # 0 => SingleBranch(m.state, m.state.act[m.act].set)

(* retryPayload refuses a branch of a fan-out, and a single branch that is  *)
(* not all that is pending.                                                *)
Retryable(m) ==
  LET set == m.state.act[m.act].set
  IN set # 0 => SingleBranch(m.state, set) /\ IsolatedRetrySource(m.state, m.act)

RetryState(m, head) ==
  [MergedHead(m.state, head) EXCEPT
     !.act[m.act] = [m.state.act[m.act] EXCEPT !.phase = "ready"],
     !.queue = <<m.act>>]

(* jumpPayload: the target alone, with the context of the source.          *)
JumpState(m, head, target) ==
  Enqueue([MergedHead(m.state, head) EXCEPT
             !.queue = <<>>, !.tracked = {},
             !.bound = [t \in Joins |-> <<>>], !.closed = [t \in Joins |-> {}],
             !.sets = [i \in DOMAIN @ |-> GoneSet],
             !.sources = [i \in DOMAIN @ |-> GoneSource]],
          <<NewActivation(target, 1, 0, <<>>)>>)

-----------------------------------------------------------------------------
(* The commands *)

(* The checkpoint of this NodeStarted event is the one to be asked for.    *)
Mark ==
  /\ mark = NoMark /\ control = NoControl
  /\ StartActivation
  /\ \E a \in DOMAIN st.act :
       /\ st'.act[a].phase # st.act[a].phase /\ st.act[a].node \in Marks
       /\ mark' = [state |-> saved', act |-> a]
  /\ UNCHANGED control

(* A controlled start prepares nothing: there is no claim and no resume.   *)
StartControlled(kind, s) ==
  /\ pc = "ended" /\ status = "failed" /\ mark # NoMark /\ control = NoControl
  /\ st' = s /\ saved' = s
  /\ status' = "running" /\ pc' = "schedule"
  /\ batch' = <<>> /\ todo' = <<>> /\ touched' = <<>>
  /\ fault' = [kind |-> "none", set |-> 0, cause |-> "none"]
  /\ control' = [kind |-> kind, act |-> mark.act, source |-> mark.state, head |-> saved]
  /\ UNCHANGED <<processes, mark>>

Retry ==
  /\ mark # NoMark /\ Retryable(mark)
  /\ StartControlled("retry", RetryState(mark, saved))

JumpTo(target) ==
  /\ mark # NoMark
  /\ StartControlled("jump", JumpState(mark, saved, target))

ControlNext ==
  \/ Next /\ UNCHANGED <<mark, control>>
  \/ Mark
  \/ Retry
  \/ \E target \in JumpTargets : JumpTo(target)

ControlSpec == ControlInit /\ [][ControlNext]_controlVars

(* The fairness of Scheduler: commands need not be given.                  *)
ControlFairSpec ==
  ControlSpec /\ WF_controlVars((Progress /\ UNCHANGED <<mark, control>>) \/ Mark)

-----------------------------------------------------------------------------
(* Properties *)

NothingIsLost ==
  status = "completed" =>
    /\ \A i \in DOMAIN saved.sets : saved.sets[i].settled
    /\ \A i \in DOMAIN saved.sources : ~saved.sources[i].open
    /\ \A t \in Joins : saved.bound[t] = <<>>

OfBranch == control.source.act[control.act].set # 0

(* isolatedRetrySource, jumpPayload: a run that JumpTo started, or a Retry  *)
(* of a branch, completes with nothing left undone, also when it crashes    *)
(* and is resumed: no set unsettled, no join waiting with contributions.   *)
ControlledRunsLoseNothing ==
  control.kind = "jump" \/ (control.kind = "retry" /\ OfBranch) => NothingIsLost

(* "Retry() error = nil, want pending sibling rejection"                    *)
(* (control_test.go:138): a retry is refused when it would drop what was    *)
(* pending beside its source.  The code looks for pending work only when    *)
(* the source is a branch; that of a join is accepted.                     *)
RetryLosesNothing ==
  control.kind = "retry" => NothingIsLost

=============================================================================
