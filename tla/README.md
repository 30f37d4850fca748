# A verification of the gopact workflow runtime

This directory holds TLA+ models of `gopact`'s durable workflow runtime, the
TLC configurations that check them, and TLAPS proofs about them. Everything is
translated from the Go source; docs and tests were used to find out what the
code is expected to do.

## The system

A workflow is a graph of nodes. `Invoke` executes one *run* of it, identified
by a RunID. What a run has achieved is kept in a *Store* (a checkpoint per run
and a journal of its events), so that another invocation, perhaps of another
process, can take the run over when its owner stops. Ownership is a lease.

| part | source | state | operations |
|---|---|---|---|
| Store | `workflow/checkpoint_store.go` | one head record per run, the versions of its history | Create, Load, Claim, RenewLease, Save, Finish, ListCheckpoints, AppendFenced |
| RunLog | `runlog/runlog.go` | records, keyed by (run, sequence) | Append, List, Sink.Emit |
| Run execution | `workflow/workflow.go` | `workflowExecution`: checkpoint copy, sequence counters, pending interrupts, heartbeat, context cause | Invoke, resume/restore, commitRunningEvent, commitTerminalEvent, emit, handleError |
| Interrupts | `workflow/workflow.go`, `scheduler.go` | PendingInterrupts, InterruptProgress, ResolvedInterrupts of the payload | interrupt, continueInterruptBatch, resolvePendingInterrupts, validateResolvedInterruptReplay |
| Scheduler | `workflow/scheduler.go` | the ready queue, one batch of goroutines | nextBatch, executeBatch, commitBatchItem, batchCoordinator |
| Activations | `workflow/activation.go` | phase and attempt of each activation | start, finish, retry, interrupt, cancel, prepareResume |
| Source sets | `workflow/settle.go`, `settle_checkpoint.go` | the branches of a fan-out, their outcomes, the decision | addExpectedBranch, closeSource, commitBranch, decide, cancelQueuedBranches, supersedeBranches, releaseBranch, failSourceSet |
| Joins and topology | `workflow.go`, `join_expectation.go`, `topology.go` | contributions and open expectations per (target, correlation) | addContribution, materializeReadyJoins, nextCorrelation |
| Iterator sources | `iter_source.go`, `iter_checkpoint.go` | per iterator: items pulled, cursor, open or not | fillIterQueue, pullIterSource, closeIterSource, failIterSource, bindIterSource |
| Guards and nodes | `guard.go`, `activation.go` | the two chains of guards of a node, the attempt under way, the candidate of an interrupt | runAttempt, applyGuards, shouldRun, startActivation, commitRetry |
| Workflow context | `context_state.go` | one value and its revision; a transaction per attempt | Get, Set, commitContext |
| Hooks, plugins, middleware | `lifecycle.go`, `plugin.go`, `middleware.go` | registrations | Before/After hooks |
| Control | `control.go`, `workflow/runlog.go` | activeRuns, scans over history and journal | Terminate, Retry, JumpTo, Fork, Snapshot, ListSessionRuns |
| Agents | `agent/*.go` | a catalog of agents by name, frozen by Compile; adapters from and to workflows | Add, Compile, Lookup, Invoke |
| ACP | `acp/acp.go` | the prompt active in each session | Initialize, NewSession, Prompt, Cancel |
| Test support and types | `gopacttest/*`, `model.go`, `runtime.go`, ... | none of its own | helpers, plain types |

The parts meet in few places. An invocation calls the Store for everything
durable; the Store never calls back. The heartbeat goroutine shares with the
main goroutine only the lease copy and the execution's context, which it
cancels when a renewal fails. Nodes run in goroutines but commit their results
one after the other (`advanceBatch`), and custom events, which they emit
concurrently, are serialised with the commits by `eventMu`. Event sinks are
called synchronously; the first error of a strict sink stops the run.

### What is hard

*Interleaving.* Invocations compete for a run. Each keeps a copy of the
checkpoint that may be arbitrarily old when it acts on it.
*Crash recovery.* A commit is four steps - save the pending event, append it to
the journal, deliver it to the sinks, save the confirmation - and a batch of
interrupts is several commits. Any invocation may stop between any two steps.
*Observed events* are only appended and delivered, so the journal may be
ahead of the checkpoint and recovery has to reconcile.
*Cancellation* by the caller, by Terminate, by a lost lease or by a failing sink
changes which context later Store calls run under and which error is reported.
*Fan-outs.* The branches of a source set complete in any order, in several
batches and, after a resume, in several processes; a decision may cancel
branches that are queued, waiting for an interrupt, or still to be pulled from
an iterator, and settling is a sequence of commits that a crash may cut anywhere.
*Child workflows.* A node whose body is a workflow has two checkpoints, the
parent's and the child's, written one after the other; a crash between them, and an
interrupt that crosses from one to the other, leave each with a view of its own.
*Joins* are tested for readiness while their predecessors are still being scheduled,
and on a cycle while contributions of two rounds are about.
*Guards* run again after a crash, a retry or an answer, each of which keeps
some of what the attempt before had established and drops the rest.
*Control* builds a new run from two checkpoints of different age.
*Boundaries.* Lease expiry, version and claim comparisons, sequence numbers.

### What makes each part correct

- Store: at most one believed owner; claims granted once; a renewal is never
  undone by an older write; history is every version in order; a terminal run
  stays as it is; the journal is ordered by ownership, one record a sequence.
- Run execution: the pending event can be replayed idempotently; everything
  confirmed was delivered; the durable state agrees with the journal; a
  terminal checkpoint is backed by the one terminal event; what Invoke returned
  is durable; a displaced invocation changes nothing; every head can be resumed.
- Interrupts: a batch is recorded whole; interrupts are resolved once and as a
  whole.
- Session view: every journal the runtime writes has a consistent summary.
- Scheduler, activations, source sets: an activation completes once; the
  settle decision is final; a branch is released at most once; no work is lost.
- Joins: a join fires once per correlation, with every contribution it waits for.
- Context: an update that was committed is seen by all that commit later.
- Guards: no output is committed that a guard of the node has not let pass, no
  answered candidate of the node is made again, no two bodies are told the same attempt.
- Child workflows: the parent waits for the question its child waits with; an
  interrupted child is resumed, and recovery does not fail a node (the last two do
  not hold, see Findings).
- Control: a controlled run does what its source had left to do, and nothing it
  schedules can be mistaken for something of the failed run (stated only, no property checks it).
- Iterator sources: every item becomes one branch, across recoveries too.
- ACP: one active prompt per session; a cancellation reaches the prompt it names.

## The modules

| module | models | role |
|---|---|---|
| `StoreOps` | the decisions of Create, Claim, RenewLease, Save/Finish, AppendFenced | pure operators, shared by the two specifications below |
| `CheckpointStore` | one run's slice of the Store | a specification with a clock and arbitrary callers |
| `WorkflowRun` | `workflowExecution`: commit, recovery, interrupts, cancellation, heartbeat | composes with `StoreOps`: the real callers of the Store |
| `RunLifecycle` | the abstract run: status, owner, append-only log | what `WorkflowRun` implements |
| `Scheduler` | one execution's batches, activations, source sets, joins and iterator sources | a specification of its own: what `WorkflowRun` sees as commits, seen from inside |
| `Control` | Retry and JumpTo | extends `Scheduler`: a failed run, and the new run that starts from one of its checkpoints |
| `NodeAttempt` | one activation of one node: guards, hooks, the body or a child workflow in its place, retries, interrupts, crashes | what `Scheduler` sees as one answer, seen from inside |
| `AgentHandler` | the ACP handler: sessions, prompts, cancel notifications | a specification of its own |
| `MCCheckpointStore`, `MCWorkflowRun`, `MCAgentHandler` | - | symmetry for TLC |
| `MCScheduler`, `MCControl` | - | workflows and node behaviours for TLC |
| `MCNodeAttempt` | - | two chains of guards for TLC |
| `CheckpointStoreProofs` | - | type correctness and the safety theorems of `CheckpointStore`, lemmas on `StoreOps` |
| `SchedulerProofs` | - | type correctness and the queue of `Scheduler`, lemmas on sequences and on the effect of its operators |
| `SchedulerSafetyProofs` | - | the decisions of source sets, the workflow context, the items of iterators, the payloads of joins and the failures of undisturbed runs |
| `NodeAttemptProofs` | - | type correctness and the four safety invariants of `NodeAttempt` |
| `WorkflowRunProofs` | - | types and claims of `WorkflowRun`, lemmas on its operators and the effect of every action |
| `WorkflowRunJournalProofs` | - | the agreement of journal, checkpoint and sinks, and the invariants that follow |
| `WorkflowRunLifecycleProofs` | - | runs that nobody cancels: resumability, resolutions, batches, and the refinement of `RunLifecycle` |
| `AgentHandlerProofs` | - | type correctness and both safety invariants of `AgentHandler` |

An operator named `XFaultY` is a seeded fault: a plausible wrong version of
`X`. No specification uses one; `PROJECT.json` lists, for each property of each
run, a fault which that property detects when it replaces the operator.

### StoreOps and CheckpointStore

`MemoryStore` guards every operation by one mutex and reads the clock under it,
so an operation is one atomic action. In `StoreOps` it is two operators: the
*outcome* (which error, tested in the code's order, or `ok`) and the record it
installs. A record keeps the fields the Store looks at; whatever it only copies
is `body`.

`CheckpointStore` adds a clock (`Tick`) and, per invocation, what the code
keeps about the lease: `ckpt` is `execution.checkpoint` and is left stale by
other invocations' actions; `until` is the expiry the last successful reply
granted. The actions are the Store calls the runtime makes, with the records it
builds: `Create`, `Load`, `Claim` (claimCheckpoint), `RenewLease` (the
heartbeat), `Save` (saveCheckpoint), `Release` (releaseCheckpointLease),
`Interrupt` (interruptCheckpoint), `Finish` (finishCheckpoint), `AppendFenced`
and `AppendUnfenced` (events of hooks, before there is a checkpoint). An
invocation may do them in any order at any time, which is more than
`workflow.go` does; so the properties do not depend on callers being well behaved. A
call that fails changes nothing and is not an action.

### WorkflowRun

`ex[p]` is the `workflowExecution` of invocation `p`; `pc` says which Store call or
delivery it is about to make, `mode` on whose behalf. Every Store call and every delivery to the sinks is
one action; local computation between two of them (`Commit`, `Emitted`,
`Confirmed`, `ContinueBatch`, `HandleError`, `Restored`) is an operator from
execution to execution and belongs to the action before it.

| code | here |
|---|---|
| commitRunningEvent, commitTerminalEvent, commitInterruptBatchEvent | `Commit`, then `SavePending`, `AppendEvent`, `Deliver`, `Confirm` or `FinishCheckpoint`; `mode` tells them apart |
| emit, emitCustom | `Emit`, then `AppendEvent`, `Deliver` |
| prepareCheckpoint, prepareResumeCheckpoint, claimCheckpoint | `Create`; `Load`, `Claim` |
| restore, replayPending, reconcileJournal | `Restored`, mode `replay`, `Redeliver`, `SaveCursor`, `Reconciled` |
| finishInterrupt, continueInterruptBatch, interruptCheckpoint | `Interrupt`, `ContinueBatch`, `InterruptCheckpoint` |
| handleError, cancelRun, fail, checkpointLeaseError | `HandleError`, `Raise` |
| renewCheckpointLease failing; execution.cancel | `HeartbeatFails`; `Canceled` |
| releaseCheckpointLease | `ReleaseLease` |

Which context a Store call runs under decides whether it can still succeed:
running Saves use the execution's context, ended by any cancellation; terminal
and interrupt Saves use `finalizationContext`, ended only by a failed heartbeat.
`StoreOutcome` makes that distinction.

Abstractions. *Time*: a lease is unexpired or not; `Expire` may end it at any
moment, which covers slow renewals and paused processes. A renewal that succeeds
is invisible at that resolution; `CheckpointStore` has the real clock. *Nodes*: one activation is in
progress at a time and the state of the scheduler is the number of completed
activations - the batch machinery only decides the order of the commits,
which are serial. *Data*: an event is its sequence, its type and the invocation that stamped it
(two stampings never produce equal records: they carry different timestamps).
Payloads, outputs, identity and source lineage are left out. *StoreFault*: the context of a call expires
before the Store acts. An invocation that is over has no memory left (`Over`).

### RunLifecycle

A status, an owner count, a log and whether the log is open. An event that
announces an end or an interruption closes the log; the status follows;
only taking over an *interrupted* run opens it again. `Lifecycle` in
`WorkflowRun` is the refinement mapping: the log is the journal's event types
and the owner is the claim sequence.

### Scheduler

`st` is the `runState` of the running process: the ready queue, every
activation so far (`act`; ids are positions) with its epoch, the source sets, the iterator
sources, per join the contributions (`bound`) and closed expectations
(`closed`) of its buckets, the activations counted per correlation (`tracked`), and
the workflow context with its revision. A correlation is an epoch, because a run
has one id; `BackEdges` are the edges `findTopologyBackEdges` finds, and
`NextEpoch` is `nextCorrelation`. The value of the context is the sequence of
the activations that set it. A branch that an iterator yields carries
its iterator and the position of its item (`source`, `item`). What the code sorts or filters is taken by position
(`At`, `SortedBy`). `saved` is the state in the checkpoint. A *commit*
(`Checkpoint`) makes the two equal; `Compute` changes only the process's state. `pc` is the phase
of `advanceBatch`: schedule, start, execute, commit.

| code | here |
|---|---|
| nextBatch, emitBatchStarts | `NextBatch`, `StepsExceeded`, `StartActivation` |
| executeBatch, batchCoordinator | `Return`, with `GroupCanceled` |
| advanceBatch, handleBatchInterrupts, reorderInterruptedBatch | `AcceptBatch`, `FailBatch`, `Reordered`, `Advance`, `InterruptBatch` |
| commitBatchItem, commitBranch, commitActivation, retry | `CommitRetry`, `CommitBranch`, `CommitActivation`, `FailCommit` |
| settleSourceSet, decide | `Decide`, `RefuseSet`, `LeaveSet`, `Decision` |
| cancelQueuedBranches, supersedeBranches, releaseSourceSet, failSourceSet | `CancelQueuedBranch`, `SupersedeBranch`, `ReleaseBranch`, `SettleSet`, `FailSet` |
| scheduleNext, scheduleIter, closeJoinExpectations, materializeReadyJoins | `ScheduleNext`, `NewSources`, `CloseExpectations`, `MaterializeReadyJoins` in any order of the buckets |
| nextCorrelation, joinBucket, trackCorrelation, joinReady | `NextEpoch`, `ClosedBy`, `ContributedBy`, `SourceReady`, `ReadyJoins` |
| nodeContext, runActivation, commitContext, singleBranchSourceSet | `MaySet`, `Return`, `MayCommitContext`, `ContextCommitted`, `FailContext` |
| pullIterSource, closeIterSource, failIterSource, bindIterSource | `PullItem`, `EndSource`, `FailPull`, `Bound` |
| a crash; resumeRun, restoreSourceSets, prepareResume, reconcileSourceSets | `Crash`; `Resume`, `Restored`, `PrepareResume`, `ToReconcile` |

What a node does is a constant: the answers of its function (after guards and
retries) and the dispatches its route may return. A node whose group is
canceled may also return its context's error. Nodes return in any order, and a
crash may happen in any state.

Abstractions. A commit is atomic here; its four steps are `WorkflowRun`'s
subject. All interrupts of a batch are resolved together, which
`resolvePendingInterrupts` demands. Left out: the outputs of exits, the execution deadline, iterators that panic or cannot be
bound again, nodes that never return.

### Control

`Control` lets a run of `Scheduler` fail and then starts a new one. `Mark`
remembers, for one NodeStarted event of the failed run, the checkpoint that
`checkpointAtSequence` would find for it; `Retry` and `JumpTo` are given when the run has failed,
build the new run's state from that checkpoint and the failed head
(`MergedHead` is mergeRetryHead, `RetryState` retryPayload, `JumpState`
jumpPayload), and the variables of `Scheduler` go on as the new run's. A
controlled start is no resume: nothing is prepared or reconciled, and the new
process holds no iterators, so pulling one that is still open fails
(`FailPull`) until a crash and a resume bind it again.

Abstractions: JumpTo is asked for NodeStarted events only, its input and the context
patch are left out, and so are the pages in which journal and history are searched;
one command per run. `nodeVersions` and `attempt` only label events.

### NodeAttempt

`cp` is the checkpoint of the run, `act` the activation in memory, `proc` the
attempt the process runs: `pc` is where in `runAttempt` it is, `at` which guard
is to be evaluated. A decision of a guard is one action. An input is known by the retries and the guards
that made it, an output by its input, the guards that rewrote it, and its maker: the body,
the guard that gave it as a fallback, or a node of a child workflow. `child` is what the
checkpoints of a child workflow say: for each run of it whether it is absent, running, interrupted or over, and how
many questions the child has asked. `seen` is history: the attempts of the bodies that ran, the
guards that let the value at hand pass, whether a guard or the body failed.

| code | here |
|---|---|
| startActivation, emitBatchStarts, nodeContext | `StartAttempt`, `FirstStep`, `ResumesCandidate` |
| applyGuards, shouldRun, apply | `After`, `shouldRun`, one action per decision |
| runBody, runLifecycleHooks | `StartBody`, `BodyOutput`, `BodyError`; the last two also without a start, when a hook fails or a middleware answers |
| childOptions, prepareCheckpoint, prepareResumeCheckpoint, claimCheckpoint of the child | `ChildRun`, `ChildMayRun`, `ChildMayRefuse`, `RefuseChild` |
| interruptError, checkpointInterruptsForActivation | `ChildInterrupts` |
| commitActivation, handleNodeError, commitRetry | `CommitActivation`, `HandleNodeError`, `CommitRetry` |
| interruptBatch, claimCheckpoint, applyResumePayload, prepareResume | `Interrupt`, `Resume`, `prepareResume` |

A decision that its phase does not allow (a rewrite of the input before the
commit, of the output before the body, a retry before the body) fails the node
in the code and in `GuardFail`. Every checkpoint is one step here.

A child workflow has a run id made of the activation and the step, or, when an
interrupt of the child was answered, the id of the run that asked. The first is
created, the second is asked to go on with the answer. Both may be refused: Create
refuses a run that exists; a run that is over does not go on, one that another process
seems to own does not yet, and one that waits with a later question takes the
answer to an earlier one only if the two have the same id. A child is interrupted
by a guard of one of its nodes, before a run or before a commit, and in the second case there is a
candidate, of the type of the parent's output or not. The parent's checkpoint keeps the phase, the candidate and
the child's run, and not the guard's name. So every guard of the parent's node is asked again, and a candidate is
taken for the output of that node.

Abstractions: the activation is alone in its run, so that a step is a retry and its child
run ids are numbered by retries; a body starts one child, and a middleware calls the
body at most once and passes on its interrupt; the child has a Store (one without is an ordinary body, as it
cannot be interrupted), and its run is one of four states, `WorkflowRun` has the rest. Lineage, sinks and
id generators that a child inherits are left out.

What `CommittedWasVetted` does not say, because the code does otherwise:
the before_run guards do not judge the input of a retry that a restart resumes
with an answered candidate; the before_commit guards in front of the one that
interrupted judge the answered candidate again, with the input as it was before
the before_run guards rewrote it; two guards that both interrupt on the same
candidate ask in turn for ever, as only the latest answer is kept; and what an
attempt put in the workflow context is gone when it is interrupted before its
commit, though its candidate is committed later.

### AgentHandler

Each request and each notification is a goroutine; `prompts[p].pc` and
`cancels[c].pc` say where it is. A region under the handler's mutex is one
action (`StartPrompt`, `FinishPrompt`, `LookUp`), what lies between regions is
another: reading the content, the agent's call with its updates, judging its
result, marking the prompt, ending its context. The client may go away at any time, which
ends the contexts of its requests. A notification that arrives before its prompt is registered
finds nothing and is lost; this is the protocol's race and no property excludes it.

## The runs

| run | question | size |
|---|---|---|
| `checkpoint_store` | all legal Store calls of 3 invocations: leases, claims, history, journal | 902 thousand states |
| `recovery` | 3 invocations take a run over at every point; interrupts and resolutions | 727 thousand |
| `faults` | a crash, a cancellation or Terminate, a failed call and a refusing sink, 2 interrupts, events of hooks and of nodes | 1.56 million |
| `liveness` | every invocation returns, an undisturbed run settles | 127 thousand |
| `scheduler` | a fan-out, two joins with an iterator, and a cycle, under each policy, with every kind of answer, context updates, crash and resume | 833 thousand |
| `control` | Retry and JumpTo of failed runs, continued through a crash; every run ends | 159 thousand |
| `node_attempt` | 5 guards around a function or a child workflow, retries, interrupts with answers, crashes of parent and child | 1.42 million |
| `agent_handler` | 3 prompts and 2 cancel notifications in 2 sessions, the client may go | 150 thousand |
| `cancel_interrupt`, `scheduler_interrupted_any`, `scheduler_chain`, `answered_retry` | violations, see Findings | - |

Bounds. *Store*: three owners are the smallest number with one displaced
twice over (A displaced by B, B by C); `Duration = 2` and `MaxTime = 3` let a lease be renewed, expire and be
claimed again; four versions are a create, two claims and a write. *Runs*: `Work = 1` has every kind of
commit (start, node started, node completed, terminal); the commits of a second activation
repeat the same steps. `PageSize = 1` forces reconciliation to take several
pages. `MaxSequence` stops only further custom events: journals grow past it by the
commits in progress. Everything else is bounded by the number of invocations and by the budgets of bad luck
(`MaxCrashes`, `MaxFaults`, `MaxSinkFailures`, `MaxCancels`). An invocation that never steps again
models a crash too, so runs without crash budget still contain
takeovers at every point. Two interrupts make a batch of three events, so that
an invocation can stop in the middle, and its successor too.
*Scheduler*: the run is of one of three workflows. `fan` has three branches, the
fewest with which a set selects two and discards one; `diamond` two joins with a common
predecessor that can become ready together, fed by an iterator of 0 or 2 items
that ends or fails; `loop` a cycle through a join whose rounds can overlap.
Parallelism 2 splits batches, so that a decision finds
branches queued. Three processes are two crashes or interrupts, the second in the
middle of what the first left to redo. The limits of steps are low enough
that runs reach them. *Control*: `pending` has a fan-out of one branch, which is all that may be
retried among branches, work beside a join, and an iterator left open; `fan` and `loop` make
the sets and epochs of a failed run differ from its source's. `Marks` and
`JumpTargets` bound which commands are given. Two processes: the new run
may crash once. *NodeAttempt*: one guard bound in both phases, three before the commit so that
an answer has a guard before and one behind it; two retries, interrupts and crashes
each, so that each can meet what the other left; three runs of a child, one per retry. Its three
violations need one interrupt, one crash, and one interrupt with one retry. *AgentHandler*: a third prompt can follow the one a slow
notification found.
Deadlock is not checked: a run really ends, and the bounds stop the rest.

Fairness. `liveness`: weak fairness of each active invocation's own
steps - goroutines are scheduled, Store calls return by their contexts'
timeouts, sinks and nodes return, as the README of the repository requires of
nodes. Nothing obliges anyone to invoke, to crash, to cancel or to expire.
`control`: weak fairness of progress, which includes that somebody
resumes a run that is interrupted or whose process died - the caller's part of
at-least-once recovery; crashes are bounded, never forced, and nobody need give a
command. The property is a leads-to, so it speaks of the failed run's end and
of the new run's.

## Findings

1. `cancel_interrupt`: a cancellation (or Terminate) that lands after
   `interruptCheckpoint` and before `handleError` overwrites the interrupted head by
   a running one without an owner, with pending interrupts and no progress.
   Its terminal event is then refused by the fence, and every later
   resume is refused by `validateCheckpointInterruptProgress`.
2. `scheduler_interrupted_any`: a set that settles while a branch of the same
   batch waits for an interrupt tries to cancel it, which `cancelActivation`
   refuses for a running activation: the run fails although a branch succeeded.
3. `scheduler_chain`: a join whose predecessors are reached over paths of
   different length fires when the nearer one has contributed, because the other has no
   activation yet; its contribution then waits for ever and the run completes without it.
4. `answered_retry`: `GuardRetry` "retries the node with a new input" (`guard.go:119`), but after an
   answered candidate the next attempt judges the same candidate again instead of
   running the node, until another interrupt's answer replaces it. In the run the candidate
   is that of a child workflow: when a guard of the child interrupts before a commit, its
   candidate is kept in the parent's checkpoint, and after the answer `runAttempt` judges and
   commits it as the output of the parent's node, or fails because its type is another. The
   child is never resumed; its remaining guards and nodes do not run. The
   tests have children that interrupt before a body only.

Three statements are in the modules with a cfg each, outside the regular runs; TLC violates each of them.

- `ControlRetry.cfg` (module `MCControl`, `RetryLosesNothing`): Retry refuses to drop pending work only
  when the retried activation is a branch (`control.go:413`). That of a join is accepted while a set beside
  it is unsettled, and the new run completes without the set's work.
- `NodeAttemptChildCandidate.cfg` (`MCNodeAttempt`, `ChildIsResumed`): the child's candidate of
  finding 4, committed by the parent without any retry.
- `NodeAttemptChildCrash.cfg` (`MCNodeAttempt`, `FailureIsTheNodes`): a process that dies while a child
  workflow runs leaves the child's run behind. The resumed parent creates a run of the same id
  (`workflow.go:2190`), which the Store refuses, and the parent fails. The same ending has a child that was
  over or interrupted when the parent died; a child that was answered, ended and is to be run
  again by a GuardRetry, as the answered id is kept; and one whose parent's own before_run guard
  interrupts after the child was answered, as the last answer replaces the child's.

Two more disagreements were seen while modelling and have no cfg.
A stop between Create and the first Save makes `checkpoint.loaded` the run's
first record (`workflow.go:1762`), as does an event that a BeforeWorkflow hook emits; `ListSessionRuns` (`workflow/runlog.go:54`) then
fails for the whole session. A resumed retry announces
`workflow.retry_started` a second time (`workflow.go:2045`), which
`ListSessionRuns` rejects too.

The passing runs check the rest of the behaviour with the
ingredient of a finding left out: interrupts while cancelling; the session
view of runs with hooks or of retries; joins over paths of different length;
retries of joins. `node_attempt` leaves no ingredient out: it has the children, crashes and
retries of finding 4 and of the child's cfgs, and its properties say what holds beside them. `CommittedWasVetted` speaks
of the node's own guards, whoever made the output, and `CandidateIsNotRebuilt` of candidates of
the node itself that are judged with the input they were made from. `UndisturbedFailureIsWarranted` speaks of runs that
one process executes: results of a batch are committed one by one, so a crash can keep the
cancellations of siblings and lose the success or failure that caused them, and
a restored cancellation is an error like any other to `firstFailure`.

## The proofs

`CheckpointStoreProofs` proves, for any set of
invocations and identities, any `Duration` and any bounds, what the run
`checkpoint_store` checks for three. They assume only what the constants'
declarations state: `NoOwner` is not an invocation (`OwnersAssumption`), there is an identity
(`IdentitiesAssumption`), the bounds are numbers and a lease lasts
(`BoundsAssumption`).

1. `TypeCorrect`. `TypeOK` is inductive. It says more than types: only a running
   head has an owner, and only an owned head a lease, which is what the guards of the
   Store rely on.
2. For each action an *effect* lemma states, from the outcome and record operators of `StoreOps`, which
   fields of the head and of the caller's copy it changes and how they relate.
   The later proofs cite these and never expand the actions.
3. `OwnershipCorrect`. `ExclusiveOwnership` is not inductive: that two
   invocations do not both believe says nothing of the one whose copy is stale.
   The inductive invariant `Ownership` adds that what a believer believes is
   the head's state (`BeliefIsTrue`), that no claim is granted twice or ahead of the
   head (`ClaimsAreUnique`), and that before Create nobody holds
   anything (`AbsentIsUnclaimed`). A claim that displaces a believer needs the
   lease expired, by the head's clock; belief ends by the same clock and `until` never exceeds the
   head's expiry, so the displaced one has stopped believing.
   `OwnershipIsExclusive`, `ClaimsAreGrantedOnce` and `BeliefsAreTrue` follow.
4. `TerminalStaysFinal`, `LeaseOnlyGrows`: one case per action, from the effects
   and `Ownership`. A Save computed from a copy older than a renewal keeps the later expiry.
5. `HistoryIsComplete`, `JournalIsOrdered`, `SequencesAreUnique`: each its own
   inductive invariant beside `Ownership`; an append takes the head's claim,
   and claims only grow.

`AgentHandlerProofs` proves, for any sessions, prompts and notifications, what the
run `agent_handler` checks for two, three and two. It assumes only that nil and
the mark of a missing session are no prompts (`NoneIsNoPrompt`).

1. `HandlerTypeCorrect`. `HandlerType` holds the types, and that a notification
   between its look-up and its end holds a prompt.
2. `SessionsAreHeld`. `SessionsHoldWhatRuns` is inductive with the types: a
   session is taken only when it holds nothing, so by its own prompt only, and
   freed by the prompt that it holds.
3. `CancellationsAreTrue`. `CancellationsAreAttributed` speaks of answers only
   and is not inductive. `Attribution` adds the history of what it rests on: of a prompt,
   that its mark comes from a notification that found it, and that its
   context ends by its mark, its own end or the client (`PromptHistory`); of a
   notification, that it marks the prompt before it ends the context (`CancelHistory`).

`NodeAttemptProofs` proves, for any two chains of guards, any decisions they may
make and any numbers of retries, interrupts and crashes, what the run
`node_attempt` checks. Assumed of the constants is what compiling the guards (`guard.go:225`) and
the bounds give: a chain names a guard once and no guard has the name of a missing one
(`GuardsAreNamed`), decisions are of the known kinds (`DecisionsAreKnown`), the body
is a child workflow or not (`BodyIsKnown`), the
bounds are numbers (`BoundsAreNumbers`).

1. `AttemptTypeCorrect`, `TypeCorrect`. Besides the types: an attempt in a
   phase is at one of its guards, which is what the next decision relies on.
2. `AttemptsAreNumbered`. `BodiesAreCounted` adds that the bodies that ran are
   counted in the *checkpoint*, which a crash keeps, and that an attempt that
   may still run its body has a number of its own.
3. `CandidatesAreLast`, `BodiesAreNotRepeated`. `CandidatesAreKept` follows the candidate from `proc.wait` over
   `cp.pending` to `cp.resolved`: no body has started since it was made, and an attempt
   which resumes it is past the body or fails by its type. That is so for every candidate, a
   child's and a retried one included, for which it is the wrong thing to do (finding 4); `CandidateIsNotRebuilt` states the rest.
4. `CommitsAreVetted`. `Vetting` counts how many guards of a phase are covered: every
   guard before the one that is asked has let the value pass or was cut off
   (`PhasesAreCovered`), and a candidate kept anywhere has been through the guards before the body.
   A candidate of a child workflow is treated as any other: nothing is said of the child's guards.
5. `ChildrenAwaitTheirAnswers`. The parent's checkpoint says what its child waits with only
   after the child's does. `ChildIsAsked` bridges the two: an attempt about to wait for a child holds the
   child's last question, and no other attempt holds one.

`WorkflowRunProofs` and `WorkflowRunJournalProofs` prove, for any number of
invocations, activations and interrupts, any page size, with or without hooks,
cancellations and every kind of bad luck, what the run `faults` checks for two
invocations. Assumed: `NoOwner` is no invocation (`InvocationsAssumption`), the constants are
of their kinds and the interrupts of a run are finitely many (`RunAssumption`;
`BatchSize` counts them).

1. The local operators (`Commit`, `HandleError`, `Raise`, `ContinueBatch`, ...) get a lemma
   each: which step the invocation comes to, and what it takes along (`SameWork`).
   Every action then gets an *effect* lemma, and later proofs cite these.
2. `ClaimsAreHeldOnce`. `Local` says in which modes an invocation can be at a
   step and what it then knows; `Claims` that nobody is ahead of the head, that a claim
   is granted to one invocation, and that a copy at the head's version is the
   head but for its lease. So of all that act, only one writes or appends: the
   *holder*, whose claim is the head's. `StaleInvocationsStayFenced` follows.
3. `JournalAgrees`. None of `PendingIsReplayable`, `ConfirmedWasDelivered`,
   `StateMatchesJournal` and `TerminalIsRecorded` is inductive: each speaks of the head
   between two steps of the holder. `Agree` has the missing half. For the holder it
   gives, at each step of the commit protocol, where its sequence,
   cursor and counts stand to the head's and to the journal's
   (`HolderInStep`), and at which event of an interrupt batch it is (`OnBatch`); and it
   says what is left to a successor when the holder stops there (`HeadAgrees`). An
   invocation without the claim only owes that what it is about to deliver is in
   the journal (`OnItsWay`), which is why a late delivery is harmless.
4. The remaining theorems of the module are read off `Agree`.

`WorkflowRunLifecycleProofs` continues with runs that nobody cancels (`CancelCauses = {}`). Crashes,
lost leases, failed calls and refusing sinks stay. The assumption is
needed: with a cancellation `HeadIsResumable` is false (run `cancel_interrupt`, finding 1), and
the runs that check these properties make it too.

5. `UncanceledRunsAreUndisturbed`. `Undisturbed` is inductive with `Agree`. Of an invocation
   (`Fine`) it says that only its lease can have been lost, that it has
   interrupts exactly while it records their batch, and what it announces
   is the next event of that batch or of none; of the head
   (`Resumable`) that a resume accepts it. `HeadStaysResumable` is read off it;
   `ResolutionsAreFinal` takes one more look at each action.
6. `JournalTellsTheStory`. `BatchesAreWhole` relates neighbours in the journal, so an
   append needs to know what the last event leaves open. `Tale` says it for the
   head (`HeadContinues`: a batch that has begun is in its progress, and whoever stamped the
   pending event has a claim not below the last event's) and for the holder
   (`HolderContinues`). `BatchesStayWhole` follows.
7. `RunsFollowTheLifecycle`, the refinement. Most steps leave what RunLifecycle sees as it is; the
   others are `Begin` (`Create`), `TakeOver` (`Claim`), `Record` (an append of a new event), `Suspend` and `End`
   (`InterruptCheckpoint`, `FinishCheckpoint`). That the log is open when the
   holder appends, and closed by the right event when the status changes, is `Story` and
   `Agree`. It also assumes `HookEvents = FALSE`, as the run `recovery` does: the log of RunLifecycle begins with
   the run, and the event of a hook precedes the checkpoint.

`SchedulerProofs` and `SchedulerSafetyProofs` prove, for any workflow, what the run `scheduler`
checks for three: any finite set of nodes, any edges, joins and back edges, any answers,
dispatches, iterators and policies, any parallelism and any number of crashes. They assume only
`TopologyAssumption` and `LimitsAssumption`.

1. Lemmas on the operators first: `SortedBy`, `At` and `Positions` list what they
   should (by the least counterexample, since induction over data is out of
   reach), and `MaterializeReadyJoins`, a fold, stays in whatever `Bind` stays in.
   Then an *effect* per operator on run states and per action: `Adds` and `Grown` (which
   activations it adds), `Routes`, `Done`, `OnlyCloses`, `OutcomeSet`, `BranchReleased`. The
   invariants are proved from these.
2. `Types`. `TypeOK` is not inductive: an index is only an index while what it
   points to is there, and which results are at hand depends on where the process is.
   `TypeInv` says of both copies of the state that every activation, set, iterator and join
   refers to what exists (`WellTyped`), of the results at hand that their activations
   exist, and of each `pc` what is at hand there (`ControlInv`).
   `RunIsWellTyped` follows.
3. `Queues`. `QueueIsTheWork` looks at the state between two batches and says nothing of the results
   that are being committed. `QueueInv` adds that these are the results of the *first* activations of the
   queue in its order, so that each commit takes the head off; that what waits for an interrupt is
   running and behind them; and that the checkpoint's queue is complete too,
   since that is what a resume finds. `QueueHoldsTheWork` follows.
4. `Decisions`. A step must not change what it or the checkpoint has decided. `DecisionInv` says that the process keeps
   what the checkpoint decided (so that a resume, which goes back to it, contradicts nothing that
   was durable), and that a set which decided has no open iterator and nothing selected that
   could still change its mind (`SetSound`). `DecisionsStayFinal` follows, one case per action.
5. `Contexts`. Updates are accepted by revision. `ContextInv` follows an update from
   the attempt that found a context to its commit: at the revision it found, it
   is that context and itself; once somebody else has committed, its revision is behind and `MayCommitContext`
   refuses it. `UpdatesAreKept` follows.
6. `Items`. `ItemsAreDispatchedOnce` counts branches by item. `SourceInv` gives, in memory and in
   the checkpoint, the branches of an iterator as the items 1 to `pulled`, once each, and ties the
   number of open iterators that a set counts to the iterators that are open, which is what keeps a set
   from settling before they end. `ItemsGoOutOnce` follows.
7. `Flowing`. `PayloadsFlowOnce` compares how often a join holds or has been given a payload with the
   dispatch of the activation it comes from. A step that materializes a join moves payloads from
   `bound` to an input and leaves the count alone (`KeepsTaken`); routing adds to it what the
   dispatch names (`RoutesGive`). `FlowInv` says that a payload that is counted was handed
   on, as often as recorded; that a set selects only branches that completed and only when it has decided; and that
   a result at hand carries a dispatch its node may return. With `QueueInv` (what a step commits is not
   over yet) and `DecisionInv` (what is released stays released), each payload is routed by exactly one
   step. `PayloadsFlowRightly` follows.

8. `Faults`. `UndisturbedFailureIsWarranted` looks at the set a run failed with, long after its
   branches were canceled, and a cancellation is what would make a set fail without
   reason: `decide` counts it against the policy. `FaultInv` therefore follows cancellations from the moment a
   node sees its context canceled (`Return`, `GroupCanceled`) to the decision: a branch of an
   undecided set ends, or will end with a result at hand, as canceled only if the results that are in
   have reached the policy's target, or for SettleAll contain a failure (`Excused`). The one exception is a
   failure outside of all sets, which cancels every group, and with which the run then ends before
   any of it is committed (`LoneFailure`). It also says that nothing runs whose result is not at hand, so that
   a decided set can cancel each branch it finds queued, and that recorded causes are a branch's own
   (`OutcomeFair`), which is what makes `firstFailure` report one. `FailuresAreWarranted` follows. All of it holds
   for one process and batches without an interrupt (`Calm`): with an interrupt it is false, as finding
   2 shows, and a crash may keep the cancellations of siblings and lose what caused them.

`QueueInv`, `DecisionInv` and `ContextInv`, and what `FlowInv` says of sets and results, speak of runs
that have not failed: a failure leaves memory wherever it was, and nothing resumes it.

Only model-checked, and why.

- `SummaryAgrees`: what the fold `Summary` computes is induction over the journal.
- `JoinsFireOncePerEpoch` and `NothingIsLeftBehind`: they do not hold of every workflow
  (finding 3 is a workflow in which a join fires early and its late contribution stays), so what
  they need of the topology would be an assumption about paths, and its use an induction over them.
- `ControlledRunsLoseNothing`: the invariants of `Scheduler` above start from its `Init`; a
  controlled run starts from the state that Retry or JumpTo builds, whose invariants would have to be proved anew.
- Liveness, which is out of the prover's reach (fairness and ENABLED are).

`OneRecordPerSequence` is the other way round: it is proved and no run checks it.

## Not modelled, and the plan

Left to prove: the invariants of the state that
`Control` builds, from which those of `Scheduler` would carry over to controlled runs; then
`NothingIsLeftBehind` for workflows whose joins have predecessors at one distance.

All modules are free of RECURSIVE operators, so that all can be proved about.

Not modelled: the registry of active runs, in which a Terminate can miss an
invocation that has not registered yet (one map behind a mutex); Fork, which
starts a run from a snapshot's input; the construction and validation of a graph and the digest
of its topology (sequential, no state); conversion of messages and events;
the agent catalog (one map behind a mutex, frozen once) and the adapters, which keep
no state; the execution deadline, nodes and iterators that panic, and a factory that
fails when an iterator is bound again (each ends in the error paths that are
modelled); test support.
