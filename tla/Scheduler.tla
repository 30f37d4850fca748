------------------------------ MODULE Scheduler ------------------------------
(***************************************************************************)
(* The scheduler of one workflow execution: batches of node activations,    *)
(* the source sets their fan-outs form, and the joins they feed.           *)
(*                                                                         *)
(* The execution takes a batch from the head of the ready queue, starts     *)
(* its activations one by one, runs their nodes concurrently, commits the  *)
(* results in the order of the queue, and then settles the source sets     *)
(* those results touched: it decides which branches count, cancels and      *)
(* supersedes the others, and routes the outputs of the selected ones.      *)
(* Every commit writes the whole state to the checkpoint (saved); a crash   *)
(* or an interrupt ends the process, and a resume starts again from saved.  *)
(*                                                                         *)
(* An activation is identified by its place in act (act-1, act-2, ...), a   *)
(* source set by its place in sets, an iterator by its place in sources.    *)
(* A payload is identified by the activation that produced it, or by its    *)
(* number among the items of an iterator, which yields the same items when  *)
(* it is bound again.  A correlation is its epoch: a run has one id.  The   *)
(* value of the WorkflowContext is the sequence of activations that set it. *)
(***************************************************************************)
EXTENDS Integers, FiniteSets, SequencesExt

CONSTANTS
  Nodes,
  Entries,         \* entries of the workflows that Nodes consists of
  Joins,           \* nodes with a Join or a Merge
  Edges,           \* node -> sequence of its targets
  BackEdges,       \* edges that a scan from the entry finds to close a cycle
  Writers,         \* nodes that may set the WorkflowContext
  Dispatches,      \* node -> the Dispatches its Route may return
  Answers,         \* node -> what its function may return of its own accord
  MaxParallelism, MaxSteps,
  MaxProcesses     \* bound: processes (first run and resumes) of the run

ASSUME TopologyAssumption ==
  /\ Entries \subseteq Nodes \ Joins /\ Joins \subseteq Nodes /\ Writers \subseteq Nodes
  /\ IsFiniteSet(Nodes)
  /\ Edges \in [Nodes -> Seq(Nodes)]
  /\ BackEdges \subseteq {e \in Nodes \X Nodes : e[2] \in ToSet(Edges[e[1]])}
  /\ \A n \in Nodes : \A d \in Dispatches[n] :
       /\ d.to \in Seq(Nodes) /\ ToSet(d.to) \subseteq ToSet(Edges[n])
       /\ d.iters \in Seq([target : ToSet(Edges[n]) \ Joins, items : Nat,
                          end : {"closed", "failed"}])
       /\ d.settle \in [mode : {"all", "any", "quorum"}, quorum : Nat]
  /\ \A n \in Nodes :
       Answers[n] \subseteq {"completed", "skipped", "retry", "failed", "interrupted"}
ASSUME LimitsAssumption ==
  /\ MaxParallelism \in Nat \ {0} /\ MaxSteps \in Nat /\ MaxProcesses \in Nat \ {0}

VARIABLES
  st,         \* runState of the running process, with its step
  saved,      \* the state in the run's checkpoint
  status,     \* the status of that checkpoint
  pc,         \* where the process is
  batch,      \* the batchActivations being started, executed or committed
  todo,       \* results of the batch still to be committed, in order
  touched,    \* source sets still to be settled
  fault,      \* the error the run ended with
  processes   \* processes that have executed the run

vars == <<st, saved, status, pc, batch, todo, touched, fault, processes>>

-----------------------------------------------------------------------------
\* Sequences

\* The elements of S in the order of their keys
SortedBy(S, key) ==
  CHOOSE q \in SetToSeqs(S) : \A i, j \in DOMAIN q : i < j => key[q[i]] <= key[q[j]]

Ascending(S) == SortedBy(S, [x \in S |-> x])

\* The elements of q at the positions P, in order
At(q, P) == LET p == Ascending(P) IN [k \in DOMAIN p |-> q[p[k]]]

Positions(q, S) == {i \in DOMAIN q : q[i] \in S}

-----------------------------------------------------------------------------
\* Source sets and their settle policies

NoDispatch == [to |-> <<>>, iters |-> <<>>, settle |-> [mode |-> "all", quorum |-> 0]]

NoOutcome == [phase |-> "none", cause |-> "none", completion |-> 0,
              committed |-> FALSE, dispatch |-> NoDispatch]

Outcome(phase, cause, completion, dispatch) ==
  [NoOutcome EXCEPT !.phase = phase, !.cause = cause, !.completion = completion,
                    !.dispatch = dispatch]

Members(set) == ToSet(set.branches)
InPhase(set, phases) == {b \in Members(set) : set.out[b].phase \in phases}

Required(policy, total) ==
  CASE policy.mode = "all" -> total
    [] policy.mode = "any" -> 1
    [] policy.mode = "quorum" -> policy.quorum

\* Completed branches: in branch order, that of their numbers, for SettleAll,
\* else by completion.
Successes(set) ==
  SortedBy(InPhase(set, {"completed"}),
           [b \in Members(set) |-> IF set.policy.mode = "all" THEN b ELSE set.out[b].completion])

Undecided == [ready |-> FALSE, failed |-> FALSE, selected |-> <<>>]
Selects(s) == [ready |-> TRUE, failed |-> FALSE, selected |-> s]
Fails == [ready |-> TRUE, failed |-> TRUE, selected |-> <<>>]

\* Fault: branches that are still to come are not counted.
PossibleFaultCompleted(set) == Cardinality(InPhase(set, {"completed"}))

Possible(set) == Cardinality(InPhase(set, {"completed", "none"}))

Decision(set) ==
  LET successes == Successes(set)
      required == Required(set.policy, Len(set.branches))
      hopeless == set.open = 0 /\ Possible(set) < required
  IN IF set.policy.mode = "all"
     THEN IF InPhase(set, {"failed", "canceled"}) # {} THEN Fails
          ELSE IF set.open > 0 \/ InPhase(set, {"none"}) # {} THEN Undecided
          ELSE Selects(successes)
     ELSE IF Len(successes) >= required THEN Selects(SubSeq(successes, 1, required))
          ELSE IF hopeless THEN Fails ELSE Undecided

\* With all its iterators closed, a set may have fewer branches than its quorum.
TooSmall(set) ==
  set.open = 0 /\ set.policy.mode = "quorum" /\ set.policy.quorum > Len(set.branches)

\* The cause a failed set reports: its iterator's failure, else a branch's
\* own failure rather than a cancellation, in branch order.
FirstFailure(set) ==
  LET causes == [i \in DOMAIN set.branches |-> set.out[set.branches[i]].cause]
      own == {i \in DOMAIN causes : causes[i] \notin {"none", "canceled"}}
  IN IF set.cause # "none" THEN set.cause
     ELSE IF own # {} THEN causes[Min(own)]
     ELSE IF "canceled" \in ToSet(causes) THEN "canceled" ELSE "unsatisfied"

-----------------------------------------------------------------------------
\* The run state: scheduling, joins

NewActivation(node, epoch, set, input) ==
  [node |-> node, epoch |-> epoch, set |-> set, phase |-> "ready", input |-> input,
   source |-> 0, item |-> 0]

Fresh(entry) ==
  [queue |-> <<1>>, act |-> <<NewActivation(entry, 1, 0, <<>>)>>, tracked |-> {1},
   sets |-> <<>>, sources |-> <<>>, clock |-> 0, step |-> 1,
   bound |-> [t \in Joins |-> <<>>], closed |-> [t \in Joins |-> {}],
   context |-> <<>>, revision |-> 1]

NewIds(s, new) == [i \in DOMAIN new |-> Len(s.act) + i]

\* Fault: the activations do not get the source set of their delivery.
EnqueueFaultNoSet(s, new) ==
  [s EXCEPT !.queue = @ \o NewIds(s, new), !.tracked = @ \cup ToSet(NewIds(s, new)),
            !.act = @ \o [i \in DOMAIN new |-> [new[i] EXCEPT !.set = 0]]]

\* tracked are the activations that trackCorrelation has counted.
Enqueue(s, new) ==
  [s EXCEPT !.queue = @ \o NewIds(s, new), !.tracked = @ \cup ToSet(NewIds(s, new)),
            !.act = @ \o new]

\* nextCorrelation: what activation a sends along a back edge belongs to the
\* next epoch.
NextEpoch(s, a, target) ==
  IF <<s.act[a].node, target>> \in BackEdges THEN s.act[a].epoch + 1 ELSE s.act[a].epoch

Predecessors(t) == {n \in Nodes : t \in ToSet(Edges[n])}

\* selectedJoinTargets
Named(d, t) == Cardinality(Positions(d.to, {t}))

\* closeJoinExpectations: activation a will contribute to each join its node
\* has an edge to as often as its dispatch d names it.
CloseExpectations(s, a, d) ==
  [s EXCEPT !.closed = [t \in Joins |->
     IF t \in ToSet(Edges[s.act[a].node])
     THEN s.closed[t] \cup {[act |-> a, count |-> Named(d, t)]}
     ELSE s.closed[t]]]

\* A join has a bucket per epoch: what node p said and contributed for epoch e.
ClosedBy(s, t, e, p) ==
  {c \in s.closed[t] : s.act[c.act].node = p /\ NextEpoch(s, c.act, t) = e}
ContributedBy(s, t, e, p) ==
  {i \in DOMAIN s.bound[t] :
     s.act[s.bound[t][i]].node = p /\ NextEpoch(s, s.bound[t][i], t) = e}
AllContributed(s, t, e, p) ==
  Cardinality(ContributedBy(s, t, e, p)) = MapThenSumSet(LAMBDA c : c.count, ClosedBy(s, t, e, p))

\* Fault: activations that have not closed their expectation are forgotten.
SourceReadyFaultEager(s, t, e, p) == AllContributed(s, t, e, p)

\* Fault: the activations of every epoch are waited for.
SourceReadyFaultEpochs(s, t, e, p) ==
  /\ Cardinality(ClosedBy(s, t, e, p)) = Cardinality({a \in s.tracked : s.act[a].node = p})
  /\ AllContributed(s, t, e, p)

\* A predecessor is ready when each of its activations scheduled for the epoch
\* has closed its expectation and contributed as often as it said.
SourceReady(s, t, e, p) ==
  /\ Cardinality(ClosedBy(s, t, e, p))
       = Cardinality({a \in s.tracked : s.act[a].node = p /\ NextEpoch(s, a, t) = e})
  /\ AllContributed(s, t, e, p)

\* The joins that are ready, each with its epoch
ReadyJoins(s) ==
  {key \in UNION {{<<t, NextEpoch(s, a, t)>> : a \in ToSet(s.bound[t])} : t \in Joins} :
     \A p \in Predecessors(key[1]) : SourceReady(s, key[1], key[2], p)}

Bind(s, t, e) ==
  LET mine == {i \in DOMAIN s.bound[t] : NextEpoch(s, s.bound[t][i], t) = e}
  IN [Enqueue(s, <<NewActivation(t, e, 0, At(s.bound[t], mine))>>) EXCEPT
        !.bound[t] = At(@, DOMAIN @ \ mine),
        !.closed[t] = {c \in @ : NextEpoch(s, c.act, t) # e}]

\* The buckets are visited in the order of a map, which is any order; a join
\* that is bound may delay another, and readies none.
MaterializeReadyJoins(s, order) ==
  FoldLeft(LAMBDA acc, key : IF key \in ReadyJoins(acc) THEN Bind(acc, key[1], key[2]) ELSE acc,
           s, order)

Branches(d) == At(d.to, Positions(d.to, Nodes \ Joins))

\* scheduleNext refuses a quorum larger than the fan-out.
Unreachable(d) ==
  /\ d.iters = <<>> /\ Branches(d) # <<>> /\ d.settle.mode = "quorum"
  /\ d.settle.quorum > Len(Branches(d))

\* scheduleIter
NewSources(s, a, d) ==
  [i \in DOMAIN d.iters |->
     [set |-> Len(s.sets) + 1, of |-> d.iters[i], epoch |-> NextEpoch(s, a, d.iters[i].target),
      pulled |-> 0, at |-> 0, open |-> TRUE, live |-> TRUE]]

ScheduleNext(s, a, d) ==
  LET new == [i \in DOMAIN Branches(d) |->
        NewActivation(Branches(d)[i], NextEpoch(s, a, Branches(d)[i]), Len(s.sets) + 1, <<>>)]
      ids == NewIds(s, new)
      set == [policy |-> d.settle, branches |-> ids, 
              out |-> [b \in ToSet(ids) |-> NoOutcome], open |-> Len(d.iters), cause |-> "none",
              selected |-> <<>>, decided |-> FALSE, settled |-> FALSE, failed |-> FALSE]
      opened == IF ids = <<>> /\ d.iters = <<>> THEN s
                ELSE [s EXCEPT !.sets = Append(@, set), !.sources = @ \o NewSources(s, a, d)]
      contributed == [Enqueue(opened, new) EXCEPT !.bound = [t \in Joins |->
        s.bound[t] \o [i \in 1..Named(d, t) |-> a]]]
  IN CloseExpectations(contributed, a, d)

\* removeReady and finishActivation
Finished(s, a, phase) ==
  [s EXCEPT !.queue = Tail(@), !.act[a].phase = phase]

-----------------------------------------------------------------------------
\* Control

Checkpoint(s) ==    \* commitRunningEvent
  st' = s /\ saved' = s /\ UNCHANGED <<status, fault, processes>>

Compute(s) ==       \* a change of the running process alone
  st' = s /\ UNCHANGED <<saved, status, fault, processes>>

Fail(s, kind, set, cause) ==
  /\ st' = s /\ saved' = s /\ status' = "failed" /\ pc' = "ended"
  /\ fault' = [kind |-> kind, set |-> set, cause |-> cause]
  /\ UNCHANGED <<batch, todo, touched, processes>>

BatchSize(s) == Min({MaxParallelism, Len(s.queue), MaxSteps - s.step + 1})

OpenSources(s) == {i \in DOMAIN s.sources : s.sources[i].open}

\* fillIterQueue pulls, before the next batch, from the first open iterator.
Pulling(i) ==
  /\ pc = "schedule" /\ Len(st.queue) < MaxParallelism
  /\ OpenSources(st) # {} /\ i = Min(OpenSources(st))

PullItem(i) ==
  LET source == st.sources[i]
      set == source.set
      b == Len(st.act) + 1
      new == [NewActivation(source.of.target, source.epoch, set, <<>>) EXCEPT
                !.source = i, !.item = source.at + 1]
  IN /\ Pulling(i) /\ source.live /\ source.at < source.of.items
     /\ Checkpoint([Enqueue(st, <<new>>) EXCEPT
          !.sets[set].branches = Append(@, b),
          !.sets[set].out = [x \in DOMAIN @ \cup {b} |-> IF x = b THEN NoOutcome ELSE @[x]],
          !.sources[i].pulled = @ + 1, !.sources[i].at = @ + 1])
     /\ UNCHANGED <<pc, batch, todo, touched>>

\* closeIterSources
SourcesClosed(s, set) ==
  [s EXCEPT !.sets[set].open = 0,
            !.sources = [i \in DOMAIN @ |->
              [@[i] EXCEPT !.open = s.sources[i].open /\ s.sources[i].set # set]]]

\* closeIterSource, failIterSource: the iterator's set is settled at once.
EndSource(i) ==
  LET source == st.sources[i]
      set == source.set
  IN /\ Pulling(i) /\ source.live /\ source.at = source.of.items
     /\ Checkpoint(IF source.of.end = "closed"
                   THEN [st EXCEPT !.sources[i].open = FALSE, !.sets[set].open = @ - 1]
                   ELSE [SourcesClosed(st, set) EXCEPT !.sets[set].failed = TRUE,
                                                       !.sets[set].cause = "failed"])
     /\ touched' = <<set>> /\ pc' = "commit" /\ UNCHANGED <<batch, todo>>

\* A process that started from another run's checkpoint holds no iterators.
FailPull(i) ==
  /\ Pulling(i) /\ ~st.sources[i].live
  /\ Fail(st, "iterator", 0, "none")

Filled == Len(st.queue) >= MaxParallelism \/ OpenSources(st) = {}

\* nextBatch
NextBatch ==
  /\ pc = "schedule" /\ Filled /\ st.queue # <<>> /\ st.step <= MaxSteps
  /\ batch' = [i \in 1..BatchSize(st) |-> [act |-> st.queue[i], answer |-> "none",
                                            completion |-> 0, dispatch |-> NoDispatch,
                                            base |-> 0, context |-> <<>>]]
  /\ pc' = "start"
  /\ UNCHANGED <<todo, touched>> /\ Compute(st)

StepsExceeded ==
  /\ pc = "schedule" /\ Filled /\ st.queue # <<>> /\ st.step > MaxSteps
  /\ Fail(st, "steps", 0, "none")

\* emitBatchStarts
StartActivation ==
  /\ pc = "start"
  /\ \E i \in DOMAIN batch :
       /\ st.act[batch[i].act].phase = "ready"
       /\ \A j \in 1..(i - 1) : st.act[batch[j].act].phase = "running"
       /\ Checkpoint([st EXCEPT !.act[batch[i].act].phase = "running"])
       /\ pc' = IF i = Len(batch) THEN "execute" ELSE pc
  /\ UNCHANGED <<batch, todo, touched>>

SetOf(r) == st.act[r.act].set

\* batchCoordinator.observe, observeError: has the context of result r's
\* group been canceled by the results that are in?
GroupCanceled(r) ==
  LET g == SetOf(r)
      inGroup(answer) == {i \in DOMAIN batch : SetOf(batch[i]) = g /\ batch[i].answer = answer}
      set == st.sets[g]
  IN \/ \E i \in DOMAIN batch : SetOf(batch[i]) = 0 /\ batch[i].answer = "failed"
     \/ /\ g # 0 /\ set.policy.mode = "all"
        /\ inGroup("failed") # {}
     \/ /\ g # 0 /\ set.policy.mode # "all"
        /\ inGroup("completed") # {}
        /\ Cardinality(inGroup("completed")) + Cardinality(InPhase(set, {"completed"}))
             >= Required(set.policy, Len(set.branches))

\* nodeContext, runActivation: an attempt may set the context it found when the
\* batch began to execute; base is the revision it found, 0 if it set nothing.
MaySet(node, answer) ==
  IF node \in Writers /\ answer \in {"completed", "skipped"} THEN BOOLEAN ELSE {FALSE}

\* A node returns: what its function says, or its canceled context's error.
Return(i) ==
  /\ pc = "execute" /\ batch[i].answer = "none"
  /\ LET node == st.act[batch[i].act].node IN
     \E answer \in Answers[node] \cup IF GroupCanceled(batch[i]) THEN {"canceled"} ELSE {} :
       /\ answer = "interrupted" => processes < MaxProcesses
       /\ \E d \in IF answer = "completed" THEN Dispatches[node] ELSE {NoDispatch},
             sets \in MaySet(node, answer) :
            batch' = [batch EXCEPT ![i].answer = answer, ![i].dispatch = d,
                                   ![i].completion = st.clock + 1,
                                   ![i].base = IF sets THEN st.revision ELSE 0,
                                   ![i].context = IF sets THEN Append(st.context, batch[i].act)
                                                          ELSE <<>>]
  /\ UNCHANGED <<pc, todo, touched>>
  /\ Compute([st EXCEPT !.clock = @ + 1])

Answered(answer) == {i \in DOMAIN batch : batch[i].answer = answer}
AllReturned == pc = "execute" /\ Answered("none") = {}

\* Fault: the interrupted activations leave the queue.
ReorderedFaultDropped(kept) ==
  [i \in DOMAIN kept |-> kept[i].act] \o SubSeq(st.queue, Len(batch) + 1, Len(st.queue))

\* reorderInterruptedBatch: what is to be committed comes first.
Reordered(kept) ==
  LET gone == At(batch, Answered("interrupted"))
      rest == SubSeq(st.queue, Len(batch) + 1, Len(st.queue))
      Ids(results) == [i \in DOMAIN results |-> results[i].act]
  IN Ids(kept) \o Ids(gone) \o rest

\* handleNodeError of an activation that belongs to no source set
FailStandalone(r) ==
  LET phase == IF r.answer = "canceled" THEN "canceled" ELSE "failed"
  IN Fail([st EXCEPT !.act[r.act].phase = phase], "node", 0, phase)

AcceptBatch ==
  /\ AllReturned
  /\ Answered("interrupted") = {} =>
       {i \in Answered("failed") \cup Answered("canceled") : SetOf(batch[i]) = 0} = {}
  /\ LET kept == At(batch, DOMAIN batch \ Answered("interrupted"))
     IN /\ todo' = kept
        /\ Compute([st EXCEPT !.queue = Reordered(kept)])
  /\ pc' = "commit"
  /\ UNCHANGED <<batch, touched>>

\* failedStandaloneActivation: the first failure, else the first cancellation
FailBatch ==
  /\ AllReturned /\ Answered("interrupted") = {}
  /\ LET lone(answer) == {i \in Answered(answer) : SetOf(batch[i]) = 0}
         failed == IF lone("failed") # {} THEN lone("failed") ELSE lone("canceled")
     IN failed # {} /\ FailStandalone(batch[Min(failed)])

\* advanceBatch and handleBatchInterrupts commit the results in order.
Committing(r) == pc = "commit" /\ todo # <<>> /\ r = Head(todo)

CommitRetry(r) ==
  /\ Committing(r) /\ r.answer = "retry" /\ Head(st.queue) = r.act
  /\ Checkpoint([st EXCEPT !.queue = Append(Tail(@), r.act),
                           !.act[r.act].phase = "ready", !.step = @ + 1])
  /\ todo' = Tail(todo) /\ UNCHANGED <<pc, batch, touched>>

\* singleBranchSourceSet, and no set at all
SingleBranch(s, i) == i # 0 => Len(s.sets[i].branches) = 1 /\ s.sets[i].open = 0

\* Fault: the revision the attempt found is not compared.
MayCommitContextFaultBlind(r) ==
  r.base # 0 => SingleBranch(st, SetOf(r))

\* commitBatchItem, commitContext: a branch of a fan-out may not set the
\* context, nor may an attempt that found another revision.
MayCommitContext(r) ==
  r.base # 0 => SingleBranch(st, SetOf(r)) /\ r.base = st.revision

ContextCommitted(r) ==
  IF r.base = 0 THEN st ELSE [st EXCEPT !.context = r.context, !.revision = @ + 1]

FailContext(r) ==
  /\ Committing(r) /\ ~MayCommitContext(r)
  /\ Fail(st, "context", 0, "none")

CommitBranch(r) ==
  /\ Committing(r) /\ r.answer # "retry" /\ SetOf(r) # 0 /\ Head(st.queue) = r.act
  /\ MayCommitContext(r)
  /\ LET cause == IF r.answer \in {"failed", "canceled"} THEN r.answer ELSE "none"
     IN Checkpoint([Finished(ContextCommitted(r), r.act, r.answer) EXCEPT
          !.sets[SetOf(r)].out[r.act] = Outcome(r.answer, cause, r.completion, r.dispatch),
          !.step = @ + 1])
  /\ touched' = IF Contains(touched, SetOf(r)) THEN touched ELSE Append(touched, SetOf(r))
  /\ todo' = Tail(todo) /\ UNCHANGED <<pc, batch>>

CommitActivation(r) ==
  /\ Committing(r) /\ r.answer \in {"completed", "skipped"} /\ SetOf(r) = 0
  /\ Head(st.queue) = r.act /\ MayCommitContext(r)
  /\ LET finished == Finished(ContextCommitted(r), r.act, r.answer)
         routed == IF r.answer = "skipped" THEN CloseExpectations(finished, r.act, NoDispatch)
                   ELSE ScheduleNext(finished, r.act, r.dispatch)
     IN IF r.answer = "completed" /\ Unreachable(r.dispatch)
        THEN Fail(finished, "policy", 0, "none")
        ELSE /\ \E order \in SetToSeqs(ReadyJoins(routed)) :
                  Checkpoint([MaterializeReadyJoins(routed, order) EXCEPT !.step = @ + 1])
             /\ todo' = Tail(todo) /\ UNCHANGED <<pc, batch, touched>>

\* handleBatchInterrupts: a failure of its own beside an interrupt
FailCommit(r) ==
  /\ Committing(r) /\ r.answer \in {"failed", "canceled"} /\ SetOf(r) = 0
  /\ FailStandalone(r)

-----------------------------------------------------------------------------
\* settleSourceSet, for the first set of touched

Settling(s) == pc = "commit" /\ todo = <<>> /\ touched # <<>> /\ s = Head(touched)
Unsettled(s) == Settling(s) /\ ~st.sets[s].settled
Decided(s) == Unsettled(s) /\ (st.sets[s].decided \/ st.sets[s].failed)

Decide(s) ==
  /\ Unsettled(s) /\ ~Decided(s) /\ ~TooSmall(st.sets[s])
  /\ LET d == Decision(st.sets[s]) IN
     /\ d.ready
     /\ Compute([SourcesClosed(st, s) EXCEPT
          !.sets[s].decided = ~d.failed, !.sets[s].failed = d.failed,
          !.sets[s].selected = d.selected])
  /\ UNCHANGED <<pc, batch, todo, touched>>

RefuseSet(s) ==
  /\ Unsettled(s) /\ ~Decided(s) /\ TooSmall(st.sets[s])
  /\ Fail(st, "policy", s, "none")

LeaveSet(s) ==
  /\ Settling(s) /\ ~Decided(s)
  /\ Unsettled(s) => ~TooSmall(st.sets[s]) /\ ~Decision(st.sets[s]).ready
  /\ touched' = Tail(touched)
  /\ UNCHANGED <<pc, batch, todo>> /\ Compute(st)

Selected(s) == ToSet(st.sets[s].selected)
QueuedBranches(s) ==
  {i \in DOMAIN st.queue :
     st.act[st.queue[i]].set = s /\ st.queue[i] \notin Selected(s)}

\* cancelNextQueuedBranch; an activation that is not ready cannot cancel.
CancelQueuedBranch(s) ==
  /\ Decided(s) /\ QueuedBranches(s) # {}
  /\ LET i == Min(QueuedBranches(s))
         b == st.queue[i]
         canceled == [st EXCEPT !.queue = RemoveAt(@, i), !.clock = @ + 1]
     IN IF st.act[b].phase # "ready"
        THEN Fail(canceled, "scheduler", s, "none")
        ELSE /\ Checkpoint([canceled EXCEPT
                  !.act[b].phase = "canceled",
                  !.sets[s].out[b] = Outcome("canceled", "canceled", st.clock + 1, NoDispatch)])
             /\ UNCHANGED <<pc, batch, todo, touched>>

Unwanted(s) == InPhase(st.sets[s], {"completed"}) \ Selected(s)

SupersedeBranch(s) ==
  /\ Decided(s) /\ QueuedBranches(s) = {} /\ Unwanted(s) # {}
  /\ Checkpoint([st EXCEPT !.sets[s].out[Min(Unwanted(s))].phase = "superseded"])
  /\ UNCHANGED <<pc, batch, todo, touched>>

\* closeUnselectedBranchExpectations
ClosedUnselected(s) ==
  [st EXCEPT !.closed = [t \in Joins |-> @[t] \cup
     {[act |-> b, count |-> 0] :
        b \in {b \in Members(st.sets[s]) \ Selected(s) : t \in ToSet(Edges[st.act[b].node])}}]]

Cleared(s) == Decided(s) /\ QueuedBranches(s) = {} /\ Unwanted(s) = {}
Unreleased(s) ==
  {i \in DOMAIN st.sets[s].selected : ~st.sets[s].out[st.sets[s].selected[i]].committed}

ReleaseBranch(s) ==
  /\ Cleared(s) /\ Unreleased(s) # {}
  /\ LET b == st.sets[s].selected[Min(Unreleased(s))]
         d == st.sets[s].out[b].dispatch
     IN IF Unreachable(d)
        THEN Fail(ClosedUnselected(s), "policy", s, "none")
        ELSE /\ Checkpoint([ScheduleNext(ClosedUnselected(s), b, d) EXCEPT
                              !.sets[s].out[b].committed = TRUE])
             /\ UNCHANGED <<pc, batch, todo, touched>>

\* materializeReadyJoins; the next commit makes it and settled durable.
SettleSet(s) ==
  /\ Cleared(s) /\ st.sets[s].decided /\ Unreleased(s) = {}
  /\ \E order \in SetToSeqs(ReadyJoins(ClosedUnselected(s))) :
       Compute([MaterializeReadyJoins(ClosedUnselected(s), order) EXCEPT !.sets[s].settled = TRUE])
  /\ touched' = Tail(touched) /\ UNCHANGED <<pc, batch, todo>>

FailSet(s) ==
  /\ Cleared(s) /\ st.sets[s].failed
  /\ Fail(ClosedUnselected(s), "set", s, FirstFailure(st.sets[s]))

-----------------------------------------------------------------------------
\* The end of a batch, of a process, of the run

BatchDone == pc = "commit" /\ todo = <<>> /\ touched = <<>>

Advance ==
  /\ BatchDone /\ Answered("interrupted") = {}
  /\ pc' = "schedule" /\ batch' = <<>>
  /\ UNCHANGED <<todo, touched>> /\ Compute(st)

\* interruptBatch: the run waits for the resolution of every interrupt.
InterruptBatch ==
  /\ BatchDone /\ Answered("interrupted") # {}
  /\ LET waiting == {batch[i].act : i \in Answered("interrupted")}
         s == [st EXCEPT !.act = [a \in DOMAIN @ |-> 
                 IF a \in waiting THEN [@[a] EXCEPT !.phase = "interrupted"] ELSE @[a]]]
     IN st' = s /\ saved' = s
  /\ status' = "interrupted" /\ pc' = "ended" /\ batch' = <<>>
  /\ UNCHANGED <<todo, touched, fault, processes>>

Complete ==
  /\ pc = "schedule" /\ st.queue = <<>> /\ OpenSources(st) = {}
  /\ saved' = st /\ status' = "completed" /\ pc' = "ended"
  /\ UNCHANGED <<st, batch, todo, touched, fault, processes>>

Crash ==
  /\ pc # "ended" /\ processes < MaxProcesses
  /\ pc' = "ended" /\ batch' = <<>> /\ todo' = <<>> /\ touched' = <<>>
  /\ Compute(saved)

\* Fault: that a branch was routed is not restored.
RestoredSetFaultRouted(set) ==
  [set EXCEPT !.out = [b \in DOMAIN @ |-> [@[b] EXCEPT !.committed = FALSE]]]

\* Fault: a decision is not restored.
RestoredSetFaultDecided(set) == [set EXCEPT !.decided = FALSE, !.selected = <<>>]

\* A restored cancellation is an error with the same text, no longer
\* context.Canceled.
RestoredSet(set) ==
  [set EXCEPT !.out = [b \in DOMAIN @ |->
     IF @[b].cause = "canceled" THEN [@[b] EXCEPT !.cause = "text"] ELSE @[b]]]

\* Fault: a bound iterator starts with its first item.
BoundFaultRewinds(source) == [source EXCEPT !.at = 0]

\* bindIterSource: an iterator that is bound again skips the items it has
\* yielded, or starts from the cursor behind them.
Bound(source) == [source EXCEPT !.at = source.pulled, !.live = TRUE]

Restored(s) ==
  [s EXCEPT !.sets = [i \in DOMAIN @ |-> RestoredSet(@[i])],
            !.sources = [i \in DOMAIN @ |-> Bound(@[i])]]

\* Fault: an activation that was running stays running.
PrepareResumeFaultRunning(s) ==
  [s EXCEPT !.act = [a \in DOMAIN @ |->
     IF @[a].phase = "interrupted" THEN [@[a] EXCEPT !.phase = "ready"] ELSE @[a]]]

PrepareResume(s) ==
  [s EXCEPT !.act = [a \in DOMAIN @ |->
     IF @[a].phase \in {"running", "interrupted"} THEN [@[a] EXCEPT !.phase = "ready"] ELSE @[a]]]

\* reconcileSourceSets
ToReconcile(s) == {i \in DOMAIN s.sets : ~s.sets[i].settled}

\* Resume a crashed run, or an interrupted one with all its resolutions;
\* the sets left unsettled come before the next batch.
Resume ==
  /\ pc = "ended" /\ status \in {"running", "interrupted"}
  /\ LET s == PrepareResume(Restored(saved)) IN
     /\ st' = s /\ saved' = s
     /\ touched' = Ascending(ToReconcile(s))
  /\ status' = "running" /\ pc' = "commit" /\ processes' = processes + 1
  /\ UNCHANGED <<batch, todo, fault>>

-----------------------------------------------------------------------------

Init ==
  /\ st \in {Fresh(entry) : entry \in Entries} /\ saved = st /\ status = "running" /\ pc = "schedule"
  /\ batch = <<>> /\ todo = <<>> /\ touched = <<>>
  /\ fault = [kind |-> "none", set |-> 0, cause |-> "none"]
  /\ processes = 1

Commit(r) ==
  \/ CommitRetry(r) \/ CommitBranch(r) \/ CommitActivation(r)
  \/ FailCommit(r) \/ FailContext(r)

Settle(s) ==
  \/ Decide(s) \/ RefuseSet(s) \/ LeaveSet(s) \/ CancelQueuedBranch(s) \/ SupersedeBranch(s)
  \/ ReleaseBranch(s) \/ FailSet(s) \/ SettleSet(s)

Progress ==
  \/ \E i \in DOMAIN st.sources : PullItem(i) \/ EndSource(i) \/ FailPull(i)
  \/ NextBatch \/ StepsExceeded \/ StartActivation
  \/ \E i \in DOMAIN batch : Return(i)
  \/ AcceptBatch \/ FailBatch
  \/ \E r \in ToSet(todo) : Commit(r)
  \/ \E s \in ToSet(touched) : Settle(s)
  \/ Advance \/ InterruptBatch \/ Complete \/ Resume

Next == Progress \/ Crash

Spec == Init /\ [][Next]_vars

\* A process that runs makes progress, and somebody resumes a run that is
\* neither completed nor failed.
FairSpec == Spec /\ WF_vars(Progress)

-----------------------------------------------------------------------------
\* Properties

Over == {"completed", "skipped", "failed", "canceled"}

WellFormed(s) ==
  /\ s.act \in Seq([node : Nodes, epoch : Nat, set : 0..Len(s.sets), input : Seq(DOMAIN s.act),
                    source : 0..Len(s.sources), item : Nat, phase : Over \cup {"ready", "running", "interrupted"}])
  /\ s.tracked \subseteq DOMAIN s.act /\ s.context \in Seq(DOMAIN s.act)
  /\ s.revision \in Nat
  /\ s.queue \in Seq(DOMAIN s.act) /\ s.clock \in Nat /\ s.step \in Nat
  /\ s.bound \in [Joins -> Seq(DOMAIN s.act)]
  /\ \A t \in Joins : s.closed[t] \subseteq [act : DOMAIN s.act, count : Nat]
  /\ \A i \in DOMAIN s.sets : LET set == s.sets[i] IN
       /\ Members(set) = {a \in DOMAIN s.act : s.act[a].set = i}
       /\ DOMAIN set.out = Members(set) /\ ToSet(set.selected) \subseteq Members(set)
       /\ \A b \in Members(set) :
            set.out[b].phase \in Over \cup {"none", "superseded"}

\* Every state the process computes and every one the checkpoint holds is
\* well typed, and a source set consists of the activations that name it.
TypeOK ==
  /\ WellFormed(st) /\ WellFormed(saved)
  /\ status \in {"running", "interrupted", "completed", "failed"}
  /\ pc \in {"schedule", "start", "execute", "commit", "ended"}
  /\ \A i \in DOMAIN batch : batch[i].act \in DOMAIN st.act
  /\ ToSet(touched) \subseteq DOMAIN st.sets /\ processes \in 1..MaxProcesses

States == {st, saved}

\* removeReady, retryActivation, reorderInterruptedBatch and
\* cancelNextQueuedBranch together keep the ready queue what it is taken for:
\* unless the run failed, it holds each activation that is not over, once.
QueueIsTheWork ==
  status # "failed" => \A s \in States :
    /\ ToSet(s.queue) = {a \in DOMAIN s.act : s.act[a].phase \notin Over}
    /\ Cardinality(ToSet(s.queue)) = Len(s.queue)

\* How often join t has been given, or holds, the payload of activation a
Taken(s, t, a) ==
  Cardinality({<<0, i>> : i \in Positions(s.bound[t], {a})}
    \cup UNION {{<<j, i>> : i \in Positions(s.act[j].input, {a})} :
                  j \in {j \in DOMAIN s.act : s.act[j].node = t}})

\* The dispatches activation a may have been released with
Dispatched(s, a) ==
  IF s.act[a].set = 0 THEN Dispatches[s.act[a].node]
  ELSE {s.sets[s.act[a].set].out[a].dispatch}

Released(s, a) ==
  /\ s.act[a].phase = "completed"
  /\ s.act[a].set # 0 => s.sets[s.act[a].set].out[a].committed

\* releaseBranch routes an output, and with committed persists that it did:
\* a join gets the payload of a branch only if the settled set selected it,
\* and gets it as often as its dispatch names the join, however often the
\* process dies while it settles.
PayloadsFlowOnce ==
  \A s \in States : \A t \in Joins : \A a \in DOMAIN s.act :
    Taken(s, t, a) > 0 =>
      /\ Released(s, a) /\ Taken(s, t, a) \in {Named(d, t) : d \in Dispatched(s, a)}
      /\ s.act[a].set # 0 => a \in ToSet(s.sets[s.act[a].set].selected)

\* What a set decided (decided, selected, failed, committed) survives every
\* crash and resume: the checkpoint never takes a decision back.
DecisionsAreFinal ==
  [][status # "failed" => \A i \in DOMAIN saved.sets :
       LET old == saved.sets[i]
           new == saved'.sets[i]
       IN /\ old.decided => new.decided /\ ~new.failed /\ new.selected = old.selected
          /\ old.failed => new.failed
          /\ \A b \in Members(old) : old.out[b].committed => new.out[b].committed]_vars

\* pullIterSource, bindIterSource: whenever the process dies, the items an
\* iterator has yielded become one branch each, none is left out or taken twice.
ItemsAreDispatchedOnce ==
  \A s \in States : \A i \in DOMAIN s.sources :
    LET source == s.sources[i]
        mine == {a \in DOMAIN s.act : s.act[a].source = i /\ s.act[a].set = source.set
                                     /\ s.act[a].node = source.of.target}
    IN /\ {s.act[a].item : a \in mine} = 1..source.pulled
       /\ Cardinality(mine) = source.pulled
       /\ source.open => ~s.sets[source.set].settled /\ s.sets[source.set].open > 0

\* A run completes only when nothing is left: every set is settled and no
\* join still holds a contribution.
NothingIsLeftBehind ==
  status = "completed" =>
    /\ \A i \in DOMAIN saved.sets : saved.sets[i].settled
    /\ \A i \in DOMAIN saved.sources : ~saved.sources[i].open
    /\ \A t \in Joins : saved.bound[t] = <<>>

\* joinReady, nextCorrelation: a join starts when all its predecessors have said
\* what they contribute in an epoch, so it starts once in every epoch, with the
\* contributions of that epoch, however the rounds of a cycle overlap.
JoinsFireOncePerEpoch ==
  \A a, b \in DOMAIN st.act :
    st.act[a].node \in Joins /\ st.act[a].node = st.act[b].node =>
      (st.act[a].epoch = st.act[b].epoch => a = b)

\* commitContext: what an attempt committed to the context is there for all the
\* attempts that commit after it, whoever ran in parallel, and a crash or an
\* interrupt takes back nothing.
NoUpdateIsLost ==
  [][status # "failed" => IsPrefix(saved.context, saved'.context)]_vars

\* SettlePolicy: a run fails because a node or an iterator failed, a quorum was
\* larger than its fan-out, the steps ran out, or a source set could not satisfy
\* its policy by what its branches answered of their own accord.
FailureIsWarranted ==
  status = "failed" =>
    /\ fault.kind \in {"node", "policy", "steps", "context", "iterator", "set"}
    /\ fault.kind = "set" =>
         LET set == saved.sets[fault.set]
             expected == Len(set.branches)
         IN \/ set.cause # "none"
            \/ IF set.policy.mode = "all" THEN InPhase(set, {"failed"}) # {}
               ELSE expected - Cardinality(InPhase(set, {"failed", "skipped"}))
                      < Required(set.policy, expected)

\* One process executes the whole run, and the batch at hand has no interrupt.
Undisturbed == processes = 1 /\ Answered("interrupted") = {}

OwnFailureIsReported ==
  fault.kind = "set" /\ InPhase(saved.sets[fault.set], {"failed"}) # {} => fault.cause = "failed"

\* decide, firstFailure: without crashes and interrupts a run fails only for such
\* a reason, in whatever order and batches the branches complete and are
\* cancelled, and what it reports of a set is a branch's own failure, never the
\* cancellation of a sibling.
UndisturbedFailureIsWarranted ==
  Undisturbed => FailureIsWarranted /\ OwnFailureIsReported

\* A run that nodes, crashes and interrupts do not hold up forever ends.
Terminates == status \in {"running", "interrupted"} ~> status \in {"completed", "failed"}

=============================================================================
