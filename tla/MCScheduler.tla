---------------------------- MODULE MCScheduler ----------------------------
(* Workflows, dispatches and node behaviours for Scheduler.                *)
EXTENDS Scheduler

CONSTANTS
  Shapes,    \* the workflows of the run: "fan", "diamond", "loop", "chain", "pending"
  Modes,     \* the settle policies that fan-outs dispatch with
  Failing, Interrupting,  \* nodes whose function may fail, may interrupt
  Skipping, Retrying,     \* nodes whose guard may skip them, may ask for a retry
  Writing    \* nodes that may set the workflow context

MCEntries ==
  {CASE shape = "fan" -> "plan" [] shape = "diamond" -> "fork"
     [] shape = "loop" -> "draft" [] shape = "chain" -> "open"
     [] shape = "pending" -> "go" : shape \in Shapes}

Targets ==
  [plan |-> <<"a", "b", "c">>, a |-> <<"sum">>, b |-> <<"sum">>, c |-> <<"sum">>,
   fork |-> <<"left", "right">>, left |-> <<"inner", "log">>, right |-> <<"log", "outer">>,
   inner |-> <<"both">>, outer |-> <<"both">>,
   draft |-> <<"x", "y">>, x |-> <<"merge">>, y |-> <<"merge">>, merge |-> <<"draft", "result">>,
   open |-> <<"near", "far">>, near |-> <<"end">>, far |-> <<"mid">>, mid |-> <<"late">>,
   late |-> <<"end">>,
   go |-> <<"p", "q">>, p |-> <<"meet">>, q |-> <<"meet", "tail">>, meet |-> <<"after">>]

Reached == LET step(S) == S \cup UNION {IF n \in DOMAIN Targets THEN ToSet(Targets[n]) ELSE {} : n \in S}
           IN step(step(step(step(MCEntries))))

MCNodes == Reached
MCJoins == {"sum", "log", "both", "merge", "end", "meet"} \cap MCNodes
MCEdges == [n \in MCNodes |-> IF n \in DOMAIN Targets THEN Targets[n] ELSE <<>>]
MCBackEdges == {<<"merge", "draft">>} \cap (MCNodes \X MCNodes)
MCWriters == Writing \cap MCNodes

To(targets, mode) ==
  [to |-> targets, iters |-> <<>>, settle |-> [mode |-> mode, quorum |-> 2]]
Each(targets, each, items, end, mode) ==
  [To(targets, mode) EXCEPT !.iters = <<[target |-> each, items |-> items, end |-> end]>>]

\* plan also fans out to one branch, which a quorum of two refuses, and b may
\* keep its output from the join; fork yields the branches of left from an
\* iterator, beside right or alone; merge goes round once more or ends; go takes
\* one branch or both, and q fans out to tail or yields it from an iterator.
MCDispatches == [n \in MCNodes |->
  CASE n = "plan" -> {To(MCEdges[n], m) : m \in Modes} \cup {To(<<"a">>, m) : m \in Modes}
    [] n = "b" -> {To(<<"sum">>, "all"), To(<<>>, "all")}
    [] n = "fork" -> {To(MCEdges[n], m) : m \in Modes}
         \cup {Each(<<"right">>, "left", 2, "closed", m) : m \in Modes}
         \cup {Each(<<>>, "left", k, end, m) : k \in {0, 2}, end \in {"closed", "failed"}, m \in Modes}
    [] n = "go" -> {To(<<"p", "q">>, "all"), To(<<"p">>, "all")}
    [] n = "q" -> {To(<<"meet", "tail">>, "all"), Each(<<"meet">>, "tail", 2, "closed", "all")}
    [] n = "merge" -> {To(<<"draft">>, "all"), To(<<"result">>, "all")}
    [] OTHER -> {To(MCEdges[n], "all")}]

MCAnswers == [n \in MCNodes |->
  {"completed"} \cup {answer \in {"failed", "interrupted", "skipped", "retry"} :
     n \in CASE answer = "failed" -> Failing [] answer = "interrupted" -> Interrupting
            [] answer = "skipped" -> Skipping [] answer = "retry" -> Retrying}]
=============================================================================
