--------------------------- MODULE MCNodeAttempt ---------------------------
(* Three guards before the commit: one that judges, one that asks a person, *)
(* and one that runs after the person answered; the one that asks is bound  *)
(* before the body as well.                                                *)
EXTENDS NodeAttempt

MCBeforeRun    == <<"screen", "approve">>
MCBeforeCommit == <<"judge", "approve", "sign">>

MCDecisions ==
  [screen  |-> {"allow", "rewrite_input", "skip_output", "skip", "retry", "interrupt"},
   judge   |-> {"allow", "rewrite_output", "skip_output", "retry", "fail"},
   approve |-> {"allow", "interrupt"},
   sign    |-> {"allow", "rewrite_input", "rewrite_output", "skip"}]

=============================================================================
