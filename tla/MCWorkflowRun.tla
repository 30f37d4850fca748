---------------------------- MODULE MCWorkflowRun ----------------------------
(* Model values and symmetry for WorkflowRun. *)
EXTENDS WorkflowRun, TLC

Symmetry == 
  Permutations(Invocations) \cup Permutations(InterruptIDs) \cup Permutations(Refs)
=============================================================================
