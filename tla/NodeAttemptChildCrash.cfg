SPECIFICATION Spec
CONSTANTS
  BeforeRun <- MCBeforeRun
  BeforeCommit <- MCBeforeCommit
  Decisions <- MCDecisions
  Nested = {TRUE}
  MaxRetries = 0
  MaxInterrupts = 0
  MaxCrashes = 1
INVARIANT FailureIsTheNodes
CHECK_DEADLOCK FALSE
