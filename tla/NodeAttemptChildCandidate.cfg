SPECIFICATION Spec
CONSTANTS
  BeforeRun <- MCBeforeRun
  BeforeCommit <- MCBeforeCommit
  Decisions <- MCDecisions
  Nested = {TRUE}
  MaxRetries = 0
  MaxInterrupts = 1
  MaxCrashes = 0
INVARIANT ChildIsResumed
CHECK_DEADLOCK FALSE
