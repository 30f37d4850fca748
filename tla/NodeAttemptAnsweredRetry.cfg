SPECIFICATION Spec
CONSTANTS
  BeforeRun <- MCBeforeRun
  BeforeCommit <- MCBeforeCommit
  Decisions <- MCDecisions
  Nested = {TRUE}
  MaxRetries = 1
  MaxInterrupts = 1
  MaxCrashes = 0
INVARIANT RetryRunsTheNode
CHECK_DEADLOCK FALSE
