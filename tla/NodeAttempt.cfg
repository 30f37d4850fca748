SPECIFICATION Spec
CONSTANTS
  BeforeRun <- MCBeforeRun
  BeforeCommit <- MCBeforeCommit
  Decisions <- MCDecisions
  Nested = {TRUE, FALSE}
  MaxRetries = 2
  MaxInterrupts = 2
  MaxCrashes = 2
INVARIANTS
  TypeOK
  CommittedWasVetted
  AttemptsAreDistinct
  CandidateIsNotRebuilt
  ChildAwaitsItsAnswer
CHECK_DEADLOCK FALSE
