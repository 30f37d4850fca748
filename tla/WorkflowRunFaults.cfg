SPECIFICATION Spec
CONSTANTS
  i1 = i1
  i2 = i2
  p1 = p1
  p2 = p2
  r1 = r1
  Invocations = {p1, p2}
  InterruptIDs = {i1, i2}
  Refs = {r1}
  Work = 1
  PageSize = 1
  Origin = "natural"
  HookEvents = TRUE
  CancelCauses = {"canceled", "terminated"}
  MaxSequence = 4
  MaxCrashes = 1
  MaxFaults = 1
  MaxSinkFailures = 1
  MaxCancels = 1
SYMMETRY Symmetry
INVARIANTS
  TypeOK
  PendingIsReplayable
  ConfirmedWasDelivered
  StateMatchesJournal
  TerminalIsRecorded
  ResultIsDurable
CHECK_DEADLOCK FALSE
