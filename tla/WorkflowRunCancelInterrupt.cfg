SPECIFICATION Spec
CONSTANTS
  i1 = i1
  p1 = p1
  r1 = r1
  Invocations = {p1}
  InterruptIDs = {i1}
  Refs = {r1}
  Work = 1
  PageSize = 1
  Origin = "natural"
  HookEvents = FALSE
  CancelCauses = {"canceled", "terminated"}
  MaxSequence = 0
  MaxCrashes = 0
  MaxFaults = 0
  MaxSinkFailures = 0
  MaxCancels = 1
INVARIANTS
  HeadIsResumable
CHECK_DEADLOCK FALSE
