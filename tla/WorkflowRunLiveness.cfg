SPECIFICATION FairSpec
CONSTANTS
  i1 = i1
  p1 = p1
  p2 = p2
  r1 = r1
  Invocations = {p1, p2}
  InterruptIDs = {i1}
  Refs = {r1}
  Work = 1
  PageSize = 1
  Origin = "natural"
  HookEvents = FALSE
  CancelCauses = {}
  MaxSequence = 3
  MaxCrashes = 1
  MaxFaults = 0
  MaxSinkFailures = 1
  MaxCancels = 0
PROPERTIES
  UndisturbedRunSettles
  EveryInvocationReturns
CHECK_DEADLOCK FALSE
