SPECIFICATION Spec
CONSTANTS
  i1 = i1
  p1 = p1
  p2 = p2
  p3 = p3
  r1 = r1
  r2 = r2
  Invocations = {p1, p2, p3}
  InterruptIDs = {i1}
  Refs = {r1, r2}
  Work = 1
  PageSize = 1
  Origin = "natural"
  HookEvents = FALSE
  CancelCauses = {}
  MaxSequence = 0
  MaxCrashes = 0
  MaxFaults = 0
  MaxSinkFailures = 0
  MaxCancels = 0
SYMMETRY Symmetry
INVARIANTS
  BatchesAreWhole
  HeadIsResumable
  SummaryAgrees
PROPERTIES
  StaleInvocationsAreFenced
  ResolvedOnce
  ImplementsLifecycle
CHECK_DEADLOCK FALSE
