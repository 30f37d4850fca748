SPECIFICATION Spec
CONSTANTS
  Sessions = {s1, s2}
  Prompts = {p1, p2, p3}
  Cancels = {c1, c2}
  None = None
SYMMETRY Symmetry
INVARIANTS
  SessionsHoldWhatRuns
  CancellationsAreAttributed
CHECK_DEADLOCK FALSE
