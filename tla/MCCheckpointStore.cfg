SPECIFICATION Spec
CONSTANTS
  o1 = o1
  o2 = o2
  o3 = o3
  Owners = {o1, o2, o3}
  Identities = {i1}
  Contents = {c1, c2}
  c2 = c2
  Duration = 2
  MaxTime = 3
  MaxVersion = 4
  MaxSequence = 2
  i1 = i1
  c1 = c1
SYMMETRY Symmetry
INVARIANTS
  TypeOK
  ExclusiveOwnership
  ClaimsAreUnique
  BeliefIsTrue
  HistoryIsTheRun
  JournalFollowsOwnership
PROPERTIES
  LeaseNeverShortened
  TerminalIsFinal
CHECK_DEADLOCK FALSE
