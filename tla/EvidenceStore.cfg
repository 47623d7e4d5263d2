CONSTANTS
  None = None
  Check = {css, tests}
  Closed = {css}
  CallId = {c1, c2}
  MaxRecords = 2
  MaxTurns = 2
  MaxVersion = 1
  MaxLives = 2
  MaxAllocated = 3
SPECIFICATION Spec
SYMMETRY Symmetry
INVARIANTS
  ReuseIsFresh
  UnresolvedKept
  VerifiedIsCurrent
PROPERTIES
  UnresolvedNotRerun
CHECK_DEADLOCK FALSE
