SPECIFICATION SysSpec
CONSTANTS
  Commands = {c1, c2}
  Workers = {w1}
  Refreshers = {r1, r2}
  None = None
  MaxAttempts = 1
  MaxRevs = 0
  MaxLog = 3
SYMMETRY MCSymmetry
INVARIANTS
  DecisionIsReal
  SubmissionStaysLogged
  QueuedIsCarried
PROPERTIES
  ApprovalIsFinal
