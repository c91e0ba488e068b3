SPECIFICATION Spec
CONSTANTS
  Rows = {r1}
  Workers = {w1, w2}
  None = None
  MaxAttempts = 3
  MaxSends = 2
SYMMETRY MCSymmetry
INVARIANTS
  OneAgreement
CHECK_DEADLOCK FALSE
