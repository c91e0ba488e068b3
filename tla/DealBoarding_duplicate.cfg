SPECIFICATION Spec
CONSTANTS
  Commands = {c1, c2}
  Workers = {w1, w2}
  None = None
  MaxAttempts = 2
  MaxRevs = 1
SYMMETRY MCSymmetry
INVARIANTS
  OneApplicationPerDeal
