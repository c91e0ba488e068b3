SPECIFICATION Spec
CONSTANTS
  Procs = {p1, p2}
  Keys = {k1}
  None = None
  MaxEpoch = 4
SYMMETRY MCSymmetry
INVARIANTS
  TypeOK
  
PROPERTIES
  EditKeepsState
  ReleaseNeedsResumption
