SPECIFICATION Spec
CONSTANTS
  Rows = {r1}
  Workers = {w1, w2}
  None = None
  MaxAttempts = 3
  MaxSends = 2
SYMMETRY MCSymmetry
INVARIANTS
  TypeOK
  ClaimsAreExclusive
  WaitsAreFree
  OneAgreementUntilSigned
PROPERTIES
  SettledIsFinal
\* A row that is settled, or out of attempts, and no request: it rests.
CHECK_DEADLOCK FALSE
