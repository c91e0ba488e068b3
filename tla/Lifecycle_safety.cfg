SPECIFICATION Spec
CONSTANTS
  Callers = {c1, c2}
  Targets = {"ENGAGED", "STATEMENT_RECEIVED", "PROPOSAL_SENT", "CLOSED_LOST"}
  MaxHistory = 3
SYMMETRY MCSymmetry
PROPERTIES
  BackwardOnlyWhenOvertaken
\* All rows that the bound allows are written, and no call is left.
CHECK_DEADLOCK FALSE
