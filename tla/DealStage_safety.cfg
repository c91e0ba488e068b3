SPECIFICATION Spec
CONSTANTS
  Pipeline = "sales"
  Stages = {"Review In Progress", "Proposal Sent"}
  FirstStage = "Review In Progress"
  Effects = {"underwriting_override_ghl_task", "lifecycle_projection"}
  Workers = {w1, w2}
  Commands = {k1}
  None = None
  MaxAttempts = 2
  MaxTries = 3
  MaxDecisions = 1
  MaxMoves = 1
SYMMETRY MCSymmetry
INVARIANTS
  TypeOK
  EffectAtMostOnce
  SuccessIsReal
PROPERTIES
  SettledIsFinal
CHECK_DEADLOCK FALSE
