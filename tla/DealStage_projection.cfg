SPECIFICATION FairSpec
CONSTANTS
  Pipeline = "onboarding"
  Stages = {"Approved", "Go-Live Scheduled", "Live (First Batch)"}
  FirstStage = "Approved"
  Effects = {"ghl_projection"}
  Workers = {w1}
  Commands = {k1}
  None = None
  MaxAttempts = 2
  MaxTries = 3
  MaxDecisions = 0
  MaxMoves = 3
INVARIANTS
  MirrorIsTracked
PROPERTIES
  EveryIntentEnds
