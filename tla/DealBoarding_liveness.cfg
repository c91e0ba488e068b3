SPECIFICATION FairSpec
CONSTANTS
  Commands = {c1}
  Workers = {w1, w2}
  None = None
  MaxAttempts = 2
  MaxRevs = 1
PROPERTIES
  EveryCommandEnds
