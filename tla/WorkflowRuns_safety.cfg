SPECIFICATION FairSpec
CONSTANTS
  Workers = {w1, w2}
  Last = 4
  Sends = {2}
  Waits = {1}
  Locals = {4}
  Skippable = {2}
  None = None
  MaxFaults = 1
  MaxEdits = 1
INVARIANTS
  TypeOK
  GuardedOnce
  NothingBehindAHold
  CompletedIsDelivered
PROPERTIES
  EveryRunEnds
\* A run that has ended rests when nobody retries it.
CHECK_DEADLOCK FALSE
