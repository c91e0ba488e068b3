SPECIFICATION Spec
CONSTANTS
  Deliveries = {d1, d2}
  Events <- MCEvents
  Contents = {"new", "old"}
  None = None
  Appts <- MCAppts
  Scenarios <- MCScenarios
INVARIANTS TypeOK AckedIsDone PointerIsCurrent ConfirmedOnce HandoffIsOwned
PROPERTIES CanceledIsNotRecovered TardySendsNothing
CHECK_DEADLOCK FALSE
