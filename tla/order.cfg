SPECIFICATION FairSpec
CONSTANTS
  Req = {r1, r2}
  UserIO <- UserIOs
  VolReplica = 2
  RREnabled = TRUE
  MDAnswers = {"valid", "failed"}
  OvlpAllocFails = FALSE
INVARIANTS TypeOK OvlpInv NoConflictInFlight ReportsAreAwaited
PROPERTIES ImplementsSerial EveryIOEnds
CHECK_DEADLOCK FALSE
