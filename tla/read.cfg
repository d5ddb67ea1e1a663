SPECIFICATION Spec
CONSTANTS
  NumLoc = 2
  MaxReq = 4
  MaxLost = 2
  TimerOn = TRUE
  Acks <- OneGood
CHECK_DEADLOCK FALSE
INVARIANTS ReadIsSafe
PROPERTY EveryReadEnds
