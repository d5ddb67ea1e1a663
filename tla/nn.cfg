SPECIFICATION FairSpec
CONSTANTS
  m = m h = h p = p NoReq = NoReq
  Req = {m, h, p}
  Kind <- AllKinds
  ReqID <- AllIDs
  NBuckets = 3
  FlowControl = FALSE
  RunOut = FALSE
  MaxLost = 1
CHECK_DEADLOCK FALSE
INVARIANTS RequestIsSafe Attended
PROPERTIES RequestsEnd
