SPECIFICATION FairSpec
CONSTANTS
  c1 = c1 a1 = a1 a2 = a2 b1 = b1 NoReq = NoReq
  Cli = {c1}
  Req = {a1, a2, b1}
  CliOf <- OneClient
  Kind <- Kinds
  DefaultMax = 1
  DefaultRate = 2
  SlowRate = 2
  MinMax = 2
  FromNN <- Limits
  Num = 1
  Time = {1}
  MaxLost = 1
  MaxSwitch = 1
CHECK_DEADLOCK FALSE
INVARIANTS FlowInv
PROPERTIES SenderGoesOn
