SPECIFICATION WireSpec
CONSTANTS
  MAX_DISCOC_MEM_POOL = 2
  Items = 2
  MaxReqs = 2
  MaxHB = 3
  DEF_NUM_REPLICA = 2
  DEF_DN_PORT = 80
  Metadata <- Reports
  DNOps <- Ops
  Vol = {v1, v2}
  MaxAttach = 4
  MaxLost = 2
  MaxSend = 0
CHECK_DEADLOCK FALSE
INVARIANTS ServerInv ReportSaysWhatFailed QueryInv
