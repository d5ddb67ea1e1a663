SPECIFICATION FairSpec
CONSTANTS
  NoLoc = NoLoc
  Loc = {d1, d2}
  MinDiskAck = 2
  HighResp = FALSE
  GiveUp = FALSE
  Answers = {"MEM_OK", "OK", "ERR"}
  MaxSend = 2
CHECK_DEADLOCK FALSE
INVARIANTS SuccessIsStored EndedIsAnswered EndIsClean
PROPERTIES EveryWriteEnds
