CONSTANTS
  Obj = {o1, o2}
  VolID = {1, 2}
  Thread = {t1, t2}
  MaxAttach = 1
  MaxRq = 1
  MaxOpen = 1
  AttachSteps = {"nnclient", "disk"}
  Races = {}
  Cmds <- MCCmds
SPECIFICATION FairSpec
INVARIANT TableIsCounted
INVARIANT VolumeIsSafe
PROPERTY EveryIoctlEnds
CHECK_DEADLOCK FALSE
CONSTANTS
  t1 = t1
  t2 = t2
