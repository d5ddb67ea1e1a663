SPECIFICATION FairSpec
CONSTANTS
  Senders = {t1, t2}
  MaxSock = 2
  MaxBad = 1
  BreakWhileDone = FALSE
  NoMem = FALSE
INVARIANTS Retried SocketsAreSafe
CHECK_DEADLOCK FALSE
PROPERTIES Restored
