CONSTANTS
  w1 = w1
  w2 = w2
  Writer = {w1, w2}
  Lb <- MCLb
  Len_ <- MCLen
  Block = {0, 1, 2}
  Extra = 1
  FlushCriteria = 1
  Ioctl = {"alloc", "return", "detach"}
  QuietDetach = TRUE
SPECIFICATION Spec
INVARIANT SpaceUsedOnce
 
INVARIANT SizesAreTrue
INVARIANT DetachLosesNothing
INVARIANT ParkedIsAwaited
CHECK_DEADLOCK FALSE
