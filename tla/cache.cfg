CONSTANTS
  v1 = v1
  v2 = v2
  t1 = t1
  t2 = t2
  d1 = d1
  d2 = d2
  VolOrder <- MCOrder
  Cap <- MCCap
  SmallCap = 2
  MaxItems = 3
  Word = 65536
  Pool = {p1, p2}
  Leaf = {l1, l2, l3, l4, l5, l6}
  Thread = {t1, t2}
  Metadata <- MCMetadata
  DN = {d1, d2}
  Cmds <- MCCmds
  Faults = {}
SPECIFICATION Spec
INVARIANT CacheIsSound
INVARIANT QueryIsLatest
