CONSTANTS
  v1 = v1
  v2 = v2
  ra = ra
  rb = rb
  rc = rc
  rd = rd
  re = re
  rg = rg
  Vol = {v1, v2}
  Rq = {ra, rb, rc, rd, re, rg}
  rq <- MCRq
  Arrivals <- MCArrivals
  Fn = {f1}
  Wker = {w1, w2}
  MaxSects = 3
  MaxMerge = 3
  MergeEnable = TRUE
  RwPerm <- MCPerm
  IOResults = {TRUE, FALSE}
  AllocFails = TRUE
SPECIFICATION FairSpec
INVARIANT OneHolder
INVARIANT AnswersAreWhole
PROPERTY FlushIsBarrier
PROPERTY EveryRqAnswered
CHECK_DEADLOCK FALSE
