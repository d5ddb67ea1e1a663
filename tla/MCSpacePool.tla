---------------------------- MODULE MCSpacePool ----------------------------
EXTENDS SpacePool, TLC
CONSTANTS w1, w2

(* Two first writes, of two blocks and of one: a write can span two chunks.  *)
MCLb == w1 :> 0 @@ w2 :> 2
MCLen == w1 :> 2 @@ w2 :> 1
=============================================================================
