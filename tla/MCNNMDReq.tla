------------------------------ MODULE MCNNMDReq ------------------------------
(* Instances of NNMDReq for TLC.                                            *)
EXTENDS NNMDReq, TLC

CONSTANTS m, h, p   \* a miss, a cache hit and a report

AllKinds == (m :> "miss") @@ (h :> "hit") @@ (p :> "report")
AllIDs   == (m :> 0) @@ (h :> 1) @@ (p :> 2)

MissAndReport == (m :> "miss") @@ (p :> "report")
SmallIDs      == (m :> 0) @@ (p :> 2)
(* The ID of the miss is not an index of the array of buckets.              *)
LargeIDs      == (m :> 4) @@ (p :> 2)
=============================================================================
