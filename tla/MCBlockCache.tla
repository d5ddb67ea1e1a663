---------------------------- MODULE MCBlockCache ----------------------------
EXTENDS BlockCache
CONSTANTS v1, v2, t1, t2, d1, d2

Phy(r, l, o) == [r |-> r, l |-> l, o |-> o]
Loc(d, phy) == [dn |-> d, phy |-> phy]
(* Two blocks in one run, in two runs, on other datanodes; a valid and an   *)
(* invalid item.                                                            *)
MCMetadata == {
  << [stat |-> "valid", hbids |-> <<1, 2>>,
      locs |-> <<Loc(d1, <<Phy(1, 2, 0)>>), Loc(d2, <<Phy(1, 1, 0), Phy(2, 1, 1)>>)>>] >>,
  << [stat |-> "valid", hbids |-> <<3>>, locs |-> <<Loc(d2, <<Phy(1, 1, 1)>>)>>],
     [stat |-> "invalid", hbids |-> <<0>>, locs |-> <<>>] >> }

MCCap == v1 :> 2 @@ v2 :> 2
MCOrder == <<v2, v1>>
MCCmds == [t \in Thread |->
  IF t = t1 THEN {"create", "release", "update", "query"} \X {v1}
  ELSE ({"query", "invalLB", "invalVol", "invalDN", "invalHB"} \X {v1})
       \cup ({"create", "release"} \X {v2})]
=============================================================================
