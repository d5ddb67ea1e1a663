------------------------------ MODULE MCDriver ------------------------------
EXTENDS Driver
CONSTANTS t1, t2
(* One thread issues every command for the first volume, the other the ones *)
(* that race with them; the second volume is only attached, and leaves with *)
(* a reset.                                                                 *)
MCCmds == [t \in Thread |->
  IF t = t1 THEN Ops \X {1}
  ELSE ({"attach", "detach", "block"} \X {1}) \cup {<<"attach", 2>>}]
=============================================================================
