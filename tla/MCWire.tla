------------------------------- MODULE MCWire --------------------------------
(* An instance for TLC of the simulated servers and of the overwrite         *)
(* queries: a pool of two items under a server that is sent two requests and *)
(* three heartbeats, or two volumes that are attached four times while the   *)
(* connection is lost twice.  A behaviour is one of the two.                *)
EXTENDS Simulator, OvwQuery

VARIABLE part

Place(i, f) == [ip |-> IF i = 1 THEN <<1, 2, 3>> ELSE <<4>>, port |-> 90,
                rlos |-> <<compose_triple(1, 2, 0)>>, failed |-> f]
MD(lb, f1, f2, st) == [lbid_s |-> lb, hbids |-> <<lb + 5>>, locs |-> <<Place(1, f1), Place(2, f2)>>, stat |-> st]
Reports ==
  { <<MD(0, FALSE, FALSE, MData_VALID)>>, <<MD(0, FALSE, FALSE, MData_INVALID)>>,
    <<MD(0, TRUE, TRUE, MData_VALID), MD(1, FALSE, FALSE, MData_VALID)>>,
    <<MD(0, FALSE, FALSE, MData_VALID), MD(1, FALSE, TRUE, MData_VALID)>> }
Ops == WriteOps \cup ReadOps

WireInit == Init /\ QInit /\ part \in {"server", "query"} /\ (part = "query" => kind = "OVW")
WireNext == \/ part = "server" /\ Next /\ UNCHANGED <<part, qvars>>
            \/ part = "query" /\ QNext /\ UNCHANGED <<part, vars>>
WireSpec == WireInit /\ [][WireNext]_<<part, vars, qvars>>
=============================================================================
