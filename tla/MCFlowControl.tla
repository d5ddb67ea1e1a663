---------------------------- MODULE MCFlowControl ----------------------------
(* An instance of FlowControl for TLC: one namenode client with room for one *)
(* request, an acquire request, a report and a request of high priority.    *)
EXTENDS FlowControl, TLC

CONSTANTS c1, a1, a2, b1

OneClient == (a1 :> c1) @@ (a2 :> c1) @@ (b1 :> c1)
Kinds     == (a1 :> "acquire") @@ (a2 :> "report") @@ (b1 :> "high")
(* No limit on the rate, a limit of 0 on the requests.                      *)
Limits    == {<<-1, 0, 1, 2>>}
=============================================================================
