---------------------------- MODULE MCReadPayload ----------------------------
(* ReadPayload for TLC: what the datanodes may answer.                       *)
EXTENDS ReadPayload

BadAcks == {"HBIDERR", "ERR_IOException"}
(* Location 1 has the block, the others answer anything.                     *)
OneGood == [l \in Idx |-> IF l = 1 THEN {"READ_PAYLOAD"} ELSE {"READ_PAYLOAD"} \cup BadAcks]
(* Every disk fails.                                                         *)
AllFail == [l \in Idx |-> {"ERR_IOException"}]
==============================================================================
