----------------------------- MODULE PayloadFSM -----------------------------
(***************************************************************************)
(* The state machine of a payload request (payload_request_fsm.c), shared   *)
(* by reads and writes, and its table of DN requests (payload_request.c).   *)
(***************************************************************************)
EXTENDS Integers

PLReqStates == {"INIT", "WAIT_IO_DONE", "TO_Check", "CI_CALLER"}

(* PLReq_update_state: <<new state, action for the caller>>.                *)
PLReq_update_state(st, event) ==
  CASE st = "INIT" /\ event = "InitDone" -> <<"WAIT_IO_DONE", "RWData">>
    [] st \in {"WAIT_IO_DONE", "TO_Check"} /\ event = "CICaller" ->
         <<"CI_CALLER", "DO_CICaller">>
    [] st = "WAIT_IO_DONE" /\ event = "TOFireChk" -> <<"TO_Check", "DO_TOFireChk">>
    [] st = "TO_Check" /\ event = "TOFireChkDone" -> <<"WAIT_IO_DONE", "DO_WaitData">>
    [] OTHER -> <<st, "NoAction">>

(***************************************************************************)
(* The timeout handlers pass the action PLREQ_A_DO_CICaller where an event  *)
(* is expected; its value, 3, is the one of PLREQ_E_TOFireChkDone.          *)
(***************************************************************************)
TimeupEvent == "TOFireChkDone"

PLREQ_READ_TO_CNT == 5   \* initial rTO_chk_cnt
MAX_NUM_REPLICA   == 3
Buckets           == 0 .. MAX_NUM_REPLICA - 1
=============================================================================
