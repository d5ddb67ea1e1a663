----------------------------- MODULE NNMDReqFSM -----------------------------
(***************************************************************************)
(* The state machines of a metadata request (discoC_NNMDReq_fsm.c): one for *)
(* requests that acquire metadata and one for reports, which has no timeout *)
(* event and is otherwise the same.                                         *)
(***************************************************************************)
NNMDReqStates == {"INIT", "WAIT_SEND", "SENDING", "WAIT_RESP", "PROCESS_RESP",
                  "RETRY_REQ", "TIMEOUT_FIRE"}

NoAction(s) == [state |-> s, action |-> "NoAction"]
Go(s, a)    == [state |-> s, action |-> a]

NNMDciReq_update_state(s, e) ==
  CASE s = "INIT"      /\ e = "InitDone"     -> Go("WAIT_SEND", "DO_ADD_WORKQ")
    [] s = "WAIT_SEND" /\ e = "PeekWorkQ"    -> Go("SENDING", "DO_SEND")
    [] s = "SENDING"   /\ e = "SendDone"     -> Go("WAIT_RESP", "DO_WAIT_RESP")
    [] s = "WAIT_RESP" /\ e = "FindReqOK"    -> Go("PROCESS_RESP", "DO_PROCESS_RESP")
    [] s = "WAIT_RESP" /\ e = "ConnBack"     -> Go("RETRY_REQ", "DO_RETRY_REQ")
    [] s = "RETRY_REQ" /\ e = "RetryChkDone" -> Go("WAIT_SEND", "DO_ADD_WORKQ")
    [] OTHER                                 -> NoAction(s)

NNMDgetReq_update_state(s, e) ==
  IF e = "TimeoutFire"
  THEN IF s \in {"WAIT_SEND", "SENDING", "WAIT_RESP"}
       THEN Go("TIMEOUT_FIRE", "DO_TO_PROCESS") ELSE NoAction(s)
  ELSE NNMDciReq_update_state(s, e)
=============================================================================
