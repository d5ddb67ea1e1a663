------------------------------ MODULE IOReqFSM ------------------------------
(***************************************************************************)
(* The state machine of an io_request_t (discoC_IOReq_fsm.c): per state the *)
(* next state and the action an event asks of its caller.                   *)
(***************************************************************************)

IOREQ_S == {"INIT", "RWUserData", "OvlpWait", "ReportMD", "SelfHealing", "ReqDone"}

IOREQ_E == {"INIT_DONE", "OvlpOtherIO", "OvlpIODone", "RWUDataDone", "ReportMDDone",
            "HealDone", "IOSeg_IODone", "IOSeg_ReportMDDone"}

update_ioReqState_Init(ev) ==
  CASE ev = "INIT_DONE"   -> <<"RWUserData", "SubmitIO">>
    [] ev = "OvlpOtherIO" -> <<"OvlpWait", "AddOvlpWaitQ">>
    [] OTHER              -> <<"INIT", "NoAction">>

update_ioReqState_RWUData(ev) ==
  CASE ev = "RWUDataDone"  -> <<"ReportMD", "DO_ReportMD">>
    [] ev = "IOSeg_IODone" -> <<"RWUserData", "IOSegIODoneCIIOR">>
    [] OTHER               -> <<"RWUserData", "NoAction">>

update_ioReqState_OvlpWait(ev) ==
  IF ev = "OvlpIODone" THEN <<"RWUserData", "SubmitIO">> ELSE <<"OvlpWait", "NoAction">>

update_ioReqState_ReportMD(ev) ==
  CASE ev = "ReportMDDone"       -> <<"SelfHealing", "DO_Healing">>
    [] ev = "IOSeg_ReportMDDone" -> <<"ReportMD", "IOSegMDReportDoneCIIOR">>
    [] OTHER                     -> <<"ReportMD", "NoAction">>

update_ioReqState_SelfHeal(ev) ==
  IF ev = "HealDone" THEN <<"ReqDone", "FreeReq">> ELSE <<"SelfHealing", "NoAction">>

update_ioReqState_ReqDone(ev) == <<"ReqDone", "NoAction">>

IOReq_update_state(st, ev) ==
  CASE st = "INIT"        -> update_ioReqState_Init(ev)
    [] st = "RWUserData"  -> update_ioReqState_RWUData(ev)
    [] st = "OvlpWait"    -> update_ioReqState_OvlpWait(ev)
    [] st = "ReportMD"    -> update_ioReqState_ReportMD(ev)
    [] st = "SelfHealing" -> update_ioReqState_SelfHeal(ev)
    [] st = "ReqDone"     -> update_ioReqState_ReqDone(ev)
=============================================================================
