---------------------------- MODULE ReadPayload ----------------------------
(***************************************************************************)
(* One read payload request: the blocks of a metadata item are read from    *)
(* one of its locations (payload_manager), and from the next one when a     *)
(* datanode fails, is not reachable or does not answer in time.  The        *)
(* datanodes are asked through the DN client (DNClient).                    *)
(***************************************************************************)
EXTENDS DNClient, PayloadFSM

CONSTANTS
  Acks,            \* location -> the acks its datanode may give
  TimerOn          \* TRUE: the request may time out

ASSUME ReadAssumption == NumLoc <= MAX_NUM_REPLICA /\ TimerOn \in BOOLEAN

VARIABLES
  trueMD,          \* MData_chk_TrueMD: the metadata was asked for with true metadata
  udata_status,    \* of each location of the metadata item
  arr_DNUDReq,     \* bucket -> DNUDReqID, 0: INVAL_REQID
  num_DNUDReq,
  last,            \* <<last_readReplica_idx, last_readDNbk_idx>>
  plReq_stat, timer,
  cb,              \* callbacks past the update of the location's status
  fin, finCb,      \* how far the request is being finished, by which callback
  told,            \* what the finishing callback will tell the caller
  copied,          \* cpData_CallerReq was called with a payload
  usr              \* what the caller was told

md == <<trueMD, udata_status>>
bkt == <<arr_DNUDReq, num_DNUDReq, last>>
pl == <<plReq_stat, timer, fin, finCb, told, copied, usr>>
vars == <<dnVars, md, bkt, cb, pl>>

(* A callback: the request whose result it handles (0: the timer's call).   *)
Cb(by, l, bk, r) == [by |-> by, l |-> l, bk |-> bk, r |-> r]
NoCb == Cb(-1, 0, 0, "READ_OK")

-----------------------------------------------------------------------------
(* get_next_DN_index: the first location from start on, cyclically, that    *)
(* has no result yet; -1: none.                                             *)
get_next_DN_index(start) ==
  LET at(k) == (start + k) % NumLoc
      free  == {k \in Idx : udata_status[at(k)] = "INIT"}
  IN  IF free = {} THEN -1 ELSE at(CHOOSE k \in free : \A j \in free : k <= j)

(* PLReq_allocBK_DNUDReq: the number of requests is taken for the index of  *)
(* a free bucket.                                                           *)
AllocBK == IF num_DNUDReq >= MAX_NUM_REPLICA THEN -1 ELSE num_DNUDReq

CanSubmit(start) == get_next_DN_index(start) # -1 /\ AllocBK \in Idx

(* PLMgr_submit_DNUDReadReq, _gen_submit_DNReadReq: the bucket stays        *)
(* counted when there is nothing to submit.                                 *)
SubmitNext(start) ==
  LET l == get_next_DN_index(start)
  IN  /\ num_DNUDReq' = num_DNUDReq + 1
      /\ IF CanSubmit(start)
         THEN /\ submit_DNUData_Read_Request(l, AllocBK)
              /\ arr_DNUDReq' = [arr_DNUDReq EXCEPT ![AllocBK] = DNUDReqID_counter + 1]
              /\ last' = <<l, AllocBK>>
         ELSE UNCHANGED <<req, workQ, rlist, hkTask, line, arr_DNUDReq, last>>

-----------------------------------------------------------------------------
(* _PLMgr_RoundRobin_selectDN: <<index, readDN_idx, readDN_numLB>>.         *)
RoundRobin(idx, numLB, hbids, max) ==
  LET next == numLB + hbids >= max
      i    == IF next THEN idx + 1 ELSE idx
  IN  <<i % NumLoc, i, IF next THEN 0 ELSE numLB + hbids>>

(* _PLMgr_checkDN_health: the next location whose datanode is free to use,  *)
(* the selected one when there is none.                                     *)
CheckHealth(sel, avail) ==
  IF avail = {} THEN sel
  ELSE (sel + (CHOOSE k \in Idx : /\ (sel + k) % NumLoc \in avail
                                  /\ \A j \in 0 .. k - 1 : (sel + j) % NumLoc \notin avail))
       % NumLoc

(* Init, and the start of _submit_read_PLReq: the request is in the pool,   *)
(* the timer is on and a location was selected (PLMgr_Read_selectDN with    *)
(* some past of the volume's selector and some health of the datanodes).    *)
Init ==
  /\ DNInit
  /\ trueMD \in BOOLEAN /\ udata_status = [l \in Idx |-> "INIT"]
  /\ arr_DNUDReq = [b \in Buckets |-> 0] /\ num_DNUDReq = 0
  /\ \E i \in 0 .. 1, b \in 0 .. 1, avail \in SUBSET Idx :
       last = <<CheckHealth(RoundRobin(i, b, 1, 2)[1], avail), 0>>
  /\ plReq_stat = "WAIT_IO_DONE"
  /\ timer = IF TimerOn THEN "on" ELSE "off"
  /\ cb = {} /\ fin = "no" /\ finCb = NoCb /\ told = "none" /\ copied = FALSE /\ usr = "none"

Submit ==
  /\ DNUDReqID_counter = 0 /\ num_DNUDReq = 0
  /\ SubmitNext(last[1])
  /\ UNCHANGED <<sending, found, md, cb, pl>>

-----------------------------------------------------------------------------
(* PLReq_readDN_endfn up to the decision: the status of the location and,   *)
(* when the datanode answered, the bucket (PLReq_rm_DNUDReq).               *)
Start(c) ==
  /\ cb' = cb \cup {c}
  /\ udata_status' = [udata_status EXCEPT ![c.l] = c.r]
  /\ IF c.r # "READ_NA" \/ (~trueMD /\ NumLoc = 1)
     THEN /\ arr_DNUDReq' = [arr_DNUDReq EXCEPT ![c.bk] = 0]
          /\ num_DNUDReq' = num_DNUDReq - 1
     ELSE UNCHANGED <<arr_DNUDReq, num_DNUDReq>>
  /\ UNCHANGED <<trueMD, last>>

(* The ack workers call it with the request they found.  What a callback    *)
(* does that comes after the payload request was freed is left open (see    *)
(* NoLateCallback).                                                         *)
CbStart(r) ==
  /\ r \in found /\ fin # "done"
  /\ found' = found \ {r}
  /\ Start(Cb(r[1], dnLoc_idx[r[1]], caller_bkidx[r[1]], r[2]))
  /\ UNCHANGED <<req, queue, line, pl>>

(* MData_check_ciUserStatus, _DNReadAck_check_wait: <<keep waiting, result>>. *)
ciUserStatus ==
  LET n(s) == Cardinality({l \in Idx : udata_status[l] = s})
  IN  IF n("READ_OK") > 0 THEN <<FALSE, TRUE>>
      ELSE IF n("MD_ERR") + n("DISK_FAILURE") = NumLoc THEN <<FALSE, n("MD_ERR") > 0>>
      ELSE <<TRUE, FALSE>>

(* The callback returns without finishing the request; the timer handler    *)
(* goes back to waiting.                                                    *)
CbReturn(c) ==
  /\ cb' = cb \ {c}
  /\ IF c.by = 0
     THEN timer' = "off" /\ plReq_stat' = PLReq_update_state(plReq_stat, "TOFireChkDone")[1]
     ELSE UNCHANGED <<timer, plReq_stat>>
  /\ UNCHANGED <<fin, finCb, told, copied, usr>>

(* The callback asks for the right to finish (PLREQ_E_CICaller).            *)
Commit(c, result) ==
  LET tr == PLReq_update_state(plReq_stat, "CICaller")
  IN  IF tr[2] = "DO_CICaller"
      THEN /\ plReq_stat' = tr[1] /\ fin' = "timer" /\ finCb' = c /\ told' = result
           /\ UNCHANGED <<cb, timer, copied, usr>>
      ELSE CbReturn(c)

NoSubmit == UNCHANGED <<req, workQ, rlist, hkTask, line, bkt>>

(* _PLReq_read_nextDN.  When nothing could be submitted it returns without  *)
(* looking whether all locations have failed.                               *)
TryNextDN(c) ==
  /\ SubmitNext(c.l)
  /\ IF ~CanSubmit(c.l) \/ ciUserStatus[1] THEN CbReturn(c)
     ELSE Commit(c, IF ciUserStatus[2] THEN "ok" ELSE "fail")

(* _PLReq_readDN_NonTrueMD, _PLReq_readDN_TrueMD_REP.  A location that is   *)
(* not reachable is still waited for when the next one is asked.  The last  *)
(* case is _PLReq_1st_hbidErr.                                              *)
Handle(c) ==
  CASE c.r = "READ_OK" -> NoSubmit /\ Commit(c, "ok")
    [] c.r = "READ_NA" /\ (trueMD \/ NumLoc > 1) -> SubmitNext(c.l) /\ CbReturn(c)
    [] c.r = "DISK_FAILURE" /\ (trueMD \/ NumLoc > 1) -> TryNextDN(c)
    [] c.r = "MD_ERR" /\ trueMD -> TryNextDN(c)
    [] OTHER -> NoSubmit /\ Commit(c, "mderr")

(* The sender's thread is in the callback c.                                *)
OfSender(c) == c.by = sending /\ c.r = "READ_NA"

CbDecide(c) ==
  /\ c \in cb /\ finCb # c
  /\ Handle(c)
  /\ sending' = IF OfSender(c) /\ fin' = fin THEN 0 ELSE sending
  /\ UNCHANGED <<found, md>>

(* An answered request is freed by handle_DNAck_Read after the callback,    *)
(* when nobody references it any more: from then on nobody looks at it.     *)
Used(i) == Referenced(i) \/ \E c \in cb : c.by = i

-----------------------------------------------------------------------------
Named(B) == {arr_DNUDReq[b] : b \in B} \ {0}

CancelBuckets(B) ==
  /\ CancelReqs(Named(B))
  /\ num_DNUDReq' = num_DNUDReq - Cardinality({b \in B : arr_DNUDReq[b] # 0})
  /\ arr_DNUDReq' = [b \in Buckets |-> IF b \in B THEN 0 ELSE arr_DNUDReq[b]]

KeepBuckets == UNCHANGED <<stat, reqPool, workQ, num_DNUDReq, arr_DNUDReq>>
DNRest == <<DNUDReqID_counter, dnLoc_idx, caller_bkidx, rlist, hkTask, line, found>>

(* PLReq_cancel_timer waits for a running handler; then the payload is      *)
(* copied and PLReq_cancel_DNUDReq spares the callback's bucket and, when   *)
(* one DN request is left, does nothing.                                    *)
FinishCancel ==
  /\ fin = "timer" /\ timer # "running"
  /\ timer' = "off" /\ fin' = "end"
  /\ copied' = (copied \/ finCb.r = "READ_OK")
  /\ IF num_DNUDReq = 1 THEN KeepBuckets ELSE CancelBuckets(Buckets \ {finCb.bk})
  /\ UNCHANGED <<DNRest, sending, md, last, cb, plReq_stat, finCb, told, usr>>

(* The cancelled requests are freed, the caller is told: _PLReq_read_ciCaller, *)
(* reportMDErr_CallerReq.                                                   *)
FinishEnd ==
  /\ fin = "end" /\ \A i \in Cancelling : ~Used(i)
  /\ fin' = "ended" /\ usr' = told /\ stat' = FreeCancelled
  /\ UNCHANGED <<DNRest, sending, reqPool, workQ, md, bkt, cb, plReq_stat, timer, finCb, told, copied>>

(* PLMgr_free_PLReq: _PLReq_free_allDNReq, ...                              *)
FinishFree ==
  /\ fin = "ended" /\ fin' = "wait"
  /\ IF num_DNUDReq = 0 THEN KeepBuckets ELSE CancelBuckets(Buckets)
  /\ UNCHANGED <<DNRest, sending, md, last, cb, plReq_stat, timer, finCb, told, copied, usr>>

(* ... and PLReq_free_Req, when nobody else references the request.         *)
FinishDone ==
  /\ fin = "wait" /\ cb = {finCb} /\ \A i \in Cancelling : ~Used(i)
  /\ fin' = "done" /\ cb' = {} /\ stat' = FreeCancelled
  /\ sending' = IF OfSender(finCb) THEN 0 ELSE sending
  /\ UNCHANGED <<DNRest, reqPool, workQ, md, bkt, plReq_stat, timer, finCb, told, copied, usr>>

-----------------------------------------------------------------------------
(* PLReq_TO_handler_gut: it fires once; rTO_chk_cnt is then 4, so           *)
(* _readPLReq_TO_handle tries another location (_rPLReq_TO_try_replica).    *)
(* The timer is set just before the first submission, in the same thread,   *)
(* and takes seconds: it fires after that.                                  *)
TOFire ==
  LET tr == PLReq_update_state(plReq_stat, "TOFireChk")
  IN  /\ timer = "on" /\ DNUDReqID_counter > 0
      /\ plReq_stat' = tr[1]
      /\ IF tr[2] = "DO_TOFireChk" /\ PLREQ_READ_TO_CNT - 1 > 0
         THEN timer' = "running" /\ Start(Cb(0, last[1], last[2], "READ_NA"))
         ELSE timer' = "off" /\ UNCHANGED <<cb, md, bkt>>
      /\ UNCHANGED <<dnVars, fin, finCb, told, copied, usr>>

-----------------------------------------------------------------------------
SenderBusy == \E c \in cb : OfSender(c)
Client  == ClientStep(SenderBusy) /\ UNCHANGED <<md, bkt, cb, pl>>
Answer  == /\ \E i \in wire : \E a \in Acks[dnLoc_idx[i]] : Receive(i, a)
           /\ UNCHANGED <<md, bkt, cb, pl>>
Callback == \/ \E r \in found : CbStart(r)
            \/ \E c \in cb : CbDecide(c)
Finish  == FinishCancel \/ FinishEnd \/ FinishFree \/ FinishDone

Next == Submit \/ Client \/ Answer \/ Callback \/ Finish \/ TOFire

(***************************************************************************)
(* Fairness.  The threads of the client run while they have work, a lost    *)
(* connection comes back (the connection manager tries for ever) and a      *)
(* datanode answers what it has received.                                   *)
(***************************************************************************)
Rest == UNCHANGED <<md, bkt, cb, pl>>
Fairness ==
  /\ WF_vars(Submit) /\ WF_vars(Answer) /\ WF_vars(Finish) /\ WF_vars(TOFire)
  /\ WF_vars(Rest /\ (Peek \/ SendDone \/ TxOk(SenderBusy) \/ TxLost(SenderBusy)))
  /\ \A l \in Idx : WF_vars(Rest /\ ConnBack(l)) /\ WF_vars(Rest /\ GetRetryReq(l))
  /\ WF_vars(Rest /\ \E i \in IDs : Retry(i))
  /\ WF_vars(Rest /\ \E r \in ackQ : ProcessAck(r[1], r[2]))
  /\ WF_vars(\E r \in found : CbStart(r)) /\ WF_vars(\E c \in cb : CbDecide(c))

Spec == Init /\ [][Next]_vars /\ Fairness

-----------------------------------------------------------------------------
(* Every variable keeps the shape of the C structure it stands for; the     *)
(* request names DN requests that exist.                                    *)
TypeOK ==
  /\ DNTypeOK
  /\ udata_status \in [Idx -> {"INIT", "READ_OK", "READ_NA", "MD_ERR", "DISK_FAILURE"}]
  /\ arr_DNUDReq \in [Buckets -> 0 .. DNUDReqID_counter] /\ num_DNUDReq \in Int
  /\ last \in Idx \X Buckets
  /\ plReq_stat \in PLReqStates /\ timer \in {"on", "running", "off"}
  /\ fin \in {"no", "timer", "end", "ended", "wait", "done"}
  /\ usr \in {"none", "ok", "fail", "mderr"}

(* A DN request that was freed is out of reach: it is in no pool, queue or  *)
(* retry list, no thread sends it and no callback handles its answer; and   *)
(* an answered one is not sent again (DNUDReq_cancel_Req, DNUDReq_free_Req, *)
(* find_DNUDReq_ReqPool).                                                   *)
FreedIsUnused ==
  \A i \in IDs :
    /\ stat[i] = "free" => ~Used(i) /\ i \notin reqPool
    /\ stat[i] \in {"free", "PROCESS_RESP"} => i \notin rlist /\ ~Contains(workQ, i)

(* The requests of a read are safe, whenever it is finished, cancelled,     *)
(* timed out or retried.                                                    *)
ReadIsSafe == TypeOK /\ FreedIsUnused

(* Every read of a block that some datanode can read ends, whatever         *)
(* connections are lost, whenever the timer fires, and whichever location   *)
(* was selected first.                                                      *)
EveryReadEnds == <>(fin = "done")

-----------------------------------------------------------------------------
(* What the code does not keep (README, Known deviations).                  *)

(* The caller that is told that a read has succeeded has got the data, or   *)
(* every datanode has said that it has no such block: _PLReq_read_ciCaller. *)
SuccessHasData ==
  usr = "ok" => copied \/ \A l \in Idx : udata_status[l] \in {"MD_ERR", "DISK_FAILURE"}

(* The timer handler never finishes the request itself: it would wait for   *)
(* its own end in PLReq_cancel_timer (_rPLReq_TO_try_replica).              *)
TimerWaitsForNoOne == fin = "timer" => finCb.by # 0

(* No callback comes after the payload request was freed (PLReq_free_Req).  *)
NoLateCallback == fin = "done" => found = {}

(* A finished read leaves no DN request in the pool (_PLReq_free_allDNReq). *)
NothingLeft == fin = "done" => reqPool = {}
=============================================================================
