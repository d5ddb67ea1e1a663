---------------------------- MODULE WritePayload ----------------------------
(***************************************************************************)
(* One write payload request: the data of a metadata item is sent to the    *)
(* datanodes of all its locations (payload_manager, discoDN_client), their  *)
(* acks are counted in the item (metadata_manager) and decide when the user *)
(* is answered and when the request ends.                                   *)
(*                                                                          *)
(* Threads: the submitter, the DN workers that transmit, the ack workers,   *)
(* the housekeeping thread that retries after a reconnect and the timer.    *)
(***************************************************************************)
EXTENDS WriteCriteria, PayloadFSM, FiniteSets

CONSTANTS
  Loc,            \* the locations (datanodes) of the metadata item
  NoLoc,          \* an empty bucket of arr_DNUDReq
  MinDiskAck,     \* dms_client_config->CommitUser_min_DiskAck, 0: mem acks do
  HighResp,       \* dms_client_config->high_resp_write_io
  GiveUp,         \* TRUE: a connection may stay lost longer than
                  \* time_wait_IOdone_conn_lost
  Answers,        \* the answers of a datanode: "MEM_OK", "OK", "ERR", "LUN"
  MaxSend         \* bound: how often a DN request is sent

ASSUME LocAssumption == /\ IsFiniteSet(Loc) /\ Loc # {} /\ NoLoc \notin Loc
                        /\ Cardinality(Loc) <= MAX_NUM_REPLICA
ASSUME AckAssumption == MinDiskAck \in Nat /\ MaxSend \in Nat \ {0}
ASSUME ModeAssumption == /\ HighResp \in BOOLEAN /\ GiveUp \in BOOLEAN
                         /\ Answers \subseteq {"MEM_OK", "OK", "ERR", "LUN"}

VARIABLES
  arr_DNUDReq,    \* bucket -> location whose DN request it names
  num_DNUDReq,
  bk,             \* caller_bkidx of each location's DN request
  dnReq,          \* FSM state of each location's DN request, "None" before
                  \* its submission, "Free" after it
  workQ,          \* DN requests in the queue of the DN workers
  tx,             \* number of DN workers busy with a DN request
  nsend,          \* sends begun, including the retries asked for
  memLeft,        \* sends that the datanode has not mem-acked
  reached,        \* locations whose datanode has received the request
  retrying,       \* DN requests between RetryChkDone and DNCWker_add_Req_workQ
  udata_status, acks, mdata_fea,            \* the metadata item
  found,          \* <<l, result>>: callback about to start
  cb,             \* <<l, result>>: callback running, ack not yet counted
  plReq_stat, timer,
  fin, finCb,     \* how far the request is being finished, and by which
                  \* callback <<l, result>>
  usr,            \* the answer given to the user
  answer          \* history: the final answer of each location's datanode

dn   == <<arr_DNUDReq, num_DNUDReq, bk, dnReq, workQ>>
net  == <<tx, nsend, memLeft, reached, retrying, answer>>
md   == <<udata_status, acks, mdata_fea, usr>>
pl   == <<plReq_stat, timer, fin, finCb>>
vars == <<dn, net, md, found, cb, pl>>

N == Cardinality(Loc)
Results == {"MEM_OK", "OK", "ERR", "FAIL"}
Final   == {"OK", "ERR"}          \* answers that end a DN request
None    == <<NoLoc, "OK">>        \* finCb when nobody is finishing

-----------------------------------------------------------------------------
Init ==
  /\ arr_DNUDReq = [b \in Buckets |-> NoLoc] /\ num_DNUDReq = 0
  /\ bk = [l \in Loc |-> 0] /\ dnReq = [l \in Loc |-> "None"] /\ workQ = {}
  /\ tx = [l \in Loc |-> 0] /\ nsend = [l \in Loc |-> 1]
  /\ memLeft = [l \in Loc |-> 0] /\ reached = {} /\ retrying = {}
  /\ answer = [l \in Loc |-> "none"]
  /\ udata_status = [l \in Loc |-> "INIT"] /\ acks = NoAcks /\ mdata_fea = {}
  /\ usr = "none" /\ found = {} /\ cb = {}
  /\ plReq_stat = "WAIT_IO_DONE" /\ timer = "on" /\ fin = "no" /\ finCb = None

(* One turn of _gen_submit_DNWriteReq: PLReq_allocBK_DNUDReq takes the      *)
(* number of DN requests as the index of a free bucket.                     *)
Submit(l) ==
  /\ dnReq[l] = "None"
  /\ bk' = [bk EXCEPT ![l] = num_DNUDReq]
  /\ arr_DNUDReq' = [arr_DNUDReq EXCEPT ![num_DNUDReq] = l]
  /\ num_DNUDReq' = num_DNUDReq + 1
  /\ dnReq' = [dnReq EXCEPT ![l] = "WAIT_SEND"]
  /\ workQ' = workQ \cup {l}
  /\ UNCHANGED <<net, md, found, cb, pl>>

(* _DNCWker_peek_Req_workQ and the SendDone of DNCWker_send_DNUDReq, which  *)
(* comes before the transmission.                                           *)
Peek(l) ==
  /\ l \in workQ
  /\ workQ' = workQ \ {l}
  /\ IF dnReq[l] = "WAIT_SEND"
     THEN /\ dnReq' = [dnReq EXCEPT ![l] = "WAIT_RESP"]
          /\ tx' = [tx EXCEPT ![l] = @ + 1]
     ELSE UNCHANGED <<dnReq, tx>>
  /\ UNCHANGED <<arr_DNUDReq, num_DNUDReq, bk, nsend, memLeft, reached, retrying,
                 answer, md, found, cb, pl>>

(* DN workers that are in the callback of a failed send: at most one per    *)
(* DN request, a bound.                                                     *)
Failing(l) == IF \/ <<l, "FAIL">> \in found \cup cb
                 \/ fin # "done" /\ finCb = <<l, "FAIL">>
              THEN 1 ELSE 0

(* DNCWker_send_writeReq when everything is transmitted.                    *)
TxOk(l) ==
  /\ tx[l] > Failing(l)
  /\ tx' = [tx EXCEPT ![l] = @ - 1]
  /\ memLeft' = [memLeft EXCEPT ![l] = @ + 1]
  /\ reached' = reached \cup {l}
  /\ UNCHANGED <<dn, nsend, retrying, answer, md, found, cb, pl>>

(* _send_DNWReq_fail: the connection was lost a short or a long time ago    *)
(* (then nothing sent before it was lost is answered any more).             *)
TxLost(l) ==
  /\ tx[l] > Failing(l)
  /\ \/ /\ tx' = [tx EXCEPT ![l] = @ - 1]
        /\ UNCHANGED <<found, reached, memLeft>>
     \/ /\ GiveUp /\ Failing(l) = 0
        /\ found' = found \cup {<<l, "FAIL">>}
        /\ reached' = reached \ {l} /\ memLeft' = [memLeft EXCEPT ![l] = 0]
        /\ UNCHANGED tx
  /\ UNCHANGED <<dn, nsend, retrying, answer, md, cb, pl>>

(* The connection is back: DNUDReq_check_retryable.                         *)
ConnBack(l) ==
  /\ dnReq[l] = "WAIT_RESP" /\ nsend[l] < MaxSend
  /\ dnReq' = [dnReq EXCEPT ![l] = "RETRY"]
  /\ nsend' = [nsend EXCEPT ![l] = @ + 1]
  /\ UNCHANGED <<arr_DNUDReq, num_DNUDReq, bk, workQ, tx, memLeft, reached,
                 retrying, answer, md, found, cb, pl>>

(* DNUDReq_retry_Req: first the state, ...                                  *)
RetryChkDone(l) ==
  /\ dnReq[l] = "RETRY"
  /\ dnReq' = [dnReq EXCEPT ![l] = "WAIT_SEND"]
  /\ retrying' = retrying \cup {l}
  /\ UNCHANGED <<arr_DNUDReq, num_DNUDReq, bk, workQ, tx, nsend, memLeft, reached,
                 answer, md, found, cb, pl>>

(* ... then MData_wRetry_reset_DNLoc and DNCWker_add_Req_workQ.             *)
RetryReset(l) ==
  /\ l \in retrying
  /\ retrying' = retrying \ {l}
  /\ acks' = Uncount(acks, udata_status[l])
  /\ udata_status' = [udata_status EXCEPT ![l] =
                        IF @ \in {"MEM_OK", "FAIL"} THEN "INIT" ELSE @]
  /\ workQ' = workQ \cup {l}
  /\ UNCHANGED <<arr_DNUDReq, num_DNUDReq, bk, dnReq, tx, nsend, memLeft, reached,
                 answer, mdata_fea, usr, found, cb, pl>>

(***************************************************************************)
(* The ack worker takes an answer (_process_dnAck, find_DNUDReq_ReqPool);   *)
(* the answers to one request are handled one after the other.  A LUN       *)
(* failure of a write matches no case of handle_DNAck_Write: no callback.   *)
(***************************************************************************)
Busy(l) == \E r \in {"MEM_OK", "OK", "ERR"} :
             <<l, r>> \in found \cup cb \/ finCb = <<l, r>>

Ack(l, a) ==
  /\ dnReq[l] = "WAIT_RESP" /\ l \in reached /\ ~Busy(l)
  /\ IF a = "MEM_OK"
     THEN /\ memLeft[l] > 0
          /\ memLeft' = [memLeft EXCEPT ![l] = @ - 1]
          /\ UNCHANGED dnReq
     ELSE /\ dnReq' = [dnReq EXCEPT ![l] = "PROCESS_RESP"]
          /\ UNCHANGED memLeft
  /\ answer' = IF a = "MEM_OK" THEN answer ELSE [answer EXCEPT ![l] = a]
  /\ found' = IF a = "LUN" THEN found ELSE found \cup {<<l, a>>}
  /\ UNCHANGED <<arr_DNUDReq, num_DNUDReq, bk, workQ, tx, nsend, reached, retrying,
                 md, cb, pl>>

-----------------------------------------------------------------------------
(* PLReq_writeDN_endfn up to the counting of the ack: the status of the     *)
(* location and, when the DN request has ended, its bucket.  What it would   *)
(* do with a request that is already freed is left open (NoLateCallback).   *)
CbStart(l, r) ==
  /\ <<l, r>> \in found /\ fin # "done"
  /\ found' = found \ {<<l, r>>}
  /\ cb' = cb \cup {<<l, r>>}
  /\ udata_status' = [udata_status EXCEPT ![l] = r]
  /\ IF r \in Final
     THEN /\ arr_DNUDReq' = [arr_DNUDReq EXCEPT ![bk[l]] = NoLoc]
          /\ num_DNUDReq' = num_DNUDReq - 1
     ELSE UNCHANGED <<arr_DNUDReq, num_DNUDReq>>
  /\ UNCHANGED <<bk, dnReq, workQ, net, acks, mdata_fea, usr, pl>>

(* Mutant: only a disk ack frees the DN request.                            *)
Freed_OkOnly(d, l, r) == [d EXCEPT ![l] = IF r = "OK" THEN "Free" ELSE @]

(* The DN client's part after the callback: handle_DNAck_Write derefs and   *)
(* frees a DN request that has ended.                                       *)
Freed(d, l, r) == [d EXCEPT ![l] = IF r \in Final THEN "Free" ELSE @]
Idle(t, l, r)  == [t EXCEPT ![l] = IF r = "FAIL" THEN @ - 1 ELSE @]

(* MData_writeAck_commitResult under the lock of the metadata item, the     *)
(* answer to the user, and the right to finish the request.                 *)
CbCount(l, r) ==
  LET a    == Count(acks, r)
      cu   == ciUser(a, N, MinDiskAck)
      mds  == ciMDS(a, N) /\ "CIMDS" \notin mdata_fea
      told == (cu.ci \/ mds) /\ "CIUser" \notin mdata_fea
      tr   == PLReq_update_state(plReq_stat, "CICaller")
      fins == mds /\ tr[2] = "DO_CICaller"
  IN  /\ <<l, r>> \in cb
      /\ cb' = cb \ {<<l, r>>}
      /\ acks' = a
      /\ mdata_fea' = mdata_fea \cup (IF told THEN {"CIUser"} ELSE {})
                                \cup (IF mds THEN {"CIMDS"} ELSE {})
      /\ usr' = IF told THEN (IF cu.ret THEN "ok" ELSE "fail") ELSE usr
      /\ plReq_stat' = IF mds THEN tr[1] ELSE plReq_stat
      /\ IF fins
         THEN /\ fin' = "timer" /\ finCb' = <<l, r>>
              /\ UNCHANGED <<dnReq, tx>>
         ELSE /\ dnReq' = Freed(dnReq, l, r) /\ tx' = Idle(tx, l, r)
              /\ UNCHANGED <<fin, finCb>>
      /\ UNCHANGED <<arr_DNUDReq, num_DNUDReq, bk, workQ, nsend, memLeft, reached,
                     retrying, answer, udata_status, found, timer>>

-----------------------------------------------------------------------------
(***************************************************************************)
(* DNUDReq_cancel_Req for the DN requests named by the buckets in B.  One   *)
(* in RETRY goes to CANCEL without being removed from the DN request pool   *)
(* ("Lost"); the others are freed when nobody references them (Unused).     *)
(***************************************************************************)
Named(B) == {arr_DNUDReq[b] : b \in B} \ {NoLoc}

Cancel(B) ==
  LET hit == {l \in Named(B) : dnReq[l] \in {"WAIT_SEND", "WAIT_RESP"}}
  IN  /\ dnReq' = [l \in Loc |-> IF l \in hit THEN "CANCEL"
                                 ELSE IF l \in Named(B) /\ dnReq[l] = "RETRY" THEN "Lost"
                                 ELSE dnReq[l]]
      /\ workQ' = workQ \ hit
      /\ num_DNUDReq' = num_DNUDReq - Cardinality({b \in B : arr_DNUDReq[b] # NoLoc})
      /\ arr_DNUDReq' = [b \in Buckets |-> IF b \in B THEN NoLoc ELSE arr_DNUDReq[b]]

Unused(l) == /\ tx[l] = 0 /\ l \notin retrying
             /\ <<l, "MEM_OK">> \notin found \cup cb /\ finCb # <<l, "MEM_OK">>
CancelledUnused == \A l \in Loc : dnReq[l] = "CANCEL" => Unused(l)
FreeCancelled(d) == [l \in Loc |-> IF d[l] = "CANCEL" THEN "Free" ELSE d[l]]

(* PLReq_cancel_timer waits for a running handler; PLReq_cancel_DNUDReq     *)
(* spares the bucket of the finishing callback and, when one DN request is  *)
(* left, does nothing.                                                      *)
FinishCancel ==
  /\ fin = "timer" /\ timer # "running"
  /\ timer' = "off" /\ fin' = "end"
  /\ IF num_DNUDReq = 1 THEN UNCHANGED <<dnReq, workQ, num_DNUDReq, arr_DNUDReq>>
     ELSE Cancel(Buckets \ {bk[finCb[1]]})
  /\ UNCHANGED <<bk, net, md, found, cb, plReq_stat, finCb>>

(* PLReq_endReq (ioSReq_WritePL_endfn).                                     *)
FinishEnd ==
  /\ fin = "end" /\ CancelledUnused
  /\ fin' = "ended"
  /\ dnReq' = FreeCancelled(dnReq)
  /\ UNCHANGED <<arr_DNUDReq, num_DNUDReq, bk, workQ, net, md, found, cb, plReq_stat,
                 timer, finCb>>

(* PLMgr_free_PLReq: _PLReq_free_allDNReq, ...                              *)
FinishFree ==
  /\ fin = "ended" /\ fin' = "wait"
  /\ IF num_DNUDReq = 0 THEN UNCHANGED <<dnReq, workQ, num_DNUDReq, arr_DNUDReq>>
     ELSE Cancel(Buckets)
  /\ UNCHANGED <<bk, net, md, found, cb, plReq_stat, timer, finCb>>

(* ... and PLReq_free_Req, which waits until the reference count is 0.      *)
FinishDone ==
  /\ fin = "wait" /\ CancelledUnused
  /\ cb = {} /\ \A l \in Loc : dnReq[l] # "None"
  /\ fin' = "done"
  /\ dnReq' = Freed(FreeCancelled(dnReq), finCb[1], finCb[2])
  /\ tx' = Idle(tx, finCb[1], finCb[2])
  /\ UNCHANGED <<arr_DNUDReq, num_DNUDReq, bk, workQ, nsend, memLeft, reached,
                 retrying, answer, md, found, cb, plReq_stat, timer, finCb>>

-----------------------------------------------------------------------------
(* PLReq_TO_handler_gut starts; the timer is not armed again.               *)
TOFire ==
  LET tr == PLReq_update_state(plReq_stat, "TOFireChk")
  IN  /\ timer = "on"
      /\ plReq_stat' = tr[1]
      /\ timer' = IF tr[2] = "DO_TOFireChk" THEN "running" ELSE "off"
      /\ UNCHANGED <<dn, net, md, found, cb, fin, finCb>>

(* _chk_wPLReq_wait (waited: _wPLReq_chk_wait_otherReplica found that the   *)
(* user was answered time_wait_other_replica ago).                          *)
KeepWaiting(waited) ==
  /\ PLREQ_READ_TO_CNT - 1 > 0
  /\ "CIUser" \in mdata_fea /\ HighResp => ~waited

(***************************************************************************)
(* _writePLReq_TO_handle.  PLReq_update_state never answers DO_CICaller to  *)
(* TimeupEvent, so the end of the handler is never reached.                 *)
(***************************************************************************)
TOCheck(waited) ==
  /\ timer = "running"
  /\ timer' = "off"
  /\ IF KeepWaiting(waited)
     THEN /\ plReq_stat' = PLReq_update_state(plReq_stat, "TOFireChkDone")[1]
          /\ UNCHANGED <<mdata_fea, usr>>
     ELSE /\ plReq_stat' = PLReq_update_state(plReq_stat, TimeupEvent)[1]
          /\ mdata_fea' = mdata_fea \cup {"CIUser", "CIMDS"}
          /\ usr' = IF "CIUser" \in mdata_fea THEN usr
                    ELSE IF acks.diskack > 0 THEN "ok" ELSE "fail"
  /\ UNCHANGED <<dn, net, udata_status, acks, found, cb, fin, finCb>>

-----------------------------------------------------------------------------
DNClient(l) == \/ Peek(l) \/ TxOk(l) \/ TxLost(l)
               \/ RetryChkDone(l) \/ RetryReset(l)
               \/ \E r \in Results : CbStart(l, r) \/ CbCount(l, r)

Finish == FinishCancel \/ FinishEnd \/ FinishFree \/ FinishDone

Timer == TOFire \/ \E waited \in BOOLEAN : TOCheck(waited)

Next == \/ \E l \in Loc : \/ Submit(l) \/ DNClient(l) \/ ConnBack(l)
                          \/ \E a \in Answers : Ack(l, a)
        \/ Finish \/ Timer

Spec == Init /\ [][Next]_vars

(***************************************************************************)
(* Fairness.  The submitter, the DN workers, the ack workers, the           *)
(* housekeeping thread and the timer are kernel threads that run while they *)
(* have work: weak fairness.  A lost connection comes back (the connection  *)
(* manager retries for ever) and a datanode that has received the write     *)
(* answers OK or ERR in the end.                                            *)
(***************************************************************************)
FinalAck(l) == \E a \in Answers \cap Final : Ack(l, a)

Fairness ==
  /\ \A l \in Loc : /\ WF_vars(Submit(l)) /\ WF_vars(Peek(l))
                    /\ WF_vars(TxOk(l) \/ TxLost(l))
                    /\ WF_vars(RetryChkDone(l) \/ RetryReset(l))
                    /\ WF_vars(ConnBack(l)) /\ SF_vars(FinalAck(l))
                    /\ \A r \in Results : WF_vars(CbStart(l, r)) /\ WF_vars(CbCount(l, r))
  /\ WF_vars(Finish) /\ WF_vars(Timer)

FairSpec == Spec /\ Fairness

-----------------------------------------------------------------------------
Stored  == {l \in Loc : answer[l] = "OK"}
Refused == {l \in Loc : answer[l] = "ERR"}

(* Every variable keeps the shape of the C structure it stands for; in      *)
(* particular the references of the DN workers are never dropped twice.     *)
TypeOK ==
  /\ arr_DNUDReq \in [Buckets -> Loc \cup {NoLoc}]
  /\ num_DNUDReq \in Int
  /\ bk \in [Loc -> Int]
  /\ dnReq \in [Loc -> {"None", "WAIT_SEND", "WAIT_RESP", "PROCESS_RESP", "RETRY",
                        "CANCEL", "Lost", "Free"}]
  /\ workQ \subseteq Loc /\ reached \subseteq Loc /\ retrying \subseteq Loc
  /\ tx \in [Loc -> Nat] /\ nsend \in [Loc -> 1 .. MaxSend]
  /\ memLeft \in [Loc -> Nat]
  /\ udata_status \in [Loc -> {"INIT"} \cup Results]
  /\ acks \in Counters
  /\ mdata_fea \subseteq {"CIUser", "CIMDS"}
  /\ found \subseteq Loc \X Results /\ cb \subseteq Loc \X Results
  /\ plReq_stat \in PLReqStates /\ timer \in {"on", "running", "off"}
  /\ fin \in {"no", "timer", "end", "ended", "wait", "done"}
  /\ finCb \in (Loc \X Results) \cup {None}
  /\ usr \in {"none", "ok", "fail"}
  /\ answer \in [Loc -> {"none", "OK", "ERR", "LUN"}]

(* A write that the user is told has succeeded is on the disks of           *)
(* MinDiskAck datanodes, or of all that did not refuse it (and of one), in  *)
(* spite of retries, lost connections and acks counted by several threads:  *)
(* _chk_ciUser_criteria.                                                    *)
SuccessIsStored ==
  usr = "ok" => \/ Cardinality(Stored) >= MinDiskAck
                \/ Stored # {} /\ Stored \cup Refused = Loc

(* A request that finishes has answered the user, and has the final answer  *)
(* of every datanode or has given up on its connection:                     *)
(* MData_writeAck_commitResult, _chk_ciMDS_criteria.                        *)
EndedIsAnswered ==
  fin # "no" => /\ usr # "none"
                /\ \A l \in Loc : answer[l] \in Final \/ udata_status[l] = "FAIL"

(* Whoever decides that the request commits to the namenode also finishes   *)
(* it: the bit MDATA_FEA_UDataCIMDS is set once, so nobody else will.       *)
CommittedEnds == "CIMDS" \in mdata_fea => plReq_stat = "CI_CALLER"

(* No callback is on its way to a payload request that has been freed       *)
(* (PLReq_writeDN_endfn takes its reference only when it starts).           *)
NoLateCallback == fin = "done" => found = {}

(* A finished request leaves nothing behind: its buckets are empty and its  *)
(* DN requests are freed.                                                   *)
NothingLeft ==
  fin = "done" => /\ num_DNUDReq = 0 /\ \A b \in Buckets : arr_DNUDReq[b] = NoLoc
                  /\ \A l \in Loc : dnReq[l] = "Free"

(* The end of a write is clean: who takes the commit finishes the request,  *)
(* no callback comes to it afterwards, and it leaves nothing behind         *)
(* (PLReq_writeDN_endfn, PLMgr_free_PLReq); its state is well typed throughout. *)
EndIsClean == TypeOK /\ CommittedEnds /\ NoLateCallback /\ NothingLeft

(* Every write payload request ends and is freed, whatever connections are  *)
(* lost and whenever the timer fires, if the last send that MaxSend allows  *)
(* arrives when no earlier one has.                                         *)
Arrives(l) == nsend[l] = MaxSend /\ dnReq[l] = "WAIT_RESP" /\ tx[l] = 0 => l \in reached
EveryWriteEnds == [](\A l \in Loc : Arrives(l)) => <>(fin = "done")
=============================================================================
