------------------------------ MODULE DNClient ------------------------------
(***************************************************************************)
(* The life of the read requests in the DN client (discoDN_client): the     *)
(* request pool, the worker that sends, the workers that handle acks, the   *)
(* housekeeping thread that sends again after a reconnect, and the caller   *)
(* that cancels.  A request is named by its DNUDReqID.  The answers found   *)
(* for a request are handed to the caller's dnReq_endfn in "found".         *)
(*                                                                          *)
(* The connection of a location is up or down; what is on its way is lost   *)
(* with it.  MaxLost bounds how often that happens, MaxReq the requests.    *)
(***************************************************************************)
EXTENDS Integers, Sequences, FiniteSets, SequencesExt

CONSTANTS NumLoc, MaxReq, MaxLost

ASSUME DNAssumption == NumLoc \in Nat \ {0} /\ MaxReq \in Nat /\ MaxLost \in Nat

VARIABLES
  DNUDReqID_counter,
  stat,            \* DNUDReqID -> state of its FSM; "none", "free" outside its life
  dnLoc_idx, caller_bkidx,
  reqPool,         \* requests with DNREQ_FEA_IN_REQPOOL
  workQ,           \* the queue of the sender: requests with DNREQ_FEA_IN_WORKQ
  sending,         \* the request that the sender works on, 0: none
  rlist,           \* requests in the retry list of the housekeeping thread
  hkTask,          \* locations with a TASK_DN_CONN_BACK_REQ_RETRY
  up, lost,        \* connected locations; how many connections were lost
  wire,            \* requests that the datanode has received
  ackQ,            \* acks in the queues of the ack workers: <<id, ack>>
  found            \* results on their way to the caller: <<id, result>>

req   == <<DNUDReqID_counter, stat, dnLoc_idx, caller_bkidx, reqPool>>
queue == <<workQ, sending, rlist, hkTask>>
line  == <<up, lost, wire, ackQ>>
dnVars == <<req, queue, line, found>>

IDs == 1 .. MaxReq
Idx == 0 .. NumLoc - 1          \* locations of the metadata item

-----------------------------------------------------------------------------
(* The state machine of a request to a datanode (discoC_DNUDReq_fsm.c).     *)
DNREQ_S == {"INIT", "WAIT_SEND", "SENDING", "WAIT_RESP", "PROCESS_RESP",
            "RETRY_REQ", "CANCEL_REQ"}

DNREQ_E == {"InitDone", "PeekWorkQ", "SendDone", "FindReqOK_MemAck", "FindReqOK",
            "ConnBack", "RetryChkDone", "Cancel"}

NoAction(st) == <<st, "NoAction">>
Cancelled    == <<"CANCEL_REQ", "CANCEL_REQ">>

_update_dnReqS_Init(ev) ==
  IF ev = "InitDone" THEN <<"WAIT_SEND", "ADD_WORKQ">> ELSE NoAction("INIT")

_update_dnReqS_WaitSend(ev) ==
  CASE ev = "PeekWorkQ" -> <<"SENDING", "SEND">>
    [] ev = "Cancel"    -> Cancelled
    [] OTHER            -> NoAction("WAIT_SEND")

_update_dnReqS_Sending(ev) ==
  CASE ev = "SendDone" -> <<"WAIT_RESP", "WAIT_RESP">>
    [] ev = "Cancel"   -> Cancelled
    [] OTHER           -> NoAction("SENDING")

_update_dnReqS_WaitResp(ev) ==
  CASE ev = "FindReqOK_MemAck" -> <<"WAIT_RESP", "PROCESS_RESP">>
    [] ev = "FindReqOK"        -> <<"PROCESS_RESP", "PROCESS_RESP">>
    [] ev = "ConnBack"         -> <<"RETRY_REQ", "RETRY_REQ">>
    [] ev = "Cancel"           -> Cancelled
    [] OTHER                   -> NoAction("WAIT_RESP")

(* The canceller of a request in the retry list is told to try again.       *)
_update_dnReqS_Retry(ev) ==
  CASE ev = "RetryChkDone" -> <<"WAIT_SEND", "ADD_WORKQ">>
    [] ev = "Cancel"       -> <<"CANCEL_REQ", "RETRY_CANCEL">>
    [] OTHER               -> NoAction("RETRY_REQ")

(* DNUDReq_update_state: <<new state, what the caller may do>>.             *)
DNUDReq_update_state(st, ev) ==
  CASE st = "INIT"      -> _update_dnReqS_Init(ev)
    [] st = "WAIT_SEND" -> _update_dnReqS_WaitSend(ev)
    [] st = "SENDING"   -> _update_dnReqS_Sending(ev)
    [] st = "WAIT_RESP" -> _update_dnReqS_WaitResp(ev)
    [] st = "RETRY_REQ" -> _update_dnReqS_Retry(ev)
    [] OTHER            -> NoAction(st)

-----------------------------------------------------------------------------
DNInit ==
  /\ DNUDReqID_counter = 0 /\ stat = [i \in IDs |-> "none"]
  /\ dnLoc_idx = [i \in IDs |-> 0] /\ caller_bkidx = [i \in IDs |-> 0]
  /\ reqPool = {} /\ workQ = <<>> /\ sending = 0 /\ rlist = {} /\ hkTask = {}
  /\ up = Idx /\ lost = 0 /\ wire = {} /\ ackQ = {} /\ found = {}

(* DNUDReq_ref_Req / DNUDReq_deref_Req: who holds a reference.              *)
Referenced(i) == i = sending \/ i \in rlist \/ \E r \in found : r[1] = i

(* DNUDReq_init_Req, init_DNUDReq_Read and the rest of                      *)
(* submit_DNUData_Read_Request, for a caller that stores the ID in bk.      *)
submit_DNUData_Read_Request(l, bk) ==
  LET i == DNUDReqID_counter + 1
  IN  /\ i \in IDs
      /\ DNUDReqID_counter' = i
      /\ stat' = [stat EXCEPT ![i] = DNUDReq_update_state("INIT", "InitDone")[1]]
      /\ dnLoc_idx' = [dnLoc_idx EXCEPT ![i] = l]
      /\ caller_bkidx' = [caller_bkidx EXCEPT ![i] = bk]
      /\ reqPool' = reqPool \cup {i}
      /\ workQ' = Append(workQ, i)
      /\ UNCHANGED <<rlist, hkTask, line>>

-----------------------------------------------------------------------------
(* The sender: _DNCWker_peek_Req_workQ, ...                                 *)
Peek ==
  /\ sending = 0 /\ workQ # <<>>
  /\ LET i  == Head(workQ)
         tr == DNUDReq_update_state(stat[i], "PeekWorkQ")
     IN  /\ stat' = [stat EXCEPT ![i] = tr[1]]
         /\ sending' = IF tr[2] = "SEND" THEN i ELSE 0
  /\ workQ' = Tail(workQ)
  /\ UNCHANGED <<DNUDReqID_counter, dnLoc_idx, caller_bkidx, reqPool, rlist, hkTask,
                 line, found>>

(* ... DNCWker_send_DNUDReq, which reports SendDone before it sends, ...    *)
SendDone ==
  /\ sending # 0 /\ stat[sending] = "SENDING"
  /\ stat' = [stat EXCEPT ![sending] = DNUDReq_update_state(@, "SendDone")[1]]
  /\ UNCHANGED <<DNUDReqID_counter, dnLoc_idx, caller_bkidx, reqPool, queue, line, found>>

(* ... and DNCWker_send_readReq.  It does not look at the state again.      *)
CanSend == sending # 0 /\ stat[sending] # "SENDING" /\ <<sending, "READ_NA">> \notin found

TxOk(busy) ==
  /\ CanSend /\ ~busy /\ dnLoc_idx[sending] \in up
  /\ wire' = wire \cup {sending} /\ sending' = 0
  /\ UNCHANGED <<req, workQ, rlist, hkTask, up, lost, ackQ, found>>

(* No connection (_get_DN_connection): handle_DNAck_Read reports READ_NA    *)
(* from the sender's thread; the request stays in the pool for a retry.     *)
(* busy: the sender is in the caller's callback.                            *)
TxLost(busy) ==
  /\ CanSend /\ ~busy /\ dnLoc_idx[sending] \notin up
  /\ found' = found \cup {<<sending, "READ_NA">>}
  /\ UNCHANGED <<req, queue, line>>

-----------------------------------------------------------------------------
(* The connection is reset (sockImpl_reset_conn): what is on its way is     *)
(* gone.                                                                    *)
ConnLost(l) ==
  /\ l \in up /\ lost < MaxLost
  /\ up' = up \ {l} /\ lost' = lost + 1
  /\ wire' = {i \in wire : dnLoc_idx[i] # l}
  /\ UNCHANGED <<req, queue, ackQ, found>>

(* _DN_connback_post_fn.                                                    *)
ConnBack(l) ==
  /\ l \notin up
  /\ up' = up \cup {l} /\ hkTask' = hkTask \cup {l}
  /\ UNCHANGED <<req, workQ, sending, rlist, lost, wire, ackQ, found>>

(* Mutant: only requests that are not being sent are looked at.             *)
Retryable_NotSending(l) ==
  {i \in reqPool \ {sending} : dnLoc_idx[i] = l /\
     DNUDReq_update_state(stat[i], "ConnBack")[2] = "RETRY_REQ"}

(* _get_DNUDReq_rlist_bk, DNUDReq_check_retryable.                          *)
Retryable(l) ==
  {i \in reqPool : dnLoc_idx[i] = l /\
     DNUDReq_update_state(stat[i], "ConnBack")[2] = "RETRY_REQ"}

(* DNClientMgr_resend_DNUDReq: DNUDReqPool_get_retryReq, ...                *)
GetRetryReq(l) ==
  /\ l \in hkTask /\ rlist = {}
  /\ hkTask' = hkTask \ {l}
  /\ rlist' = Retryable(l)
  /\ stat' = [i \in IDs |-> IF i \in Retryable(l) THEN "RETRY_REQ" ELSE stat[i]]
  /\ UNCHANGED <<DNUDReqID_counter, dnLoc_idx, caller_bkidx, reqPool, workQ, sending,
                 line, found>>

(* ... and DNUDReq_retry_Req.  The status of a read's location is not reset *)
(* by MData_wRetry_reset_DNLoc.                                             *)
Retry(i) ==
  /\ i \in rlist
  /\ rlist' = rlist \ {i}
  /\ LET tr == DNUDReq_update_state(stat[i], "RetryChkDone")
     IN  /\ stat' = [stat EXCEPT ![i] = tr[1]]
         /\ workQ' = IF tr[2] = "ADD_WORKQ" /\ ~Contains(workQ, i)
                     THEN Append(workQ, i) ELSE workQ
  /\ UNCHANGED <<DNUDReqID_counter, dnLoc_idx, caller_bkidx, reqPool, sending, hkTask,
                 line, found>>

-----------------------------------------------------------------------------
(* The datanode answers and the receive thread queues the ack               *)
(* (DNClient_sockrcv_thdfn, DNAckMgr_submit_ack).                           *)
Receive(i, a) ==
  /\ i \in wire
  /\ wire' = wire \ {i} /\ ackQ' = ackQ \cup {<<i, a>>}
  /\ UNCHANGED <<req, queue, up, lost, found>>

(* handle_DNAck_Read, handle_DNAck_IOError: what an ack means.              *)
AckResult(a) ==
  CASE a \in {"READ_PAYLOAD", "READ_NO_PAYLOAD"} -> "READ_OK"
    [] a = "HBIDERR"                             -> "MD_ERR"
    [] a \in {"ERR_IOException", "ERR_IOFailLUNOK", "ERR_LUNFail"} -> "DISK_FAILURE"

(* An ack worker: _process_dnAck and find_DNUDReq_ReqPool.  An ack for a    *)
(* request that is not waiting for it is dropped (_handle_dn_miss).         *)
ProcessAck(i, a) ==
  /\ <<i, a>> \in ackQ
  /\ ackQ' = ackQ \ {<<i, a>>}
  /\ LET tr == DNUDReq_update_state(stat[i], "FindReqOK")
     IN  IF i \in reqPool /\ tr[2] = "PROCESS_RESP"
         THEN /\ stat' = [stat EXCEPT ![i] = tr[1]]
              /\ reqPool' = reqPool \ {i}
              /\ found' = found \cup {<<i, AckResult(a)>>}
         ELSE UNCHANGED <<stat, reqPool, found>>
  /\ UNCHANGED <<DNUDReqID_counter, dnLoc_idx, caller_bkidx, queue, up, lost, wire>>

-----------------------------------------------------------------------------
(* DNUDReq_cancel_Req for the requests in S.  One in the retry list goes to *)
(* CANCEL_REQ and is found there when the caller tries again: it stays in   *)
(* the pool for ever.  The others leave pool and queue and are freed when   *)
(* nobody references them (FreeCancelled).                                  *)
Hit(S) == {i \in S \cap reqPool : DNUDReq_update_state(stat[i], "Cancel")[2] = "CANCEL_REQ"}

(* Mutant: a cancelled request stays in the queue of the sender.            *)
CancelReqs_Queued(S) ==
  /\ stat' = [i \in IDs |-> IF i \in S \cap reqPool
                            THEN DNUDReq_update_state(stat[i], "Cancel")[1] ELSE stat[i]]
  /\ reqPool' = reqPool \ Hit(S)
  /\ UNCHANGED workQ

CancelReqs(S) ==
  /\ stat' = [i \in IDs |-> IF i \in S \cap reqPool
                            THEN DNUDReq_update_state(stat[i], "Cancel")[1] ELSE stat[i]]
  /\ reqPool' = reqPool \ Hit(S)
  /\ workQ' = SelectSeq(workQ, LAMBDA i : i \notin Hit(S))

Cancelling == {i \in IDs : stat[i] = "CANCEL_REQ" /\ i \notin reqPool}
FreeCancelled == [i \in IDs |-> IF i \in Cancelling THEN "free" ELSE stat[i]]

ClientStep(busy) ==
  \/ Peek \/ SendDone \/ TxOk(busy) \/ TxLost(busy)
  \/ \E l \in Idx : ConnLost(l) \/ ConnBack(l) \/ GetRetryReq(l)
  \/ \E i \in IDs : Retry(i)
  \/ \E r \in ackQ : ProcessAck(r[1], r[2])

DNTypeOK ==
  /\ DNUDReqID_counter \in 0 .. MaxReq
  /\ stat \in [IDs -> DNREQ_S \cup {"none", "free"}]
  /\ dnLoc_idx \in [IDs -> Idx] /\ caller_bkidx \in [IDs -> Idx]
  /\ reqPool \subseteq IDs /\ rlist \subseteq IDs /\ wire \subseteq IDs
  /\ workQ \in Seq(IDs) /\ sending \in {0} \cup IDs
  /\ hkTask \subseteq Idx /\ up \subseteq Idx /\ lost \in 0 .. MaxLost
=============================================================================
