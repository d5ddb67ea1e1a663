------------------------------- MODULE NNMDReq -------------------------------
(***************************************************************************)
(* Metadata requests to the namenode (discoNN_client): queries and          *)
(* allocations for an IO (acquire) and reports of what the datanodes        *)
(* answered.  A request is in the request pool, where an answer finds it by *)
(* its ID, and goes through the queue of one of two workers: the cache hit  *)
(* worker, which answers it from the metadata cache, and the sender.        *)
(*                                                                          *)
(* Threads: the callers, the two workers, the receiver of the connection,   *)
(* the timer of each request, and housekeeping, which retries requests when *)
(* the connection is back.  A request is freed by whoever answers its       *)
(* caller, once nobody else references it.                                  *)
(***************************************************************************)
EXTENDS NNMDReqFSM, Integers, FiniteSets

CONSTANTS
  Req,            \* the requests
  NoReq,
  Kind,           \* request -> "hit" (acquire, metadata in the cache),
                  \* "miss" (acquire from the namenode) or "report"
  ReqID,          \* request -> its ID
  NBuckets,       \* NNREQ_HBUCKET_SIZE
  FlowControl,    \* dms_client_config->enable_fc, and a congested namenode
  RunOut,         \* TRUE: a retry may come when the time left is too short
  MaxLost         \* bound: how often the connection is lost

ASSUME KindAssumption == Kind \in [Req -> {"hit", "miss", "report"}]
ASSUME IDAssumption == /\ ReqID \in [Req -> Nat]
                       /\ \A p, q \in Req : ReqID[p] = ReqID[q] => p = q
ASSUME NNBoundAssumption == /\ NBuckets \in Nat \ {0} /\ MaxLost \in Nat
                            /\ NoReq \notin Req
ASSUME NNFlagAssumption == FlowControl \in BOOLEAN /\ RunOut \in BOOLEAN

VARIABLES
  stat,      \* FSM state of each request, "None" before, "Freed" after
  inPool,    \* requests with NNREQ_FEA_IN_REQPOOL
  workQ,     \* requests with NNREQ_FEA_IN_WORKQ
  timer,     \* "off", "on", "run" (its handler has won), "free"
  ref,       \* ReqRefCnt
  ended,     \* how often the caller has been answered (nnReq_endfn)
  locked,    \* buckets of the pool whose lock nobody will release
  sub,       \* requests between sched_timer and the queue in their submission
  thr,       \* what the workers, the receiver and housekeeping are doing
  hkTask,    \* TASK_NN_CONN_BACK_REQ_RETRY tasks not yet begun
  hkScan,    \* requests whose bucket housekeeping has still to scan
  rlist,     \* the list of requests to retry
  conn,      \* the connection to the namenode is up
  lost,      \* how often it has been lost
  net        \* answers of the namenode under way, for each request

req  == <<stat, inPool, workQ, timer, ref, ended>>
hk   == <<hkTask, hkScan, rlist>>
link == <<conn, lost, net>>
vars == <<req, locked, sub, thr, hk, link>>

Threads == {"cm", "ch", "rx", "hk"}
Idle    == <<NoReq, "idle">>
Acquire(r) == Kind[r] # "report"       \* NNMDReq_check_acquire
Bucket(r)  == ReqID[r] % NBuckets
Lockable(r) == Bucket(r) \notin locked  \* NNMDReqPool_acquire_plock returns

Update(r, e) == IF Acquire(r) THEN NNMDgetReq_update_state(stat[r], e)
                ELSE NNMDciReq_update_state(stat[r], e)

SetStat(r, s)   == stat' = [stat EXCEPT ![r] = s]
Ref(r, n)       == ref' = [ref EXCEPT ![r] = @ + n]
SetTimer(r, t)  == timer' = [timer EXCEPT ![r] = t]
Thread(t, r, pc) == thr' = [thr EXCEPT ![t] = <<r, pc>>]
Rest(t)         == thr' = [thr EXCEPT ![t] = Idle]
CallEndfn(r)    == ended' = [ended EXCEPT ![r] = @ + 1]

-----------------------------------------------------------------------------
Init ==
  /\ stat = [r \in Req |-> "None"] /\ inPool = {} /\ workQ = {}
  /\ timer = [r \in Req |-> "off"] /\ ref = [r \in Req |-> 0]
  /\ ended = [r \in Req |-> 0] /\ locked = {} /\ sub = {}
  /\ thr = [t \in Threads |-> Idle]
  /\ hkTask = 0 /\ hkScan = {} /\ rlist = {}
  /\ conn = TRUE /\ lost = 0 /\ net = [r \in Req |-> 0]

(* discoC_acquire_metadata and discoC_report_metadata: NNMDReq_init_Req     *)
(* with _add_req2pool, NNMDReq_init_endfn, a reference, and the timer.      *)
SubmitMDReq(r) ==
  /\ stat[r] = "None" /\ Lockable(r)
  /\ inPool' = inPool \cup {r}
  /\ SetStat(r, NNMDgetReq_update_state("INIT", "InitDone").state)
  /\ Ref(r, 1) /\ SetTimer(r, "on") /\ sub' = sub \cup {r}
  /\ UNCHANGED <<workQ, ended, locked, thr, hk, link>>

(* The rest of NNMDReq_submit_workerQ, by the caller ...                    *)
SubmitAdd(r) ==
  /\ r \in sub
  /\ sub' = sub \ {r}
  /\ workQ' = workQ \cup {r} /\ Ref(r, -1)
  /\ UNCHANGED <<stat, inPool, timer, ended, locked, thr, hk, link>>

(* Mutant: the retried request is not queued.                               *)
RetryAdd_Forget(r) ==
  /\ thr["hk"] = <<r, "add">>
  /\ Rest("hk") /\ Ref(r, -1)
  /\ UNCHANGED <<stat, inPool, workQ, timer, ended, locked, sub, hk, link>>

(* ... and by housekeeping for a request that is retried.                   *)
RetryAdd(r) ==
  /\ thr["hk"] = <<r, "add">>
  /\ Rest("hk") /\ workQ' = workQ \cup {r} /\ Ref(r, -1)
  /\ UNCHANGED <<stat, inPool, timer, ended, locked, sub, hk, link>>

-----------------------------------------------------------------------------
(***************************************************************************)
(* The workers.  _nnc_peek_MDReq takes a request out of the queue; one that *)
(* may not be sent any more is dropped.                                     *)
(***************************************************************************)
Worker(r) == IF Kind[r] = "hit" THEN "ch" ELSE "cm"

Peek(r) ==
  LET tr == Update(r, "PeekWorkQ")
  IN  /\ r \in workQ /\ thr[Worker(r)] = Idle
      /\ workQ' = workQ \ {r}
      /\ IF tr.action = "DO_SEND"
         THEN SetStat(r, tr.state) /\ Ref(r, 1) /\ Thread(Worker(r), r, "send")
         ELSE UNCHANGED <<stat, ref, thr>>
      /\ UNCHANGED <<inPool, timer, ended, locked, sub, hk, link>>

(***************************************************************************)
(* _nnc_sendMDReq_fccongestion: after a wait the sender gives up on a       *)
(* request whose acquire state is not SENDING; a report's never is.         *)
(***************************************************************************)
Congested(r) == FlowControl /\ (Acquire(r) => stat[r] # "SENDING")

(* SendDone comes before the transmission.  Giving up (Congested) returns   *)
(* from NNClient_send_MDReq without NNMDReq_deref_Req.                      *)
SendDone(r) ==
  LET tr == Update(r, "SendDone") w == Worker(r)
  IN  /\ thr[w] = <<r, "send">>
      /\ IF w = "cm" /\ Congested(r) THEN Rest(w) /\ UNCHANGED <<stat, ref>>
         ELSE IF tr.action = "DO_WAIT_RESP"
         THEN SetStat(r, tr.state) /\ Thread(w, r, "tx") /\ UNCHANGED ref
         ELSE Rest(w) /\ Ref(r, -1) /\ UNCHANGED stat
      /\ UNCHANGED <<inPool, workQ, timer, ended, locked, sub, hk, link>>

(* The packet is sent if the connection is up; nothing waits if it is not.  *)
Transmit(r) ==
  /\ thr["cm"] = <<r, "tx">>
  /\ net' = IF conn THEN [net EXCEPT ![r] = @ + 1] ELSE net
  /\ Ref(r, -1) /\ Rest("cm")
  /\ UNCHANGED <<stat, inPool, workQ, timer, ended, locked, sub, hk, conn, lost>>

(* NNClient_send_getMDReq_cachehit: NNMDReq_rm_ReqPool.                     *)
CacheHit(r) ==
  LET tr == Update(r, "FindReqOK")
  IN  /\ thr["ch"] = <<r, "tx">> /\ Lockable(r)
      /\ IF tr.action = "DO_PROCESS_RESP" /\ r \in inPool
         THEN /\ inPool' = inPool \ {r} /\ Thread("ch", r, "end") /\ UNCHANGED ref
         ELSE /\ Rest("ch") /\ Ref(r, -1) /\ UNCHANGED inPool
      /\ SetStat(r, tr.state)
      /\ UNCHANGED <<workQ, timer, ended, locked, sub, hk, link>>

(* The receiver: NNMDReq_find_ReqPool for an answer of the namenode.        *)
Answer(r) ==
  LET tr == Update(r, "FindReqOK")
  IN  /\ thr["rx"] = Idle /\ net[r] > 0 /\ Lockable(r)
      /\ net' = [net EXCEPT ![r] = @ - 1]
      /\ IF r \in inPool /\ tr.action = "DO_PROCESS_RESP"
         THEN /\ SetStat(r, tr.state) /\ inPool' = inPool \ {r}
              /\ Ref(r, 1) /\ Thread("rx", r, "end")
         ELSE UNCHANGED <<stat, inPool, ref, thr>>
      /\ UNCHANGED <<workQ, timer, ended, locked, sub, hk, conn, lost>>

(* Mutant: the timer is not cancelled.                                      *)
EndReq_NoCancel(t) ==
  LET r == thr[t][1]
  IN  /\ thr[t][2] = "end" /\ timer[r] \in {"on", "off"}
      /\ CallEndfn(r) /\ Ref(r, -1) /\ Thread(t, r, "free")
      /\ UNCHANGED <<stat, inPool, workQ, timer, locked, sub, hk, link>>

(* NNMDReq_cancel_timer waits for a running handler; then nnReq_endfn.      *)
EndReq(t) ==
  LET r == thr[t][1]
  IN  /\ thr[t][2] = "end" /\ timer[r] \in {"on", "off"}
      /\ SetTimer(r, "off") /\ CallEndfn(r) /\ Ref(r, -1) /\ Thread(t, r, "free")
      /\ UNCHANGED <<stat, inPool, workQ, locked, sub, hk, link>>

(* NNMDReq_free_Req waits until nobody references the request.              *)
FreeReq(t) ==
  LET r == thr[t][1]
  IN  /\ thr[t][2] = "free" /\ ref[r] = 0
      /\ SetStat(r, "Freed") /\ Rest(t)
      /\ UNCHANGED <<inPool, workQ, timer, ref, ended, locked, sub, hk, link>>

-----------------------------------------------------------------------------
(***************************************************************************)
(* The timer.  It is at least MIN_NNMDREQ_SCHED_TIME away, so it does not   *)
(* fire while its request is still being queued (an assumption).  For a     *)
(* report the handler only writes a message.  _NNMDReq_TO_chkState takes    *)
(* the lock of the bucket and releases the lock whose index is the ID.      *)
(***************************************************************************)
TimeoutFire(r) ==
  LET tr == Update(r, "TimeoutFire")
      won == tr.action = "DO_TO_PROCESS" /\ r \in inPool
  IN  /\ timer[r] = "on" /\ r \notin sub /\ thr["hk"] # <<r, "add">>
      /\ IF Acquire(r)
         THEN /\ Lockable(r)
              /\ locked' = (locked \cup {Bucket(r)}) \ {ReqID[r]}
              /\ SetStat(r, tr.state)
              /\ IF won THEN /\ inPool' = inPool \ {r} /\ Ref(r, 1) /\ SetTimer(r, "run")
                 ELSE SetTimer(r, "off") /\ UNCHANGED <<inPool, ref>>
         ELSE SetTimer(r, "off") /\ UNCHANGED <<locked, stat, inPool, ref>>
      /\ UNCHANGED <<workQ, ended, sub, thr, hk, link>>

(* NNMDReq_acquire_TOfunc: _NNMDReq_TO_rm_workQ and nnReq_endfn with -ETIME *)
TimeoutEnd(r) ==
  /\ timer[r] = "run"
  /\ workQ' = workQ \ {r} /\ CallEndfn(r) /\ Ref(r, -1) /\ SetTimer(r, "free")
  /\ UNCHANGED <<stat, inPool, locked, sub, thr, hk, link>>

TimeoutFree(r) ==
  /\ timer[r] = "free" /\ ref[r] = 0
  /\ SetStat(r, "Freed") /\ SetTimer(r, "off")
  /\ UNCHANGED <<inPool, workQ, ref, ended, locked, sub, thr, hk, link>>

-----------------------------------------------------------------------------
(* The connection is lost, with some of the answers under way, ...          *)
ConnLost ==
  /\ conn /\ lost < MaxLost
  /\ conn' = FALSE /\ lost' = lost + 1
  /\ \E kept \in SUBSET Req : net' = [r \in Req |-> IF r \in kept THEN net[r] ELSE 0]
  /\ UNCHANGED <<req, locked, sub, thr, hk>>

(* ... and is back: _NN_connected_post_fn adds a task for housekeeping.     *)
ConnBack ==
  /\ ~conn
  /\ conn' = TRUE /\ hkTask' = hkTask + 1
  /\ UNCHANGED <<req, locked, sub, thr, hkScan, rlist, lost, net>>

(* NNClientMgr_retry_NNMDReq: NNMDReqPool_get_retryReq scans the pool, one  *)
(* bucket after the other, ...                                              *)
RetryStart ==
  /\ hkTask > 0 /\ thr["hk"] = Idle /\ hkScan = {} /\ rlist = {}
  /\ hkTask' = hkTask - 1 /\ hkScan' = Req
  /\ UNCHANGED <<req, locked, sub, thr, rlist, link>>

(* Mutant: only acquire requests are retried.                               *)
RetryScan_AcquireOnly(r) ==
  LET tr == Update(r, "ConnBack")
  IN  /\ r \in hkScan /\ Lockable(r)
      /\ hkScan' = hkScan \ {r}
      /\ IF r \in inPool /\ tr.action = "DO_RETRY_REQ" /\ Acquire(r)
         THEN SetStat(r, tr.state) /\ Ref(r, 1) /\ rlist' = rlist \cup {r}
         ELSE UNCHANGED <<stat, ref, rlist>>
      /\ UNCHANGED <<inPool, workQ, timer, ended, locked, sub, thr, hkTask, link>>

RetryScan(r) ==
  LET tr == Update(r, "ConnBack")
  IN  /\ r \in hkScan /\ Lockable(r)
      /\ hkScan' = hkScan \ {r}
      /\ IF r \in inPool /\ tr.action = "DO_RETRY_REQ"
         THEN SetStat(r, tr.state) /\ Ref(r, 1) /\ rlist' = rlist \cup {r}
         ELSE UNCHANGED <<stat, ref, rlist>>
      /\ UNCHANGED <<inPool, workQ, timer, ended, locked, sub, thr, hkTask, link>>

(* ... and NNMDReq_retry_Req cancels the timer, updates the state and        *)
(* schedules a new timer.  With too little time left (-ETIME) it answers the *)
(* caller and frees the request.                                             *)
RetryReq(r) ==
  /\ hkScan = {} /\ r \in rlist /\ thr["hk"] = Idle
  /\ timer[r] \in {"on", "off"}
  /\ rlist' = rlist \ {r}
  /\ SetStat(r, Update(r, "RetryChkDone").state)
  /\ \E out \in IF RunOut /\ Acquire(r) THEN BOOLEAN ELSE {FALSE} :
       IF out THEN /\ SetTimer(r, "off") /\ CallEndfn(r) /\ Ref(r, -1)
                   /\ Thread("hk", r, "free")
              ELSE /\ SetTimer(r, "on") /\ Thread("hk", r, "add")
                   /\ UNCHANGED <<ended, ref>>
  /\ UNCHANGED <<inPool, workQ, locked, sub, hkTask, hkScan, link>>

-----------------------------------------------------------------------------
Sender(r)  == Peek(r) \/ SendDone(r) \/ Transmit(r) \/ CacheHit(r)
Finisher   == \E t \in Threads : EndReq(t) \/ FreeReq(t)
Timer(r)   == TimeoutFire(r) \/ TimeoutEnd(r) \/ TimeoutFree(r)
Retry      == RetryStart \/ \E r \in Req : RetryScan(r) \/ RetryReq(r) \/ RetryAdd(r)

Next == \/ \E r \in Req : \/ SubmitMDReq(r) \/ SubmitAdd(r) \/ Sender(r)
                          \/ Answer(r) \/ Timer(r)
        \/ Finisher \/ Retry \/ ConnLost \/ ConnBack

Spec == Init /\ [][Next]_vars

(***************************************************************************)
(* Fairness: the threads of the driver run while they have work, and timers *)
(* fire.  Nothing is assumed here of the connection or the namenode.        *)
(***************************************************************************)
FairSpec ==
  /\ Spec
  /\ \A r \in Req : /\ WF_vars(SubmitAdd(r)) /\ WF_vars(Timer(r))
                    /\ WF_vars(Sender(r))
  /\ WF_vars(Finisher) /\ WF_vars(Retry)

-----------------------------------------------------------------------------
(* Every variable keeps its type; references are never dropped twice.       *)
TypeOK ==
  /\ stat \in [Req -> NNMDReqStates \cup {"None", "Freed"}]
  /\ inPool \subseteq Req /\ workQ \subseteq Req /\ sub \subseteq Req
  /\ timer \in [Req -> {"off", "on", "run", "free"}]
  /\ ref \in [Req -> Nat] /\ ended \in [Req -> Nat]
  /\ thr \in [Threads -> (Req \X {"send", "tx", "end", "free", "add"}) \cup {Idle}]
  /\ hkTask \in Nat /\ hkScan \subseteq Req /\ rlist \subseteq Req
  /\ conn \in BOOLEAN /\ lost \in 0 .. MaxLost /\ net \in [Req -> Nat]
  /\ locked \subseteq 0 .. NBuckets - 1

(***************************************************************************)
(* The reference count of a request is the number of those that use it: its *)
(* caller, a worker, the receiver, housekeeping, and its timer handler      *)
(* (NNMDReq_ref_Req and NNMDReq_deref_Req).  NNMDReq_free_Req waits for 0.  *)
(***************************************************************************)
Users(r) == {t \in Threads : thr[t][1] = r /\ thr[t][2] # "free"}
              \cup (IF r \in sub THEN {"caller"} ELSE {})
              \cup (IF r \in rlist THEN {"retry list"} ELSE {})
              \cup (IF timer[r] = "run" THEN {"timer"} ELSE {})
RefsAreUsers == \A r \in Req : ref[r] = Cardinality(Users(r))

(***************************************************************************)
(* A freed request has answered its caller once and cannot be reached any   *)
(* more: it is not in the pool or a queue, its timer is off, and no thread  *)
(* is working on it (NNMDReq_free_Req).                                     *)
(***************************************************************************)
FreedIsDone ==
  \A r \in Req : /\ ended[r] <= 1
                 /\ stat[r] = "Freed" =>
                      /\ ended[r] = 1 /\ timer[r] = "off"
                      /\ r \notin inPool \cup workQ \cup sub \cup rlist
                      /\ \A t \in Threads : thr[t][1] # r

(***************************************************************************)
(* In every state of a request somebody is about to move it on, as the      *)
(* comments on the states say ("Request stay at socket sender's worker      *)
(* queue", "Socket sender is processing Request", ...): otherwise a report, *)
(* which has no timeout, would be stuck.                                    *)
(***************************************************************************)
Attended ==
  \A r \in Req :
    /\ stat[r] = "WAIT_SEND" => r \in workQ \cup sub \/ thr["hk"] \in {<<r, "add">>, <<r, "free">>}
    /\ stat[r] = "SENDING"   => thr[Worker(r)] = <<r, "send">>
    /\ stat[r] = "WAIT_RESP" => r \in inPool
    /\ stat[r] = "PROCESS_RESP" => \E t \in {"ch", "rx"} : thr[t][1] = r
    /\ stat[r] = "RETRY_REQ" => r \in rlist
    /\ stat[r] = "TIMEOUT_FIRE" => timer[r] \in {"run", "free"}

(***************************************************************************)
(* The lock of a bucket is released by whoever took it ("Return: bucket ID  *)
(* for other API - add to queue - unlock", NNMDReqPool_acquire_plock).      *)
(***************************************************************************)
LocksReleased == locked = {}

(***************************************************************************)
(* An acquire request ends whatever happens to the connection, by an answer *)
(* or by its timer.                                                         *)
(***************************************************************************)
AcquireEnds ==
  \A r \in Req : Acquire(r) => (stat[r] # "None" ~> stat[r] = "Freed")

(* A report ends if a lost connection comes back and the namenode answers   *)
(* what it receives: housekeeping sends it again.                           *)
ReportEnds ==
  WF_vars(ConnBack) /\ (\A r \in Req : WF_vars(Answer(r)))
    => \A r \in Req : stat[r] # "None" ~> stat[r] = "Freed"

(* The life of a request is safe: references are its users, and a freed     *)
(* request was answered once and is reached by nobody (NNMDReq_free_Req).   *)
RequestIsSafe == TypeOK /\ RefsAreUsers /\ FreedIsDone

(* Every request ends: an acquire whatever happens, a report when the       *)
(* namenode can be reached again.                                           *)
RequestsEnd == AcquireEnds /\ ReportEnds
=============================================================================
