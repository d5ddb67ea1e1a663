------------------------------ MODULE IOWorker ------------------------------
(***************************************************************************)
(* From the request queues of the block layer to io_request_t: the request  *)
(* function of the volumes (drv_blkdev.c), the list of requests a volume    *)
(* keeps for merging and its activity state (volume_manager.c), the io      *)
(* workers that merge neighbouring writes (io_worker_manager.c), and the    *)
(* submission and end of the merged request (discoC_IO_Manager.c,           *)
(* discoC_IODone_worker.c).  What happens inside an io_request_t is the     *)
(* subject of IORequest; here it ends with an arbitrary result.             *)
(*                                                                          *)
(* One step per critical section: the code takes the lock of the list, of   *)
(* the activity state and of the active list one after the other.           *)
(***************************************************************************)
EXTENDS IOReqFSM, Integers, Sequences, FiniteSets, SequencesExt, FiniteSetsExt

CONSTANTS
  Vol,             \* the volumes
  Rq,              \* the requests of the block layer
  rq,              \* rq[r]: [vol, dir, pos, len], dir one of Dirs
  Arrivals,        \* the orders in which the block layer hands them over
  Fn,              \* contexts that run dms_io_request_fn
  Wker,            \* the io workers
  MaxSects,        \* MAX_SECTS_PER_RQ
  MaxMerge,        \* MAX_NUM_RQS_MERGE
  MergeEnable,     \* dms_client_config->req_merge_enable
  RwPerm,          \* RwPerm[v]: the directions vol_no_perm_to_io lets through
  IOResults,       \* results of an io_request_t
  AllocFails       \* TRUE: the dms_rq_t or the io_request_t of a request may not
                   \* be allocated

Dirs == {"READ", "WRITE", "FLUSH"}

ASSUME RqAssumption ==
  /\ \A r \in Rq : /\ rq[r].vol \in Vol /\ rq[r].dir \in Dirs /\ rq[r].pos \in Nat
                   /\ rq[r].len \in IF rq[r].dir = "FLUSH" THEN {0} ELSE 1..MaxSects
  /\ Arrivals \subseteq Seq(Rq) /\ IsFiniteSet(Rq) /\ IsFiniteSet(Vol)
ASSUME WorkerAssumption == MaxSects \in Nat \ {0} /\ MaxMerge \in Nat \ {0}
ASSUME SwitchAssumption ==
  /\ MergeEnable \in BOOLEAN /\ AllocFails \in BOOLEAN
  /\ IOResults \subseteq BOOLEAN /\ RwPerm \in [Vol -> SUBSET {"READ", "WRITE"}]

VARIABLES
  fresh,        \* requests the block layer will still hand over
  fn,           \* fn[f]: [pc, rq, seen] of a context of the request function
  list,         \* list[v]: vol_rqs_list
  cnt_rqs,      \* its counter, read without the lock
  sect_start,   \* first sector of the list not submitted yet
  sects,        \* sects[v]["READ"/"WRITE"]: r_sects and w_sects
  act_stat,     \* vol_act_stat
  agg_wait,     \* rq_agg_wait_cnt
  active,       \* active_vol_list
  wk,           \* wk[w]: [pc, vol, batch, idx, sect] of an io worker
  num_ref_ior,  \* io_request_t that refer to a request
  result,       \* dmsrq->result
  ans,          \* the answer given to the block layer
  lgr_rqs,      \* requests of a volume that are not answered
  linger,       \* io_cnt: io_request_t of a volume that are not freed
  ior,          \* the io_request_t: [rqs, vol, dir, sect, len, st, ld]
  part,         \* history: part[r]: the sector ranges of r submitted, with results
  noior         \* history: noior[r]: a submission of r failed and told r ("told")
                \* or did not ("missed")

queue   == <<list, cnt_rqs, sect_start, sects>>
answers == <<num_ref_ior, result, ans, lgr_rqs>>
vars == <<fresh, fn, queue, act_stat, agg_wait, active, wk, answers, linger, ior,
          part, noior>>

Idle(pc) == [pc |-> pc, rq |-> "none", seen |-> {}]
At(pc, v, remain) == [pc |-> pc, vol |-> v, batch |-> <<>>, idx |-> 1, sect |-> 0,
                      remain |-> remain]
Waiting == At("wait", "none", FALSE)

Init ==
  /\ fresh \in Arrivals
  /\ fn = [f \in Fn |-> Idle("idle")]
  /\ list = [v \in Vol |-> <<>>] /\ cnt_rqs = [v \in Vol |-> 0]
  /\ sect_start = [v \in Vol |-> 0]
  /\ sects = [v \in Vol |-> [d \in {"READ", "WRITE"} |-> 0]]
  /\ act_stat = [v \in Vol |-> "Deactive"] /\ agg_wait = [v \in Vol |-> 0]
  /\ active = <<>>
  /\ wk = [w \in Wker |-> Waiting]
  /\ num_ref_ior = [r \in Rq |-> 0] /\ result = [r \in Rq |-> TRUE]
  /\ ans = [r \in Rq |-> "none"] /\ lgr_rqs = [v \in Vol |-> 0]
  /\ linger = [v \in Vol |-> 0] /\ ior = {} /\ part = [r \in Rq |-> {}]
  /\ noior = [r \in Rq |-> "no"]

End(r) == rq[r].pos + rq[r].len

-----------------------------------------------------------------------------
(***************************************************************************)
(* Answers.  commit_user_request: the request is ended, lgr_rqs counted     *)
(* down.  Drop(S, res): the references of one io_request_t on S are given   *)
(* up with res[r] in dmsrq->result, the last one answers the user.          *)
(***************************************************************************)
Answered(S, res) == [r \in Rq |-> IF r \in S THEN IF res[r] THEN "ok" ELSE "fail"
                                  ELSE ans[r]]

commit_user_request(S, res) ==
  /\ ans' = Answered(S, res)
  /\ lgr_rqs' = [v \in Vol |-> lgr_rqs[v] - Cardinality({r \in S : rq[r].vol = v})]

Drop(S, res) ==
  /\ result' = [r \in Rq |-> IF r \in S THEN res[r] ELSE result[r]]
  /\ num_ref_ior' = [r \in Rq |-> num_ref_ior[r] - (IF r \in S THEN 1 ELSE 0)]
  /\ commit_user_request({r \in S : num_ref_ior[r] = 1}, res)

(* IOMgr_submit_IOReq, when the waits of _submit_alloc_IOR for a blocked or *)
(* yielding volume are over: n requests of rqs from index i, sectors sect to *)
(* sect + len, with the references refs; _init_IOR_fail_free_allRQ answers  *)
(* the array from i to n, which are the requests only when i is its start.  *)
InitIOR(rqs, i, n, sect, len) ==
  [rqs |-> {rqs[k] : k \in i .. i + n - 1}, vol |-> rq[rqs[i]].vol, dir |-> rq[rqs[i]].dir,
   sect |-> sect, len |-> len, st |-> IOReq_update_state("INIT", "INIT_DONE")[1],
   ld |-> <<>>]

PartOf(r, x) == [lo |-> Max({x.sect, rq[r].pos}), hi |-> Min({x.sect + x.len, End(r)}),
                 res |-> "none"]

init_IOR_fail_free_allRQ(rqs, i, n) == {rqs[k] : k \in i .. n}

SubmitOk(x, refs) ==
  /\ ior' = ior \cup {x}
  /\ linger' = [linger EXCEPT ![x.vol] = @ + 1]
  /\ part' = [r \in Rq |-> part[r] \cup IF r \in x.rqs THEN {PartOf(r, x)} ELSE {}]
  /\ num_ref_ior' = refs
  /\ UNCHANGED <<result, ans, lgr_rqs, noior>>

SubmitFails(x, told, refs) ==
  /\ AllocFails
  /\ result' = [r \in Rq |-> result[r] /\ r \notin told]
  /\ num_ref_ior' = [r \in Rq |-> refs[r] - (IF r \in told THEN 1 ELSE 0)]
  /\ commit_user_request({r \in told : refs[r] = 1}, [r \in Rq |-> FALSE])
  /\ noior' = [r \in Rq |-> IF r \in x.rqs \ told THEN "missed"
                            ELSE IF r \in told THEN "told" ELSE noior[r]]
  /\ UNCHANGED <<ior, linger, part>>

IOMgr_submit_IOReq(rqs, i, n, sect, len, refs) ==
  LET x == InitIOR(rqs, i, n, sect, len)
  IN SubmitOk(x, refs) \/ SubmitFails(x, init_IOR_fail_free_allRQ(rqs, i, n), refs)

-----------------------------------------------------------------------------
(* The activity state: a volume is in the active list or with a worker      *)
(* exactly when it is Active.                                               *)
DoEnActiveQ(v, op) ==
  /\ act_stat[v] = (IF op = "EnqRqs" THEN "Deactive" ELSE "Active")
  /\ cnt_rqs[v] > 0

NextActStat_Lazy(v, op) ==   \* mutant: the count is not looked at again
  IF op = "EnqRqs" THEN "Active" ELSE "Deactive"

NextActStat(v, op) ==
  CASE op = "EnqRqs" /\ act_stat[v] = "Deactive" /\ cnt_rqs[v] > 0 -> "Active"
    [] op = "RqsDone" /\ act_stat[v] = "Active" /\ cnt_rqs[v] = 0  -> "Deactive"
    [] OTHER                                                       -> act_stat[v]

update_vol_active_stat(v, op) == act_stat' = [act_stat EXCEPT ![v] = NextActStat(v, op)]

enq_vol_active_list(v) ==
  active' = IF v \in Range(active) THEN active ELSE Append(active, v)

-----------------------------------------------------------------------------
(***************************************************************************)
(* dms_io_request_fn.                                                       *)
(***************************************************************************)
Go(f, pc) == fn' = [fn EXCEPT ![f] = IF pc \in {"idle", "nolock"} THEN Idle(pc)
                                     ELSE [@ EXCEPT !.pc = pc]]

FetchRq(f) ==
  /\ fn[f].pc \in {"idle", "nolock"} /\ fresh # <<>>
  /\ fresh' = Tail(fresh)
  /\ lgr_rqs' = [lgr_rqs EXCEPT ![rq[Head(fresh)].vol] = @ + 1]
  /\ fn' = [fn EXCEPT ![f] = [pc |-> "got", rq |-> Head(fresh), seen |-> {}]]
  /\ UNCHANGED <<queue, act_stat, agg_wait, active, wk, num_ref_ior, result, ans, linger,
                 ior, part, noior>>

Pending(v) == {r \in Rq : /\ rq[r].vol = v /\ rq[r].dir # "FLUSH" /\ ans[r] = "none"
                           /\ \/ num_ref_ior[r] > 0 \/ r \in Range(list[v])
                              \/ \E f \in Fn : fn[f].rq = r
                              \/ \E w \in Wker : r \in Range(wk[w].batch)}

(* A flush does not count as a request; it waits for those that do.         *)
StartFlush(f) ==
  LET v == rq[fn[f].rq].vol
  IN /\ fn[f].pc = "got" /\ rq[fn[f].rq].dir = "FLUSH"
     /\ lgr_rqs' = [lgr_rqs EXCEPT ![v] = @ - 1]
     /\ fn' = [fn EXCEPT ![f] = [pc |-> "flush", rq |-> @.rq, seen |-> Pending(v)]]
     /\ UNCHANGED <<fresh, queue, act_stat, agg_wait, active, wk, num_ref_ior, result, ans,
                    linger, ior, part, noior>>

is_vol_io_done_NoRqs(v) == linger[v] = 0     \* mutant: chk_rqs is false

is_vol_io_done(v) == linger[v] = 0 /\ lgr_rqs[v] = 0

(* dms_io_request_w_bar: waits for the volume, or gives up after            *)
(* MAX_RETRY_CNT waits of max_io_flush_wait_time.                           *)
EndFlush(f) ==
  /\ fn[f].pc = "flush"
  /\ ans' = [ans EXCEPT ![fn[f].rq] = IF is_vol_io_done(rq[fn[f].rq].vol) THEN "ok" ELSE "fail"]
  /\ Go(f, "idle")
  /\ UNCHANGED <<fresh, queue, act_stat, agg_wait, active, wk, num_ref_ior, result, lgr_rqs,
                 linger, ior, part, noior>>

vol_no_perm_to_io(v, dir) == dir \notin RwPerm[v]

(* A request is refused without permission, or when init_dms_rq finds no    *)
(* memory.  The first branch goes back to the loop without taking the queue *)
(* lock again ("nolock").                                                   *)
Refuse(f) ==
  LET r == fn[f].rq  noPerm == vol_no_perm_to_io(rq[r].vol, rq[r].dir)
  IN /\ fn[f].pc = "got" /\ rq[r].dir # "FLUSH"
     /\ noPerm \/ AllocFails
     /\ commit_user_request({r}, [q \in Rq |-> FALSE])
     /\ Go(f, IF noPerm THEN "nolock" ELSE "idle")
     /\ UNCHANGED <<fresh, queue, act_stat, agg_wait, active, wk, num_ref_ior, result, linger,
                    ior, part, noior>>

(* A read that finds no request waiting goes round the list.                *)
Direct(r) == ~MergeEnable \/ (rq[r].dir = "READ" /\ cnt_rqs[rq[r].vol] = 0)

SubmitDirect(f) ==
  LET r == fn[f].rq
  IN /\ fn[f].pc = "got" /\ rq[r].dir # "FLUSH"
     /\ ~vol_no_perm_to_io(rq[r].vol, rq[r].dir) /\ Direct(r)
     /\ IOMgr_submit_IOReq(<<r>>, 1, 1, rq[r].pos, rq[r].len, [num_ref_ior EXCEPT ![r] = 1])
     /\ Go(f, "idle")
     /\ UNCHANGED <<fresh, queue, act_stat, agg_wait, active, wk>>

enq_dmsrq_vol_list(f) ==
  LET r == fn[f].rq  v == rq[r].vol
  IN /\ fn[f].pc = "got" /\ rq[r].dir # "FLUSH"
     /\ ~vol_no_perm_to_io(v, rq[r].dir) /\ ~Direct(r)
     /\ list' = [list EXCEPT ![v] = Append(@, r)]
     /\ cnt_rqs' = [cnt_rqs EXCEPT ![v] = @ + 1]
     /\ sect_start' = IF cnt_rqs[v] = 0 THEN [sect_start EXCEPT ![v] = rq[r].pos] ELSE sect_start
     /\ sects' = [sects EXCEPT ![v][rq[r].dir] = @ + rq[r].len]
     /\ Go(f, "enq")
     /\ UNCHANGED <<fresh, act_stat, agg_wait, active, wk, answers, linger, ior, part, noior>>

EnqRqs_NoWake(f) ==   \* mutant: the reaction is not looked at
  /\ fn[f].pc = "enq"
  /\ update_vol_active_stat(rq[fn[f].rq].vol, "EnqRqs")
  /\ Go(f, "idle")
  /\ UNCHANGED <<fresh, queue, agg_wait, active, wk, answers, linger, ior, part, noior>>

EnqRqs(f) ==
  LET v == rq[fn[f].rq].vol
  IN /\ fn[f].pc = "enq"
     /\ update_vol_active_stat(v, "EnqRqs")
     /\ Go(f, IF DoEnActiveQ(v, "EnqRqs") THEN "wake" ELSE "idle")
     /\ UNCHANGED <<fresh, queue, agg_wait, active, wk, answers, linger, ior, part, noior>>

WakeWorker(f) ==
  /\ fn[f].pc = "wake"
  /\ enq_vol_active_list(rq[fn[f].rq].vol)
  /\ Go(f, "idle")
  /\ UNCHANGED <<fresh, queue, act_stat, agg_wait, wk, answers, linger, ior, part, noior>>

-----------------------------------------------------------------------------
(***************************************************************************)
(* Merging.  Of the batch b from index i on, with sector s the first one    *)
(* not submitted: SumTo(b, i, s, k) sectors up to request k.                *)
(***************************************************************************)
rq_mergable(p, q) == rq[p].dir = rq[q].dir /\ rq[q].pos = End(p)

SumTo(b, i, s, k) == End(b[i]) - s + FoldLeft(LAMBDA n, r : n + rq[r].len, 0, SubSeq(b, i + 1, k))

(* Request k is merged with i..k-1, which leave room for it.                *)
Joins(b, i, s, k) ==
  /\ rq[b[i]].dir = "WRITE"
  /\ \A j \in i .. k - 1 : SumTo(b, i, s, j) < MaxSects /\ rq_mergable(b[j], b[j + 1])

MergeEnd(b, i, s) == Max({k \in i .. Len(b) : k = i \/ Joins(b, i, s, k)})

(* get_merge_len: the merged length, whether the last request is cut, the   *)
(* index to go on from, and the references the requests are given.          *)
get_merge_len_Whole(b, i, s) ==   \* mutant: the rest of a cut request is skipped
  LET e == MergeEnd(b, i, s)  n == SumTo(b, i, s, e)
  IN [end |-> e, len |-> Min({n, MaxSects}), cut |-> FALSE, next |-> e + 1,
      refs |-> [r \in Rq |-> IF r = b[i] THEN Max({num_ref_ior[r], 1})
                             ELSE IF r \in Range(SubSeq(b, i + 1, e)) THEN 1
                             ELSE num_ref_ior[r]]]

get_merge_len(b, i, s) ==
  LET e == MergeEnd(b, i, s)
      n == SumTo(b, i, s, e)
      cut == n > MaxSects
  IN [end |-> e, len |-> Min({n, MaxSects}), cut |-> cut,
      next |-> IF cut THEN e ELSE e + 1,
      refs |-> [r \in Rq |-> IF r = b[i] THEN Max({num_ref_ior[r], 1})
                             ELSE IF r \in Range(SubSeq(b, i + 1, e))
                             THEN IF cut /\ r = b[e] THEN 2 ELSE 1
                             ELSE num_ref_ior[r]]]

(* The tail of a batch that could still grow is put back, unless the whole  *)
(* batch is this tail and it is full or has waited already (force_io).      *)
PutBack(b, i, m, force) ==
  /\ rq[b[i]].dir = "WRITE" /\ m.len < MaxSects /\ m.end = Len(b)
  /\ ~(i = 1 /\ (Len(b) = MaxMerge \/ force))

(***************************************************************************)
(* dms_io_worker.                                                           *)
(***************************************************************************)
WGo(w, pc) == wk' = [wk EXCEPT ![w] = IF pc = "wait" THEN Waiting ELSE [@ EXCEPT !.pc = pc]]
WBatch(w, pc, b, i, s) ==
  wk' = [wk EXCEPT ![w] = [pc |-> pc, vol |-> @.vol, batch |-> b, idx |-> i, sect |-> s,
                           remain |-> @.remain]]

deq_vol_active_list(w) ==
  /\ wk[w].pc = "wait" /\ active # <<>>
  /\ wk' = [wk EXCEPT ![w] = At("deq", Head(active), FALSE)]
  /\ active' = Tail(active)
  /\ UNCHANGED <<fresh, fn, queue, act_stat, agg_wait, answers, linger, ior, part, noior>>

(* The sectors in direction d of the requests of b, less the skipped ones.  *)
Sectors(b, d, skip) == FoldLeft(LAMBDA n, r : n + (IF rq[r].dir = d THEN rq[r].len ELSE 0), 0, b)
                       - (IF b # <<>> /\ rq[b[1]].dir = d THEN skip ELSE 0)

deq_dms_rq_list(w) ==
  LET v == wk[w].vol
      n == Min({Len(list[v]), MaxMerge})
      b == SubSeq(list[v], 1, n)
  IN /\ wk[w].pc = "deq"
     /\ IF n = 0
        THEN WGo(w, "wait") /\ UNCHANGED queue
        ELSE /\ WBatch(w, "io", b, 1, sect_start[v])
             /\ list' = [list EXCEPT ![v] = SubSeq(@, n + 1, Len(@))]
             /\ cnt_rqs' = [cnt_rqs EXCEPT ![v] = @ - n]
             /\ sects' = [sects EXCEPT ![v] = [d \in {"READ", "WRITE"} |->
                            @[d] - Sectors(b, d, sect_start[v] - rq[b[1]].pos)]]
             /\ UNCHANGED sect_start
     /\ UNCHANGED <<fresh, fn, act_stat, agg_wait, active, answers, linger, ior, part, noior>>

(* One round of do_io_batch.                                                *)
do_io_batch(w) ==
  LET b == wk[w].batch  i == wk[w].idx  s == wk[w].sect
      m == get_merge_len(b, i, s)
  IN /\ wk[w].pc = "io"
     /\ IF PutBack(b, i, m, agg_wait[wk[w].vol] > 0)
        THEN /\ WGo(w, "putback") /\ num_ref_ior' = m.refs
             /\ UNCHANGED <<ior, linger, part, result, ans, lgr_rqs, noior>>
        ELSE /\ IOMgr_submit_IOReq(b, i, m.end - i + 1, s, m.len, m.refs)
             /\ WBatch(w, IF m.next > Len(b) THEN "done" ELSE "io", b, m.next,
                       IF m.cut THEN s + m.len
                       ELSE IF m.next > Len(b) THEN s ELSE rq[b[m.next]].pos)
     /\ UNCHANGED <<fresh, fn, queue, act_stat, agg_wait, active>>

RestStart(w) == wk[w].sect

enq_dmsrq_vol_list_batch(w) ==
  LET v == wk[w].vol
      b == SubSeq(wk[w].batch, wk[w].idx, Len(wk[w].batch))
      d == rq[Last(b)].dir
  IN /\ wk[w].pc = "putback"
     /\ list' = [list EXCEPT ![v] = b \o @]
     /\ cnt_rqs' = [cnt_rqs EXCEPT ![v] = @ + Len(b)]
     /\ sect_start' = [sect_start EXCEPT ![v] = RestStart(w)]
     /\ sects' = [sects EXCEPT ![v][d] = @ + Sectors(b, d, wk[w].sect - rq[b[1]].pos)]
     /\ agg_wait' = [agg_wait EXCEPT ![v] = @ + 1]
     /\ wk' = [wk EXCEPT ![w] = At("chk", v, TRUE)]
     /\ UNCHANGED <<fresh, fn, act_stat, active, answers, linger, ior, part, noior>>

update_vol_rq_list_start(w) ==
  LET v == wk[w].vol
  IN /\ wk[w].pc = "done"
     /\ sect_start' = IF list[v] = <<>> THEN sect_start
                      ELSE [sect_start EXCEPT ![v] = rq[Head(list[v])].pos]
     /\ agg_wait' = [agg_wait EXCEPT ![v] = 0]
     /\ wk' = [wk EXCEPT ![w] = At("chk", v, FALSE)]
     /\ UNCHANGED <<fresh, fn, list, cnt_rqs, sects, act_stat, active, answers, linger, ior,
                    part, noior>>

(* The worker leaves the volume to others when a volume is waiting for a    *)
(* worker; else it waits for more requests, or takes those that came.       *)
ChooseNext(w) ==
  LET v == wk[w].vol
      full == sects[v]["READ"] > 0 \/ sects[v]["WRITE"] >= MaxSects
  IN /\ wk[w].pc = "chk"
     /\ CASE active # <<>>    -> WGo(w, "leave") /\ UNCHANGED agg_wait
          [] active = <<>> /\ wk[w].remain ->
               /\ agg_wait' = [agg_wait EXCEPT ![v] = IF full THEN 0 ELSE 1]
               /\ WGo(w, IF full THEN "deq" ELSE "more")
          [] OTHER -> /\ WGo(w, IF cnt_rqs[v] > 0 THEN "deq" ELSE "leave")
                      /\ UNCHANGED agg_wait
     /\ UNCHANGED <<fresh, fn, queue, act_stat, active, answers, linger, ior, part, noior>>

(* The end of the wait for more requests (req_merge_wait_cnt intervals).    *)
WaitDone(w) ==
  /\ wk[w].pc = "more" /\ WGo(w, "deq")
  /\ UNCHANGED <<fresh, fn, queue, act_stat, agg_wait, active, answers, linger, ior, part, noior>>

RqsDone(w) ==
  LET v == wk[w].vol
  IN /\ wk[w].pc = "leave"
     /\ update_vol_active_stat(v, "RqsDone")
     /\ WGo(w, IF DoEnActiveQ(v, "RqsDone") THEN "requeue" ELSE "wait")
     /\ UNCHANGED <<fresh, fn, queue, agg_wait, active, answers, linger, ior, part, noior>>

Requeue(w) ==
  /\ wk[w].pc = "requeue"
  /\ enq_vol_active_list(wk[w].vol)
  /\ WGo(w, "wait")
  /\ UNCHANGED <<fresh, fn, queue, act_stat, agg_wait, answers, linger, ior, part, noior>>

-----------------------------------------------------------------------------
(***************************************************************************)
(* The end of an io_request_t.  ioReq_commit_user: dmsrq->result &= result  *)
(* is a load and a store, and the two io_request_t of a cut request hold    *)
(* different locks; a request with one reference needs no step of its own.  *)
(***************************************************************************)
Shared(x) == \E r \in x.rqs : num_ref_ior[r] > 1

LoadResults(x) ==
  /\ x \in ior /\ x.st = "RWUserData" /\ x.ld = <<>> /\ Shared(x)
  /\ ior' = (ior \ {x}) \cup {[x EXCEPT !.ld = [r \in x.rqs |-> result[r]]]}
  /\ UNCHANGED <<fresh, fn, queue, act_stat, agg_wait, active, wk, answers, linger, part, noior>>

ioReq_commit_user(x, ok) ==
  /\ x \in ior /\ x.st = "RWUserData" /\ (x.ld # <<>> \/ ~Shared(x))
  /\ ior' = (ior \ {x}) \cup {[x EXCEPT !.st = IOReq_update_state(@, "RWUDataDone")[1]]}
  /\ Drop(x.rqs, [r \in Rq |-> ok /\ IF x.ld = <<>> THEN result[r] ELSE r \in x.rqs /\ x.ld[r]])
  /\ part' = [r \in Rq |-> IF r \notin x.rqs THEN part[r]
                           ELSE (part[r] \ {PartOf(r, x)})
                                \cup {[PartOf(r, x) EXCEPT !.res = IF ok THEN "ok" ELSE "fail"]}]
  /\ UNCHANGED <<fresh, fn, queue, act_stat, agg_wait, active, wk, linger, noior>>

(* The IODone worker: the report to the namenode and the (empty) healing    *)
(* phase are over, vm_dec_iocnt, the request is freed.                      *)
fWker_free_ioReq(x) ==
  /\ x \in ior /\ x.st = "ReportMD"
  /\ LET heal == IOReq_update_state(x.st, "ReportMDDone")[1]
     IN IOReq_update_state(heal, "HealDone")[2] = "FreeReq"
  /\ ior' = ior \ {x}
  /\ linger' = [linger EXCEPT ![x.vol] = @ - 1]
  /\ UNCHANGED <<fresh, fn, queue, act_stat, agg_wait, active, wk, answers, part, noior>>

FnStep(f) == \/ StartFlush(f) \/ EndFlush(f) \/ Refuse(f) \/ SubmitDirect(f)
             \/ enq_dmsrq_vol_list(f) \/ EnqRqs(f) \/ WakeWorker(f)

WkerStep(w) == \/ deq_vol_active_list(w) \/ deq_dms_rq_list(w) \/ do_io_batch(w)
               \/ enq_dmsrq_vol_list_batch(w) \/ update_vol_rq_list_start(w)
               \/ ChooseNext(w) \/ WaitDone(w) \/ RqsDone(w) \/ Requeue(w)

IOStep(x) == \/ LoadResults(x) \/ fWker_free_ioReq(x)
             \/ \E ok \in IOResults : ioReq_commit_user(x, ok)

Next == \/ \E f \in Fn : FetchRq(f) \/ FnStep(f)
        \/ \E w \in Wker : WkerStep(w)
        \/ \E x \in ior : IOStep(x)

Spec == Init /\ [][Next]_vars

(* Some enabled step is taken: less than the scheduling of every context    *)
(* and worker by the kernel, and enough, because no step undoes another.    *)
Fairness == WF_vars(Next)

FairSpec == Spec /\ Fairness

-----------------------------------------------------------------------------
TypeOK ==
  /\ fresh \in Seq(Rq) /\ noior \in [Rq -> {"no", "told", "missed"}]
  /\ \A v \in Vol : /\ list[v] \in Seq(Rq) /\ cnt_rqs[v] = Len(list[v])
                    /\ act_stat[v] \in {"Deactive", "Active"}
                    /\ sects[v]["READ"] >= 0 /\ sects[v]["WRITE"] >= 0
                    /\ lgr_rqs[v] >= 0 /\ linger[v] >= 0
  /\ \A r \in Rq : num_ref_ior[r] \in 0..2 /\ ans[r] \in {"none", "ok", "fail"}

(* A volume with requests waiting is never forgotten: while its list is not *)
(* empty, it is in the active list, with a worker, or with a context that   *)
(* is about to list it; and never with two of them, so that two workers     *)
(* never take requests of one volume (update_vol_active_stat).              *)
Holders(v) == {w \in Wker : wk[w].pc # "wait" /\ wk[w].vol = v}
              \cup {f \in Fn : fn[f].pc = "wake" /\ rq[fn[f].rq].vol = v}
OneHolder ==
  \A v \in Vol :
    /\ Cardinality(Holders(v)) + (IF v \in Range(active) THEN 1 ELSE 0) <= 1
    /\ list[v] # <<>> => \/ v \in Range(active) \/ Holders(v) # {}
                         \/ \E f \in Fn : fn[f].pc = "enq" /\ rq[fn[f].rq].vol = v

(* Merging and cutting keep the user's request whole: the ranges submitted  *)
(* for it never overlap, lie inside it, and a request is answered (by a     *)
(* submission that was accepted) only when they cover it and all have       *)
(* ended (get_merge_len, do_io_batch, enq_dmsrq_vol_list_batch).            *)
WholeRequest ==
  \A r \in Rq :
    /\ \A p \in part[r] : rq[r].pos <= p.lo /\ p.lo < p.hi /\ p.hi <= End(r)
    /\ \A p, q \in part[r] : p # q => p.hi <= q.lo \/ q.hi <= p.lo
    /\ ans[r] # "none" /\ part[r] # {} /\ noior[r] = "no"
         => /\ \A p \in part[r] : p.res # "none"
            /\ FoldSet(LAMBDA p, n : n + p.hi - p.lo, 0, part[r]) = rq[r].len

(* An answer reports the result of the IO: failed only if a part failed,    *)
(* and, when one io_request_t carried the request, ok only if it succeeded. *)
AnswerIsReal ==
  \A r \in Rq : part[r] # {} /\ ans[r] # "none" /\ noior[r] = "no" =>
    /\ ans[r] = "fail" => \E p \in part[r] : p.res = "fail"
    /\ ans[r] = "ok" /\ Cardinality(part[r]) = 1 => \A p \in part[r] : p.res = "ok"

(* An answer stands for the whole request and for its own result.           *)
AnswersAreWhole == TypeOK /\ WholeRequest /\ AnswerIsReal

(* A flush answered with success comes after every request of the volume    *)
(* that the driver had taken before it (dms_io_request_w_bar, lgr_rqs).     *)
FlushIsBarrier ==
  [][\A f \in Fn : fn[f].pc = "flush" /\ ans'[fn[f].rq] = "ok" =>
        \A r \in fn[f].seen : ans[r] # "none"]_vars

(* Every request the driver takes is answered, unless its io_request_t      *)
(* could not be allocated and _init_IOR_fail_free_allRQ did not reach it.   *)
Outstanding == {r \in UNION {Pending(v) : v \in Vol} : noior[r] # "missed"}
                 \cup {r \in Rq : ans[r] = "none" /\ \E f \in Fn : fn[f].rq = r}
EveryRqAnswered == Outstanding # {} ~> Outstanding = {}
=============================================================================
