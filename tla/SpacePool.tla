------------------------------ MODULE SpacePool ------------------------------
(***************************************************************************)
(* The preallocated space of one volume (metadata_manager/space_*.c, built  *)
(* with DISCO_PREALLOC_SUPPORT).  First writes take blocks from the chunks   *)
(* the namenode granted; a write that finds too few parks on the volume's    *)
(* wait queue and asks for more; what was taken is told to the namenode      *)
(* later, by tasks of the commit worker, and answered from the chunk cache   *)
(* until then.  The namenode's answers are handled by one thread, which also *)
(* serves the parked writes.  The administrator's ioctls and the detach give *)
(* space back and flush.  Every operation on the pool is one step, since it  *)
(* holds the pool's space_plock.  Memory is never exhausted here.            *)
(***************************************************************************)
EXTENDS MDItem, SpaceFSM, FiniteSets, FiniteSetsExt

CONSTANTS
  Writer,         \* the first writes (segment requests)
  Lb, Len_,       \* the blocks of a writer: Lb[w] .. Lb[w] + Len_[w] - 1
  Block,          \* the blocks of the volume
  Extra,          \* the namenode grants up to Extra blocks more than asked for
  FlushCriteria,  \* sm_get_flush_criteria: FLUSH_NUM_ASCHUNK
  Ioctl,          \* the ioctls issued, each once: subset of "alloc", "flush", "return", "detach"
  QuietDetach     \* a volume is detached with no preallocation outstanding

ASSUME SpaceAssumption ==
  /\ "ack" \notin Writer /\ "none" \notin Writer
  /\ Lb \in [Writer -> Nat] /\ Len_ \in [Writer -> Nat]
  /\ Extra \in Nat
  /\ Ioctl \subseteq {"alloc", "flush", "return", "detach"}

VARIABLES
  fs,      \* space_chunk_pool: the free chunks
  as,      \* alloc_chunk_pool: the allocated chunks the namenode was not told of
  size,    \* fsSize_remaining and fsSize_requesting
  cpool,   \* the chunk cache: the allocated chunk of a block
  up,      \* the volume's pool is in the table
  waitq,   \* ioSReq_fw_waitpool: the parked writers
  fwlock,  \* the thread in ioSReq_fw_waitplock: a writer, "ack" or "none"
  wr,      \* a writer: its place, its locals and the chunks it was given
  wq,      \* fs_task_workq
  sent,    \* requests at the namenode
  reps,    \* answers on their way back
  ack,     \* the thread that handles the answers
  adm,     \* the thread of the ioctls
  asked,   \* ioctls issued
  nn       \* the namenode: grants and their size, the units it was told of, the ids given back
vars == <<fs, as, size, cpool, up, waitq, fwlock, wr, wq, sent, reps, ack, adm, asked, nn>>

NoUnit == [id |-> 0, lb |-> 0, len |-> 0, hbid |-> 0, off |-> 0, st |-> "none"]
Total(s) == FoldLeft(LAMBDA n, c : n + c.len, 0, s)
(* The elements of s that are in S, in their order.                          *)
Among(s, S) == FoldLeft(LAMBDA q, c : IF c \in S THEN Append(q, c) ELSE q, <<>>, s)
BlocksIn(u) == u.lb .. u.lb + u.len - 1

-----------------------------------------------------------------------------
(* A free chunk of a grant.                                                  *)
fschunk_init_chunk(id, g) ==
  [id |-> id, len |-> g.len, hbid |-> g.hbid, off |-> g.off,
   st |-> init_fschunk_state_fsm.st, n |-> init_fschunk_state_fsm.n]

(* Mutant: the chunk keeps its first HBID when a part of it is allocated.    *)
fschunk_alloc_space_SameHBID(c, lb, need) ==
  LET a  == update_fschunk_state(c, "AllocSpace")
      sz == IF c.len >= need THEN need ELSE c.len
  IN IF a.act # "DO_Alloc" THEN [ok |-> FALSE, c |-> c, u |-> NoUnit]
     ELSE [ok |-> TRUE,
           c  |-> update_fschunk_state([a.c EXCEPT !.len = @ - sz, !.off = @ + sz], "AllocDONE").c,
           u  |-> [id |-> c.id, lb |-> lb, len |-> sz, hbid |-> c.hbid, off |-> c.off,
                   st |-> init_aschunk_state_fsm]]

fschunk_alloc_space(c, lb, need) ==
  LET a  == update_fschunk_state(c, "AllocSpace")
      sz == IF c.len >= need THEN need ELSE c.len
  IN IF a.act # "DO_Alloc" THEN [ok |-> FALSE, c |-> c, u |-> NoUnit]
     ELSE [ok |-> TRUE,
           c  |-> update_fschunk_state(
                    [id |-> c.id, len |-> c.len - sz, hbid |-> c.hbid + sz, off |-> c.off + sz,
                     st |-> a.c.st, n |-> a.c.n], "AllocDONE").c,
           u  |-> [id |-> c.id, lb |-> lb, len |-> sz, hbid |-> c.hbid, off |-> c.off,
                   st |-> init_aschunk_state_fsm]]

aschunk_commit_chunk(u) == [u EXCEPT !.st = update_aschunk_state(@, "Commit")]

(* Invalidation of a chunk; it is never Allocating outside space_plock, so   *)
(* the busy wait for DO_Retry does not turn.                                 *)
fschunk_invalidate_chunk(c) == update_fschunk_state(c, "InvalidateSpace")

-----------------------------------------------------------------------------
(* The chunk cache.  An entry is the chunk a block was last allocated in.    *)
smcache_init_cache == [b \in Block |-> NoUnit]

smcache_add_aschunk(cp, u) == [b \in Block |-> IF b \in BlocksIn(u) THEN u ELSE cp[b]]

(* Mutant: one block too many is taken out.                                  *)
smcache_rm_aschunk_OneMore(cp, u) ==
  [b \in Block |-> IF b \in u.lb .. u.lb + u.len THEN NoUnit ELSE cp[b]]

smcache_rm_aschunk(cp, u) == [b \in Block |-> IF b \in BlocksIn(u) THEN NoUnit ELSE cp[b]]

(* What the cache knows of the n blocks from lb on: the HBID and the place   *)
(* of each (both replicas of a chunk lie on the same two datanodes).         *)
_smcache_find_aschunk_nolock(lb, n) == [i \in 1..n |-> cpool[lb + i - 1]]

ItemOf(u, b) ==
  [hbid |-> u.hbid + (b - u.lb),
   locs |-> <<[dn |-> 1 + (u.id % 2), r |-> u.id, o |-> u.off + (b - u.lb)]>>]

(* _smcache_create_metadata and _smcache_merge_triplet compute what          *)
(* metadata_cache.c does.                                                    *)
_smcache_create_metadata(items) == create_metadata(items)

smcache_query_MData(lb, n) ==
  LET bk == _smcache_find_aschunk_nolock(lb, n)
      it == [i \in 1..n |-> IF bk[i] = NoUnit THEN Miss ELSE ItemOf(bk[i], lb + i - 1)]
      p  == get_max_seg_len(it)
  IN [k \in DOMAIN p |->
       [lb |-> lb + p[k][1] - 1, len |-> p[k][2] - p[k][1] + 1,
        items |-> IF it[p[k][1]] = Miss THEN <<>>
                  ELSE _smcache_create_metadata(SubSeq(it, p[k][1], p[k][2]))]]

-----------------------------------------------------------------------------
(* Tasks of the commit worker.  by: the thread that waits for the task;      *)
(* cb: a preallocation that serves the wait queue when it ends.              *)
PreallocTask(len, cb) == [kind |-> "prealloc", len |-> len, cb |-> cb, by |-> "none"]
FlushTask(u, by) == [kind |-> "flush", u |-> u, by |-> by]
ReturnTask(c, by) == [kind |-> "return", id |-> c.id, hbid |-> c.hbid, by |-> by]

(* _fspool_report_chunk_alloc: the committed chunks of the pool, now         *)
(* flushing, and the tasks that tell the namenode of them.                   *)
Flushable(s) == Among(s, {u \in ToSet(s) : u.st = "Committed"})
Flushed(s) == [i \in DOMAIN s |-> [s[i] EXCEPT !.st = update_aschunk_state(@, "FlushSpace")]]
FlushTasks(s, by) == [i \in DOMAIN Flushable(s) |-> FlushTask(Flushable(s)[i], by)]

(* _fspool_alloc_space: blocks for a writer from the first chunk on, a chunk *)
(* that is used up leaving the list.  A chunk that refuses ends it (-ENOMEM) *)
AllocFrom(acc, c) ==
  LET r == fschunk_alloc_space(c, acc.lb, acc.need)
  IN IF acc.need = 0 \/ ~acc.ok THEN [acc EXCEPT !.fs = Append(@, c)]
     ELSE IF ~r.ok THEN [acc EXCEPT !.ok = FALSE, !.fs = Append(@, c)]
     ELSE [lb |-> acc.lb + r.u.len, need |-> acc.need - r.u.len, ok |-> TRUE,
           fs |-> IF r.c.len = 0 THEN acc.fs ELSE Append(acc.fs, r.c),
           us |-> Append(acc.us, aschunk_commit_chunk(r.u))]

_fspool_alloc_space(w) ==
  FoldLeft(AllocFrom, [lb |-> Lb[w], need |-> Len_[w], ok |-> TRUE, fs |-> <<>>, us |-> <<>>], fs)

(* One turn of fspool_alloc_space.  loc holds its locals: flush_all, whether *)
(* alloc_ret is -ENOMEM, and ret; they keep their values from turn to turn.  *)
NoTurn == [fl |-> FALSE, nomem |-> FALSE, ret |-> "OK"]

AllocTurn(w, loc) ==
  LET a     == IF size.remaining >= Len_[w] THEN _fspool_alloc_space(w)
               ELSE [ok |-> ~loc.nomem, fs |-> fs, us |-> <<>>]
      as1   == as \o a.us
      again == ~a.ok \/ Len(as1) > FlushCriteria
      flush == again /\ ~loc.fl
  IN [again |-> again,
      loc   |-> [fl |-> loc.fl \/ flush, nomem |-> ~a.ok,
                 ret |-> IF size.remaining >= Len_[w] THEN loc.ret
                         ELSE IF size.requesting > 0 THEN "WAIT" ELSE "NOSPACE"],
      us    |-> a.us,
      fs    |-> a.fs,
      as    |-> IF flush THEN Flushed(as1) ELSE as1,
      tasks |-> IF flush THEN FlushTasks(as1, "none") ELSE <<>>]

-----------------------------------------------------------------------------
fspool_init_pool == [remaining |-> 0, requesting |-> 0]

Init ==
  /\ fs = <<>> /\ as = <<>> /\ size = fspool_init_pool
  /\ cpool = smcache_init_cache
  /\ up = TRUE
  /\ waitq = <<>> /\ fwlock = "none"
  /\ wr = [w \in Writer |-> [pc |-> "idle", loc |-> NoTurn, md |-> <<>>]]
  /\ wq = <<>> /\ sent = <<>> /\ reps = <<>>
  /\ ack = [pc |-> "idle", cb |-> FALSE, w |-> "none", loc |-> NoTurn]
  /\ adm = [pc |-> "idle", cmd |-> "none", cnt |-> 0]
  /\ asked = {}
  /\ nn = [grants |-> <<>>, upto |-> 0, told |-> {}, back |-> {}]

(* The writer, or the answer thread for it, goes through one turn and, when  *)
(* fspool_alloc_space returns, through the rest of ioSReq_alloc_freeSpace.   *)
ioSReq_alloc_freeSpace(w, t) ==
  LET park == ~t.again /\ t.loc.ret # "OK"
      ask  == ~t.again /\ t.loc.ret = "NOSPACE"
  IN /\ fs' = t.fs /\ as' = t.as
     /\ cpool' = FoldLeft(smcache_add_aschunk, cpool, t.us)
     /\ size' = [remaining  |-> size.remaining - Total(t.us),
                 requesting |-> size.requesting + IF ask THEN 1 ELSE 0]
     /\ waitq' = IF park THEN Append(waitq, w) ELSE waitq
     /\ wr' = [wr EXCEPT ![w] =
                 [pc  |-> IF t.again THEN wr[w].pc ELSE IF park THEN "parked" ELSE "got",
                  loc |-> IF t.again /\ fwlock = w THEN t.loc ELSE NoTurn,
                  md  |-> wr[w].md \o t.us]]
     /\ wq' = wq \o t.tasks \o (IF ask THEN <<PreallocTask(Len_[w], TRUE)>> ELSE <<>>)

(* ioSReq_submit_acquireMD of a first write: the wait queue's lock ...       *)
WriterLocks(w) ==
  /\ wr[w].pc = "idle" /\ fwlock = "none" /\ "detach" \notin asked
  /\ fwlock' = w /\ wr' = [wr EXCEPT ![w].pc = "alloc"]
  /\ UNCHANGED <<fs, as, size, cpool, up, waitq, wq, sent, reps, ack, adm, asked, nn>>

(* ... and turns of the allocation until it returns, the lock held over the  *)
(* sleeps between them.                                                      *)
WriterAllocs(w) ==
  LET t == AllocTurn(w, wr[w].loc)
  IN /\ wr[w].pc = "alloc"
     /\ ioSReq_alloc_freeSpace(w, t)
     /\ fwlock' = IF t.again THEN w ELSE "none"
     /\ UNCHANGED <<up, sent, reps, ack, adm, asked, nn>>

-----------------------------------------------------------------------------
(* The commit worker: it sends the first task, and flushes now and then.     *)
discoC_send_fsReq(k) == sent' = Append(sent, k)

WorkerSends ==
  /\ wq # <<>>
  /\ wq' = Tail(wq) /\ discoC_send_fsReq(Head(wq))
  /\ UNCHANGED <<fs, as, size, cpool, up, waitq, fwlock, wr, reps, ack, adm, asked, nn>>

WorkerFlushes ==
  /\ up /\ Flushable(as) # <<>>
  /\ as' = Flushed(as) /\ wq' = wq \o FlushTasks(as, "none")
  /\ UNCHANGED <<fs, size, cpool, up, waitq, fwlock, wr, sent, reps, ack, adm, asked, nn>>

(* The namenode takes the requests in any order.  A preallocation is granted *)
(* in one chunk, of at least the blocks asked for.                           *)
NNAnswers ==
  \E i \in DOMAIN sent : \E x \in 0..Extra :
    LET k == sent[i]
    IN /\ sent' = RemoveAt(sent, i)
       /\ reps' = Append(reps, k)
       /\ k.kind # "prealloc" => x = 0
       /\ nn' = CASE k.kind = "prealloc" ->
                       [nn EXCEPT !.grants = Append(@, [len |-> k.len + x, off |-> nn.upto,
                                                        hbid |-> 1 + nn.upto]),
                                  !.upto = @ + k.len + x]
                  [] k.kind = "flush" -> [nn EXCEPT !.told = @ \cup {k.u}]
                  [] k.kind = "return" -> [nn EXCEPT !.back = @ \cup {<<k.id, k.hbid>>}]
       /\ UNCHANGED <<fs, as, size, cpool, up, waitq, fwlock, wr, wq, ack, adm, asked>>

-----------------------------------------------------------------------------
(* The grant an answered preallocation carries: the oldest one not yet used. *)
(* (The answers come back in the order the namenode gave them.)              *)
Preallocs(q) == Cardinality({i \in DOMAIN q : q[i].kind = "prealloc"})
GrantOf == Len(nn.grants) - Preallocs(reps) + 1

_fspool_add_fschunk(c) ==
  fs' = Append(fs, c) /\ size' = [size EXCEPT !.remaining = @ + c.len]

(* fsReq_process_preAllocAck, then _NNC_MDReq_preallocSpace_endfn: the chunk *)
(* joins the pool; the request is counted off; the wait queue is served.     *)
AckPrealloc ==
  /\ ack.pc = "idle" /\ reps # <<>> /\ Head(reps).kind = "prealloc"
  /\ reps' = Tail(reps)
  /\ LET c == fschunk_init_chunk(GrantOf, nn.grants[GrantOf])
     IN IF up THEN /\ _fspool_add_fschunk(c)
                   /\ ack' = [ack EXCEPT !.pc = "count", !.cb = Head(reps).cb]
        ELSE /\ ack' = [ack EXCEPT !.pc = "oops"] \* _fspool_add_fschunk(NULL)
             /\ UNCHANGED <<fs, size>>
  /\ UNCHANGED <<as, cpool, up, waitq, fwlock, wr, wq, sent, adm, asked, nn>>

AckCounts ==
  /\ ack.pc = "count"
  /\ size' = IF up THEN [size EXCEPT !.requesting = @ - 1] ELSE size
  /\ ack' = [ack EXCEPT !.pc = IF ack.cb THEN "lock" ELSE "idle", !.cb = FALSE]
  /\ UNCHANGED <<fs, as, cpool, up, waitq, fwlock, wr, wq, sent, reps, adm, asked, nn>>

(* ioSReq_preallocMD_endfn: the parked writers in turn, until one has to     *)
(* park again.                                                               *)
AckServes ==
  /\ \/ ack.pc = "lock" /\ fwlock = "none"
     \/ ack.pc = "serve"
  /\ IF waitq = <<>>
     THEN ack' = [ack EXCEPT !.pc = "idle"] /\ fwlock' = "none" /\ UNCHANGED waitq
     ELSE /\ ack' = [ack EXCEPT !.pc = "alloc", !.w = Head(waitq)]
          /\ waitq' = Tail(waitq) /\ fwlock' = "ack"
  /\ UNCHANGED <<fs, as, size, cpool, up, wr, wq, sent, reps, adm, asked, nn>>

(* Mutant: only the first parked writer is served.                           *)
AckAllocs_First ==
  LET t == AllocTurn(ack.w, ack.loc)
  IN /\ ack.pc = "alloc"
     /\ ioSReq_alloc_freeSpace(ack.w, t)
     /\ ack' = IF t.again THEN [ack EXCEPT !.loc = t.loc]
               ELSE [pc |-> "idle", cb |-> FALSE, w |-> "none", loc |-> NoTurn]
     /\ fwlock' = IF ~t.again THEN "none" ELSE "ack"
     /\ UNCHANGED <<up, sent, reps, adm, asked, nn>>

AckAllocs ==
  LET t == AllocTurn(ack.w, ack.loc)
  IN /\ ack.pc = "alloc"
     /\ ioSReq_alloc_freeSpace(ack.w, t)
     /\ ack' = IF t.again THEN [ack EXCEPT !.loc = t.loc]
               ELSE [pc |-> IF t.loc.ret = "OK" THEN "serve" ELSE "idle",
                     cb |-> FALSE, w |-> "none", loc |-> NoTurn]
     /\ fwlock' = IF ~t.again /\ t.loc.ret # "OK" THEN "none" ELSE "ack"
     /\ UNCHANGED <<up, sent, reps, adm, asked, nn>>

(* The counter of the thread that waits for a task (_sm_task_*_endfn).       *)
Counted(k) == IF k.by = "adm" THEN [adm EXCEPT !.cnt = @ - 1] ELSE adm

(* Out of the pool and of the cache: the oldest chunk that starts at the     *)
(* block.                                                                    *)
fspool_remove_allocspace(lb) ==
  LET hit == {i \in DOMAIN as : up /\ as[i].lb = lb}
  IN IF hit = {} THEN UNCHANGED <<as, cpool>>
     ELSE /\ cpool' = smcache_rm_aschunk(cpool, as[Min(hit)])
          /\ as' = RemoveAt(as, Min(hit))

AckFlush ==
  /\ ack.pc = "idle" /\ reps # <<>> /\ Head(reps).kind = "flush"
  /\ reps' = Tail(reps)
  /\ fspool_remove_allocspace(Head(reps).u.lb)
  /\ adm' = Counted(Head(reps))
  /\ UNCHANGED <<fs, size, up, waitq, fwlock, wr, wq, sent, ack, asked, nn>>

AckReturn ==
  /\ ack.pc = "idle" /\ reps # <<>> /\ Head(reps).kind = "return"
  /\ reps' = Tail(reps)
  /\ adm' = Counted(Head(reps))
  /\ UNCHANGED <<fs, as, size, cpool, up, waitq, fwlock, wr, wq, sent, ack, asked, nn>>

-----------------------------------------------------------------------------
(* The ioctls (_do_ioctl_prealloc_cmd) and the detach of the volume          *)
(* (free_volume_fsPool).                                                     *)
PreallocPending ==
  \/ Preallocs(wq) + Preallocs(sent) + Preallocs(reps) > 0
  \/ ack.pc # "idle"

AdmStarts(x) ==
  /\ adm.pc = "idle" /\ up /\ x \in Ioctl \ asked
  /\ x = "detach" => /\ \A w \in Writer : wr[w].pc \in {"idle", "got"}
                     /\ QuietDetach => ~PreallocPending
  /\ asked' = asked \cup {x}
  /\ adm' = [adm EXCEPT !.cmd = x, !.pc = CASE x = "alloc" -> "alloc" [] x = "flush" -> "flush"
                                            [] OTHER -> "inval"]
  /\ UNCHANGED <<fs, as, size, cpool, up, waitq, fwlock, wr, wq, sent, reps, ack, nn>>

(* sm_prealloc_volume_freespace without a callback.                          *)
AdmAlloc ==
  /\ adm.pc = "alloc"
  /\ size' = [size EXCEPT !.requesting = @ + 1]
  /\ wq' = Append(wq, PreallocTask(1, FALSE))
  /\ adm' = [adm EXCEPT !.pc = "idle"]
  /\ UNCHANGED <<fs, as, cpool, up, waitq, fwlock, wr, sent, reps, ack, asked, nn>>

(* Mutant: the blocks of the invalidated chunks stay in fsSize_remaining.    *)
_fspool_inval_pool_fschunk_Kept ==
  /\ fs' = [i \in DOMAIN fs |-> fschunk_invalidate_chunk(fs[i]).c]
  /\ UNCHANGED size

_fspool_inval_pool_fschunk ==
  LET inval == Among(fs, {c \in ToSet(fs) : fschunk_invalidate_chunk(c).act = "DO_Inval"})
  IN /\ fs' = [i \in DOMAIN fs |-> fschunk_invalidate_chunk(fs[i]).c]
     /\ size' = [size EXCEPT !.remaining = @ - Total(inval)]

AdmInval ==
  /\ adm.pc = "inval"
  /\ _fspool_inval_pool_fschunk
  /\ adm' = [adm EXCEPT !.pc = "unuse"]
  /\ UNCHANGED <<as, cpool, up, waitq, fwlock, wr, wq, sent, reps, ack, asked, nn>>

(* sm_report_volume_unusespace: a task for every invalidated chunk ...       *)
AdmUnuse ==
  LET rep == Among(fs, {c \in ToSet(fs) : update_fschunk_state(c, "ReportFree").act = "DO_Report"})
  IN /\ adm.pc = "unuse"
     /\ fs' = [i \in DOMAIN fs |-> update_fschunk_state(fs[i], "ReportFree").c]
     /\ wq' = wq \o [i \in DOMAIN rep |-> ReturnTask(rep[i], "adm")]
     /\ adm' = [adm EXCEPT !.pc = "clean", !.cnt = Len(rep)]
     /\ UNCHANGED <<as, size, cpool, up, waitq, fwlock, wr, sent, reps, ack, asked, nn>>

(* ... and, when they were all answered, sm_cleanup_volume.                  *)
AdmClean ==
  /\ adm.pc = "clean" /\ adm.cnt = 0
  /\ fs' = Among(fs, {c \in ToSet(fs) : update_fschunk_state(c, "CleanSpace").act # "DO_Clean"})
  /\ adm' = [adm EXCEPT !.pc = IF adm.cmd = "return" THEN "idle" ELSE "flush"]
  /\ UNCHANGED <<as, size, cpool, up, waitq, fwlock, wr, wq, sent, reps, ack, asked, nn>>

(* Mutant: the detach does not tell the namenode of the allocated chunks.    *)
sm_report_volume_spaceMData_Skipped ==
  /\ UNCHANGED <<as, wq>>
  /\ adm' = [adm EXCEPT !.pc = "flushed", !.cnt = 0]

(* sm_report_volume_spaceMData: a task for every committed chunk, and the    *)
(* wait for these tasks.                                                     *)
sm_report_volume_spaceMData ==
  /\ as' = Flushed(as) /\ wq' = wq \o FlushTasks(as, "adm")
  /\ adm' = [adm EXCEPT !.pc = "flushed", !.cnt = Len(Flushable(as))]

AdmFlush ==
  /\ adm.pc = "flush"
  /\ sm_report_volume_spaceMData
  /\ UNCHANGED <<fs, size, cpool, up, waitq, fwlock, wr, sent, reps, ack, asked, nn>>

AdmFlushed ==
  /\ adm.pc = "flushed" /\ adm.cnt = 0
  /\ adm' = [adm EXCEPT !.pc = IF adm.cmd = "flush" THEN "idle" ELSE "free"]
  /\ UNCHANGED <<fs, as, size, cpool, up, waitq, fwlock, wr, wq, sent, reps, ack, asked, nn>>

(* fspool_free_pool: out of the table, the cache and both lists freed.       *)
fspool_free_pool ==
  /\ adm.pc = "free"
  /\ up' = FALSE /\ fs' = <<>> /\ as' = <<>> /\ cpool' = smcache_init_cache
  /\ adm' = [adm EXCEPT !.pc = "idle"]
  /\ UNCHANGED <<size, waitq, fwlock, wr, wq, sent, reps, ack, asked, nn>>

Adm == \/ \E x \in Ioctl : AdmStarts(x)
       \/ AdmAlloc \/ AdmInval \/ AdmUnuse \/ AdmClean \/ AdmFlush \/ AdmFlushed
       \/ fspool_free_pool
Ack == AckPrealloc \/ AckCounts \/ AckServes \/ AckAllocs \/ AckFlush \/ AckReturn
Next == \/ \E w \in Writer : WriterLocks(w) \/ WriterAllocs(w)
        \/ WorkerSends \/ WorkerFlushes \/ NNAnswers \/ Ack \/ Adm

Spec == Init /\ [][Next]_vars

-----------------------------------------------------------------------------
HBIDsOf(us) == UNION {us[i].hbid .. us[i].hbid + us[i].len - 1 : i \in DOMAIN us}
Given(w) == HBIDsOf(wr[w].md)

(* HBIDs given back: those of the grant from the reported one on.            *)
BackOf(id, hbid) == hbid .. nn.grants[id].hbid + nn.grants[id].len - 1
Back == UNION {BackOf(p[1], p[2]) : p \in nn.back}

(* Every block of space is handed to one write at most, and never to one     *)
(* when the namenode was told that it is unused (fschunk_alloc_space,        *)
(* fschunk_report_unuse): a write would destroy data of another volume.      *)
SpaceUsedOnce ==
  /\ \A w, x \in Writer : w # x => Given(w) \cap Given(x) = {}
  /\ \A w \in Writer : Given(w) \cap Back = {}

(* What is asked of the chunk cache, whatever the range, is answered with    *)
(* the HBID and the place its writer was given, and a block of a first write *)
(* is missed only when the namenode knows it (smcache_query_MData,           *)
(* fspool_remove_allocspace): a read never takes such a block for unwritten. *)
(* The exception is a write whose allocation was made again past             *)
(* FlushCriteria (space_storage_pool.c:437-445): its chunks share their      *)
(* first block, the answer for the first drops the cache entry of the last   *)
(* (:764), and the namenode then knows one of them at least.                 *)
UnitsOf(w, b) == {i \in DOMAIN wr[w].md : b \in BlocksIn(wr[w].md[i])}
Truth(b) == UNION {{ItemOf(wr[w].md[i], b) : i \in UnitsOf(w, b)} : w \in Writer}
Told(b) == {ItemOf(u, b) : u \in {u \in nn.told : b \in BlocksIn(u)}}
AllocatedAgain(b) == \E w \in Writer : Cardinality(UnitsOf(w, b)) > 1
QueryIsTrue ==
  up => \A lb \in Block : \A n \in 1..Cardinality({b \in Block : b >= lb}) :
    LET found == BlocksOf(smcache_query_MData(lb, n))
    IN /\ Len(found) = n
       /\ \A i \in 1..n :
            LET b == lb + i - 1
            IN IF found[i] # Miss THEN found[i] \in Truth(b)
               ELSE IF AllocatedAgain(b) THEN Truth(b) \cap Told(b) # {}
               ELSE Truth(b) \subseteq Told(b)

(* What the code does not guarantee: that the namenode knows every chunk of  *)
(* a block the cache misses, also of one allocated again, so that it answers *)
(* with the last.                                                            *)
EveryMissIsTold ==
  up => \A b \in Block : cpool[b] = NoUnit => Truth(b) \subseteq Told(b)

(* When the pool was freed, every block the namenode ever granted was given  *)
(* back, or belongs to a write that the namenode knows or is being told of   *)
(* (free_volume_fsPool): space and metadata do not leak over a detach.       *)
InFlight == UNION {{q[i].u : i \in {i \in DOMAIN q : q[i].kind = "flush"}} : q \in {wq, sent, reps}}
DetachLosesNothing ==
  ~up => LET known == UNION {u.hbid .. u.hbid + u.len - 1 : u \in nn.told \cup InFlight}
         IN /\ 1 .. nn.upto \subseteq known \cup Back
            /\ \A w \in Writer : Given(w) \subseteq known

(* While the pool lives its counters say what its lists and the queues hold, *)
(* between any two steps of the writers, the answers and the ioctls:         *)
(* fsSize_remaining the blocks that can be allocated, fsSize_requesting the  *)
(* preallocations not yet counted off (_fspool_add_fschunk,                  *)
(* fspool_alloc_space, _fspool_inval_pool_fschunk, AckCounts).  A write is   *)
(* let to the chunks, or parked, by these two numbers alone.                 *)
SizesAreTrue ==
  up => /\ size.remaining = Total(Among(fs, {c \in ToSet(fs) : c.st = "Free"}))
        /\ size.requesting =
             Preallocs(wq) + Preallocs(sent) + Preallocs(reps) + IF ack.pc = "count" THEN 1 ELSE 0

(* A parked first write is never forgotten: a preallocation that will serve  *)
(* the wait queue is on its way, or the answer thread is about to serve it   *)
(* (ioSReq_alloc_freeSpace, ioSReq_preallocMD_endfn).  The exception is the  *)
(* administrator's: a write may park on the request of an ioctl, whose end   *)
(* serves nobody (drv_chrdev.c:740).                                         *)
ParkedIsAwaited ==
  waitq # <<>> =>
    \/ "alloc" \in asked
    \/ \E q \in {wq, sent, reps} : \E i \in DOMAIN q : q[i].kind = "prealloc" /\ q[i].cb
    \/ ack.pc = "count" /\ ack.cb
    \/ ack.pc \in {"lock", "serve", "alloc"}
=============================================================================
