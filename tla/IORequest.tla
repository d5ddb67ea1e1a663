------------------------------ MODULE IORequest ------------------------------
(***************************************************************************)
(* The life of an io_request_t in io_manager: admission under the pool      *)
(* lock with the overlap check (ioReq_add_ReqPool), splitting into segments *)
(* and their submission, commit of the segments to the user and to the      *)
(* request, the single IODone worker with its report phase to the namenode, *)
(* and the end of the request, which lets waiting requests through.         *)
(*                                                                          *)
(* Segments are abstracted to what they do to their request (the callbacks  *)
(* ioSReq_commit_user, ioReq_IODone_endfn and ioReq_MDReport_endfn).        *)
(***************************************************************************)
EXTENDS IOOverlap, FiniteSets

CONSTANTS
  Req,             \* the io_request_t objects of the memory pool
  UserIO,          \* the IOs the block layer may submit
  VolReplica,      \* get_volume_replica(drive)
  RREnabled,       \* dms_client_config->dms_RR_enabled
  MDAnswers,       \* answers to a metadata acquire: "valid", "invalid", "failed"
  OvlpAllocFails   \* TRUE: the GFP_ATOMIC allocation of an ovlp_item_t may fail

AllLB == UNION {LBs(x) : x \in UserIO}   \* the logical blocks of the volume

ASSUME ReqAssumption == IsFiniteSet(Req)
ASSUME LBAssumption == IsFiniteSet(AllLB)
ASSUME UserIOAssumption == UserIO \subseteq IO /\ UserIO # {}
ASSUME ReplicaAssumption == VolReplica \in Nat \ {0}
ASSUME FlagAssumption == RREnabled \in BOOLEAN /\ OvlpAllocFails \in BOOLEAN
ASSUME AnswerAssumption == MDAnswers \subseteq {"valid", "invalid", "failed"}

VARIABLES
  ioReq_stat,       \* state of the request's FSM; "Free": not allocated
  io,               \* iodir and usrIO_addr
  ioReq_pool,       \* requests in the volume's pool of running requests
  ioReq_ovlp_pool,  \* requests in the volume's pool of waiting requests
  order,            \* <<p, q>>: p before q in the same of the two lists
  ovlp_item,        \* <<process_ior, wait_ior>> of each ovlp_item_t
  cnt_ovlp_wait,    \* the request's counter of items it waits for
  seg,              \* seg[r][lb]: the segment of r that starts at lb
  ciUser_remainLB,  \* LBs not yet committed to the user
  ciMDS_remainLB,   \* LBs whose data IO is not done
  ioResult,         \* AND of the results of the segments
  usr,              \* the answer given to the user ("none" until then)
  num_of_ci2nn,     \* reports to the namenode still awaited
  report,           \* <<r, lb>>: report of a segment, callback outstanding
  iodone_pool,      \* requests queued for the IODone worker
  wake_buff,        \* woken requests the worker has still to submit
  older             \* history: <<p, r>> live, p accepted before r

pools == <<ioReq_pool, ioReq_ovlp_pool, order, ovlp_item, cnt_ovlp_wait, older>>
ci    == <<ciUser_remainLB, ciMDS_remainLB, ioResult, usr>>
vars  == <<ioReq_stat, io, pools, seg, ci, num_of_ci2nn, report, iodone_pool,
           wake_buff>>

Active == {"RWUserData", "ReportMD", "SelfHealing"}
States == {"Free", "OvlpWait"} \cup Active
live   == ioReq_pool \cup ioReq_ovlp_pool

-----------------------------------------------------------------------------
(***************************************************************************)
(* Segments.  What a finished segment leaves in its MetaData and            *)
(* ciMDS_status: [ci, stat, nloc, nok], with nok of nloc locations on disk. *)
(***************************************************************************)
Outcome == [ci : {"SUCCESS", "FAILURE", "NONE"},
            stat : {"NOMD", "VALID", "VALID_LESS_REPLICA", "INVALID"},
            nloc : 0..VolReplica, nok : 0..VolReplica]
Segment_t == [st : {"none", "new", "io", "ci", "user"}, done : BOOLEAN,
              len : Nat, res : BOOLEAN, val : BOOLEAN, out : Outcome]

NoOutcome == [ci |-> "SUCCESS", stat |-> "NOMD", nloc |-> 0, nok |-> 0]
NoSeg == [st |-> "none", done |-> FALSE, len |-> 0, res |-> TRUE, val |-> TRUE, out |-> NoOutcome]

(* The steps of a segment, from its submission to its report.               *)
NewSeg(len)             == [NoSeg EXCEPT !.st = "new", !.len = len]
Submitted(s)            == [s EXCEPT !.st = "io"]
Loaded(s, result, val)  == [s EXCEPT !.st = "ci", !.res = result, !.val = val]
Stored(s)               == [s EXCEPT !.st = "user"]
Finished(s, o)          == [s EXCEPT !.done = TRUE, !.out = o]
Reported(s)             == [s EXCEPT !.out = [@ EXCEPT !.ci = "NONE"]]

(* _nnack_update_MDItem_state *)
MDItemState(nloc) ==
  IF nloc < VolReplica /\ RREnabled THEN "VALID_LESS_REPLICA" ELSE "VALID"

WriteOutcome ==
  (IF "valid" \in MDAnswers
   THEN {[ci |-> "SUCCESS", stat |-> MDItemState(n), nloc |-> n, nok |-> k] :
           n \in 1..VolReplica, k \in 0..VolReplica}
   ELSE {})
  \cup (IF "invalid" \in MDAnswers
        THEN {[ci |-> "NONE", stat |-> "INVALID", nloc |-> n, nok |-> 0] :
                n \in 1..VolReplica}
        ELSE {})
  \cup (IF "failed" \in MDAnswers
        THEN {[ci |-> "NONE", stat |-> "NOMD", nloc |-> 0, nok |-> 0]} ELSE {})

ReadOutcome ==
  {[ci |-> c, stat |-> "VALID", nloc |-> 1, nok |-> 0] : c \in {"NONE", "FAILURE"}}

Outcomes(dir) == IF dir = "WRITE" THEN {o \in WriteOutcome : o.nok <= o.nloc}
                 ELSE ReadOutcome

(* Mutant: the operands of the length are swapped. *)
SplitLen_Swapped(x, heads, lb) == lb - LastLB(x)

(* ioReq_gen_ioSegReq: the length of the segment that starts at lb when the *)
(* request x is cut at the LBs in heads: up to the next head or the end.    *)
SplitLen(x, heads, lb) ==
  Cardinality({m \in AllLB : /\ m \in lb .. LastLB(x)
                             /\ \A h \in heads : h <= lb \/ m < h})

Unsubmitted(r) == {lb \in AllLB : seg[r][lb].st = "new"}

-----------------------------------------------------------------------------
Init ==
  /\ ioReq_stat = [r \in Req |-> "Free"]
  /\ io \in [Req -> {CHOOSE x \in UserIO : TRUE}]
  /\ ioReq_pool = {} /\ ioReq_ovlp_pool = {} /\ order = {} /\ older = {}
  /\ ovlp_item = {} /\ cnt_ovlp_wait = [r \in Req |-> 0]
  /\ seg = [r \in Req |-> [lb \in AllLB |-> NoSeg]]
  /\ ciUser_remainLB = [r \in Req |-> 0] /\ ciMDS_remainLB = [r \in Req |-> 0]
  /\ ioResult = [r \in Req |-> TRUE] /\ usr = [r \in Req |-> "none"]
  /\ num_of_ci2nn = [r \in Req |-> 0]
  /\ report = {} /\ iodone_pool = {} /\ wake_buff = {}

(* Mutant: only writes are taken for obstacles. *)
Linked_WritesOnly(pool, x, failing) ==
  {c \in pool : Conflict(io[c], x) /\ c \notin failing /\ io[c].dir = "WRITE"}

(***************************************************************************)
(* ioReq_chk_ovlp walks one list from its tail and links the new request to *)
(* every conflicting one, until an allocation fails (failing: where it      *)
(* would); requests nearer to the head are then left unchecked.             *)
(***************************************************************************)
Linked(pool, x, failing) ==
  {c \in pool : /\ Conflict(io[c], x)
                /\ c \notin failing
                /\ \A f \in failing \cap pool : <<f, c>> \in order}

FailingAllocs(x) ==
  IF OvlpAllocFails THEN SUBSET {c \in live : Conflict(io[c], x)} ELSE {{}}

(***************************************************************************)
(* ioReq_init_request and ioReq_add_ReqPool, under the pool lock (which the *)
(* worker holds while wake_buff is not empty).                              *)
(***************************************************************************)
SubmitIOReq(r, x) ==
  /\ ioReq_stat[r] = "Free" /\ wake_buff = {}
  /\ io' = [io EXCEPT ![r] = x]
  /\ \E failing \in FailingAllocs(x) :
       LET blockers == Linked(ioReq_ovlp_pool, x, failing)
                         \cup Linked(ioReq_pool, x, failing)
       IN  /\ ovlp_item' = ovlp_item \cup (blockers \X {r})
           /\ cnt_ovlp_wait' = [cnt_ovlp_wait EXCEPT ![r] = Cardinality(blockers)]
           /\ IF blockers # {}
              THEN /\ ioReq_stat' = [ioReq_stat EXCEPT ![r] = "OvlpWait"]
                   /\ ioReq_ovlp_pool' = ioReq_ovlp_pool \cup {r}
                   /\ order' = order \cup (ioReq_ovlp_pool \X {r})
                   /\ UNCHANGED ioReq_pool
              ELSE /\ ioReq_stat' = [ioReq_stat EXCEPT ![r] = "RWUserData"]
                   /\ ioReq_pool' = ioReq_pool \cup {r}
                   /\ order' = order \cup (ioReq_pool \X {r})
                   /\ UNCHANGED ioReq_ovlp_pool
  /\ older' = older \cup (live \X {r})
  /\ seg' = [seg EXCEPT ![r] = [lb \in AllLB |-> NoSeg]]
  /\ ciUser_remainLB' = [ciUser_remainLB EXCEPT ![r] = x.lbid_len]
  /\ ciMDS_remainLB' = [ciMDS_remainLB EXCEPT ![r] = x.lbid_len]
  /\ ioResult' = [ioResult EXCEPT ![r] = TRUE]
  /\ usr' = [usr EXCEPT ![r] = "none"]
  /\ num_of_ci2nn' = [num_of_ci2nn EXCEPT ![r] = 0]
  /\ UNCHANGED <<report, iodone_pool, wake_buff>>

(* ioReq_gen_ioSegReq cuts the request into consecutive segments.           *)
GenIOSegReq(r) ==
  /\ ioReq_stat[r] = "RWUserData"
  /\ \A lb \in AllLB : seg[r][lb].st = "none"
  /\ \E cuts \in SUBSET (LBs(io[r]) \ {io[r].lbid_start}) :
       LET heads == cuts \cup {io[r].lbid_start}
       IN  seg' = [seg EXCEPT ![r] =
                     [lb \in AllLB |->
                        IF lb \in heads
                        THEN NewSeg(SplitLen(io[r], heads, lb))
                        ELSE NoSeg]]
  /\ UNCHANGED <<ioReq_stat, io, pools, ci, num_of_ci2nn, report, iodone_pool,
                 wake_buff>>

(* One turn of ioReq_submit_request's loop: ioSReq_submit_acquireMD of the  *)
(* first segment not yet submitted.                                         *)
SubmitSeg(r) ==
  /\ Unsubmitted(r) # {}
  /\ \E lb \in Unsubmitted(r) :
       /\ \A m \in Unsubmitted(r) : lb <= m
       /\ seg' = [seg EXCEPT ![r][lb] = Submitted(@)]
       /\ wake_buff' = IF Unsubmitted(r) = {lb} THEN wake_buff \ {r} ELSE wake_buff
  /\ UNCHANGED <<ioReq_stat, io, pools, ci, num_of_ci2nn, report, iodone_pool>>

-----------------------------------------------------------------------------
(***************************************************************************)
(* ioSReq_commit_user.  "ioResult &= result" is a plain load and store on a *)
(* field that the callbacks of all segments share: two steps.               *)
(***************************************************************************)
CommitUserLoad(r, lb, result) ==
  /\ seg[r][lb].st = "io"
  /\ seg' = [seg EXCEPT ![r][lb] = Loaded(@, result, ioResult[r])]
  /\ UNCHANGED <<ioReq_stat, io, pools, ci, num_of_ci2nn, report, iodone_pool,
                 wake_buff>>

(* The store, the atomic countdown and ioReq_commit_user for the last one.  *)
CommitUserStore(r, lb) ==
  LET s == seg[r][lb]
      result == s.res /\ s.val
      remain == ciUser_remainLB[r] - s.len
  IN  /\ s.st = "ci"
      /\ seg' = [seg EXCEPT ![r][lb] = Stored(@)]
      /\ ioResult' = [ioResult EXCEPT ![r] = result]
      /\ ciUser_remainLB' = [ciUser_remainLB EXCEPT ![r] = remain]
      /\ usr' = IF remain = 0 /\ usr[r] = "none"
                THEN [usr EXCEPT ![r] = IF result THEN "ok" ELSE "fail"]
                ELSE usr
      /\ UNCHANGED <<ioReq_stat, io, pools, ciMDS_remainLB, num_of_ci2nn,
                     report, iodone_pool, wake_buff>>

(***************************************************************************)
(* A segment calls ioReq_IODone_endfn after its ioSReq_commit_user, except  *)
(* that the two calls of a write to several datanodes come from the ack     *)
(* threads of different datanodes and are not ordered.                      *)
(***************************************************************************)
Unordered(o) == o.ci = "SUCCESS" /\ o.nloc > 1

(* ioReq_IODone_endfn, called once by a segment that has all its acks.      *)
SegIODone(r, lb, o) ==
  /\ ~seg[r][lb].done
  /\ \/ seg[r][lb].st = "user"
     \/ seg[r][lb].st \in {"io", "ci"} /\ Unordered(o)
  /\ ioReq_stat[r] = "RWUserData"
  /\ seg' = [seg EXCEPT ![r][lb] = Finished(@, o)]
  /\ ciMDS_remainLB' = [ciMDS_remainLB EXCEPT ![r] = @ - seg[r][lb].len]
  /\ IF ciMDS_remainLB'[r] = 0
     THEN /\ ioReq_stat' = [ioReq_stat EXCEPT ![r] = "ReportMD"]
          /\ iodone_pool' = iodone_pool \cup {r}
     ELSE UNCHANGED <<ioReq_stat, iodone_pool>>
  /\ UNCHANGED <<io, pools, ciUser_remainLB, ioResult, usr, num_of_ci2nn,
                 report, wake_buff>>

-----------------------------------------------------------------------------
(* Mutants: every committed write is counted; whatever was written is sent. *)
Counted_EveryWrite(dir, o) == o.ci = "FAILURE" \/ (o.ci = "SUCCESS" /\ dir = "WRITE")
Sent_EveryWrite(dir, o)    == o.ci = "FAILURE" \/ (dir = "WRITE" /\ o.stat # "NOMD")

(* _chk_dnerr_commit_nn with _chk_writeDN_fail: a segment that is counted.  *)
Counted(dir, o) ==
  \/ o.ci = "FAILURE"
  \/ o.ci = "SUCCESS" /\ dir = "WRITE" /\ (o.stat # "VALID" \/ o.nok < VolReplica)

(* _ioSReq_chk_noReport with _ioSReq_chk_MData_doReport: one that is sent.  *)
Sent(dir, o) ==
  \/ o.ci = "FAILURE"
  \/ /\ dir = "WRITE" /\ o.stat # "NOMD"
     /\ o.stat # "VALID" \/ o.nok < o.nloc

SegsWith(r, P(_, _)) ==
  {lb \in AllLB : seg[r][lb].done /\ P(io[r].dir, seg[r][lb].out)}

(* The IODone worker takes a request that has something to report.          *)
WorkerReport(r) ==
  LET counted == SegsWith(r, Counted)
  IN  /\ r \in iodone_pool /\ wake_buff = {}
      /\ ioReq_stat[r] = "ReportMD" /\ counted # {}
      /\ iodone_pool' = iodone_pool \ {r}
      /\ num_of_ci2nn' = [num_of_ci2nn EXCEPT ![r] = @ + Cardinality(counted)]
      /\ report' = report \cup ({r} \X SegsWith(r, Sent))
      /\ UNCHANGED <<ioReq_stat, io, pools, seg, ci, wake_buff>>

(* ioSReq_reportMD_endfn and ioReq_MDReport_endfn: the namenode answered.   *)
ReportMDDone(r, lb) ==
  /\ <<r, lb>> \in report
  /\ report' = report \ {<<r, lb>>}
  /\ seg' = [seg EXCEPT ![r][lb] = Reported(@)]
  /\ IF ioReq_stat[r] = "ReportMD"
     THEN /\ num_of_ci2nn' = [num_of_ci2nn EXCEPT ![r] = @ - 1]
          /\ IF num_of_ci2nn'[r] = 0
             THEN /\ ioReq_stat' = [ioReq_stat EXCEPT ![r] = "SelfHealing"]
                  /\ iodone_pool' = iodone_pool \cup {r}
             ELSE UNCHANGED <<ioReq_stat, iodone_pool>>
     ELSE UNCHANGED <<num_of_ci2nn, ioReq_stat, iodone_pool>>
  /\ UNCHANGED <<io, pools, ci, wake_buff>>

(***************************************************************************)
(* The worker takes a request with nothing (more) to report: ReportMDDone,  *)
(* HealDone, _fWker_free_ioReq and ioReq_end_request.  Under the pool lock  *)
(* mv_ovlp_ior_toIO lets the waiters through whose counter drops to 0; the  *)
(* worker then splits and submits them (wake_buff) before it goes on.       *)
(***************************************************************************)
Waiters(r) == {q \in Req : <<r, q>> \in ovlp_item}
Woken_BeforeDec(r) == {q \in Waiters(r) : cnt_ovlp_wait[q] = 0 /\ ioReq_stat[q] = "OvlpWait"}
(* Mutant: the counter is tested before it is decremented. *)
Woken(r)   == {q \in Waiters(r) : cnt_ovlp_wait[q] = 1 /\ ioReq_stat[q] = "OvlpWait"}

EndRequest(r) ==
  LET woken == Woken(r)
  IN  /\ r \in iodone_pool /\ wake_buff = {}
      /\ \/ ioReq_stat[r] = "ReportMD" /\ SegsWith(r, Counted) = {}
         \/ ioReq_stat[r] = "SelfHealing"
      /\ iodone_pool' = iodone_pool \ {r}
      /\ ioReq_stat' = [q \in Req |-> IF q = r THEN "Free"
                                      ELSE IF q \in woken THEN "RWUserData"
                                      ELSE ioReq_stat[q]]
      /\ ioReq_pool' = (ioReq_pool \ {r}) \cup woken
      /\ ioReq_ovlp_pool' = ioReq_ovlp_pool \ woken
      /\ order' = {e \in order : {e[1], e[2]} \cap (woken \cup {r}) = {}}
                    \cup ((ioReq_pool \ {r}) \X woken)
                    \cup {e \in order : e[1] \in woken /\ e[2] \in woken}
      /\ ovlp_item' = {e \in ovlp_item : e[1] # r}
      /\ cnt_ovlp_wait' = [q \in Req |-> IF q \in Waiters(r)
                                         THEN cnt_ovlp_wait[q] - 1
                                         ELSE cnt_ovlp_wait[q]]
      /\ older' = {e \in older : e[1] # r /\ e[2] # r}
      /\ seg' = [seg EXCEPT ![r] = [lb \in AllLB |-> NoSeg]]
      /\ wake_buff' = woken
      /\ UNCHANGED <<io, ci, num_of_ci2nn, report>>

-----------------------------------------------------------------------------
Segment(r) ==
  \E lb \in AllLB :
    \/ \E result \in BOOLEAN : CommitUserLoad(r, lb, result)
    \/ CommitUserStore(r, lb)
    \/ \E o \in Outcomes(io[r].dir) : SegIODone(r, lb, o)
    \/ ReportMDDone(r, lb)

Submitter(r) == GenIOSegReq(r) \/ SubmitSeg(r)

Worker(r) == WorkerReport(r) \/ EndRequest(r)

Next == \E r \in Req : \/ \E x \in UserIO : SubmitIOReq(r, x)
                       \/ Submitter(r) \/ Segment(r) \/ Worker(r)

Spec == Init /\ [][Next]_vars

(***************************************************************************)
(* Fairness: kernel threads keep running (the submitting thread, the IODone *)
(* worker that rotates over its hash buckets), every segment is eventually  *)
(* answered by the datanodes or a timeout and every report by the namenode. *)
(***************************************************************************)
FairSpec == /\ Spec
            /\ \A r \in Req : /\ WF_vars(Submitter(r))
                              /\ WF_vars(Segment(r))
                              /\ SF_vars(Worker(r))

-----------------------------------------------------------------------------
Segs(r) == {lb \in AllLB : seg[r][lb].st # "none"}

(* Every variable keeps its type.                                           *)
TypeOK ==
  /\ ioReq_stat \in [Req -> States] /\ io \in [Req -> UserIO]
  /\ ioReq_pool \subseteq Req /\ ioReq_ovlp_pool \subseteq Req
  /\ wake_buff \subseteq Req /\ iodone_pool \subseteq Req
  /\ order \subseteq Req \X Req /\ older \subseteq Req \X Req
  /\ ovlp_item \subseteq Req \X Req /\ report \subseteq Req \X AllLB
  /\ cnt_ovlp_wait \in [Req -> Int] /\ num_of_ci2nn \in [Req -> Int]
  /\ ciUser_remainLB \in [Req -> Int] /\ ciMDS_remainLB \in [Req -> Int]
  /\ seg \in [Req -> [AllLB -> Segment_t]]
  /\ ioResult \in [Req -> BOOLEAN] /\ usr \in [Req -> {"none", "ok", "fail"}]

(***************************************************************************)
(* The pools, the overlap items and the counters agree: a request is in the *)
(* pool its state says; there is an item for each pair of live requests in  *)
(* conflict, directed by age; and a request waits exactly while items do.   *)
(***************************************************************************)
PoolsMatchStates ==
  \A r \in Req : /\ r \in ioReq_pool <=> ioReq_stat[r] \in Active
                 /\ r \in ioReq_ovlp_pool <=> ioReq_stat[r] = "OvlpWait"

AgeIsTotal ==
  /\ older \subseteq live \X live
  /\ \A p, q \in live : p # q => (<<p, q>> \in older <=> <<q, p>> \notin older)
  /\ \A p \in live : <<p, p>> \notin older

ItemsAreConflicts ==
  ovlp_item = {e \in older : Conflict(io[e[1]], io[e[2]])}

CountersMatchItems ==
  \A r \in Req : cnt_ovlp_wait[r] = Cardinality({p \in Req : <<p, r>> \in ovlp_item})

WaitsWhileItems ==
  \A r \in live : r \in ioReq_ovlp_pool <=> \E p \in Req : <<p, r>> \in ovlp_item

OvlpInv == /\ PoolsMatchStates /\ AgeIsTotal /\ ItemsAreConflicts
           /\ CountersMatchItems /\ WaitsWhileItems

(***************************************************************************)
(* Two requests that touch a common LB, one of them writing, never have     *)
(* their data IO or their report phase in flight together.                  *)
(***************************************************************************)
NoConflictInFlight ==
  \A p, q \in Req : /\ p # q
                   /\ ioReq_stat[p] \in Active /\ ioReq_stat[q] \in Active
                   => \/ LBs(io[p]) \cap LBs(io[q]) = {}
                      \/ io[p].dir = "READ" /\ io[q].dir = "READ"

(***************************************************************************)
(* The pools, items and counters implement the serial order of IOSerial: a  *)
(* request runs exactly when no older live request conflicts with it.       *)
(***************************************************************************)
Serial == INSTANCE IOSerial WITH running <- ioReq_pool

ImplementsSerial == Serial!SSpec

(***************************************************************************)
(* The IODone worker sees a request only after the user has been answered:  *)
(* ciMDS_remainLB does not overtake ciUser_remainLB ("avoid ci mds but no   *)
(* ci to user", metadata_manager.c).                                        *)
(***************************************************************************)
UserAnsweredFirst ==
  \A r \in Req : ioReq_stat[r] \in {"ReportMD", "SelfHealing"} =>
     /\ usr[r] # "none" /\ ciUser_remainLB[r] = 0
     /\ \A lb \in Segs(r) : seg[r][lb].st = "user"

(* The user is told of a failure only if a segment failed.                  *)
FailureIsReal ==
  \A r \in live : usr[r] = "fail" => \E lb \in Segs(r) : ~seg[r][lb].res

(***************************************************************************)
(* "record the commit result of nn_reqs, if one of them fail, means io_req  *)
(* fail" (discoC_IO_Manager.h): success only if every segment succeeded.    *)
(***************************************************************************)
SuccessIsReal ==
  \A r \in live : usr[r] = "ok" => \A lb \in Segs(r) : seg[r][lb].res

(***************************************************************************)
(* A request parked in its report phase (taken off the IODone queue) waits  *)
(* for exactly the reports that are on their way, and for at least one.     *)
(***************************************************************************)
ParkedOnReports ==
  \A r \in Req : ioReq_stat[r] = "ReportMD" /\ r \notin iodone_pool =>
     /\ num_of_ci2nn[r] > 0
     /\ num_of_ci2nn[r] = Cardinality({lb \in AllLB : <<r, lb>> \in report})

(***************************************************************************)
(* The state test in ioReq_MDReport_endfn is "a redundant protection": the  *)
(* callback of a report finds its request in the report phase.              *)
(***************************************************************************)
ReportFindsItsPhase ==
  \A r \in Req, lb \in AllLB : <<r, lb>> \in report => ioReq_stat[r] = "ReportMD"

(***************************************************************************)
(* The answer and the report phase of a request: a failure it tells of is   *)
(* real, and it neither waits for a report that nobody sends nor leaves     *)
(* before one comes back (ioReq_commit_user, _chk_dnerr_commit_nn,          *)
(* ioSReq_submit_reportMD, ioReq_MDReport_endfn).                           *)
(***************************************************************************)
ReportsAreAwaited == FailureIsReal /\ ParkedOnReports /\ ReportFindsItsPhase

(* Every accepted IO ends, the ones that had to wait for others included.   *)
EveryIOEnds ==
  \A r \in Req : ioReq_stat[r] # "Free" ~> ioReq_stat[r] = "Free"

=============================================================================
