----------------------------- MODULE IOSegment -----------------------------
(***************************************************************************)
(* One segment of an IO request (ioSeg_req_t): its metadata is acquired,    *)
(* the metadata items are read or written by the payload manager, a write   *)
(* that is not aligned to blocks reads the old blocks first, and a read     *)
(* that finds its metadata stale reads the blocks one by one with true      *)
(* metadata (the leaves, ioSeg_leafReq_t).  The callbacks of the items run  *)
(* in the threads of the payload manager, in any order.                     *)
(***************************************************************************)
EXTENDS Integers, Sequences, FiniteSetsExt

(* The state machine of a segment request (discoC_ioSegReq_fsm.c).          *)
IOSegREQ_S == {"INIT", "W_AcqMD", "WUD", "R_AcqMD", "RUD", "ATrueMD_Proc",
               "CI2IOSeg", "CI2IOR"}

IOSegREQ_E == {"INIT_4KW", "W_AcqMD_DONE", "W_ALLPL_DONE", "INIT_R", "R_AcqMD_DONE",
               "R_ALLPL_DONE", "W_RPhase_DONE", "R_RPhase_DONE", "MDUD_UNSYNC",
               "ATrueMD_DONE"}

ioSegReqState_Init(ev) ==
  CASE ev = "INIT_4KW" -> <<"W_AcqMD", "W_AcqMD">>
    [] ev = "INIT_R"   -> <<"R_AcqMD", "R_AcqMD">>
    [] OTHER           -> <<"INIT", "NoAction">>

ioSegReqState_WAcqMD(ev) ==
  IF ev = "W_AcqMD_DONE" THEN <<"WUD", "DO_WUD">> ELSE <<"W_AcqMD", "NoAction">>

ioSegReqState_WriteUD(ev) ==
  IF ev = "W_ALLPL_DONE" THEN <<"CI2IOR", "DO_CI2IOREQ">> ELSE <<"WUD", "NoAction">>

ioSegReqState_RAcqMD(ev) ==
  IF ev = "R_AcqMD_DONE" THEN <<"RUD", "DO_RUD">> ELSE <<"R_AcqMD", "NoAction">>

ioSegReqState_ReadUD(ev) ==
  CASE ev = "R_ALLPL_DONE" -> <<"CI2IOSeg", "DO_CI2IOSegREQ">>
    [] ev = "MDUD_UNSYNC"  -> <<"ATrueMD_Proc", "DO_ATrueMD_PROC">>
    [] OTHER               -> <<"RUD", "NoAction">>

(* Mutant: the end of the reads is not held back while leaves are made.     *)
ioSegReqState_ProcAcqTMD_Open(ev) ==
  CASE ev = "R_ALLPL_DONE" -> <<"CI2IOSeg", "DO_CI2IOSegREQ">>
    [] ev = "MDUD_UNSYNC"  -> <<"ATrueMD_Proc", "DO_ATrueMD_PROC">>
    [] ev = "ATrueMD_DONE" -> <<"RUD", "DO_RUD">>
    [] OTHER               -> <<"ATrueMD_Proc", "NoAction">>

ioSegReqState_ProcAcqTMD(ev) ==
  CASE ev \in {"R_ALLPL_DONE", "MDUD_UNSYNC"} -> <<"ATrueMD_Proc", "RetryTR">>
    [] ev = "ATrueMD_DONE"                    -> <<"RUD", "DO_RUD">>
    [] OTHER                                  -> <<"ATrueMD_Proc", "NoAction">>

(* Mutant: the read phase of a write has no successor.                      *)
ioSegReqState_CIIOSeg_NoWrite(ev) ==
  IF ev = "R_RPhase_DONE" THEN <<"CI2IOR", "DO_CI2IOREQ">> ELSE <<"CI2IOSeg", "NoAction">>

ioSegReqState_CIIOSeg(ev) ==
  CASE ev = "W_RPhase_DONE" -> <<"W_AcqMD", "W_AcqMD">>
    [] ev = "R_RPhase_DONE" -> <<"CI2IOR", "DO_CI2IOREQ">>
    [] OTHER                -> <<"CI2IOSeg", "NoAction">>

ioSegReqState_CIIOR(ev) == <<"CI2IOR", "NoAction">>

(* IOSegReq_update_state: the next state and the action for the caller.     *)
IOSegReq_update_state(st, ev) ==
  CASE st = "INIT"         -> ioSegReqState_Init(ev)
    [] st = "W_AcqMD"      -> ioSegReqState_WAcqMD(ev)
    [] st = "WUD"          -> ioSegReqState_WriteUD(ev)
    [] st = "R_AcqMD"      -> ioSegReqState_RAcqMD(ev)
    [] st = "RUD"          -> ioSegReqState_ReadUD(ev)
    [] st = "ATrueMD_Proc" -> ioSegReqState_ProcAcqTMD(ev)
    [] st = "CI2IOSeg"     -> ioSegReqState_CIIOSeg(ev)
    [] st = "CI2IOR"       -> ioSegReqState_CIIOR(ev)

-----------------------------------------------------------------------------
CONSTANTS
  Cases            \* the segments considered: a set of records
                   \*   op    "read", "write" (first write), "ovw" (overwrite),
                   \*         "part", "part_ovw" (the two, not aligned)
                   \*   len   the number of blocks of each metadata item
                   \*   stale the items whose metadata a datanode may refuse
                   \*   inval the items that may have no valid location
                   \*   fail  the items whose payload may fail
                   \*   md    FALSE: the metadata may be refused altogether

SegOps == {"read", "write", "ovw", "part", "part_ovw"}

ASSUME CaseAssumption ==
  \A c \in Cases : /\ c.op \in SegOps /\ c.len \in Seq(Nat \ {0}) /\ c.md \in BOOLEAN
                   /\ \A s \in {c.stale, c.inval, c.fail} : s \subseteq DOMAIN c.len

VARIABLES
  case,            \* the segment: a member of Cases
  ioSegReq_stat, ReqOPCode,
  ciUser_remainLB, ciMDS_remainLB, ciUser_result,
  ciUser,          \* IOSegR_FEA_CIUSER
  TrueProc,        \* IOSegR_FEA_TrueProc
  userLB_state,    \* the blocks whose bit is set
  mdata,           \* MetaData holds items
  item,            \* metadata item -> where its payload request stands
  inval,           \* position of _invalMD_IODone_Proc in the items, 0: not running
  leaf,            \* leaf_ioSRPool, as a set of blocks
  leafMD, leafRd,  \* block -> metadata requests, payload reads of its leaf under way
  cb,              \* callbacks that have loaded ciUser_result and not yet stored it
  got,             \* blocks whose data, or zeros, are in the request's buffers
  wrote,           \* items whose payload was written
  lost,            \* history: a callback has overwritten a failure of another
  told,            \* what the io request was told for the user
  done             \* number of calls of ioReq_IODone_endfn

fsm    == <<ioSegReq_stat, ReqOPCode>>
count  == <<ciUser_remainLB, ciMDS_remainLB, ciUser_result>>
fea    == <<ciUser, TrueProc, userLB_state>>
md     == <<mdata, item, inval>>
leaves == <<leaf, leafMD, leafRd>>
res    == <<got, wrote, lost, told, done>>
vars   == <<case, fsm, count, fea, md, leaves, cb, res>>

Items     == DOMAIN case.len
Before(i) == FoldSet(LAMBDA j, a : a + case.len[j], 0, 1 .. i - 1)
Blocks(i) == Before(i) + 1 .. Before(i) + case.len[i]
LBs       == UNION {Blocks(i) : i \in Items}
lbid_len  == Cardinality(LBs)
io_dir_true == IF case.op = "read" THEN "READ" ELSE "WRITE"
OVW       == case.op \in {"ovw", "part_ovw"}
Aligned   == case.op \in {"write", "ovw"}

(* A callback with the value it will store in ciUser_result: "pl" the       *)
(* payload of an item was read, "inval" zeros stand for it, "leaf" a leaf   *)
(* was read, "ci" an item may be committed to the user.                     *)
Cb(kind, i, B, v) == [kind |-> kind, i |-> i, lbs |-> B, v |-> v]

(* ioSReq_init_request.                                                     *)
Init ==
  /\ case \in Cases
  /\ ioSegReq_stat = "INIT" /\ ReqOPCode = io_dir_true
  /\ ciUser_remainLB = lbid_len /\ ciMDS_remainLB = lbid_len /\ ciUser_result = TRUE
  /\ ciUser = FALSE /\ TrueProc = FALSE /\ userLB_state = {}
  /\ mdata = FALSE /\ item = [i \in Items |-> "no"] /\ inval = 0
  /\ leaf = {} /\ leafMD = [b \in LBs |-> 0] /\ leafRd = [b \in LBs |-> 0]
  /\ cb = {} /\ got = {} /\ wrote = {} /\ lost = FALSE /\ told = "none" /\ done = 0

(* ioSReq_set_request and ioSReq_submit_acquireMD: a write that is not      *)
(* aligned starts as a read.                                                *)
Submit ==
  LET ev == IF io_dir_true = "READ" \/ ~Aligned THEN "INIT_R" ELSE "INIT_4KW"
  IN  /\ ioSegReq_stat = "INIT"
      /\ ioSegReq_stat' = IOSegReq_update_state("INIT", ev)[1]
      /\ ReqOPCode' = IF ev = "INIT_R" THEN "READ" ELSE "WRITE"
      /\ UNCHANGED <<case, count, fea, md, leaves, cb, res>>

-----------------------------------------------------------------------------
(* ioSReq_commit_user: only the first call counts.                          *)
CommitUser(result) ==
  IF ciUser THEN UNCHANGED <<ciUser, told>>
  ELSE ciUser' = TRUE /\ told' = IF result THEN "ok" ELSE "fail"

(* _post_handle_all_MD_inval: the segment ends with an error.               *)
AllMDInval ==
  /\ CommitUser(FALSE) /\ done' = done + 1
  /\ UNCHANGED <<fsm, count, TrueProc, userLB_state, md, got, wrote, lost>>

(* check_metadata_status: a read may go on with invalid items.              *)
check_metadata_status(ok, bad) == ok /\ (bad = {} \/ ReqOPCode = "READ")

(* ioSReq_acquireMD_endfn.  bad: the items without a valid location.        *)
AcquireMD(ok, bad) ==
  LET ev == IF ReqOPCode = "READ" THEN "R_AcqMD_DONE" ELSE "W_AcqMD_DONE"
      tr == IOSegReq_update_state(ioSegReq_stat, ev)
  IN  /\ ioSegReq_stat \in {"R_AcqMD", "W_AcqMD"} /\ ~mdata /\ done = 0
      /\ IF ~check_metadata_status(ok, bad) THEN AllMDInval
         ELSE /\ ioSegReq_stat' = tr[1]
              /\ mdata' = TRUE
              /\ item' = [i \in Items |-> IF tr[2] = "DO_WUD" THEN "wr"
                                          ELSE IF i \in bad THEN "inval" ELSE "rd"]
              /\ inval' = IF bad = {} \/ tr[2] = "DO_WUD" THEN inval ELSE 1
              /\ UNCHANGED <<ReqOPCode, count, fea, res>>
      /\ UNCHANGED <<case, leaves, cb>>

AcquireMD_endfn ==
  \/ \E bad \in SUBSET case.inval : AcquireMD(TRUE, bad)
  \/ ~case.md /\ AcquireMD(FALSE, {})

-----------------------------------------------------------------------------
(* Callbacks of the payload manager up to the load of ciUser_result.        *)
ReadPL(i, ok) ==
  /\ item[i] = "rd" /\ (ok \/ i \in case.fail)
  /\ item' = [item EXCEPT ![i] = "end"]
  /\ got' = IF ok THEN got \cup Blocks(i) ELSE got
  /\ cb' = cb \cup {Cb("pl", i, Blocks(i), ciUser_result /\ ok)}
  /\ UNCHANGED <<case, fsm, count, fea, mdata, inval, leaves, wrote, lost, told, done>>

(* _invalMD_IODone_Proc: the callback of an item without a valid location,  *)
(* and the next round of the loop when that has returned.  The loop goes on *)
(* whatever the callback did to the segment and its items (LoopIsLive).     *)
InvalItem ==
  /\ inval \in Items /\ ~\E c \in cb : c.kind = "inval"
  /\ IF item[inval] = "inval"
     THEN /\ item' = [item EXCEPT ![inval] = "void"]
          /\ got' = got \cup Blocks(inval)
          /\ cb' = cb \cup {Cb("inval", inval, Blocks(inval), ciUser_result)}
          /\ UNCHANGED inval
     ELSE /\ inval' = (inval + 1) % (Len(case.len) + 1)
          /\ UNCHANGED <<item, got, cb>>
  /\ UNCHANGED <<case, fsm, count, fea, mdata, leaves, wrote, lost, told, done>>

(* The store of ciUser_result &= ioRes, some time after the load.           *)
StoreResult(c) == ciUser_result' = c.v /\ lost' = (lost \/ (c.v /\ ~ciUser_result))

(* Mutant: the test for the last block is off.                              *)
chk_ciUser_Early(B) ==
  LET first == {Min(B)} \cap userLB_state
      rem   == ciUser_remainLB - Cardinality(B)
  IN  <<rem, userLB_state \ first, rem <= 1>>

(* _ioSReq_chk_ciUser: <<ciUser_remainLB, userLB_state, all blocks are      *)
(* there>>.  Once leaves are used the bits decide, and the loop over the    *)
(* blocks of an item tests the bit of its first block every time.           *)
chk_ciUser(B) ==
  LET first == {Min(B)} \cap userLB_state
      left  == userLB_state \ first
      rem   == ciUser_remainLB - Cardinality(B)
  IN  IF ~TrueProc THEN <<rem, userLB_state, rem = 0>>
      ELSE <<ciUser_remainLB - Cardinality(first), left,
             first # {} /\ Cardinality(B) = 1 /\ left = {}>>

(* ioSReq_ReadPL_endfn.  When the state machine does not take the end of    *)
(* the reads the segment is not committed.                                  *)
ReadPL_endfn(c) ==
  LET chk == chk_ciUser(c.lbs)
      all == IOSegReq_update_state(ioSegReq_stat, "R_ALLPL_DONE")
      ph  == IOSegReq_update_state(all[1], "R_RPhase_DONE")
  IN  /\ StoreResult(c)
      /\ ciUser_remainLB' = chk[1] /\ userLB_state' = chk[2]
      /\ ciMDS_remainLB' = ciMDS_remainLB - Cardinality(c.lbs)
      /\ IF chk[3] /\ all[2] = "DO_CI2IOSegREQ" /\ ph[2] = "DO_CI2IOREQ"
         THEN /\ ioSegReq_stat' = ph[1]
              /\ CommitUser(c.v) /\ done' = done + 1
         ELSE UNCHANGED <<ioSegReq_stat, ciUser, told, done>>
      /\ UNCHANGED <<ReqOPCode, TrueProc, md, got, wrote>>

(* _ioSReq_PW_WPhase: the old blocks are there.  An overwrite writes to the *)
(* locations it read from, a first write asks for new ones.  An item with   *)
(* no location at all gets a payload request that nobody answers            *)
(* (PLMgr_write_payload with num_dnLoc 0).                                  *)
PW_WPhase(st) ==
  /\ ciUser_remainLB' = lbid_len /\ ReqOPCode' = io_dir_true /\ ciUser_result' = TRUE
  /\ IF OVW
     THEN /\ ioSegReq_stat' = IOSegReq_update_state(st, "W_AcqMD_DONE")[1]
          /\ \E none \in SUBSET {i \in Items : item[i] = "void"} :
               item' = [i \in Items |-> IF i \in none THEN "stuck" ELSE "wr"]
          /\ UNCHANGED <<ciUser, mdata>>
     ELSE /\ ioSegReq_stat' = st /\ ciUser' = FALSE /\ mdata' = FALSE
          /\ item' = [i \in Items |-> "no"]

(* ioSReq_PartialW_ReadPL_endfn.  After a failed read ioSReq_WritePL_endfn  *)
(* is called in a state that does not take the end of the write.            *)
PartialW_ReadPL_endfn(c) ==
  LET chk == chk_ciUser(c.lbs)
      all == IOSegReq_update_state(ioSegReq_stat, "R_ALLPL_DONE")
      ph  == IOSegReq_update_state(all[1], "W_RPhase_DONE")
      wr  == IOSegReq_update_state(ioSegReq_stat, "W_ALLPL_DONE")
  IN  /\ userLB_state' = chk[2] /\ lost' = (lost \/ (c.v /\ ~ciUser_result))
      /\ IF chk[3] /\ c.v /\ ph[2] = "W_AcqMD"
         THEN /\ PW_WPhase(ph[1])
              /\ UNCHANGED <<ciMDS_remainLB, told, done>>
         ELSE /\ ciUser_result' = c.v /\ ciUser_remainLB' = chk[1]
              /\ IF chk[3] /\ ~c.v
                 THEN /\ CommitUser(FALSE)
                      /\ ciMDS_remainLB' = ciMDS_remainLB - lbid_len
                      /\ ioSegReq_stat' = wr[1]
                      /\ done' = IF wr[2] = "DO_CI2IOREQ" THEN done + 1 ELSE done
                 ELSE UNCHANGED <<ioSegReq_stat, ciMDS_remainLB, ciUser, told, done>>
              /\ UNCHANGED <<ReqOPCode, mdata, item>>
      /\ UNCHANGED <<TrueProc, inval, got, wrote>>

(* The rest of a read callback.  A leaf ends in ioSReq_ReadPL_endfn even    *)
(* when the segment is a write.                                             *)
ReadCb(c) ==
  /\ c \in cb /\ c.kind # "ci"
  /\ cb' = cb \ {c}
  /\ IF io_dir_true = "READ" \/ c.kind = "leaf" THEN ReadPL_endfn(c)
     ELSE PartialW_ReadPL_endfn(c)
  /\ UNCHANGED <<case, leaves>>

-----------------------------------------------------------------------------
(* A write: the item may be committed to the user, then it ends.            *)
WriteCi(i, ok) ==
  /\ item[i] = "wr" /\ (ok \/ i \in case.fail)
  /\ item' = [item EXCEPT ![i] = "ci"]
  /\ wrote' = IF ok THEN wrote \cup {i} ELSE wrote
  /\ cb' = cb \cup {Cb("ci", i, Blocks(i), ciUser_result /\ ok)}
  /\ UNCHANGED <<case, fsm, count, fea, mdata, inval, leaves, got, lost, told, done>>

(* ioSReq_WritePL_ciUser after the load.                                    *)
WritePL_ciUser(c) ==
  LET rem == ciUser_remainLB - Cardinality(c.lbs)
  IN  /\ c \in cb /\ c.kind = "ci"
      /\ cb' = cb \ {c}
      /\ StoreResult(c) /\ ciUser_remainLB' = rem
      /\ IF rem = 0 THEN CommitUser(c.v) ELSE UNCHANGED <<ciUser, told>>
      /\ UNCHANGED <<case, fsm, ciMDS_remainLB, TrueProc, userLB_state, md, leaves,
                     got, wrote, done>>

(* ioSReq_WritePL_endfn.                                                    *)
WritePL_endfn(i) ==
  LET rem == ciMDS_remainLB - Cardinality(Blocks(i))
      tr  == IOSegReq_update_state(ioSegReq_stat, "W_ALLPL_DONE")
  IN  /\ item[i] = "ci" /\ ~\E c \in cb : c.kind = "ci" /\ c.i = i
      /\ item' = [item EXCEPT ![i] = "end"]
      /\ ciMDS_remainLB' = rem
      /\ IF rem = 0 /\ tr[2] = "DO_CI2IOREQ"
         THEN ioSegReq_stat' = tr[1] /\ done' = done + 1
         ELSE UNCHANGED <<ioSegReq_stat, done>>
      /\ UNCHANGED <<case, ReqOPCode, ciUser_remainLB, ciUser_result, fea, mdata, inval,
                     leaves, cb, got, wrote, lost, told>>

-----------------------------------------------------------------------------
(* A datanode refuses the item's metadata: ioSReq_queryTrueMD is called.    *)
ReadStale(i) ==
  /\ item[i] = "rd" /\ i \in case.stale
  /\ item' = [item EXCEPT ![i] = "ask"]
  /\ UNCHANGED <<case, fsm, count, fea, mdata, inval, leaves, cb, res>>

(* The loop of ioSReq_queryTrueMD ends in state RUD only.                   *)
QueryTrue(i) ==
  LET tr == IOSegReq_update_state(ioSegReq_stat, "MDUD_UNSYNC")
  IN  /\ item[i] = "ask" /\ tr[2] = "DO_ATrueMD_PROC"
      /\ ioSegReq_stat' = tr[1]
      /\ item' = [item EXCEPT ![i] = "bits"]
      /\ UNCHANGED <<case, ReqOPCode, count, fea, mdata, inval, leaves, cb, res>>

(* The blocks of the item that have no data (_ioSReq_taretLB_gotData): all. *)
set_LBStat(i) == Blocks(i)

(* _ioSReq_set_LBStat: only the first query of the segment sets bits.       *)
QueryBits(i) ==
  /\ item[i] = "bits"
  /\ item' = [item EXCEPT ![i] = "leaf"]
  /\ TrueProc' = TRUE
  /\ userLB_state' = IF TrueProc THEN userLB_state ELSE userLB_state \cup set_LBStat(i)
  /\ UNCHANGED <<case, fsm, count, ciUser, mdata, inval, leaves, cb, res>>

(* _ioSReq_gen_leafIOSReq, _ioSReq_submit_all_leafR: a leaf per block, and  *)
(* every leaf in the pool is submitted.                                     *)
QueryLeaves(i) ==
  /\ item[i] = "leaf"
  /\ item' = [item EXCEPT ![i] = "back"]
  /\ leaf' = leaf \cup Blocks(i)
  /\ leafMD' = [b \in LBs |-> IF b \in leaf' THEN leafMD[b] + 1 ELSE leafMD[b]]
  /\ UNCHANGED <<case, fsm, count, fea, mdata, inval, leafRd, cb, res>>

QueryDone(i) ==
  /\ item[i] = "back"
  /\ item' = [item EXCEPT ![i] = "end"]
  /\ ioSegReq_stat' = IOSegReq_update_state(ioSegReq_stat, "ATrueMD_DONE")[1]
  /\ UNCHANGED <<case, ReqOPCode, count, fea, mdata, inval, leaves, cb, res>>

(* _cb_ioSleafR_acquireMD_endfn: without valid metadata the leaf is left    *)
(* where it is.                                                             *)
LeafMD(b) ==
  /\ leafMD[b] > 0
  /\ leafMD' = [leafMD EXCEPT ![b] = @ - 1]
  /\ \/ leafRd' = [leafRd EXCEPT ![b] = @ + 1]
     \/ ~case.md /\ UNCHANGED leafRd
  /\ UNCHANGED <<case, fsm, count, fea, md, leaf, cb, res>>

(* _cb_ioSleafR_ReadPL_endfn up to the load in ioSReq_ReadPL_endfn.         *)
LeafRead(b, ok) ==
  LET i == CHOOSE j \in Items : b \in Blocks(j)
  IN  /\ leafRd[b] > 0 /\ (ok \/ i \in case.fail)
      /\ leafRd' = [leafRd EXCEPT ![b] = @ - 1]
      /\ leaf' = leaf \ {b}
      /\ got' = IF ok THEN got \cup {b} ELSE got
      /\ cb' = cb \cup {Cb("leaf", i, {b}, ciUser_result /\ ok)}
      /\ UNCHANGED <<case, fsm, count, fea, md, leafMD, wrote, lost, told, done>>

-----------------------------------------------------------------------------
ItemStep(i) ==
  \/ \E ok \in BOOLEAN : ReadPL(i, ok) \/ WriteCi(i, ok)
  \/ WritePL_endfn(i)
  \/ ReadStale(i)
  \/ QueryTrue(i) \/ QueryBits(i) \/ QueryLeaves(i) \/ QueryDone(i)

LeafStep(b) == LeafMD(b) \/ \E ok \in BOOLEAN : LeafRead(b, ok)

CbStep == \E c \in cb : ReadCb(c) \/ WritePL_ciUser(c)

(* A segment that has nothing to do any more.                               *)
Idle ==
  /\ done > 0 \/ \A i \in Items : item[i] \in {"end", "void", "ask", "stuck"}
  /\ cb = {} /\ \A b \in LBs : leafMD[b] = 0 /\ leafRd[b] = 0
  /\ inval = 0
  /\ UNCHANGED vars

Next ==
  \/ Submit
  \/ AcquireMD_endfn
  \/ InvalItem
  \/ CbStep
  \/ \E i \in Items : ItemStep(i)
  \/ \E b \in LBs : LeafStep(b)
  \/ Idle

Spec == Init /\ [][Next]_vars

(* Every callback is called and every thread keeps running: the payload     *)
(* manager ends its requests (EveryReadEnds, EveryWriteEnds), the NN client *)
(* answers (AcquireEnds).                                                   *)
FairSpec ==
  /\ Spec
  /\ WF_vars(Submit) /\ WF_vars(AcquireMD_endfn) /\ WF_vars(InvalItem) /\ WF_vars(CbStep)
  /\ WF_vars(\E i \in Items : ItemStep(i)) /\ WF_vars(\E b \in LBs : LeafStep(b))

-----------------------------------------------------------------------------
TypeOK ==
  /\ case \in Cases
  /\ ioSegReq_stat \in IOSegREQ_S /\ ReqOPCode \in {"READ", "WRITE"}
  /\ ciUser_remainLB \in 0 .. lbid_len /\ ciMDS_remainLB \in 0 .. lbid_len
  /\ ciUser_result \in BOOLEAN /\ ciUser \in BOOLEAN /\ TrueProc \in BOOLEAN
  /\ userLB_state \subseteq LBs /\ mdata \in BOOLEAN /\ inval \in 0 .. Len(case.len)
  /\ item \in [Items -> {"no", "rd", "inval", "wr", "ci", "ask", "bits", "leaf", "back", "void",
                       "stuck", "end"}]
  /\ leaf \subseteq LBs /\ leafMD \in [LBs -> Nat] /\ leafRd \in [LBs -> Nat]
  /\ got \subseteq LBs /\ wrote \subseteq Items /\ lost \in BOOLEAN
  /\ told \in {"none", "ok", "fail"} /\ done \in 0 .. 1

(* A read is answered with success only when every block of the segment is  *)
(* in the user's pages, and a write only when every item was written        *)
(* (ciUser_remainLB and userLB_state count the same blocks), unless the     *)
(* failure of an item was lost (NoFailureLost).                             *)
SuccessIsComplete ==
  told = "ok" => lost \/ IF io_dir_true = "READ" THEN got = LBs ELSE wrote = Items

(* A write that is not aligned writes no item before the old content of     *)
(* every block was merged into its buffer (_ioSReq_PW_WPhase), with the     *)
(* same exception.                                                          *)
OldBlocksFirst ==
  ~Aligned /\ io_dir_true = "WRITE" /\ (\E i \in Items : item[i] \in {"wr", "ci"})
    => got = LBs \/ lost

(* Once the segment has told its io request that it is done, which may free *)
(* it, no payload request, leaf, query or callback works on it any more,    *)
(* and the user was answered before.                                        *)
NothingAfterDone ==
  done > 0 => /\ told # "none" /\ cb = {} /\ leaf = {}
              /\ \A i \in Items : item[i] \in {"no", "end", "void"}
              /\ \A b \in LBs : leafMD[b] = 0 /\ leafRd[b] = 0

(* No invalid item is answered twice or after the segment is done, although *)
(* the loop that answers them goes on when its last callback has ended the  *)
(* segment or freed the items (_invalMD_IODone_Proc).                       *)
InvalOnce == inval # 0 /\ (done > 0 \/ ~mdata) => \A i \in Items : item[i] # "inval"

(* The data is whole: nobody is told of success too early, and no old block *)
(* is lost under a partial write.                                           *)
DataIsWhole == TypeOK /\ SuccessIsComplete /\ OldBlocksFirst

(* The end of a segment is clean: nothing is answered to it after it may    *)
(* have been freed.                                                         *)
EndIsClean == NothingAfterDone /\ InvalOnce

(* The segments the code leaves without an end: the last block was read     *)
(* while a query held the state machine in ATrueMD_Proc, a leaf got no      *)
(* metadata, the old blocks of a write could not be read, or an item of a   *)
(* partial overwrite has no location.                                       *)
Abandoned ==
  \/ TrueProc /\ userLB_state = {} /\ cb = {}
  \/ \E b \in leaf : leafMD[b] = 0 /\ leafRd[b] = 0
  \/ ~Aligned /\ io_dir_true = "WRITE" /\ told = "fail"
  \/ \E i \in Items : item[i] = "stuck"

(* Every segment ends, but for the four kinds the code abandons.           *)
EverySegmentEnds == <>(done > 0 \/ Abandoned)

-----------------------------------------------------------------------------
(* What the code does not keep (README, Known deviations).                  *)

(* No callback loses the failure of another one: ciUser_result &= ioRes.    *)
NoFailureLost == ~lost

(* _invalMD_IODone_Proc walks over items of a segment that lives: it reads  *)
(* the length of an item and the next item after the callback.              *)
LoopIsLive == inval # 0 => mdata /\ done = 0
=============================================================================
