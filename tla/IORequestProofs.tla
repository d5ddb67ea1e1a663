--------------------------- MODULE IORequestProofs ---------------------------
(***************************************************************************)
(* Proofs about IORequest: the overlap test of ioreq_ovlp.c for all block   *)
(* ranges, types, the overlap invariant when the items can be allocated,    *)
(* mutual exclusion of conflicting requests, the refinement of IOSerial,    *)
(* and the reports to the namenode that a request waits for.                *)
(***************************************************************************)
EXTENDS IORequest, FiniteSetTheorems, TLAPS

-----------------------------------------------------------------------------
(* chk_lb_ovlp classifies every pair of ranges exactly.                     *)
THEOREM OverlapIsExact ==
  ASSUME NEW prev \in IO, NEW next \in IO
  PROVE  OverlapExact(prev, next)
<1>1. /\ prev.lbid_start \in Nat /\ prev.lbid_len \in Nat \ {0}
      /\ next.lbid_start \in Nat /\ next.lbid_len \in Nat \ {0}
  BY DEF IO
<1> DEFINE ps == prev.lbid_start
           pe == LastLB(prev)
           ns == next.lbid_start
           ne == LastLB(next)
<1>2. pe \in Nat /\ ne \in Nat /\ ps <= pe /\ ns <= ne
  BY <1>1 DEF LastLB
<1>3. CASE ps > ne \/ ns > pe
  <2>1. chk_lb_ovlp(prev, next) = NoOvlp
    BY <1>1, <1>2, <1>3 DEF chk_lb_ovlp
  <2>2. LBs(prev) \cap LBs(next) = {}
    BY <1>1, <1>2, <1>3 DEF LBs
  <2> QED BY <2>1, <2>2 DEF OverlapExact, NoOvlp
<1>4. CASE ps <= ne /\ ns <= pe
  <2>1. LBs(prev) \cap LBs(next) # {}
    <3>1. CASE ps <= ns
      BY <1>1, <1>2, <1>4, <3>1 DEF LBs
    <3>2. CASE ns <= ps
      BY <1>1, <1>2, <1>4, <3>2 DEF LBs
    <3> QED BY <1>1, <3>1, <3>2
  <2>2. CASE ps > ns
    <3>1. chk_lb_ovlp(prev, next)
            = [wait |-> "Partial", ovlp_s |-> ps,
               ovlp_l |-> IF pe <= ne THEN prev.lbid_len ELSE ne - ps + 1]
      BY <1>1, <1>2, <1>4, <2>2 DEF chk_lb_ovlp
    <3> QED BY <1>1, <1>2, <1>4, <2>1, <2>2, <3>1 DEF OverlapExact, LBs, LastLB
  <2>3. CASE ps = ns
    <3>1. chk_lb_ovlp(prev, next)
            = IF pe < ne
              THEN [wait |-> "Partial", ovlp_s |-> ps, ovlp_l |-> prev.lbid_len]
              ELSE [wait |-> "All", ovlp_s |-> ps, ovlp_l |-> next.lbid_len]
      BY <1>1, <1>2, <1>4, <2>3 DEF chk_lb_ovlp
    <3> QED BY <1>1, <1>2, <1>4, <2>1, <2>3, <3>1 DEF OverlapExact, LBs, LastLB
  <2>4. CASE ps < ns
    <3>1. chk_lb_ovlp(prev, next)
            = [wait |-> "Partial", ovlp_s |-> ns,
               ovlp_l |-> IF pe >= ne THEN next.lbid_len ELSE pe - ns + 1]
      BY <1>1, <1>2, <1>4, <2>4 DEF chk_lb_ovlp
    <3> QED BY <1>1, <1>2, <1>4, <2>1, <2>4, <3>1 DEF OverlapExact, LBs, LastLB
  <2> QED BY <1>1, <2>2, <2>3, <2>4
<1> QED BY <1>1, <1>2, <1>3, <1>4

(* Which of two requests is the older one does not matter for a conflict.   *)
THEOREM ConflictSymmetric ==
  ASSUME NEW a \in IO, NEW b \in IO, Conflict(a, b)
  PROVE  Conflict(b, a)
<1>1. OverlapExact(a, b) /\ OverlapExact(b, a)
  BY OverlapIsExact
<1>2. LBs(a) \cap LBs(b) = LBs(b) \cap LBs(a)
  OBVIOUS
<1> QED BY <1>1, <1>2 DEF OverlapExact, Conflict, chk_io_rw

-----------------------------------------------------------------------------
(* The length of a segment is a natural number.                             *)
LEMMA SplitLenType ==
  ASSUME NEW x, NEW heads, NEW lb
  PROVE  SplitLen(x, heads, lb) \in Nat
<1> DEFINE S == {m \in AllLB : /\ m \in lb .. LastLB(x)
                               /\ \A h \in heads : h <= lb \/ m < h}
<1>1. IsFiniteSet(S)
  BY LBAssumption, FS_Subset
<1> QED BY <1>1, FS_CardinalityType DEF SplitLen

(* The segments a worker counts are finitely many.                          *)
LEMMA CountedType ==
  ASSUME NEW r
  PROVE  Cardinality(SegsWith(r, Counted)) \in Nat
<1>1. IsFiniteSet(SegsWith(r, Counted))
  BY LBAssumption, FS_Subset DEF SegsWith
<1> QED BY <1>1, FS_CardinalityType

(* Subsets of the requests are finite sets.                                 *)
LEMMA ReqSubsets ==
  ASSUME NEW S \in SUBSET Req
  PROVE  IsFiniteSet(S) /\ Cardinality(S) \in Nat
BY ReqAssumption, FS_Subset, FS_CardinalityType

(* What a segment can leave behind is an Outcome.                           *)
LEMMA OutcomesType ==
  ASSUME NEW dir
  PROVE  Outcomes(dir) \subseteq Outcome
BY ReplicaAssumption, FlagAssumption
   DEF Outcomes, WriteOutcome, ReadOutcome, Outcome, MDItemState

LEMMA NoSegType == NoSeg \in Segment_t
BY ReplicaAssumption DEF NoSeg, Segment_t, NoOutcome, Outcome

(* Each step of a segment leaves a segment.                                 *)
LEMMA SegStepType ==
  ASSUME NEW s \in Segment_t
  PROVE  /\ Submitted(s) \in Segment_t /\ Stored(s) \in Segment_t
         /\ Reported(s) \in Segment_t
         /\ \A n \in Nat : NewSeg(n) \in Segment_t
         /\ \A b, c \in BOOLEAN : Loaded(s, b, c) \in Segment_t
         /\ \A o \in Outcome : Finished(s, o) \in Segment_t
<1>1. Submitted(s) \in Segment_t /\ Stored(s) \in Segment_t
  BY DEF Submitted, Stored, Segment_t
<1>2. Reported(s) \in Segment_t
  <2>1. s.out \in Outcome
    BY DEF Segment_t
  <2>2. [s.out EXCEPT !.ci = "NONE"] \in Outcome
    BY <2>1 DEF Outcome
  <2> QED BY <2>2 DEF Reported, Segment_t
<1>3. \A n \in Nat : NewSeg(n) \in Segment_t
  BY NoSegType DEF NewSeg, Segment_t
<1>4. \A b, c \in BOOLEAN : Loaded(s, b, c) \in Segment_t
  BY DEF Loaded, Segment_t
<1>5. \A o \in Outcome : Finished(s, o) \in Segment_t
  BY DEF Finished, Segment_t
<1> QED BY <1>1, <1>2, <1>3, <1>4, <1>5

(* Replacing one segment by a segment keeps the type of seg.                *)
LEMMA SegUpdateType ==
  ASSUME NEW f \in [Req -> [AllLB -> Segment_t]],
         NEW r \in Req, NEW lb \in AllLB, NEW s \in Segment_t
  PROVE  [f EXCEPT ![r][lb] = s] \in [Req -> [AllLB -> Segment_t]]
OBVIOUS

-----------------------------------------------------------------------------
(* Every step of every thread keeps the types.                              *)
LEMMA TypeStep ==
  TypeOK /\ [Next]_vars => TypeOK'
<1> SUFFICES ASSUME TypeOK, [Next]_vars PROVE TypeOK'
  OBVIOUS
<1> USE DEF TypeOK
<1>1. ASSUME NEW r \in Req, NEW x \in UserIO, SubmitIOReq(r, x) PROVE TypeOK'
  <2>0. x.lbid_len \in Nat
    BY UserIOAssumption DEF IO
  <2>1. PICK failing \in FailingAllocs(x) :
          LET blockers == Linked(ioReq_ovlp_pool, x, failing)
                            \cup Linked(ioReq_pool, x, failing)
          IN  /\ ovlp_item' = ovlp_item \cup (blockers \X {r})
              /\ cnt_ovlp_wait' = [cnt_ovlp_wait EXCEPT ![r] = Cardinality(blockers)]
              /\ IF blockers # {}
                 THEN /\ ioReq_stat' = [ioReq_stat EXCEPT ![r] = "OvlpWait"]
                      /\ ioReq_ovlp_pool' = ioReq_ovlp_pool \cup {r}
                      /\ order' = order \cup (ioReq_ovlp_pool \X {r})
                      /\ UNCHANGED ioReq_pool
                 ELSE /\ ioReq_stat' = [ioReq_stat EXCEPT ![r] = "RWUserData"]
                      /\ ioReq_pool' = ioReq_pool \cup {r}
                      /\ order' = order \cup (ioReq_pool \X {r})
                      /\ UNCHANGED ioReq_ovlp_pool
    BY <1>1 DEF SubmitIOReq
  <2> DEFINE blockers == Linked(ioReq_ovlp_pool, x, failing)
                           \cup Linked(ioReq_pool, x, failing)
  <2>2. blockers \subseteq Req
    BY DEF Linked
  <2>3. Cardinality(blockers) \in Nat
    BY <2>2, ReqSubsets
  <2> HIDE DEF blockers
  <2>4. /\ ovlp_item' = ovlp_item \cup (blockers \X {r})
        /\ cnt_ovlp_wait' = [cnt_ovlp_wait EXCEPT ![r] = Cardinality(blockers)]
        /\ \/ /\ ioReq_stat' = [ioReq_stat EXCEPT ![r] = "OvlpWait"]
              /\ ioReq_ovlp_pool' = ioReq_ovlp_pool \cup {r}
              /\ order' = order \cup (ioReq_ovlp_pool \X {r})
              /\ ioReq_pool' = ioReq_pool
           \/ /\ ioReq_stat' = [ioReq_stat EXCEPT ![r] = "RWUserData"]
              /\ ioReq_pool' = ioReq_pool \cup {r}
              /\ order' = order \cup (ioReq_pool \X {r})
              /\ ioReq_ovlp_pool' = ioReq_ovlp_pool
    BY <2>1 DEF blockers
  <2>8. /\ ioReq_stat' \in [Req -> States]
        /\ ioReq_pool' \subseteq Req /\ ioReq_ovlp_pool' \subseteq Req
        /\ order' \subseteq Req \X Req
    BY <2>4 DEF States, Active
  <2>5. ovlp_item' \subseteq Req \X Req /\ cnt_ovlp_wait' \in [Req -> Int]
    BY <2>2, <2>3, <2>4
  <2>6. older' \subseteq Req \X Req
    BY <1>1 DEF SubmitIOReq, live
  <2>7. seg' \in [Req -> [AllLB -> Segment_t]]
    BY <1>1, NoSegType DEF SubmitIOReq
  <2> QED
    BY <1>1, <2>0, <2>5, <2>6, <2>7, <2>8 DEF SubmitIOReq
<1>2. ASSUME NEW r \in Req, GenIOSegReq(r) PROVE TypeOK'
  <2>1. seg' \in [Req -> [AllLB -> Segment_t]]
    <3>1. \A heads : [lb \in AllLB |-> IF lb \in heads
                                       THEN NewSeg(SplitLen(io[r], heads, lb))
                                       ELSE NoSeg] \in [AllLB -> Segment_t]
      BY NoSegType, SplitLenType, SegStepType
    <3>2. PICK heads : seg' = [seg EXCEPT ![r] =
                                 [lb \in AllLB |->
                                    IF lb \in heads
                                    THEN NewSeg(SplitLen(io[r], heads, lb))
                                    ELSE NoSeg]]
      BY <1>2 DEF GenIOSegReq
    <3> QED BY <3>1, <3>2
  <2> QED BY <1>2, <2>1 DEF GenIOSegReq, pools, ci
<1>3. ASSUME NEW r \in Req, SubmitSeg(r) PROVE TypeOK'
  <2>1. PICK lb \in AllLB : seg' = [seg EXCEPT ![r][lb] = Submitted(@)]
    BY <1>3 DEF SubmitSeg, Unsubmitted
  <2>2. seg' \in [Req -> [AllLB -> Segment_t]]
    BY <2>1, SegStepType, SegUpdateType
  <2> QED BY <1>3, <2>2 DEF SubmitSeg, pools, ci
<1>4. ASSUME NEW r \in Req, NEW lb \in AllLB, NEW result \in BOOLEAN,
             CommitUserLoad(r, lb, result)
      PROVE  TypeOK'
  <2>1. Loaded(seg[r][lb], result, ioResult[r]) \in Segment_t
    <3>1. seg[r][lb] \in Segment_t /\ ioResult[r] \in BOOLEAN
      OBVIOUS
    <3> QED BY <3>1, SegStepType
  <2>2. seg' \in [Req -> [AllLB -> Segment_t]]
    BY <1>4, <2>1, SegUpdateType DEF CommitUserLoad
  <2> QED BY <1>4, <2>2 DEF CommitUserLoad, pools, ci
<1>5. ASSUME NEW r \in Req, NEW lb \in AllLB, CommitUserStore(r, lb) PROVE TypeOK'
  <2>1. seg[r][lb] \in Segment_t
    OBVIOUS
  <2>2. seg' \in [Req -> [AllLB -> Segment_t]]
    BY <1>5, <2>1, SegStepType, SegUpdateType DEF CommitUserStore
  <2>3. seg[r][lb].len \in Nat /\ (seg[r][lb].res /\ seg[r][lb].val) \in BOOLEAN
    BY <2>1 DEF Segment_t
  <2> QED BY <1>5, <2>2, <2>3 DEF CommitUserStore, pools
<1>6. ASSUME NEW r \in Req, NEW lb \in AllLB, NEW o \in Outcomes(io[r].dir),
             SegIODone(r, lb, o)
      PROVE  TypeOK'
  <2>1. seg[r][lb] \in Segment_t /\ o \in Outcome
    BY OutcomesType
  <2>2. seg' \in [Req -> [AllLB -> Segment_t]]
    BY <1>6, <2>1, SegStepType, SegUpdateType DEF SegIODone
  <2>3. seg[r][lb].len \in Nat
    BY <2>1 DEF Segment_t
  <2>4. ioReq_stat' \in [Req -> States] /\ iodone_pool' \subseteq Req
    BY <1>6 DEF SegIODone, States, Active
  <2>5. ciMDS_remainLB' \in [Req -> Int]
    BY <1>6, <2>3 DEF SegIODone
  <2> QED BY <1>6, <2>2, <2>4, <2>5 DEF SegIODone, pools
<1>7. ASSUME NEW r \in Req, NEW lb \in AllLB, ReportMDDone(r, lb) PROVE TypeOK'
  <2>1. seg' \in [Req -> [AllLB -> Segment_t]]
    BY <1>7, SegStepType, SegUpdateType DEF ReportMDDone
  <2>2. ioReq_stat' \in [Req -> States] /\ iodone_pool' \subseteq Req
    BY <1>7 DEF ReportMDDone, States, Active
  <2>3. num_of_ci2nn' \in [Req -> Int]
    BY <1>7 DEF ReportMDDone
  <2> QED BY <1>7, <2>1, <2>2, <2>3 DEF ReportMDDone, pools, ci
<1>8. ASSUME NEW r \in Req, WorkerReport(r) PROVE TypeOK'
  <2>1. SegsWith(r, Sent) \subseteq AllLB
    BY DEF SegsWith
  <2> QED BY <1>8, <2>1, CountedType DEF WorkerReport, pools, ci
<1>9. ASSUME NEW r \in Req, EndRequest(r) PROVE TypeOK'
  <2>1. Woken(r) \subseteq Req
    BY DEF Woken, Waiters
  <2>2. cnt_ovlp_wait' \in [Req -> Int]
    BY <1>9 DEF EndRequest
  <2>3. ioReq_stat' \in [Req -> States]
    BY <1>9 DEF EndRequest, States, Active
  <2>4. order' \subseteq Req \X Req /\ older' \subseteq Req \X Req
    BY <1>9, <2>1 DEF EndRequest
  <2>5. seg' \in [Req -> [AllLB -> Segment_t]]
    BY <1>9, NoSegType DEF EndRequest
  <2> QED BY <1>9, <2>1, <2>2, <2>3, <2>4, <2>5 DEF EndRequest, ci
<1>10. CASE UNCHANGED vars
  BY <1>10 DEF vars, pools, ci
<1> QED
  BY <1>1, <1>2, <1>3, <1>4, <1>5, <1>6, <1>7, <1>8, <1>9, <1>10
     DEF Next, Submitter, Segment, Worker

(* Types hold in every reachable state, whatever can fail.                  *)
THEOREM TypeCorrect == Spec => []TypeOK
<1>1. Init => TypeOK
  BY UserIOAssumption, NoSegType DEF Init, TypeOK, States, Active
<1> QED BY <1>1, TypeStep, PTL DEF Spec

-----------------------------------------------------------------------------
(* The live requests in conflict with a new IO x.                           *)
Blockers(x) == {c \in live : Conflict(io[c], x)}

(* With every item allocated, an accepted request is linked to exactly the  *)
(* live requests in conflict with it and waits iff there is one.            *)
LEMMA SubmitEffect ==
  ASSUME ~OvlpAllocFails, TypeOK, NEW r \in Req, NEW x \in UserIO,
         SubmitIOReq(r, x)
  PROVE  /\ ovlp_item' = ovlp_item \cup (Blockers(x) \X {r})
         /\ cnt_ovlp_wait' = [cnt_ovlp_wait EXCEPT ![r] = Cardinality(Blockers(x))]
         /\ Blockers(x) # {} => /\ ioReq_stat' = [ioReq_stat EXCEPT ![r] = "OvlpWait"]
                      /\ ioReq_ovlp_pool' = ioReq_ovlp_pool \cup {r}
                      /\ ioReq_pool' = ioReq_pool
         /\ Blockers(x) = {} => /\ ioReq_stat' = [ioReq_stat EXCEPT ![r] = "RWUserData"]
                      /\ ioReq_pool' = ioReq_pool \cup {r}
                      /\ ioReq_ovlp_pool' = ioReq_ovlp_pool
<1>1. FailingAllocs(x) = {{}}
  BY DEF FailingAllocs
<1>2. Linked(ioReq_ovlp_pool, x, {}) \cup Linked(ioReq_pool, x, {}) = Blockers(x)
  BY DEF Linked, live, Blockers
<1> QED BY <1>1, <1>2 DEF SubmitIOReq

(* A step that leaves the pools alone and moves no request into or out of   *)
(* the active states keeps the overlap invariant.                           *)
LEMMA QuietStep ==
  ASSUME TypeOK, OvlpInv, UNCHANGED <<io, pools>>, TypeOK',
         \A r \in Req : (ioReq_stat'[r] = ioReq_stat[r])
            \/ (ioReq_stat[r] \in Active /\ ioReq_stat'[r] \in Active)
  PROVE  OvlpInv'
<1>1. PoolsMatchStates'
  BY DEF OvlpInv, PoolsMatchStates, pools, Active
<1>2. AgeIsTotal' /\ WaitsWhileItems'
  BY DEF OvlpInv, AgeIsTotal, WaitsWhileItems, pools, live
<1>3. ItemsAreConflicts' /\ CountersMatchItems'
  BY DEF OvlpInv, ItemsAreConflicts, CountersMatchItems, pools
<1> QED BY <1>1, <1>2, <1>3 DEF OvlpInv

(* Accepting a request keeps the overlap invariant.                         *)
LEMMA SubmitStep ==
  ASSUME ~OvlpAllocFails, TypeOK, OvlpInv, NEW r \in Req, NEW x \in UserIO,
         SubmitIOReq(r, x)
  PROVE  OvlpInv'
<1> DEFINE B == {c \in live : Conflict(io[c], x)}
<1>1. /\ ovlp_item' = ovlp_item \cup (B \X {r})
      /\ cnt_ovlp_wait' = [cnt_ovlp_wait EXCEPT ![r] = Cardinality(B)]
      /\ B # {} => /\ ioReq_stat' = [ioReq_stat EXCEPT ![r] = "OvlpWait"]
                   /\ ioReq_ovlp_pool' = ioReq_ovlp_pool \cup {r}
                   /\ ioReq_pool' = ioReq_pool
      /\ B = {} => /\ ioReq_stat' = [ioReq_stat EXCEPT ![r] = "RWUserData"]
                   /\ ioReq_pool' = ioReq_pool \cup {r}
                   /\ ioReq_ovlp_pool' = ioReq_ovlp_pool
  BY SubmitEffect DEF Blockers
<1>2. /\ ioReq_stat[r] = "Free"
      /\ io' = [io EXCEPT ![r] = x]
      /\ older' = older \cup (live \X {r})
  BY DEF SubmitIOReq
<1>3. r \notin live /\ live \subseteq Req
  BY <1>2 DEF OvlpInv, PoolsMatchStates, live, Active, TypeOK
<1>4. live' = live \cup {r}
  BY <1>1 DEF live
<1>5. PoolsMatchStates'
  BY <1>1, <1>2 DEF OvlpInv, PoolsMatchStates, TypeOK, Active
<1>6. AgeIsTotal'
  BY <1>2, <1>3, <1>4 DEF OvlpInv, AgeIsTotal
<1>7. ItemsAreConflicts'
  <2>1. older \subseteq live \X live /\ ovlp_item = {e \in older : Conflict(io[e[1]], io[e[2]])}
    BY DEF OvlpInv, AgeIsTotal, ItemsAreConflicts
  <2>2. \A e \in older : io'[e[1]] = io[e[1]] /\ io'[e[2]] = io[e[2]]
    BY <1>2, <1>3, <2>1 DEF TypeOK
  <2>3. \A c \in live : io'[c] = io[c] /\ io'[r] = x
    BY <1>2, <1>3 DEF TypeOK
  <2>4. {e \in older' : Conflict(io'[e[1]], io'[e[2]])}
          = {e \in older : Conflict(io[e[1]], io[e[2]])} \cup (B \X {r})
    BY <1>2, <2>2, <2>3
  <2> QED BY <1>1, <2>1, <2>4 DEF ItemsAreConflicts
<1>8. CountersMatchItems'
  <2>1. ovlp_item \subseteq live \X live
    BY DEF OvlpInv, AgeIsTotal, ItemsAreConflicts
  <2>2. {p \in Req : <<p, r>> \in ovlp_item'} = B
    BY <1>1, <1>3, <2>1
  <2>3. \A q \in Req : q # r => {p \in Req : <<p, q>> \in ovlp_item'}
                                = {p \in Req : <<p, q>> \in ovlp_item}
    BY <1>1
  <2> HIDE DEF B
  <2> QED BY <1>1, <2>2, <2>3 DEF CountersMatchItems, OvlpInv, TypeOK
<1>9. WaitsWhileItems'
  <2>1. ovlp_item \subseteq live \X live
    BY DEF OvlpInv, AgeIsTotal, ItemsAreConflicts
  <2>2. \A q \in live : (\E p \in Req : <<p, q>> \in ovlp_item')
                            <=> (\E p \in Req : <<p, q>> \in ovlp_item)
    BY <1>1, <1>3
  <2>3. \A q \in live : q \in ioReq_ovlp_pool' <=> q \in ioReq_ovlp_pool
    BY <1>1, <1>3
  <2>4. (\E p \in Req : <<p, r>> \in ovlp_item') <=> B # {}
    BY <1>1, <1>3, <2>1
  <2>5. r \in ioReq_ovlp_pool' <=> B # {}
    BY <1>1, <1>3 DEF live
  <2> HIDE DEF B
  <2> QED BY <1>4, <2>2, <2>3, <2>4, <2>5 DEF WaitsWhileItems, OvlpInv
<1> QED BY <1>5, <1>6, <1>7, <1>8, <1>9 DEF OvlpInv

(* A waiter is let through exactly when it waited for r alone.              *)
LEMMA WokenMeaning ==
  ASSUME TypeOK, OvlpInv, NEW r \in Req, NEW q \in Req
  PROVE  q \in Woken(r) <=> {p \in Req : <<p, q>> \in ovlp_item} = {r}
<1> DEFINE S == {p \in Req : <<p, q>> \in ovlp_item}
<1>1. IsFiniteSet(S) /\ cnt_ovlp_wait[q] = Cardinality(S)
  BY ReqSubsets DEF OvlpInv, CountersMatchItems
<1>2. r \in S => ioReq_stat[q] = "OvlpWait"
  BY DEF OvlpInv, ItemsAreConflicts, AgeIsTotal, WaitsWhileItems, PoolsMatchStates
<1>3. q \in Woken(r) <=> r \in S /\ Cardinality(S) = 1
  BY <1>1, <1>2 DEF Woken, Waiters
<1>4. r \in S /\ Cardinality(S) = 1 <=> S = {r}
  <2> HIDE DEF S
  <2> QED BY <1>1, FS_Singleton
<1> QED BY <1>3, <1>4

(* The end of a request keeps the overlap invariant.                        *)
LEMMA EndStep ==
  ASSUME TypeOK, OvlpInv, NEW r \in Req, EndRequest(r)
  PROVE  OvlpInv'
<1> DEFINE Items(q) == {p \in Req : <<p, q>> \in ovlp_item}
<1>1. /\ ioReq_stat' = [q \in Req |-> IF q = r THEN "Free"
                                      ELSE IF q \in Woken(r) THEN "RWUserData"
                                      ELSE ioReq_stat[q]]
      /\ ioReq_pool' = (ioReq_pool \ {r}) \cup Woken(r)
      /\ ioReq_ovlp_pool' = ioReq_ovlp_pool \ Woken(r)
      /\ ovlp_item' = {e \in ovlp_item : e[1] # r}
      /\ cnt_ovlp_wait' = [q \in Req |-> IF q \in Waiters(r)
                                         THEN cnt_ovlp_wait[q] - 1
                                         ELSE cnt_ovlp_wait[q]]
      /\ older' = {e \in older : e[1] # r /\ e[2] # r}
      /\ io' = io
  BY DEF EndRequest
<1>2. ioReq_stat[r] \in Active /\ r \in ioReq_pool /\ r \notin ioReq_ovlp_pool
  BY DEF EndRequest, OvlpInv, PoolsMatchStates, Active
<1>3. /\ Woken(r) \subseteq ioReq_ovlp_pool
      /\ r \notin Woken(r)
      /\ \A q \in Woken(r) : ioReq_stat[q] = "OvlpWait"
  BY <1>2 DEF Woken, Waiters, OvlpInv, PoolsMatchStates, Active
<1>4. live' = live \ {r}
  BY <1>1, <1>2, <1>3 DEF live
<1>5. /\ ovlp_item \subseteq older /\ older \subseteq live \X live
      /\ live \subseteq Req
      /\ \A p \in Req : <<p, r>> \notin ovlp_item
  BY <1>2 DEF OvlpInv, ItemsAreConflicts, AgeIsTotal, live, TypeOK, WaitsWhileItems
<1>6. PoolsMatchStates'
  BY <1>1, <1>2, <1>3 DEF OvlpInv, PoolsMatchStates, Active
<1>7. AgeIsTotal'
  BY <1>1, <1>4 DEF OvlpInv, AgeIsTotal
<1>8. ItemsAreConflicts'
  <2>1. ovlp_item = {e \in older : Conflict(io[e[1]], io[e[2]])}
    BY DEF OvlpInv, ItemsAreConflicts
  <2>2. \A e \in ovlp_item : e[2] # r
    BY <1>5
  <2> QED BY <1>1, <2>1, <2>2 DEF ItemsAreConflicts
<1>9. CountersMatchItems'
  <2>1. SUFFICES ASSUME NEW q \in Req
                 PROVE  cnt_ovlp_wait'[q]
                          = Cardinality({p \in Req : <<p, q>> \in ovlp_item'})
    BY DEF CountersMatchItems
  <2>2. {p \in Req : <<p, q>> \in ovlp_item'} = Items(q) \ {r}
    BY <1>1
  <2>3. cnt_ovlp_wait[q] = Cardinality(Items(q)) /\ IsFiniteSet(Items(q))
    BY ReqSubsets DEF OvlpInv, CountersMatchItems
  <2>4. q \in Waiters(r) <=> r \in Items(q)
    BY DEF Waiters
  <2> HIDE DEF Items
  <2>5. Cardinality(Items(q) \ {r}) = IF r \in Items(q) THEN Cardinality(Items(q)) - 1
                                      ELSE Cardinality(Items(q))
    BY <2>3, FS_RemoveElement
  <2> QED BY <1>1, <2>2, <2>3, <2>4, <2>5
<1>10. WaitsWhileItems'
  <2>1. SUFFICES ASSUME NEW q \in live, q # r
                 PROVE  q \in ioReq_ovlp_pool' <=> \E p \in Req : <<p, q>> \in ovlp_item'
    BY <1>4 DEF WaitsWhileItems
  <2>2. q \in Req
    BY <1>5
  <2>3. q \in ioReq_ovlp_pool <=> Items(q) # {}
    BY DEF OvlpInv, WaitsWhileItems
  <2>4. q \in Woken(r) <=> Items(q) = {r}
    BY <2>2, WokenMeaning
  <2>5. (\E p \in Req : <<p, q>> \in ovlp_item') <=> Items(q) \ {r} # {}
    BY <1>1
  <2> HIDE DEF Items
  <2> QED BY <1>1, <2>3, <2>4, <2>5
<1> QED BY <1>6, <1>7, <1>8, <1>9, <1>10 DEF OvlpInv

(* Every step keeps the overlap invariant when items can be allocated.      *)
LEMMA OvlpStep ==
  ASSUME ~OvlpAllocFails, TypeOK, OvlpInv, [Next]_vars
  PROVE  OvlpInv'
<1>0. TypeOK'
  BY TypeStep
<1>1. ASSUME NEW r \in Req, NEW x \in UserIO, SubmitIOReq(r, x) PROVE OvlpInv'
  BY <1>1, SubmitStep
<1>2. ASSUME NEW r \in Req, Submitter(r) PROVE OvlpInv'
  BY <1>0, <1>2, QuietStep DEF Submitter, GenIOSegReq, SubmitSeg
<1>3. ASSUME NEW r \in Req, Segment(r) PROVE OvlpInv'
  <2>1. PICK lb \in AllLB :
          \/ \E result \in BOOLEAN : CommitUserLoad(r, lb, result)
          \/ CommitUserStore(r, lb)
          \/ \E o \in Outcomes(io[r].dir) : SegIODone(r, lb, o)
          \/ ReportMDDone(r, lb)
    BY <1>3 DEF Segment
  <2>2. CASE \E result \in BOOLEAN : CommitUserLoad(r, lb, result)
    BY <1>0, <2>2, QuietStep DEF CommitUserLoad
  <2>3. CASE CommitUserStore(r, lb)
    BY <1>0, <2>3, QuietStep DEF CommitUserStore
  <2>4. CASE \E o \in Outcomes(io[r].dir) : SegIODone(r, lb, o)
    <3>1. UNCHANGED <<io, pools>>
      BY <2>4 DEF SegIODone
    <3>2. \A q \in Req : (ioReq_stat'[q] = ioReq_stat[q])
            \/ (ioReq_stat[q] \in Active /\ ioReq_stat'[q] \in Active)
      <4>1. ioReq_stat[r] = "RWUserData"
        BY <2>4 DEF SegIODone
      <4>2. \/ ioReq_stat' = [ioReq_stat EXCEPT ![r] = "ReportMD"]
            \/ ioReq_stat' = ioReq_stat
        BY <2>4 DEF SegIODone
      <4>3. {"RWUserData", "ReportMD"} \subseteq Active /\ ioReq_stat \in [Req -> States]
        BY DEF TypeOK, Active
      <4> QED BY <4>1, <4>2, <4>3
    <3> QED BY <1>0, <3>1, <3>2, QuietStep
  <2>5. CASE ReportMDDone(r, lb)
    <3>1. UNCHANGED <<io, pools>>
      BY <2>5 DEF ReportMDDone
    <3>2. \A q \in Req : (ioReq_stat'[q] = ioReq_stat[q])
            \/ (ioReq_stat[q] \in Active /\ ioReq_stat'[q] \in Active)
      <4>1. \/ /\ ioReq_stat[r] = "ReportMD"
               /\ ioReq_stat' = [ioReq_stat EXCEPT ![r] = "SelfHealing"]
            \/ ioReq_stat' = ioReq_stat
        BY <2>5 DEF ReportMDDone
      <4>2. {"ReportMD", "SelfHealing"} \subseteq Active /\ ioReq_stat \in [Req -> States]
        BY DEF TypeOK, Active
      <4> QED BY <4>1, <4>2
    <3> QED BY <1>0, <3>1, <3>2, QuietStep
  <2> QED BY <2>1, <2>2, <2>3, <2>4, <2>5
<1>4. ASSUME NEW r \in Req, WorkerReport(r) PROVE OvlpInv'
  BY <1>0, <1>4, QuietStep DEF WorkerReport
<1>5. ASSUME NEW r \in Req, EndRequest(r) PROVE OvlpInv'
  BY <1>5, EndStep
<1>6. CASE UNCHANGED vars
  BY <1>0, <1>6, QuietStep DEF vars
<1> QED BY <1>1, <1>2, <1>3, <1>4, <1>5, <1>6 DEF Next, Worker

(***************************************************************************)
(* With item allocation that does not fail, pools, items and counters agree *)
(* in every reachable state: no waiter is forgotten, none runs too early.   *)
(***************************************************************************)
THEOREM OverlapInvariant ==
  ASSUME ~OvlpAllocFails PROVE Spec => []OvlpInv
<1>1. Init => OvlpInv
  <2> SUFFICES ASSUME Init PROVE OvlpInv
    OBVIOUS
  <2>1. PoolsMatchStates /\ AgeIsTotal /\ ItemsAreConflicts /\ WaitsWhileItems
    BY DEF Init, PoolsMatchStates, AgeIsTotal, ItemsAreConflicts,
           WaitsWhileItems, live, Active
  <2>2. \A r : {p \in Req : <<p, r>> \in ovlp_item} = {}
    BY DEF Init
  <2>3. CountersMatchItems
    BY <2>2, FS_EmptySet DEF Init, CountersMatchItems
  <2> QED BY <2>1, <2>3 DEF OvlpInv
<1>2. TypeOK /\ OvlpInv /\ [Next]_vars => OvlpInv'
  BY OvlpStep
<1> QED BY <1>1, <1>2, TypeCorrect, PTL DEF Spec

(***************************************************************************)
(* Two requests in conflict are never in flight together, for any number of *)
(* requests, IOs, replicas and segments.                                    *)
(***************************************************************************)
THEOREM ConflictsExcluded ==
  ASSUME ~OvlpAllocFails PROVE Spec => []NoConflictInFlight
<1>1. TypeOK /\ OvlpInv => NoConflictInFlight
  <2> SUFFICES ASSUME TypeOK, OvlpInv, NEW p \in Req, NEW q \in Req, p # q,
                      ioReq_stat[p] \in Active, ioReq_stat[q] \in Active,
                      LBs(io[p]) \cap LBs(io[q]) # {},
                      ~(io[p].dir = "READ" /\ io[q].dir = "READ")
               PROVE  FALSE
    BY DEF NoConflictInFlight
  <2>1. io[p] \in IO /\ io[q] \in IO
    BY UserIOAssumption DEF TypeOK
  <2>6. Conflict(io[p], io[q])
    <3>1. OverlapExact(io[p], io[q])
      BY <2>1, OverlapIsExact
    <3>2. io[p].dir = "WRITE" \/ io[q].dir = "WRITE"
      BY <2>1 DEF IO, Dirs
    <3> QED BY <3>1, <3>2 DEF OverlapExact, Conflict, chk_io_rw
  <2>2. Conflict(io[q], io[p])
    BY <2>1, <2>6, ConflictSymmetric
  <2>3. /\ p \in ioReq_pool /\ p \notin ioReq_ovlp_pool
        /\ q \in ioReq_pool /\ q \notin ioReq_ovlp_pool
    BY DEF OvlpInv, PoolsMatchStates, Active
  <2>4. <<p, q>> \in older \/ <<q, p>> \in older
    BY <2>3 DEF OvlpInv, AgeIsTotal, live
  <2>5. <<p, q>> \in ovlp_item \/ <<q, p>> \in ovlp_item
    BY <2>2, <2>6, <2>4 DEF OvlpInv, ItemsAreConflicts
  <2> QED BY <2>3, <2>5 DEF OvlpInv, WaitsWhileItems, live
<1> QED BY <1>1, OverlapInvariant, TypeCorrect, PTL

-----------------------------------------------------------------------------
(* IOSerial and IORequest mean the same by a conflict.                      *)
LEMMA SameConflict ==
  ASSUME NEW a, NEW b
  PROVE  Serial!Conflict(a, b) <=> Conflict(a, b)
BY DEF Serial!Conflict, Serial!chk_io_rw, Serial!chk_lb_ovlp, Serial!LastLB,
       Serial!NoOvlp, Conflict, chk_io_rw, chk_lb_ovlp, LastLB, NoOvlp

(* The obstacles of a live request in IOSerial are its items.               *)
LEMMA ObstaclesAreItems ==
  ASSUME TypeOK, OvlpInv, NEW q \in Req
  PROVE  Serial!Obstacles(q, io, older) = {p \in Req : <<p, q>> \in ovlp_item}
BY SameConflict DEF Serial!Obstacles, OvlpInv, ItemsAreConflicts

(* Accepting a request is the abstract Accept.                              *)
LEMMA SubmitIsAccept ==
  ASSUME ~OvlpAllocFails, TypeOK, OvlpInv, NEW r \in Req, NEW x \in UserIO,
         SubmitIOReq(r, x)
  PROVE  Serial!Accept(r, x)
<1>1. /\ Blockers(x) # {} => /\ ioReq_ovlp_pool' = ioReq_ovlp_pool \cup {r}
                             /\ ioReq_pool' = ioReq_pool
      /\ Blockers(x) = {} => /\ ioReq_pool' = ioReq_pool \cup {r}
                             /\ ioReq_ovlp_pool' = ioReq_ovlp_pool
  BY SubmitEffect
<1>2. /\ ioReq_stat[r] = "Free" /\ io' = [io EXCEPT ![r] = x]
      /\ older' = older \cup (live \X {r})
  BY DEF SubmitIOReq
<1>3. r \notin live
  BY <1>2 DEF OvlpInv, PoolsMatchStates, live, Active
<1>4. live' = live \cup {r}
  BY <1>1 DEF live
<1>5. (\E p \in live : Serial!Conflict(io[p], x)) <=> Blockers(x) # {}
  BY SameConflict DEF Blockers
<1>6. ioReq_pool' = ioReq_pool \cup
         (IF \E p \in live : Serial!Conflict(io[p], x) THEN {} ELSE {r})
  BY <1>1, <1>5
<1> QED BY <1>2, <1>3, <1>4, <1>6 DEF Serial!Accept

(* Ending a request is the abstract End.                                    *)
LEMMA EndIsEnd ==
  ASSUME TypeOK, OvlpInv, NEW r \in Req, EndRequest(r)
  PROVE  Serial!End(r)
<1>1. /\ ioReq_pool' = (ioReq_pool \ {r}) \cup Woken(r)
      /\ ioReq_ovlp_pool' = ioReq_ovlp_pool \ Woken(r)
      /\ older' = {e \in older : e[1] # r /\ e[2] # r}
      /\ io' = io
  BY DEF EndRequest
<1>2. r \in ioReq_pool /\ r \notin ioReq_ovlp_pool
  BY DEF EndRequest, OvlpInv, PoolsMatchStates, Active
<1>3. Woken(r) \subseteq ioReq_ovlp_pool /\ r \notin Woken(r)
  BY <1>2 DEF Woken, Waiters, OvlpInv, PoolsMatchStates, Active
<1>4. live' = live \ {r}
  BY <1>1, <1>2, <1>3 DEF live
<1>5. \A q \in live \ {r} :
         q \in (ioReq_pool \ {r}) \cup Woken(r)
           <=> Serial!Obstacles(q, io, older) \subseteq {r}
  <2> TAKE q \in live \ {r}
  <2>1. q \in Req
    BY DEF live, TypeOK
  <2> DEFINE S == {p \in Req : <<p, q>> \in ovlp_item}
  <2>2. Serial!Obstacles(q, io, older) = S
    BY <2>1, ObstaclesAreItems
  <2>3. q \in Woken(r) <=> S = {r}
    BY <2>1, WokenMeaning
  <2>4. q \in ioReq_ovlp_pool <=> S # {}
    BY DEF OvlpInv, WaitsWhileItems
  <2>5. q \in ioReq_pool <=> q \notin ioReq_ovlp_pool
    BY <2>1 DEF live, OvlpInv, PoolsMatchStates, Active
  <2> HIDE DEF S
  <2> QED BY <2>2, <2>3, <2>4, <2>5
<1>6. ioReq_pool' = {q \in live \ {r} : Serial!Obstacles(q, io, older) \subseteq {r}}
  BY <1>1, <1>3, <1>5 DEF live
<1> QED BY <1>1, <1>2, <1>4, <1>6 DEF Serial!End

(***************************************************************************)
(* The lists, items, counters and threads of io_manager implement the       *)
(* serial order: a request runs exactly when no older live one conflicts.   *)
(***************************************************************************)
THEOREM RefinesSerial ==
  ASSUME ~OvlpAllocFails PROVE Spec => ImplementsSerial
<1>1. Init => Serial!SInit
  BY UserIOAssumption DEF Init, Serial!SInit, live
<1>2. TypeOK /\ OvlpInv /\ [Next]_vars => [Serial!SNext]_(Serial!svars)
  <2> SUFFICES ASSUME TypeOK, OvlpInv, [Next]_vars
               PROVE  [Serial!SNext]_(Serial!svars)
    OBVIOUS
  <2>1. ASSUME NEW r \in Req, NEW x \in UserIO, SubmitIOReq(r, x)
        PROVE  Serial!SNext
    BY <2>1, SubmitIsAccept DEF Serial!SNext
  <2>2. ASSUME NEW r \in Req, EndRequest(r) PROVE Serial!SNext
    BY <2>2, EndIsEnd DEF Serial!SNext
  <2>3. ASSUME NEW r \in Req, Submitter(r) \/ Segment(r) \/ WorkerReport(r)
        PROVE  UNCHANGED <<io, pools>>
    BY <2>3 DEF Submitter, GenIOSegReq, SubmitSeg, Segment, CommitUserLoad,
                CommitUserStore, SegIODone, ReportMDDone, WorkerReport
  <2>4. UNCHANGED <<io, pools>> => UNCHANGED Serial!svars
    BY DEF pools, Serial!svars, live
  <2>5. UNCHANGED vars => UNCHANGED <<io, pools>>
    BY DEF vars
  <2> QED BY <2>1, <2>2, <2>3, <2>4, <2>5 DEF Next, Worker
<1> QED BY <1>1, <1>2, TypeCorrect, OverlapInvariant, PTL
        DEF Spec, ImplementsSerial, Serial!SSpec

-----------------------------------------------------------------------------
(***************************************************************************)
(* The answer and the report phase of a request.  ReportsAreAwaited is not  *)
(* inductive: a failure is real because ioResult, and the copy of it that a *)
(* commit has loaded, are only ever cleared by a failed segment; a parked   *)
(* request waits for what is sent because the segments that are counted     *)
(* are, by their outcomes, the ones that are sent.                          *)
(***************************************************************************)
Failed(r)  == \E lb \in AllLB : seg[r][lb].st # "none" /\ ~seg[r][lb].res
Reports(r) == {lb \in AllLB : <<r, lb>> \in report}

FailInv(r) ==
  /\ \A lb \in AllLB : seg[r][lb].st \notin {"ci", "user"} => seg[r][lb].res
  /\ ioReq_stat[r] \in {"Free", "OvlpWait"} => \A lb \in AllLB : seg[r][lb] = NoSeg
  /\ ioReq_stat[r] # "Free" =>
       /\ ~ioResult[r] \/ usr[r] = "fail" => Failed(r)
       /\ \A lb \in AllLB : seg[r][lb].st = "ci" /\ ~seg[r][lb].val => Failed(r)

RepInv(r) ==
  /\ Reports(r) # {} => ioReq_stat[r] = "ReportMD" /\ r \notin iodone_pool
  /\ ioReq_stat[r] = "ReportMD" /\ r \notin iodone_pool =>
       num_of_ci2nn[r] = Cardinality(Reports(r)) /\ Reports(r) # {}
  /\ \/ ioReq_stat[r] \in {"OvlpWait", "RWUserData"}
     \/ ioReq_stat[r] = "ReportMD" /\ r \in iodone_pool
     => /\ num_of_ci2nn[r] = 0
        /\ \A lb \in AllLB : seg[r][lb].done => seg[r][lb].out \in Outcomes(io[r].dir)
  /\ r \in iodone_pool => ioReq_stat[r] \in {"ReportMD", "SelfHealing"}

AnswerInv == PoolsMatchStates /\ \A r \in Req : FailInv(r) /\ RepInv(r)
(* A request that a step does not touch keeps its part of the invariant.    *)
Same(q) ==
  /\ ioReq_stat'[q] = ioReq_stat[q] /\ io'[q] = io[q] /\ seg'[q] = seg[q]
  /\ ioResult'[q] = ioResult[q] /\ usr'[q] = usr[q] /\ num_of_ci2nn'[q] = num_of_ci2nn[q]
  /\ q \in iodone_pool' <=> q \in iodone_pool
  /\ \A lb \in AllLB : <<q, lb>> \in report' <=> <<q, lb>> \in report

LEMMA AnswerFrame ==
  ASSUME NEW q \in Req, FailInv(q), RepInv(q), Same(q)
  PROVE  FailInv(q)' /\ RepInv(q)'
<1>1. Reports(q)' = Reports(q)
  BY DEF Reports, Same
<1>2. FailInv(q)'
  BY DEF FailInv, Failed, Same
<1> QED BY <1>1, <1>2 DEF RepInv, Same

(* A step on the pools' states that stays among the active states.          *)
LEMMA PoolsFrame ==
  ASSUME TypeOK, PoolsMatchStates, UNCHANGED <<ioReq_pool, ioReq_ovlp_pool>>,
         \A r \in Req : (ioReq_stat'[r] = ioReq_stat[r])
            \/ (ioReq_stat[r] \in Active /\ ioReq_stat'[r] \in Active)
  PROVE  PoolsMatchStates'
BY DEF PoolsMatchStates, Active

(* What is counted of an outcome is what is sent of it, when a metadata     *)
(* item with fewer replicas than the volume is marked as such and no        *)
(* invalid item is written to.                                              *)
LEMMA CountedIsSent ==
  ASSUME RREnabled, "invalid" \notin MDAnswers, NEW dir, NEW o \in Outcomes(dir)
  PROVE  Counted(dir, o) <=> Sent(dir, o)
<1>1. CASE dir = "WRITE"
  <2>1. o \in WriteOutcome /\ o.nok <= o.nloc
    BY <1>1 DEF Outcomes
  <2>2. CASE o = [ci |-> "NONE", stat |-> "NOMD", nloc |-> 0, nok |-> 0]
    BY <2>2 DEF Counted, Sent
  <2>3. CASE \E n \in 1 .. VolReplica, k \in 0 .. VolReplica :
               o = [ci |-> "SUCCESS", stat |-> MDItemState(n), nloc |-> n, nok |-> k]
    <3>1. PICK n \in 1 .. VolReplica, k \in 0 .. VolReplica :
               o = [ci |-> "SUCCESS", stat |-> MDItemState(n), nloc |-> n, nok |-> k]
      BY <2>3
    <3>2. o.ci = "SUCCESS" /\ o.nloc = n /\ o.nok = k /\ o.stat = MDItemState(n)
      BY <3>1
    <3>3. o.stat = IF n < VolReplica THEN "VALID_LESS_REPLICA" ELSE "VALID"
      BY <3>2 DEF MDItemState
    <3> QED BY <1>1, <3>2, <3>3, ReplicaAssumption DEF Counted, Sent
  <2> QED BY <2>1, <2>2, <2>3 DEF WriteOutcome
<1>2. CASE dir # "WRITE"
  BY <1>2 DEF Outcomes, ReadOutcome, Counted, Sent
<1> QED BY <1>1, <1>2

(* A new request has no segments, no result and no report.                  *)
LEMMA SubmitAnswer ==
  ASSUME TypeOK, AnswerInv, NEW r \in Req, NEW x \in UserIO, SubmitIOReq(r, x)
  PROVE  AnswerInv'
<1>1. /\ ioReq_stat[r] = "Free" /\ r \notin ioReq_pool /\ r \notin ioReq_ovlp_pool
      /\ r \notin iodone_pool /\ Reports(r) = {}
  BY DEF AnswerInv, PoolsMatchStates, RepInv, SubmitIOReq, Active
<1>2. \/ /\ ioReq_stat' = [ioReq_stat EXCEPT ![r] = "OvlpWait"]
         /\ ioReq_ovlp_pool' = ioReq_ovlp_pool \cup {r} /\ ioReq_pool' = ioReq_pool
      \/ /\ ioReq_stat' = [ioReq_stat EXCEPT ![r] = "RWUserData"]
         /\ ioReq_pool' = ioReq_pool \cup {r} /\ ioReq_ovlp_pool' = ioReq_ovlp_pool
  BY DEF SubmitIOReq
<1>3. PoolsMatchStates'
  BY <1>1, <1>2 DEF AnswerInv, PoolsMatchStates, TypeOK, Active
<1>4. ASSUME NEW q \in Req, q # r PROVE Same(q)
  BY <1>2, <1>4 DEF SubmitIOReq, TypeOK, Same
<1>5. /\ seg'[r] = [lb \in AllLB |-> NoSeg] /\ ioResult'[r] = TRUE /\ usr'[r] = "none"
      /\ num_of_ci2nn'[r] = 0 /\ report' = report /\ iodone_pool' = iodone_pool
  BY DEF SubmitIOReq, TypeOK
<1>6. ioReq_stat'[r] \in {"OvlpWait", "RWUserData"}
  BY <1>2 DEF TypeOK
<1>7. NoSeg.st = "none" /\ NoSeg.done = FALSE /\ NoSeg.res = TRUE
  BY DEF NoSeg
<1>8. FailInv(r)'
  BY <1>5, <1>6, <1>7 DEF FailInv
<1>9. Reports(r)' = {}
  BY <1>1, <1>5 DEF Reports
<1>10. RepInv(r)'
  BY <1>1, <1>5, <1>6, <1>7, <1>9 DEF RepInv
<1> QED BY <1>3, <1>4, <1>8, <1>10, AnswerFrame DEF AnswerInv

(* The end of a request lets requests through that have no segments yet.    *)
LEMMA EndAnswer ==
  ASSUME TypeOK, AnswerInv, NEW r \in Req, EndRequest(r)
  PROVE  AnswerInv'
<1>1. /\ r \in iodone_pool /\ ioReq_stat[r] \in {"ReportMD", "SelfHealing"}
      /\ Reports(r) = {}
  BY DEF AnswerInv, RepInv, EndRequest
<1>2. \A q \in Woken(r) : q \in Req /\ ioReq_stat[q] = "OvlpWait" /\ q # r
  BY <1>1 DEF Woken, Waiters
<1>3. \A q \in Req : ioReq_stat'[q] = IF q = r THEN "Free"
                                       ELSE IF q \in Woken(r) THEN "RWUserData" ELSE ioReq_stat[q]
  BY DEF EndRequest
<1>4. /\ ioReq_pool' = (ioReq_pool \ {r}) \cup Woken(r)
      /\ ioReq_ovlp_pool' = ioReq_ovlp_pool \ Woken(r)
  BY DEF EndRequest
<1>5. PoolsMatchStates'
  BY <1>1, <1>2, <1>3, <1>4 DEF AnswerInv, PoolsMatchStates, Active
<1>6. /\ UNCHANGED <<io, ioResult, usr, num_of_ci2nn, report>>
      /\ iodone_pool' = iodone_pool \ {r}
      /\ seg'[r] = [lb \in AllLB |-> NoSeg] /\ \A q \in Req : q # r => seg'[q] = seg[q]
  BY DEF EndRequest, TypeOK, ci
<1>7. NoSeg.st = "none" /\ NoSeg.done = FALSE /\ NoSeg.res = TRUE
  BY DEF NoSeg
<1>8. FailInv(r)' /\ RepInv(r)'
  <2>1. Reports(r)' = {}
    BY <1>1, <1>6 DEF Reports
  <2> QED BY <1>3, <1>6, <1>7, <2>1 DEF FailInv, RepInv
<1>9. ASSUME NEW q \in Woken(r) PROVE FailInv(q)' /\ RepInv(q)'
  <2>1. q \in Req /\ q # r /\ ioReq_stat[q] = "OvlpWait" /\ ioReq_stat'[q] = "RWUserData"
    BY <1>2, <1>3
  <2>2. FailInv(q) /\ RepInv(q) /\ seg'[q] = seg[q]
    BY <1>6, <2>1 DEF AnswerInv
  <2>3. FailInv(q)'
    BY <1>6, <1>7, <2>1, <2>2 DEF FailInv, Failed
  <2>4. Reports(q)' = Reports(q) /\ q \notin iodone_pool /\ q \notin iodone_pool'
    BY <1>6, <2>1, <2>2 DEF Reports, RepInv
  <2> QED BY <1>6, <2>1, <2>2, <2>3, <2>4 DEF RepInv
<1>10. ASSUME NEW q \in Req, q # r, q \notin Woken(r) PROVE Same(q)
  BY <1>3, <1>6, <1>10 DEF Same
<1> QED BY <1>5, <1>8, <1>9, <1>10, AnswerFrame DEF AnswerInv
(* A step that only moves one segment of r on, short of its outcome.        *)
LEMMA SegAnswer ==
  ASSUME TypeOK, AnswerInv, NEW r \in Req, NEW lb \in AllLB, NEW s \in Segment_t,
         seg' = [seg EXCEPT ![r][lb] = s], s.done = seg[r][lb].done, s.out = seg[r][lb].out,
         UNCHANGED <<ioReq_stat, io, ioReq_pool, ioReq_ovlp_pool, num_of_ci2nn, report,
                     iodone_pool>>,
         \A q \in Req : q # r => ioResult'[q] = ioResult[q] /\ usr'[q] = usr[q],
         FailInv(r)'
  PROVE  AnswerInv'
<1>1. PoolsMatchStates'
  BY PoolsFrame DEF AnswerInv
<1>2. ASSUME NEW q \in Req, q # r PROVE FailInv(q)' /\ RepInv(q)'
  <2>1. Same(q)
    BY <1>2 DEF Same, TypeOK
  <2> QED BY <2>1, AnswerFrame DEF AnswerInv
<1>3. \A m \in AllLB : seg'[r][m].done = seg[r][m].done /\ seg'[r][m].out = seg[r][m].out
  BY DEF TypeOK
<1>4. Reports(r)' = Reports(r)
  BY DEF Reports
<1>5. RepInv(r)'
  BY <1>3, <1>4 DEF AnswerInv, RepInv
<1> QED BY <1>1, <1>2, <1>5 DEF AnswerInv

(* A segment that has failed stays, whatever the step does to another.      *)
LEMMA FailedStays ==
  ASSUME TypeOK, NEW r \in Req, NEW lb \in AllLB, NEW s \in Segment_t, Failed(r),
         seg' = [seg EXCEPT ![r][lb] = s], s.st # "none", s.res => seg[r][lb].res
  PROVE  Failed(r)'
<1>1. PICK m \in AllLB : seg[r][m].st # "none" /\ ~seg[r][m].res
  BY DEF Failed
<1>2. seg'[r][m].st # "none" /\ ~seg'[r][m].res
  BY <1>1 DEF TypeOK
<1> QED BY <1>2 DEF Failed

(* Segments of r are finitely many.                                         *)
LEMMA ReportsFinite ==
  ASSUME NEW S \in SUBSET AllLB
  PROVE  IsFiniteSet(S) /\ Cardinality(S) \in Nat
BY LBAssumption, FS_Subset, FS_CardinalityType

(* The last segment to end queues the request for the IODone worker.        *)
LEMMA IODoneAnswer ==
  ASSUME TypeOK, AnswerInv, NEW r \in Req, NEW lb \in AllLB, NEW o \in Outcomes(io[r].dir),
         SegIODone(r, lb, o)
  PROVE  AnswerInv'
<1> DEFINE s == Finished(seg[r][lb], o)
<1>1. seg[r][lb] \in Segment_t /\ s \in Segment_t
  <2>1. seg[r][lb] \in Segment_t /\ o \in Outcome
    BY OutcomesType DEF TypeOK
  <2> QED BY <2>1, SegStepType
<1>2. s.st = seg[r][lb].st /\ s.res = seg[r][lb].res /\ s.val = seg[r][lb].val /\ s.out = o
  BY <1>1 DEF Finished, Segment_t
<1>3. /\ seg' = [seg EXCEPT ![r][lb] = s] /\ ioReq_stat[r] = "RWUserData"
      /\ \/ /\ ioReq_stat' = [ioReq_stat EXCEPT ![r] = "ReportMD"]
            /\ iodone_pool' = iodone_pool \cup {r}
         \/ ioReq_stat' = ioReq_stat /\ iodone_pool' = iodone_pool
      /\ UNCHANGED <<io, ioReq_pool, ioReq_ovlp_pool, ioResult, usr, num_of_ci2nn, report>>
  BY DEF SegIODone, pools
<1> HIDE DEF s
<1>4. PoolsMatchStates'
  <2>1. \A q \in Req : (ioReq_stat'[q] = ioReq_stat[q])
          \/ (ioReq_stat[q] \in Active /\ ioReq_stat'[q] \in Active)
    BY <1>3 DEF TypeOK, Active
  <2> QED BY <1>3, <2>1, PoolsFrame DEF AnswerInv
<1>5. ASSUME NEW q \in Req, q # r PROVE FailInv(q)' /\ RepInv(q)'
  <2>1. Same(q)
    BY <1>3, <1>5 DEF Same, TypeOK
  <2> QED BY <2>1, AnswerFrame DEF AnswerInv
<1>6. \A m \in AllLB : /\ seg'[r][m].st = seg[r][m].st /\ seg'[r][m].res = seg[r][m].res
                       /\ seg'[r][m].val = seg[r][m].val
                       /\ (m = lb /\ seg'[r][m].out = o) \/ seg'[r][m] = seg[r][m]
  BY <1>2, <1>3 DEF TypeOK
<1>7. ioReq_stat'[r] \in {"RWUserData", "ReportMD"} /\ (ioReq_stat'[r] = "ReportMD" => r \in iodone_pool')
      /\ (r \in iodone_pool' => ioReq_stat'[r] = "ReportMD")
  BY <1>3 DEF TypeOK, AnswerInv, RepInv
<1>8. FailInv(r)'
  BY <1>3, <1>6, <1>7 DEF AnswerInv, FailInv, Failed
<1>9. Reports(r)' = {}
  BY <1>3 DEF Reports, AnswerInv, RepInv
<1>10. RepInv(r)'
  BY <1>3, <1>6, <1>7, <1>9 DEF AnswerInv, RepInv
<1> QED BY <1>4, <1>5, <1>8, <1>10 DEF AnswerInv

(* The answer to a report is counted off.                                   *)
LEMMA ReportAnswer ==
  ASSUME TypeOK, AnswerInv, NEW r \in Req, NEW lb \in AllLB, ReportMDDone(r, lb)
  PROVE  AnswerInv'
<1> DEFINE s == Reported(seg[r][lb])
<1>1. seg[r][lb] \in Segment_t /\ s \in Segment_t
  BY SegStepType DEF TypeOK
<1>2. s.st = seg[r][lb].st /\ s.res = seg[r][lb].res /\ s.val = seg[r][lb].val
  BY <1>1 DEF Reported, Segment_t
<1>3. lb \in Reports(r) /\ ioReq_stat[r] = "ReportMD" /\ r \notin iodone_pool
  BY DEF ReportMDDone, AnswerInv, RepInv, Reports
<1>4. /\ seg' = [seg EXCEPT ![r][lb] = s] /\ report' = report \ {<<r, lb>>}
      /\ num_of_ci2nn' = [num_of_ci2nn EXCEPT ![r] = @ - 1]
      /\ IF num_of_ci2nn'[r] = 0
         THEN /\ ioReq_stat' = [ioReq_stat EXCEPT ![r] = "SelfHealing"]
              /\ iodone_pool' = iodone_pool \cup {r}
         ELSE ioReq_stat' = ioReq_stat /\ iodone_pool' = iodone_pool
      /\ UNCHANGED <<io, ioReq_pool, ioReq_ovlp_pool, ioResult, usr>>
  BY <1>3 DEF ReportMDDone, pools, ci
<1> HIDE DEF s
<1>5. PoolsMatchStates'
  <2>1. \A q \in Req : (ioReq_stat'[q] = ioReq_stat[q])
          \/ (ioReq_stat[q] \in Active /\ ioReq_stat'[q] \in Active)
    BY <1>3, <1>4 DEF TypeOK, Active
  <2> QED BY <1>4, <2>1, PoolsFrame DEF AnswerInv
<1>6. ASSUME NEW q \in Req, q # r PROVE FailInv(q)' /\ RepInv(q)'
  <2>1. Same(q)
    BY <1>4, <1>6 DEF Same, TypeOK
  <2> QED BY <2>1, AnswerFrame DEF AnswerInv
<1>7. \A m \in AllLB : /\ seg'[r][m].st = seg[r][m].st /\ seg'[r][m].res = seg[r][m].res
                       /\ seg'[r][m].val = seg[r][m].val
  BY <1>2, <1>4 DEF TypeOK
<1>8. ioReq_stat'[r] \in {"ReportMD", "SelfHealing"}
  BY <1>3, <1>4 DEF TypeOK
<1>9. FailInv(r)'
  BY <1>3, <1>4, <1>7, <1>8 DEF AnswerInv, FailInv, Failed
<1>10. Reports(r)' = Reports(r) \ {lb}
  BY <1>4 DEF Reports
<1>11. /\ num_of_ci2nn'[r] = Cardinality(Reports(r)')
       /\ Cardinality(Reports(r)') = 0 <=> Reports(r)' = {}
  <2>1. IsFiniteSet(Reports(r)) /\ Reports(r)' \in SUBSET AllLB
    BY <1>10, ReportsFinite DEF Reports
  <2>2. Cardinality(Reports(r)') = Cardinality(Reports(r)) - 1
    BY <1>3, <1>10, <2>1, FS_RemoveElement
  <2>3. num_of_ci2nn[r] = Cardinality(Reports(r)) /\ num_of_ci2nn[r] \in Int
    BY <1>3 DEF AnswerInv, RepInv, TypeOK
  <2>4. num_of_ci2nn'[r] = num_of_ci2nn[r] - 1
    BY <1>4 DEF TypeOK
  <2>5. Cardinality(Reports(r)') = 0 <=> Reports(r)' = {}
    BY <2>1, ReportsFinite, FS_EmptySet
  <2> QED BY <2>2, <2>3, <2>4, <2>5
<1>12. CASE num_of_ci2nn'[r] = 0
  <2>1. ioReq_stat'[r] = "SelfHealing" /\ Reports(r)' = {}
    BY <1>4, <1>11, <1>12 DEF TypeOK
  <2>2. RepInv(r)'
    BY <2>1 DEF RepInv
  <2> QED BY <1>5, <1>6, <1>9, <2>2 DEF AnswerInv
<1>13. CASE num_of_ci2nn'[r] # 0
  <2>1. ioReq_stat'[r] = "ReportMD" /\ Reports(r)' # {} /\ r \notin iodone_pool'
    BY <1>3, <1>4, <1>11, <1>13
  <2>2. RepInv(r)'
    BY <1>11, <2>1 DEF RepInv
  <2> QED BY <1>5, <1>6, <1>9, <2>2 DEF AnswerInv
<1> QED BY <1>12, <1>13

(* The worker counts as many reports as it sends.                           *)
LEMMA WorkerAnswer ==
  ASSUME RREnabled, "invalid" \notin MDAnswers, TypeOK, AnswerInv, NEW r \in Req, WorkerReport(r)
  PROVE  AnswerInv'
<1> DEFINE C == SegsWith(r, Counted)
<1>1. /\ r \in iodone_pool /\ ioReq_stat[r] = "ReportMD" /\ C # {}
      /\ iodone_pool' = iodone_pool \ {r}
      /\ num_of_ci2nn' = [num_of_ci2nn EXCEPT ![r] = @ + Cardinality(C)]
      /\ report' = report \cup ({r} \X SegsWith(r, Sent))
      /\ UNCHANGED <<ioReq_stat, io, ioReq_pool, ioReq_ovlp_pool, seg, ioResult, usr>>
  BY DEF WorkerReport, pools, ci
<1>2. /\ num_of_ci2nn[r] = 0 /\ Reports(r) = {}
      /\ \A lb \in AllLB : seg[r][lb].done => seg[r][lb].out \in Outcomes(io[r].dir)
  BY <1>1 DEF AnswerInv, RepInv
<1>3. SegsWith(r, Sent) = C
  BY <1>2, CountedIsSent DEF SegsWith
<1>4. C \subseteq AllLB
  BY DEF SegsWith
<1> HIDE DEF C
<1>5. PoolsMatchStates'
  BY <1>1, PoolsFrame DEF AnswerInv
<1>6. ASSUME NEW q \in Req, q # r PROVE FailInv(q)' /\ RepInv(q)'
  <2>1. Same(q)
    BY <1>1, <1>6 DEF Same, TypeOK
  <2> QED BY <2>1, AnswerFrame DEF AnswerInv
<1>7. FailInv(r)'
  BY <1>1 DEF AnswerInv, FailInv, Failed
<1>8. Reports(r)' = C
  BY <1>1, <1>2, <1>3, <1>4 DEF Reports
<1>9. num_of_ci2nn'[r] = Cardinality(C)
  BY <1>1, <1>2, <1>4, ReportsFinite DEF TypeOK
<1>10. RepInv(r)'
  BY <1>1, <1>8, <1>9 DEF RepInv
<1> QED BY <1>5, <1>6, <1>7, <1>10 DEF AnswerInv

(* Every step keeps what is known of the answer and the reports.            *)
LEMMA AnswerStep ==
  ASSUME RREnabled, "invalid" \notin MDAnswers, TypeOK, AnswerInv, [Next]_vars
  PROVE  AnswerInv'
<1>1. ASSUME NEW r \in Req, NEW x \in UserIO, SubmitIOReq(r, x) PROVE AnswerInv'
  BY <1>1, SubmitAnswer
<1>2. ASSUME NEW r \in Req, GenIOSegReq(r) PROVE AnswerInv'
  <2>1. PICK heads : seg' = [seg EXCEPT ![r] =
                               [lb \in AllLB |-> IF lb \in heads
                                                 THEN NewSeg(SplitLen(io[r], heads, lb))
                                                 ELSE NoSeg]]
    BY <1>2 DEF GenIOSegReq
  <2>2. \A n : NewSeg(n).st = "new" /\ NewSeg(n).done = FALSE /\ NewSeg(n).res = TRUE
    BY DEF NewSeg, NoSeg
  <2>3. NoSeg.st = "none" /\ NoSeg.done = FALSE /\ NoSeg.res = TRUE
    BY DEF NoSeg
  <2>4. \A lb \in AllLB : /\ seg'[r][lb].st \in {"new", "none"} /\ seg'[r][lb].done = FALSE
                           /\ seg'[r][lb].res = TRUE
    BY <2>1, <2>2, <2>3 DEF TypeOK
  <2>5. /\ ioReq_stat[r] = "RWUserData" /\ ~Failed(r)
        /\ UNCHANGED <<ioReq_stat, io, ioReq_pool, ioReq_ovlp_pool, ioResult, usr, num_of_ci2nn,
                       report, iodone_pool>>
    BY <1>2 DEF GenIOSegReq, pools, ci, Failed
  <2>6. PoolsMatchStates'
    BY <2>5, PoolsFrame DEF AnswerInv
  <2>7. ASSUME NEW q \in Req, q # r PROVE FailInv(q)' /\ RepInv(q)'
    <3>1. Same(q)
      BY <2>1, <2>5, <2>7 DEF Same, TypeOK
    <3> QED BY <3>1, AnswerFrame DEF AnswerInv
  <2>8. FailInv(r)'
    BY <2>4, <2>5 DEF AnswerInv, FailInv
  <2>9. Reports(r)' = Reports(r)
    BY <2>5 DEF Reports
  <2>10. RepInv(r)'
    BY <2>4, <2>5, <2>9 DEF AnswerInv, RepInv
  <2> QED BY <2>6, <2>7, <2>8, <2>10 DEF AnswerInv
<1>3. ASSUME NEW r \in Req, SubmitSeg(r) PROVE AnswerInv'
  <2>1. PICK lb \in AllLB : seg[r][lb].st = "new" /\ seg' = [seg EXCEPT ![r][lb] = Submitted(@)]
    BY <1>3 DEF SubmitSeg, Unsubmitted
  <2> DEFINE s == Submitted(seg[r][lb])
  <2>2. seg[r][lb] \in Segment_t /\ s \in Segment_t
    BY SegStepType DEF TypeOK
  <2>3. /\ s.done = seg[r][lb].done /\ s.out = seg[r][lb].out /\ s.st = "io"
        /\ s.res = seg[r][lb].res
    BY <2>2 DEF Submitted, Segment_t
  <2>4. seg' = [seg EXCEPT ![r][lb] = s]
    BY <2>1
  <2> HIDE DEF s
  <2>5. UNCHANGED <<ioReq_stat, io, ioReq_pool, ioReq_ovlp_pool, ioResult, usr, num_of_ci2nn,
                    report, iodone_pool>>
    BY <1>3 DEF SubmitSeg, pools, ci
  <2>6. ioReq_stat[r] \notin {"Free", "OvlpWait"}
    <3>1. NoSeg.st = "none"
      BY DEF NoSeg
    <3> QED BY <2>1, <3>1 DEF AnswerInv, FailInv
  <2>7. Failed(r) => Failed(r)'
    BY <2>2, <2>3, <2>4, FailedStays
  <2>8. \A m \in AllLB : \/ seg'[r][m] = seg[r][m]
                         \/ /\ seg'[r][m].st = "io" /\ seg'[r][m].res = seg[r][m].res
                            /\ seg[r][m].st = "new"
    BY <2>1, <2>2, <2>3, <2>4 DEF TypeOK
  <2>9. FailInv(r)'
    BY <2>5, <2>6, <2>7, <2>8 DEF AnswerInv, FailInv
  <2> QED BY <2>2, <2>3, <2>4, <2>5, <2>9, SegAnswer
<1>4. ASSUME NEW r \in Req, NEW lb \in AllLB, NEW result \in BOOLEAN,
             CommitUserLoad(r, lb, result)
      PROVE  AnswerInv'
  <2> DEFINE s == Loaded(seg[r][lb], result, ioResult[r])
  <2>1. seg[r][lb] \in Segment_t /\ ioResult[r] \in BOOLEAN
    BY DEF TypeOK
  <2>2. s \in Segment_t
    BY <2>1, SegStepType
  <2>3. /\ s.done = seg[r][lb].done /\ s.out = seg[r][lb].out /\ s.st = "ci"
        /\ s.res = result /\ s.val = ioResult[r]
    BY <2>1 DEF Loaded, Segment_t
  <2>4. seg' = [seg EXCEPT ![r][lb] = s] /\ seg[r][lb].st = "io"
    BY <1>4 DEF CommitUserLoad
  <2> HIDE DEF s
  <2>5. UNCHANGED <<ioReq_stat, io, ioReq_pool, ioReq_ovlp_pool, ioResult, usr, num_of_ci2nn,
                    report, iodone_pool>>
    BY <1>4 DEF CommitUserLoad, pools, ci
  <2>6. ioReq_stat[r] \notin {"Free", "OvlpWait"}
    <3>1. NoSeg.st = "none"
      BY DEF NoSeg
    <3> QED BY <2>4, <3>1 DEF AnswerInv, FailInv
  <2>7. Failed(r) => Failed(r)'
    <3> SUFFICES ASSUME Failed(r) PROVE Failed(r)'
      OBVIOUS
    <3>1. PICK m \in AllLB : seg[r][m].st # "none" /\ ~seg[r][m].res
      BY DEF Failed
    <3>2. CASE m # lb
      BY <2>4, <3>1, <3>2 DEF Failed, TypeOK
    <3>3. CASE m = lb
      BY <2>4, <3>1, <3>3 DEF AnswerInv, FailInv
    <3> QED BY <3>2, <3>3
  <2>8. \A m \in AllLB : m # lb => seg'[r][m] = seg[r][m]
    BY <2>4 DEF TypeOK
  <2>9. seg'[r][lb].val = ioResult[r] /\ seg'[r][lb].st = "ci"
    BY <2>2, <2>3, <2>4 DEF TypeOK
  <2>10. FailInv(r)'
    BY <2>5, <2>6, <2>7, <2>8, <2>9 DEF AnswerInv, FailInv
  <2> QED BY <2>2, <2>3, <2>4, <2>5, <2>10, SegAnswer
<1>5. ASSUME NEW r \in Req, NEW lb \in AllLB, CommitUserStore(r, lb) PROVE AnswerInv'
  <2> DEFINE s == Stored(seg[r][lb])
  <2>1. seg[r][lb] \in Segment_t /\ s \in Segment_t
    BY SegStepType DEF TypeOK
  <2>2. /\ s.done = seg[r][lb].done /\ s.out = seg[r][lb].out /\ s.st = "user"
        /\ s.res = seg[r][lb].res
    BY <2>1 DEF Stored, Segment_t
  <2>3. /\ seg' = [seg EXCEPT ![r][lb] = s] /\ seg[r][lb].st = "ci"
        /\ ioResult' = [ioResult EXCEPT ![r] = seg[r][lb].res /\ seg[r][lb].val]
        /\ \/ usr' = usr
           \/ usr' = [usr EXCEPT ![r] = IF seg[r][lb].res /\ seg[r][lb].val THEN "ok" ELSE "fail"]
    BY <1>5 DEF CommitUserStore
  <2> HIDE DEF s
  <2>4. UNCHANGED <<ioReq_stat, io, ioReq_pool, ioReq_ovlp_pool, num_of_ci2nn, report,
                    iodone_pool>>
    BY <1>5 DEF CommitUserStore, pools
  <2>5. ioReq_stat[r] \notin {"Free", "OvlpWait"}
    <3>1. NoSeg.st = "none"
      BY DEF NoSeg
    <3> QED BY <2>3, <3>1 DEF AnswerInv, FailInv
  <2>6. Failed(r) => Failed(r)'
    BY <2>1, <2>2, <2>3, FailedStays
  <2>7. ~seg[r][lb].res \/ ~seg[r][lb].val => Failed(r)
    BY <2>3, <2>5 DEF AnswerInv, FailInv, Failed
  <2>8. ~ioResult'[r] \/ usr'[r] = "fail" => Failed(r)
    BY <2>3, <2>5, <2>7 DEF AnswerInv, FailInv, TypeOK
  <2>9. /\ \A m \in AllLB : m # lb => seg'[r][m] = seg[r][m]
        /\ seg'[r][lb].st = "user"
    BY <2>2, <2>3 DEF TypeOK
  <2>10. FailInv(r)'
    BY <2>4, <2>5, <2>6, <2>8, <2>9 DEF AnswerInv, FailInv
  <2>11. \A q \in Req : q # r => ioResult'[q] = ioResult[q] /\ usr'[q] = usr[q]
    BY <2>3 DEF TypeOK
  <2> QED BY <2>1, <2>2, <2>3, <2>4, <2>10, <2>11, SegAnswer
<1>6. ASSUME NEW r \in Req, NEW lb \in AllLB, NEW o \in Outcomes(io[r].dir),
             SegIODone(r, lb, o)
      PROVE  AnswerInv'
  BY <1>6, IODoneAnswer
<1>7. ASSUME NEW r \in Req, NEW lb \in AllLB, ReportMDDone(r, lb) PROVE AnswerInv'
  BY <1>7, ReportAnswer
<1>8. ASSUME NEW r \in Req, WorkerReport(r) PROVE AnswerInv'
  BY <1>8, WorkerAnswer
<1>9. ASSUME NEW r \in Req, EndRequest(r) PROVE AnswerInv'
  BY <1>9, EndAnswer
<1>10. CASE UNCHANGED vars
  <2>1. PoolsMatchStates'
    BY <1>10 DEF vars, pools, AnswerInv, PoolsMatchStates
  <2>2. \A q \in Req : Same(q)
    BY <1>10 DEF vars, ci, Same
  <2> QED BY <2>1, <2>2, AnswerFrame DEF AnswerInv
<1> QED
  BY <1>1, <1>2, <1>3, <1>4, <1>5, <1>6, <1>7, <1>8, <1>9, <1>10
     DEF Next, Submitter, Segment, Worker

(***************************************************************************)
(* A failure told to the user is the failure of a segment, and a request    *)
(* parked for its reports waits for exactly the ones that were sent, for    *)
(* any number of requests, segments and replicas.  The two hypotheses are   *)
(* those of the run: without them the worker counts other segments than it  *)
(* sends.                                                                   *)
(***************************************************************************)
THEOREM ReportsAwaited ==
  ASSUME RREnabled, "invalid" \notin MDAnswers PROVE Spec => []ReportsAreAwaited
<1>1. Init => AnswerInv
  <2> SUFFICES ASSUME Init PROVE AnswerInv
    OBVIOUS
  <2>1. PoolsMatchStates
    BY DEF Init, PoolsMatchStates, Active
  <2>2. \A r \in Req : Reports(r) = {}
    BY DEF Init, Reports
  <2>3. NoSeg.res = TRUE /\ NoSeg.st = "none"
    BY DEF NoSeg
  <2> QED BY <2>1, <2>2, <2>3 DEF Init, AnswerInv, FailInv, RepInv
<1>2. TypeOK /\ AnswerInv /\ [Next]_vars => AnswerInv'
  BY AnswerStep
<1>3. TypeOK /\ AnswerInv => ReportsAreAwaited
  <2> SUFFICES ASSUME TypeOK, AnswerInv PROVE ReportsAreAwaited
    OBVIOUS
  <2>1. FailureIsReal
    BY DEF AnswerInv, PoolsMatchStates, FailInv, Failed, FailureIsReal, live, Segs, TypeOK, Active
  <2>2. ASSUME NEW r \in Req, Reports(r) # {} PROVE Cardinality(Reports(r)) > 0
    <3>1. IsFiniteSet(Reports(r))
      BY LBAssumption, FS_Subset DEF Reports
    <3> QED BY <2>2, <3>1, FS_EmptySet, FS_CardinalityType
  <2>3. ParkedOnReports
    BY <2>2 DEF AnswerInv, RepInv, ParkedOnReports, Reports
  <2>4. ReportFindsItsPhase
    BY DEF AnswerInv, RepInv, ReportFindsItsPhase, Reports
  <2> QED BY <2>1, <2>3, <2>4 DEF ReportsAreAwaited
<1> QED BY <1>1, <1>2, <1>3, TypeCorrect, PTL DEF Spec
=============================================================================
