------------------------- MODULE WritePayloadProofs -------------------------
(***************************************************************************)
(* Proofs about WritePayload, for any number of locations up to             *)
(* MAX_NUM_REPLICA, any MinDiskAck, and connections lost at any time.       *)
(*                                                                          *)
(* SuccessIsStored is not inductive: it needs that the counters of the      *)
(* metadata item count each datanode that has answered once, when its       *)
(* callback has counted it (CountInv), hence that a datanode answers once   *)
(* (AnswerInv) and that the references of the DN workers are balanced       *)
(* (TxInv, part of type correctness).                                       *)
(*                                                                          *)
(* EndIsClean needs in addition which buckets name which DN requests and    *)
(* that the callback that commits the write is the last one (CleanInv).     *)
(***************************************************************************)
EXTENDS WritePayload, FiniteSetTheorems, TLAPS

Pending(r) == {l \in Loc : <<l, r>> \in found \cup cb}

FinInv == /\ plReq_stat # "CI_CALLER" => fin = "no"
          /\ fin = "no" => finCb = None

FailNow(l) == fin # "done" /\ finCb = <<l, "FAIL">>

TxOne(l) ==
  /\ <<l, "FAIL">> \in found \/ <<l, "FAIL">> \in cb \/ FailNow(l) => tx[l] > 0
  /\ ~(<<l, "FAIL">> \in found /\ <<l, "FAIL">> \in cb)
  /\ FailNow(l) => <<l, "FAIL">> \notin found /\ <<l, "FAIL">> \notin cb

TxInv == \A l \in Loc : TxOne(l)

AnswerOne(l) ==
  /\ answer[l] # "none" => dnReq[l] \in {"PROCESS_RESP", "Free"}
  /\ \A r \in Final : /\ <<l, r>> \in found => answer[l] = r /\ <<l, r>> \notin cb
                      /\ <<l, r>> \in cb => answer[l] = r

AnswerInv == \A l \in Loc : AnswerOne(l)

CountedOK  == Stored \ Pending("OK")
CountedERR == Refused \ Pending("ERR")

CountInv == /\ acks.diskack = Cardinality(CountedOK)
            /\ acks.diskErr_ack = Cardinality(CountedERR)

(* Without connections that stay lost: nothing fails, and the first bit of  *)
(* mdata_fea means that the user has been answered.                         *)
NoFailInv == /\ \A l \in Loc : <<l, "FAIL">> \notin found \cup cb
             /\ \A l \in Loc : udata_status[l] # "FAIL"
             /\ acks.wfail_connErr = 0
             /\ "CIUser" \in mdata_fea => usr # "none"

TypeInv == TypeOK /\ FinInv /\ TxInv
IInv == TypeInv /\ AnswerInv /\ CountInv /\ SuccessIsStored

-----------------------------------------------------------------------------
(* PLReq_update_state stays within the states, and CI_CALLER is final.      *)
LEMMA FSMType ==
  ASSUME NEW st \in PLReqStates, NEW e
  PROVE  /\ PLReq_update_state(st, e)[1] \in PLReqStates
         /\ st = "CI_CALLER" => PLReq_update_state(st, e)[1] = "CI_CALLER"
         /\ PLReq_update_state(st, e)[2] = "DO_CICaller"
              => st # "CI_CALLER" /\ PLReq_update_state(st, e)[1] = "CI_CALLER"
BY DEF PLReq_update_state, PLReqStates

(* Counting an ack changes one counter by one and keeps the others.         *)
LEMMA CountFacts ==
  ASSUME NEW a \in Counters, NEW r \in Results
  PROVE  /\ Count(a, r) \in Counters
         /\ Count(a, r).diskack = a.diskack + (IF r = "OK" THEN 1 ELSE 0)
         /\ Count(a, r).diskErr_ack = a.diskErr_ack + (IF r = "ERR" THEN 1 ELSE 0)
BY DEF Count, Counters, Results

(* A retry takes back mem acks and connection errors only.                  *)
LEMMA UncountFacts ==
  ASSUME NEW a \in Counters, NEW r
  PROVE  /\ Uncount(a, r) \in Counters
         /\ Uncount(a, r).diskack = a.diskack
         /\ Uncount(a, r).diskErr_ack = a.diskErr_ack
BY DEF Uncount, Counters

(* A set of buckets is finite.                                              *)
LEMMA BucketsFinite ==
  ASSUME NEW B \in SUBSET Buckets
  PROVE  IsFiniteSet(B) /\ Cardinality(B) \in Nat
<1>1. Buckets = 0 .. 2
  BY DEF Buckets, MAX_NUM_REPLICA
<1>2. IsFiniteSet(0 .. 2)
  <2>1. 0 \in Int /\ 2 \in Int
    OBVIOUS
  <2> QED BY <2>1, FS_Interval, Zenon
<1>3. IsFiniteSet(B)
  BY <1>1, <1>2, FS_Subset
<1> QED
  BY <1>3, FS_CardinalityType

-----------------------------------------------------------------------------
(* Cancelling DN requests keeps the types.                                  *)
LEMMA CancelType ==
  ASSUME TypeOK, NEW B \in SUBSET Buckets, Cancel(B)
  PROVE  /\ dnReq' \in [Loc -> {"None", "WAIT_SEND", "WAIT_RESP", "PROCESS_RESP",
                                "RETRY", "CANCEL", "Lost", "Free"}]
         /\ workQ' \subseteq Loc /\ num_DNUDReq' \in Int
         /\ arr_DNUDReq' \in [Buckets -> Loc \cup {NoLoc}]
<1>1. Cardinality({b \in B : arr_DNUDReq[b] # NoLoc}) \in Nat
  <2>1. {b \in B : arr_DNUDReq[b] # NoLoc} \in SUBSET Buckets
    OBVIOUS
  <2> QED BY <2>1, BucketsFinite
<1> QED BY <1>1 DEF Cancel, TypeOK

LEMMA TypeInvInit == Init => TypeInv
BY LocAssumption, AckAssumption
   DEF Init, TypeInv, TypeOK, FinInv, TxInv, TxOne, FailNow, None, NoAcks, Counters, Buckets,
       MAX_NUM_REPLICA, Results, PLReqStates

(* Every step keeps the types, the phases and the references of the DN      *)
(* workers.                                                                 *)
LEMMA TypeStep == TypeOK /\ FinInv /\ TxInv /\ [Next]_vars => TypeOK'
<1> SUFFICES ASSUME TypeOK, FinInv, TxInv, [Next]_vars PROVE TypeOK'
  OBVIOUS
<1> USE LocAssumption, AckAssumption, ModeAssumption
<1>1. ASSUME NEW l \in Loc, Submit(l) PROVE TypeOK'
  <2>1. arr_DNUDReq' \in [Buckets -> Loc \cup {NoLoc}]
    BY <1>1 DEF Submit, TypeOK
  <2>2. num_DNUDReq' \in Int /\ bk' \in [Loc -> Int]
    BY <1>1 DEF Submit, TypeOK
  <2>3. /\ dnReq' \in [Loc -> {"None", "WAIT_SEND", "WAIT_RESP", "PROCESS_RESP",
                              "RETRY", "CANCEL", "Lost", "Free"}]
        /\ workQ' \subseteq Loc
    BY <1>1 DEF Submit, TypeOK
  <2> QED BY <1>1, <2>1, <2>2, <2>3 DEF Submit, TypeOK, net, md, pl
<1>2. ASSUME NEW l \in Loc, Peek(l) PROVE TypeOK'
  BY <1>2 DEF Peek, TypeOK, md, pl
<1>3. ASSUME NEW l \in Loc, TxOk(l) PROVE TypeOK'
  BY <1>3 DEF TxOk, TypeOK, dn, md, pl, Failing
<1>4. ASSUME NEW l \in Loc, TxLost(l) PROVE TypeOK'
  BY <1>4 DEF TxLost, TypeOK, dn, md, pl, Failing, Results
<1>5. ASSUME NEW l \in Loc, ConnBack(l) PROVE TypeOK'
  BY <1>5 DEF ConnBack, TypeOK, md, pl
<1>6. ASSUME NEW l \in Loc, RetryChkDone(l) PROVE TypeOK'
  BY <1>6 DEF RetryChkDone, TypeOK, md, pl
<1>7. ASSUME NEW l \in Loc, RetryReset(l) PROVE TypeOK'
  <2>1. Uncount(acks, udata_status[l]) \in Counters
    BY UncountFacts DEF TypeOK
  <2> QED BY <1>7, <2>1 DEF RetryReset, TypeOK, pl
<1>8. ASSUME NEW l \in Loc, NEW a \in Answers, Ack(l, a) PROVE TypeOK'
  BY <1>8 DEF Ack, TypeOK, md, pl, Results
<1>9. ASSUME NEW l \in Loc, NEW r \in Results, CbStart(l, r) PROVE TypeOK'
  BY <1>9 DEF CbStart, TypeOK, net, pl, Results
<1>10. ASSUME NEW l \in Loc, NEW r \in Results, CbCount(l, r) PROVE TypeOK'
  <2>1. acks' \in Counters
    BY <1>10, CountFacts DEF CbCount, TypeOK
  <2>2. plReq_stat' \in PLReqStates
    BY <1>10, FSMType DEF CbCount, TypeOK
  <2>3. tx' \in [Loc -> Nat]
    BY <1>10 DEF CbCount, Idle, TypeOK, TxInv, TxOne
  <2>4. dnReq' \in [Loc -> {"None", "WAIT_SEND", "WAIT_RESP", "PROCESS_RESP",
                           "RETRY", "CANCEL", "Lost", "Free"}]
    BY <1>10 DEF CbCount, Freed, TypeOK
  <2>5. fin' \in {"no", "timer", "end", "ended", "wait", "done"}
        /\ finCb' \in (Loc \X Results) \cup {None}
    BY <1>10 DEF CbCount, TypeOK
  <2>6. cb' \subseteq Loc \X Results /\ mdata_fea' \subseteq {"CIUser", "CIMDS"}
        /\ usr' \in {"none", "ok", "fail"}
    BY <1>10 DEF CbCount, TypeOK
  <2> QED BY <1>10, <2>1, <2>2, <2>3, <2>4, <2>5, <2>6 DEF CbCount, TypeOK
<1>11. ASSUME FinishCancel PROVE TypeOK'
  <2>1. CASE num_DNUDReq = 1
    BY <1>11, <2>1 DEF FinishCancel, TypeOK, net, md
  <2>2. CASE num_DNUDReq # 1
    BY <1>11, <2>2, CancelType DEF FinishCancel, TypeOK, net, md
  <2> QED BY <2>1, <2>2
<1>12. ASSUME FinishEnd PROVE TypeOK'
  BY <1>12 DEF FinishEnd, FreeCancelled, TypeOK, net, md
<1>13. ASSUME FinishFree PROVE TypeOK'
  <2>1. CASE num_DNUDReq = 0
    BY <1>13, <2>1 DEF FinishFree, TypeOK, net, md
  <2>2. CASE num_DNUDReq # 0
    BY <1>13, <2>2, CancelType DEF FinishFree, TypeOK, net, md
  <2> QED BY <2>1, <2>2
<1>14. ASSUME FinishDone PROVE TypeOK'
  <2>1. tx' \in [Loc -> Nat]
    <3>1. CASE finCb = None
      BY <1>14, <3>1 DEF FinishDone, Idle, TypeOK, None
    <3>2. CASE finCb # None
      <4>1. PICK k \in Loc, q \in Results : finCb = <<k, q>>
        BY <3>2 DEF TypeOK
      <4>2. q = "FAIL" => tx[k] > 0
        BY <1>14, <4>1 DEF FinishDone, TxInv, TxOne, FailNow
      <4>3. tx' = [tx EXCEPT ![k] = IF q = "FAIL" THEN @ - 1 ELSE @]
        BY <1>14, <4>1 DEF FinishDone, Idle
      <4> QED BY <4>2, <4>3 DEF TypeOK
    <3> QED BY <3>1, <3>2
  <2>2. dnReq' \in [Loc -> {"None", "WAIT_SEND", "WAIT_RESP", "PROCESS_RESP",
                           "RETRY", "CANCEL", "Lost", "Free"}]
    BY <1>14 DEF FinishDone, Freed, FreeCancelled, TypeOK
  <2> QED BY <1>14, <2>1, <2>2 DEF FinishDone, TypeOK, md
<1>15. ASSUME TOFire PROVE TypeOK'
  <2>1. plReq_stat' \in PLReqStates
    BY <1>15, FSMType DEF TOFire, TypeOK
  <2> QED BY <1>15, <2>1 DEF TOFire, TypeOK, dn, net, md
<1>16. ASSUME NEW w \in BOOLEAN, TOCheck(w) PROVE TypeOK'
  <2>1. plReq_stat' \in PLReqStates
    BY <1>16, FSMType DEF TOCheck, TypeOK
  <2> QED BY <1>16, <2>1 DEF TOCheck, TypeOK, dn, net
<1>17. CASE UNCHANGED vars
  BY <1>17 DEF vars, dn, net, md, pl, TypeOK
<1> QED
  BY <1>1, <1>2, <1>3, <1>4, <1>5, <1>6, <1>7, <1>8, <1>9, <1>10, <1>11, <1>12, <1>13,
     <1>14, <1>15, <1>16, <1>17 DEF Next, DNClient, Finish, Timer

(* Only one callback gets the right to finish the request.                  *)
LEMMA FinStep == TypeOK /\ FinInv /\ [Next]_vars => FinInv'
<1> SUFFICES ASSUME TypeOK, FinInv, [Next]_vars PROVE FinInv'
  OBVIOUS
<1>1. ASSUME NEW l \in Loc, Submit(l) PROVE FinInv'
  BY <1>1 DEF Submit, FinInv, net, md, pl
<1>2. ASSUME NEW l \in Loc, Peek(l) PROVE FinInv'
  BY <1>2 DEF Peek, FinInv, md, pl
<1>3. ASSUME NEW l \in Loc, TxOk(l) PROVE FinInv'
  BY <1>3 DEF TxOk, FinInv, dn, md, pl
<1>4. ASSUME NEW l \in Loc, TxLost(l) PROVE FinInv'
  BY <1>4 DEF TxLost, FinInv, dn, md, pl
<1>5. ASSUME NEW l \in Loc, ConnBack(l) PROVE FinInv'
  BY <1>5 DEF ConnBack, FinInv, md, pl
<1>6. ASSUME NEW l \in Loc, RetryChkDone(l) PROVE FinInv'
  BY <1>6 DEF RetryChkDone, FinInv, md, pl
<1>7. ASSUME NEW l \in Loc, RetryReset(l) PROVE FinInv'
  BY <1>7 DEF RetryReset, FinInv, pl
<1>8. ASSUME NEW l \in Loc, NEW a \in Answers, Ack(l, a) PROVE FinInv'
  BY <1>8 DEF Ack, FinInv, md, pl
<1>9. ASSUME NEW l \in Loc, NEW r \in Results, CbStart(l, r) PROVE FinInv'
  BY <1>9 DEF CbStart, FinInv, net, pl
<1>10. ASSUME NEW l \in Loc, NEW r \in Results, CbCount(l, r) PROVE FinInv'
  BY <1>10, FSMType DEF CbCount, FinInv, TypeOK
<1>11. ASSUME FinishCancel PROVE FinInv'
  BY <1>11 DEF FinishCancel, FinInv, net, md
<1>12. ASSUME FinishEnd PROVE FinInv'
  BY <1>12 DEF FinishEnd, FinInv, net, md
<1>13. ASSUME FinishFree PROVE FinInv'
  BY <1>13 DEF FinishFree, FinInv, net, md
<1>14. ASSUME FinishDone PROVE FinInv'
  BY <1>14 DEF FinishDone, FinInv, md
<1>15. ASSUME TOFire PROVE FinInv'
  BY <1>15, FSMType DEF TOFire, FinInv, TypeOK
<1>16. ASSUME NEW w \in BOOLEAN, TOCheck(w) PROVE FinInv'
  BY <1>16, FSMType DEF TOCheck, FinInv, TypeOK
<1>17. CASE UNCHANGED vars
  BY <1>17 DEF vars, dn, net, md, pl, FinInv
<1> QED
  BY <1>1, <1>2, <1>3, <1>4, <1>5, <1>6, <1>7, <1>8, <1>9, <1>10, <1>11, <1>12, <1>13,
     <1>14, <1>15, <1>16, <1>17 DEF Next, DNClient, Finish, Timer

(* A DN worker in the callback of a failed send still holds its reference.  *)
LEMMA TxStep == TypeOK /\ FinInv /\ TxInv /\ [Next]_vars => TxInv'
<1> SUFFICES ASSUME TypeOK, FinInv, TxInv, [Next]_vars PROVE TxInv'
  OBVIOUS
<1> USE LocAssumption, AckAssumption, ModeAssumption
<1>1. ASSUME NEW l \in Loc, Submit(l) PROVE TxInv'
  BY <1>1 DEF Submit, TxInv, TxOne, FailNow, TypeOK, net, md, pl
<1>2. ASSUME NEW l \in Loc, Peek(l) PROVE TxInv'
  <2> SUFFICES ASSUME NEW k \in Loc PROVE TxOne(k)'
    BY DEF TxInv
  <2>1. tx[k] \in Nat /\ tx'[k] \in {tx[k], tx[k] + 1}
    BY <1>2 DEF Peek, TypeOK
  <2>2. UNCHANGED <<found, cb, fin, finCb>>
    BY <1>2 DEF Peek, pl
  <2> QED BY <2>1, <2>2 DEF TxInv, TxOne, FailNow
<1>3. ASSUME NEW l \in Loc, TxOk(l) PROVE TxInv'
  <2> SUFFICES ASSUME NEW k \in Loc PROVE TxOne(k)'
    BY DEF TxInv
  <2>1. tx[k] \in Nat /\ tx'[k] = IF k = l THEN tx[k] - 1 ELSE tx[k]
    BY <1>3 DEF TxOk, TypeOK
  <2>2. UNCHANGED <<found, cb, fin, finCb>>
    BY <1>3 DEF TxOk, pl
  <2>3. tx[l] > Failing(l)
    BY <1>3 DEF TxOk
  <2>4. CASE k = l
    BY <2>1, <2>2, <2>3, <2>4 DEF TxInv, TxOne, FailNow, Failing
  <2>5. CASE k # l
    BY <2>1, <2>2, <2>5 DEF TxInv, TxOne, FailNow
  <2> QED BY <2>4, <2>5
<1>4. ASSUME NEW l \in Loc, TxLost(l) PROVE TxInv'
  <2> SUFFICES ASSUME NEW k \in Loc PROVE TxOne(k)'
    BY DEF TxInv
  <2>1. UNCHANGED <<cb, fin, finCb>> /\ tx[l] > Failing(l)
    BY <1>4 DEF TxLost, pl
  <2>2. CASE found' = found /\ tx' = [tx EXCEPT ![l] = @ - 1]
    <3>1. tx[k] \in Nat /\ tx'[k] = IF k = l THEN tx[k] - 1 ELSE tx[k]
      BY <2>2 DEF TypeOK
    <3>2. CASE k = l
      BY <2>1, <2>2, <3>1, <3>2 DEF TxInv, TxOne, FailNow, Failing
    <3>3. CASE k # l
      BY <2>1, <2>2, <3>1, <3>3 DEF TxInv, TxOne, FailNow
    <3> QED BY <3>2, <3>3
  <2>3. CASE found' = found \cup {<<l, "FAIL">>} /\ tx' = tx /\ Failing(l) = 0
    <3>1. CASE k = l
      BY <2>1, <2>3, <3>1 DEF TxInv, TxOne, FailNow, Failing
    <3>2. CASE k # l
      <4>1. <<k, "FAIL">> \in found' <=> <<k, "FAIL">> \in found
        BY <2>3, <3>2
      <4> QED BY <2>1, <2>3, <4>1 DEF TxInv, TxOne, FailNow
    <3> QED BY <3>1, <3>2
  <2> QED BY <1>4, <2>2, <2>3 DEF TxLost
<1>5. ASSUME NEW l \in Loc, ConnBack(l) PROVE TxInv'
  BY <1>5 DEF ConnBack, TxInv, TxOne, FailNow, TypeOK, md, pl
<1>6. ASSUME NEW l \in Loc, RetryChkDone(l) PROVE TxInv'
  BY <1>6 DEF RetryChkDone, TxInv, TxOne, FailNow, TypeOK, md, pl
<1>7. ASSUME NEW l \in Loc, RetryReset(l) PROVE TxInv'
  BY <1>7 DEF RetryReset, TxInv, TxOne, FailNow, TypeOK, pl
<1>8. ASSUME NEW l \in Loc, NEW a \in Answers, Ack(l, a) PROVE TxInv'
  BY <1>8 DEF Ack, TxInv, TxOne, FailNow, TypeOK, md, pl
<1>9. ASSUME NEW l \in Loc, NEW r \in Results, CbStart(l, r) PROVE TxInv'
  BY <1>9 DEF CbStart, TxInv, TxOne, FailNow, TypeOK, net, pl
<1>10. ASSUME NEW l \in Loc, NEW r \in Results, CbCount(l, r) PROVE TxInv'
  <2>1. CASE finCb' = finCb /\ fin' = fin /\ tx' = Idle(tx, l, r)
    BY <1>10, <2>1 DEF CbCount, Idle, TxInv, TxOne, FailNow, TypeOK
  <2>2. CASE finCb' = <<l, r>> /\ fin' = "timer" /\ tx' = tx /\ plReq_stat # "CI_CALLER"
    BY <1>10, <2>2 DEF CbCount, TxInv, TxOne, FailNow, TypeOK, FinInv
  <2> QED BY <1>10, <2>1, <2>2, FSMType DEF CbCount, TypeOK
<1>11. ASSUME FinishCancel PROVE TxInv'
  BY <1>11 DEF FinishCancel, TxInv, TxOne, FailNow, TypeOK, net, md
<1>12. ASSUME FinishEnd PROVE TxInv'
  BY <1>12 DEF FinishEnd, TxInv, TxOne, FailNow, TypeOK, net, md
<1>13. ASSUME FinishFree PROVE TxInv'
  BY <1>13 DEF FinishFree, TxInv, TxOne, FailNow, TypeOK, net, md
<1>14. ASSUME FinishDone PROVE TxInv'
  <2> SUFFICES ASSUME NEW k \in Loc PROVE TxOne(k)'
    BY DEF TxInv
  <2>1. found' = found /\ cb' = cb /\ fin = "wait" /\ fin' = "done"
    BY <1>14 DEF FinishDone
  <2>2. finCb # <<k, "FAIL">> => tx'[k] = tx[k]
    BY <1>14 DEF FinishDone, Idle, TypeOK, None
  <2> QED BY <2>1, <2>2 DEF TxInv, TxOne, FailNow
<1>15. ASSUME TOFire PROVE TxInv'
  BY <1>15 DEF TOFire, TxInv, TxOne, FailNow, TypeOK, dn, net, md
<1>16. ASSUME NEW w \in BOOLEAN, TOCheck(w) PROVE TxInv'
  BY <1>16 DEF TOCheck, TxInv, TxOne, FailNow, TypeOK, dn, net
<1>17. CASE UNCHANGED vars
  BY <1>17 DEF vars, dn, net, md, pl, TxInv, TxOne, FailNow, TypeOK
<1> QED
  BY <1>1, <1>2, <1>3, <1>4, <1>5, <1>6, <1>7, <1>8, <1>9, <1>10, <1>11, <1>12, <1>13,
     <1>14, <1>15, <1>16, <1>17 DEF Next, DNClient, Finish, Timer

(* A datanode answers once, and each answer is delivered by one callback.   *)
LEMMA AnswerStep == TypeOK /\ AnswerInv /\ [Next]_vars => AnswerInv'
<1> SUFFICES ASSUME TypeOK, AnswerInv, [Next]_vars PROVE AnswerInv'
  OBVIOUS
<1> USE LocAssumption, ModeAssumption
<1>1. ASSUME NEW l \in Loc, Submit(l) PROVE AnswerInv'
  BY <1>1 DEF Submit, AnswerInv, AnswerOne, TypeOK, net, md, pl
<1>2. ASSUME NEW l \in Loc, Peek(l) PROVE AnswerInv'
  BY <1>2 DEF Peek, AnswerInv, AnswerOne, TypeOK, md, pl
<1>3. ASSUME NEW l \in Loc, TxOk(l) PROVE AnswerInv'
  BY <1>3 DEF TxOk, AnswerInv, AnswerOne, TypeOK, dn, md, pl
<1>4. ASSUME NEW l \in Loc, TxLost(l) PROVE AnswerInv'
  <2> SUFFICES ASSUME NEW k \in Loc PROVE AnswerOne(k)'
    BY DEF AnswerInv
  <2>1. UNCHANGED <<answer, dnReq, cb>> /\ found' \subseteq found \cup {<<l, "FAIL">>}
    BY <1>4 DEF TxLost, dn
  <2>2. \A r \in Final : <<k, r>> \in found' => <<k, r>> \in found
    BY <2>1 DEF Final
  <2> QED BY <2>1, <2>2 DEF AnswerInv, AnswerOne
<1>5. ASSUME NEW l \in Loc, ConnBack(l) PROVE AnswerInv'
  BY <1>5 DEF ConnBack, AnswerInv, AnswerOne, TypeOK, md, pl
<1>6. ASSUME NEW l \in Loc, RetryChkDone(l) PROVE AnswerInv'
  BY <1>6 DEF RetryChkDone, AnswerInv, AnswerOne, TypeOK, md, pl
<1>7. ASSUME NEW l \in Loc, RetryReset(l) PROVE AnswerInv'
  BY <1>7 DEF RetryReset, AnswerInv, AnswerOne, TypeOK, pl
<1>8. ASSUME NEW l \in Loc, NEW a \in Answers, Ack(l, a) PROVE AnswerInv'
  <2> SUFFICES ASSUME NEW k \in Loc PROVE AnswerOne(k)'
    BY DEF AnswerInv
  <2>1. answer[l] = "none" /\ dnReq[l] = "WAIT_RESP" /\ cb' = cb
    BY <1>8 DEF Ack, AnswerInv, AnswerOne, TypeOK
  <2>2. CASE k # l
    <3>1. answer'[k] = answer[k] /\ dnReq'[k] = dnReq[k]
      BY <1>8, <2>2 DEF Ack, TypeOK
    <3>2. \A r : <<k, r>> \in found' <=> <<k, r>> \in found
      BY <1>8, <2>2 DEF Ack
    <3> QED BY <2>1, <3>1, <3>2 DEF AnswerInv, AnswerOne
  <2>3. CASE k = l /\ a = "MEM_OK"
    BY <1>8, <2>1, <2>3 DEF Ack, AnswerInv, AnswerOne, Final
  <2>4. CASE k = l /\ a # "MEM_OK"
    <3>1. answer'[k] = a /\ dnReq'[k] = "PROCESS_RESP"
      BY <1>8, <2>4 DEF Ack, TypeOK
    <3>2. \A r \in Final : <<k, r>> \notin found /\ <<k, r>> \notin cb
      BY <2>1, <2>4 DEF AnswerInv, AnswerOne, Final
    <3>3. found' \subseteq found \cup {<<l, a>>}
      BY <1>8 DEF Ack
    <3> QED BY <2>1, <2>4, <3>1, <3>2, <3>3 DEF AnswerOne, Final
  <2> QED BY <2>2, <2>3, <2>4
<1>9. ASSUME NEW l \in Loc, NEW r \in Results, CbStart(l, r) PROVE AnswerInv'
  <2> SUFFICES ASSUME NEW k \in Loc PROVE AnswerOne(k)'
    BY DEF AnswerInv
  <2>1. UNCHANGED <<answer, dnReq>> /\ <<l, r>> \in found
    BY <1>9 DEF CbStart, net
  <2>2. found' = found \ {<<l, r>>} /\ cb' = cb \cup {<<l, r>>}
    BY <1>9 DEF CbStart
  <2> QED BY <2>1, <2>2 DEF AnswerInv, AnswerOne
<1>10. ASSUME NEW l \in Loc, NEW r \in Results, CbCount(l, r) PROVE AnswerInv'
  <2> SUFFICES ASSUME NEW k \in Loc PROVE AnswerOne(k)'
    BY DEF AnswerInv
  <2>1. UNCHANGED <<answer, found>> /\ cb' = cb \ {<<l, r>>}
    BY <1>10 DEF CbCount
  <2>2. dnReq' = dnReq \/ dnReq' = Freed(dnReq, l, r)
    BY <1>10 DEF CbCount
  <2>3. dnReq'[k] = dnReq[k] \/ dnReq'[k] = "Free"
    BY <2>2 DEF Freed, TypeOK
  <2> QED BY <2>1, <2>3 DEF AnswerInv, AnswerOne
<1>11. ASSUME FinishCancel PROVE AnswerInv'
  <2> SUFFICES ASSUME NEW k \in Loc PROVE AnswerOne(k)'
    BY DEF AnswerInv
  <2>1. UNCHANGED <<found, cb, answer>>
    BY <1>11 DEF FinishCancel, net
  <2>2. answer[k] # "none" => dnReq'[k] \in {"PROCESS_RESP", "Free"}
    BY <1>11 DEF FinishCancel, Cancel, AnswerInv, AnswerOne, TypeOK
  <2> QED BY <2>1, <2>2 DEF AnswerInv, AnswerOne
<1>12. ASSUME FinishEnd PROVE AnswerInv'
  <2> SUFFICES ASSUME NEW k \in Loc PROVE AnswerOne(k)'
    BY DEF AnswerInv
  <2>1. UNCHANGED <<found, cb, answer>>
    BY <1>12 DEF FinishEnd, net
  <2>2. answer[k] # "none" => dnReq'[k] \in {"PROCESS_RESP", "Free"}
    BY <1>12 DEF FinishEnd, FreeCancelled, AnswerInv, AnswerOne, TypeOK
  <2> QED BY <2>1, <2>2 DEF AnswerInv, AnswerOne
<1>13. ASSUME FinishFree PROVE AnswerInv'
  <2> SUFFICES ASSUME NEW k \in Loc PROVE AnswerOne(k)'
    BY DEF AnswerInv
  <2>1. UNCHANGED <<found, cb, answer>>
    BY <1>13 DEF FinishFree, net
  <2>2. answer[k] # "none" => dnReq'[k] \in {"PROCESS_RESP", "Free"}
    BY <1>13 DEF FinishFree, Cancel, AnswerInv, AnswerOne, TypeOK
  <2> QED BY <2>1, <2>2 DEF AnswerInv, AnswerOne
<1>14. ASSUME FinishDone PROVE AnswerInv'
  <2> SUFFICES ASSUME NEW k \in Loc PROVE AnswerOne(k)'
    BY DEF AnswerInv
  <2>1. UNCHANGED <<found, cb, answer>>
    BY <1>14 DEF FinishDone
  <2>2. answer[k] # "none" => dnReq'[k] \in {"PROCESS_RESP", "Free"}
    BY <1>14 DEF FinishDone, Freed, FreeCancelled, AnswerInv, AnswerOne, TypeOK
  <2> QED BY <2>1, <2>2 DEF AnswerInv, AnswerOne
<1>15. ASSUME TOFire PROVE AnswerInv'
  BY <1>15 DEF TOFire, AnswerInv, AnswerOne, TypeOK, dn, net, md
<1>16. ASSUME NEW w \in BOOLEAN, TOCheck(w) PROVE AnswerInv'
  BY <1>16 DEF TOCheck, AnswerInv, AnswerOne, TypeOK, dn, net
<1>17. CASE UNCHANGED vars
  BY <1>17 DEF vars, dn, net, md, pl, AnswerInv, AnswerOne, TypeOK
<1> QED
  BY <1>1, <1>2, <1>3, <1>4, <1>5, <1>6, <1>7, <1>8, <1>9, <1>10, <1>11, <1>12, <1>13,
     <1>14, <1>15, <1>16, <1>17 DEF Next, DNClient, Finish, Timer

(* The sets of locations are finite, and counted or not.                    *)
LEMMA SetFacts ==
  /\ IsFiniteSet(Loc) /\ N \in Nat /\ N > 0
  /\ \A S \in SUBSET Loc : /\ IsFiniteSet(S) /\ Cardinality(S) \in Nat
                           /\ Cardinality(S) <= N
                           /\ Cardinality(S) = N => S = Loc
                           /\ Cardinality(S) > 0 => S # {}
<1>1. IsFiniteSet(Loc) /\ Loc # {}
  BY LocAssumption
<1>2. N \in Nat /\ N > 0
  BY <1>1, FS_CardinalityType, FS_EmptySet DEF N
<1>3. ASSUME NEW S \in SUBSET Loc
      PROVE  /\ IsFiniteSet(S) /\ Cardinality(S) \in Nat /\ Cardinality(S) <= N
             /\ Cardinality(S) = N => S = Loc
  BY <1>1, FS_Subset, FS_CardinalityType DEF N
<1>4. Cardinality({}) = 0
  BY FS_EmptySet
<1> QED BY <1>1, <1>2, <1>3, <1>4

(* Disjoint sets of locations whose sizes add up to N cover Loc.            *)
LEMMA Cover ==
  ASSUME NEW S \in SUBSET Loc, NEW T \in SUBSET Loc, S \cap T = {},
         Cardinality(S) + Cardinality(T) = N
  PROVE  S \cup T = Loc
<1>1. IsFiniteSet(S) /\ IsFiniteSet(T) /\ Cardinality({}) = 0
  BY SetFacts, FS_EmptySet
<1>2. Cardinality(S \cup T) = Cardinality(S) + Cardinality(T) - Cardinality(S \cap T)
  BY <1>1, FS_Union
<1>3. Cardinality(S \cup T) = N
  BY <1>1, <1>2, SetFacts
<1> QED BY <1>3, SetFacts

(* The counters count each answer once, when its callback has counted it.   *)
LEMMA CountStep == TypeOK /\ AnswerInv /\ CountInv /\ [Next]_vars => CountInv'
<1> SUFFICES ASSUME TypeOK, AnswerInv, CountInv, [Next]_vars PROVE CountInv'
  OBVIOUS
<1> USE ModeAssumption
<1>1. ASSUME NEW l \in Loc, Submit(l) PROVE CountInv'
  <2>1. UNCHANGED <<answer, found, cb, acks>>
    BY <1>1 DEF Submit, net, md, pl
  <2> QED BY <2>1 DEF CountInv, CountedOK, CountedERR, Stored, Refused, Pending
<1>2. ASSUME NEW l \in Loc, Peek(l) PROVE CountInv'
  <2>1. UNCHANGED <<answer, found, cb, acks>>
    BY <1>2 DEF Peek, md, pl
  <2> QED BY <2>1 DEF CountInv, CountedOK, CountedERR, Stored, Refused, Pending
<1>3. ASSUME NEW l \in Loc, TxOk(l) PROVE CountInv'
  <2>1. UNCHANGED <<answer, found, cb, acks>>
    BY <1>3 DEF TxOk, dn, md, pl
  <2> QED BY <2>1 DEF CountInv, CountedOK, CountedERR, Stored, Refused, Pending
<1>4. ASSUME NEW l \in Loc, TxLost(l) PROVE CountInv'
  <2>1. UNCHANGED <<answer, cb, acks>> /\ found' \in {found, found \cup {<<l, "FAIL">>}}
    BY <1>4 DEF TxLost, md
  <2>2. Pending("OK")' = Pending("OK") /\ Pending("ERR")' = Pending("ERR")
    BY <2>1 DEF Pending
  <2> QED BY <2>1, <2>2 DEF CountInv, CountedOK, CountedERR, Stored, Refused
<1>5. ASSUME NEW l \in Loc, ConnBack(l) PROVE CountInv'
  <2>1. UNCHANGED <<answer, found, cb, acks>>
    BY <1>5 DEF ConnBack, md, pl
  <2> QED BY <2>1 DEF CountInv, CountedOK, CountedERR, Stored, Refused, Pending
<1>6. ASSUME NEW l \in Loc, RetryChkDone(l) PROVE CountInv'
  <2>1. UNCHANGED <<answer, found, cb, acks>>
    BY <1>6 DEF RetryChkDone, md, pl
  <2> QED BY <2>1 DEF CountInv, CountedOK, CountedERR, Stored, Refused, Pending
<1>7. ASSUME NEW l \in Loc, RetryReset(l) PROVE CountInv'
  <2>1. UNCHANGED <<answer, found, cb>>
    BY <1>7 DEF RetryReset
  <2>2. acks'.diskack = acks.diskack /\ acks'.diskErr_ack = acks.diskErr_ack
    BY <1>7, UncountFacts DEF RetryReset, TypeOK
  <2> QED BY <2>1, <2>2 DEF CountInv, CountedOK, CountedERR, Stored, Refused, Pending
<1>8. ASSUME NEW l \in Loc, NEW a \in Answers, Ack(l, a) PROVE CountInv'
  <2>1. answer[l] = "none" /\ UNCHANGED <<acks, cb>>
    BY <1>8 DEF Ack, AnswerInv, AnswerOne, md
  <2>2. CASE a = "MEM_OK" \/ a = "LUN"
    <3>1. Pending("OK")' = Pending("OK") /\ Pending("ERR")' = Pending("ERR")
      BY <1>8, <2>2 DEF Ack, Pending
    <3>2. Stored' = Stored /\ Refused' = Refused
      BY <1>8, <2>1, <2>2 DEF Ack, Stored, Refused, TypeOK
    <3> QED BY <2>1, <3>1, <3>2 DEF CountInv, CountedOK, CountedERR
  <2>3. CASE a = "OK"
    <3>1. Pending("OK")' = Pending("OK") \cup {l} /\ Pending("ERR")' = Pending("ERR")
      BY <1>8, <2>3 DEF Ack, Pending
    <3>2. Stored' = Stored \cup {l} /\ Refused' = Refused /\ l \notin Stored
      BY <1>8, <2>1, <2>3 DEF Ack, Stored, Refused, TypeOK
    <3> QED BY <2>1, <3>1, <3>2 DEF CountInv, CountedOK, CountedERR
  <2>4. CASE a = "ERR"
    <3>1. Pending("ERR")' = Pending("ERR") \cup {l} /\ Pending("OK")' = Pending("OK")
      BY <1>8, <2>4 DEF Ack, Pending
    <3>2. Refused' = Refused \cup {l} /\ Stored' = Stored /\ l \notin Refused
      BY <1>8, <2>1, <2>4 DEF Ack, Stored, Refused, TypeOK
    <3> QED BY <2>1, <3>1, <3>2 DEF CountInv, CountedOK, CountedERR
  <2> QED BY <2>2, <2>3, <2>4
<1>9. ASSUME NEW l \in Loc, NEW r \in Results, CbStart(l, r) PROVE CountInv'
  <2>1. UNCHANGED <<answer, acks>> /\ found' \cup cb' = found \cup cb
    BY <1>9 DEF CbStart, net
  <2> QED BY <2>1 DEF CountInv, CountedOK, CountedERR, Stored, Refused, Pending
<1>10. ASSUME NEW l \in Loc, NEW r \in Results, CbCount(l, r) PROVE CountInv'
  <2>1. UNCHANGED <<answer, found>> /\ cb' = cb \ {<<l, r>>} /\ <<l, r>> \in cb
    BY <1>10 DEF CbCount
  <2>2. acks' = Count(acks, r)
    BY <1>10 DEF CbCount
  <2>3. UNCHANGED <<Stored, Refused>>
    BY <2>1 DEF Stored, Refused
  <2>4. CASE r \notin Final
    <3>1. Pending("OK")' = Pending("OK") /\ Pending("ERR")' = Pending("ERR")
      BY <2>1, <2>4 DEF Pending, Final
    <3>2. acks'.diskack = acks.diskack /\ acks'.diskErr_ack = acks.diskErr_ack
      BY <2>2, <2>4, CountFacts DEF TypeOK, Final, Counters
    <3>3. CountedOK' = CountedOK /\ CountedERR' = CountedERR
      BY <2>3, <3>1 DEF CountedOK, CountedERR
    <3> QED BY <3>2, <3>3 DEF CountInv
  <2>5. CASE r \in Final
    <3>1. answer[l] = r /\ <<l, r>> \notin found
      BY <2>1, <2>5 DEF AnswerInv, AnswerOne
    <3>2. Pending(r)' = Pending(r) \ {l} /\ l \in Pending(r)
      BY <2>1, <3>1 DEF Pending
    <3>3. \A q \in Final \ {r} : Pending(q)' = Pending(q)
      BY <2>1 DEF Pending, Final
    <3>4. CASE r = "OK"
      <4>1. CountedOK' = CountedOK \cup {l} /\ l \notin CountedOK
        BY <2>3, <3>1, <3>2, <3>4 DEF CountedOK, Stored
      <4>2. CountedERR' = CountedERR
        BY <2>3, <3>3, <3>4 DEF CountedERR, Final
      <4>3. Cardinality(CountedOK') = Cardinality(CountedOK) + 1
        BY <4>1, SetFacts, FS_AddElement DEF CountedOK, Stored
      <4> QED BY <2>2, <3>4, <4>2, <4>3, CountFacts DEF CountInv, TypeOK, Counters
    <3>5. CASE r = "ERR"
      <4>1. CountedERR' = CountedERR \cup {l} /\ l \notin CountedERR
        BY <2>3, <3>1, <3>2, <3>5 DEF CountedERR, Refused
      <4>2. CountedOK' = CountedOK
        BY <2>3, <3>3, <3>5 DEF CountedOK, Final
      <4>3. Cardinality(CountedERR') = Cardinality(CountedERR) + 1
        BY <4>1, SetFacts, FS_AddElement DEF CountedERR, Refused
      <4> QED BY <2>2, <3>5, <4>2, <4>3, CountFacts DEF CountInv, TypeOK, Counters
    <3> QED BY <2>5, <3>4, <3>5 DEF Final
  <2> QED BY <2>4, <2>5
<1>11. ASSUME FinishCancel PROVE CountInv'
  <2>1. UNCHANGED <<answer, found, cb, acks>>
    BY <1>11 DEF FinishCancel, net, md
  <2> QED BY <2>1 DEF CountInv, CountedOK, CountedERR, Stored, Refused, Pending
<1>12. ASSUME FinishEnd PROVE CountInv'
  <2>1. UNCHANGED <<answer, found, cb, acks>>
    BY <1>12 DEF FinishEnd, net, md
  <2> QED BY <2>1 DEF CountInv, CountedOK, CountedERR, Stored, Refused, Pending
<1>13. ASSUME FinishFree PROVE CountInv'
  <2>1. UNCHANGED <<answer, found, cb, acks>>
    BY <1>13 DEF FinishFree, net, md
  <2> QED BY <2>1 DEF CountInv, CountedOK, CountedERR, Stored, Refused, Pending
<1>14. ASSUME FinishDone PROVE CountInv'
  <2>1. UNCHANGED <<answer, found, cb, acks>>
    BY <1>14 DEF FinishDone, md
  <2> QED BY <2>1 DEF CountInv, CountedOK, CountedERR, Stored, Refused, Pending
<1>15. ASSUME TOFire PROVE CountInv'
  <2>1. UNCHANGED <<answer, found, cb, acks>>
    BY <1>15 DEF TOFire, dn, net, md
  <2> QED BY <2>1 DEF CountInv, CountedOK, CountedERR, Stored, Refused, Pending
<1>16. ASSUME NEW w \in BOOLEAN, TOCheck(w) PROVE CountInv'
  <2>1. UNCHANGED <<answer, found, cb, acks>>
    BY <1>16 DEF TOCheck, dn, net
  <2> QED BY <2>1 DEF CountInv, CountedOK, CountedERR, Stored, Refused, Pending
<1>17. CASE UNCHANGED vars
  BY <1>17 DEF vars, dn, net, md, pl, CountInv, CountedOK, CountedERR, Stored, Refused, Pending
<1> QED
  BY <1>1, <1>2, <1>3, <1>4, <1>5, <1>6, <1>7, <1>8, <1>9, <1>10, <1>11, <1>12, <1>13,
     <1>14, <1>15, <1>16, <1>17 DEF Next, DNClient, Finish, Timer

(* What ciUser asks of the counters before it answers "ok".                 *)
LEMMA ciUserFacts ==
  ASSUME NEW a \in Counters, ciUser(a, N, MinDiskAck).ret
  PROVE  \/ a.diskack >= MinDiskAck
         \/ a.diskack >= N
         \/ a.diskack + a.diskErr_ack = N /\ a.diskErr_ack # N
         \/ MinDiskAck = 0
BY DEF ciUser

(* Stored and refused locations only grow, so an answer stays true.         *)
LEMMA SuccessKept ==
  ASSUME TypeOK, SuccessIsStored, usr' = usr,
         Stored' \in SUBSET Loc, Refused' \in SUBSET Loc,
         Stored \subseteq Stored', Refused \subseteq Refused'
  PROVE  SuccessIsStored'
<1>1. Cardinality(Stored) <= Cardinality(Stored')
  BY SetFacts, FS_Subset
<1>2. Cardinality(Stored) \in Nat /\ Cardinality(Stored') \in Nat
  BY SetFacts DEF Stored
<1> QED BY <1>1, <1>2, AckAssumption DEF SuccessIsStored, Stored, Refused

(* An answer "ok" is given only when the data is stored.                    *)
LEMMA SuccessStep == TypeOK /\ AnswerInv /\ CountInv /\ SuccessIsStored /\ [Next]_vars => SuccessIsStored'
<1> SUFFICES ASSUME TypeOK, AnswerInv, CountInv, SuccessIsStored, [Next]_vars PROVE SuccessIsStored'
  OBVIOUS
<1> USE ModeAssumption
<1>1. ASSUME NEW l \in Loc, Submit(l) PROVE SuccessIsStored'
  BY <1>1, SuccessKept DEF Submit, Stored, Refused, net, md, pl
<1>2. ASSUME NEW l \in Loc, Peek(l) PROVE SuccessIsStored'
  BY <1>2, SuccessKept DEF Peek, Stored, Refused, md, pl
<1>3. ASSUME NEW l \in Loc, TxOk(l) PROVE SuccessIsStored'
  BY <1>3, SuccessKept DEF TxOk, Stored, Refused, dn, md, pl
<1>4. ASSUME NEW l \in Loc, TxLost(l) PROVE SuccessIsStored'
  BY <1>4, SuccessKept DEF TxLost, Stored, Refused, dn, md, pl
<1>5. ASSUME NEW l \in Loc, ConnBack(l) PROVE SuccessIsStored'
  BY <1>5, SuccessKept DEF ConnBack, Stored, Refused, md, pl
<1>6. ASSUME NEW l \in Loc, RetryChkDone(l) PROVE SuccessIsStored'
  BY <1>6, SuccessKept DEF RetryChkDone, Stored, Refused, md, pl
<1>7. ASSUME NEW l \in Loc, RetryReset(l) PROVE SuccessIsStored'
  BY <1>7, SuccessKept DEF RetryReset, Stored, Refused
<1>8. ASSUME NEW l \in Loc, NEW a \in Answers, Ack(l, a) PROVE SuccessIsStored'
  <2>1. answer[l] = "none"
    BY <1>8 DEF Ack, AnswerInv, AnswerOne
  <2>2. Stored \subseteq Stored' /\ Refused \subseteq Refused'
    BY <1>8, <2>1 DEF Ack, Stored, Refused, TypeOK
  <2> QED BY <1>8, <2>2, SuccessKept DEF Ack, Stored, Refused, md
<1>9. ASSUME NEW l \in Loc, NEW r \in Results, CbStart(l, r) PROVE SuccessIsStored'
  BY <1>9, SuccessKept DEF CbStart, Stored, Refused, net
<1>10. ASSUME NEW l \in Loc, NEW r \in Results, CbCount(l, r) PROVE SuccessIsStored'
  <2>1. UNCHANGED <<Stored, Refused>>
    BY <1>10 DEF CbCount, Stored, Refused
  <2>2. CASE usr' = usr
    BY <2>1, <2>2, SuccessKept DEF Stored, Refused
  <2>3. CASE usr' # usr
    <3>1. usr' = "ok" => ciUser(acks', N, MinDiskAck).ret
      BY <1>10, <2>3 DEF CbCount
    <3>2. acks' \in Counters
      BY <1>10, CountFacts DEF CbCount, TypeOK
    <3>3. CountInv'
      BY <1>10, CountStep DEF Next, DNClient
    <3>4. /\ CountedOK' \in SUBSET Loc /\ CountedERR' \in SUBSET Loc
          /\ CountedOK' \subseteq Stored' /\ CountedERR' \subseteq Refused'
          /\ CountedOK' \cap CountedERR' = {} /\ Stored' \in SUBSET Loc
          /\ Refused' \in SUBSET Loc
      BY DEF CountedOK, CountedERR, Stored, Refused
    <3>5. /\ Cardinality(CountedOK') <= Cardinality(Stored')
          /\ Cardinality(CountedOK') \in Nat /\ Cardinality(Stored') \in Nat
          /\ Cardinality(CountedERR') \in Nat
      BY <3>4, SetFacts, FS_Subset
    <3>6. acks'.diskack = Cardinality(CountedOK')
          /\ acks'.diskErr_ack = Cardinality(CountedERR')
      BY <3>3 DEF CountInv
    <3>7. CASE usr' = "ok" /\ (acks'.diskack >= MinDiskAck \/ MinDiskAck = 0)
      BY <3>5, <3>6, <3>7, AckAssumption DEF SuccessIsStored
    <3>8. CASE usr' = "ok" /\ acks'.diskack >= N
      <4>1. Cardinality(CountedOK') <= N
        BY <3>4, SetFacts
      <4>2. CountedOK' = Loc /\ Loc # {}
        BY <3>4, <3>5, <3>6, <3>8, <4>1, SetFacts, LocAssumption
      <4> QED BY <3>4, <4>2 DEF SuccessIsStored
    <3>9. CASE /\ usr' = "ok" /\ acks'.diskErr_ack # N
               /\ acks'.diskack + acks'.diskErr_ack = N
      <4>1. CountedOK' \cup CountedERR' = Loc
        BY <3>4, <3>6, <3>9, Cover
      <4>2. CountedOK' # {}
        BY <3>5, <3>6, <3>9, SetFacts, FS_EmptySet
      <4> QED BY <3>4, <4>1, <4>2 DEF SuccessIsStored
    <3>10. CASE usr' # "ok"
      BY <3>10 DEF SuccessIsStored
    <3> QED BY <3>1, <3>2, <3>7, <3>8, <3>9, <3>10, ciUserFacts
  <2> QED BY <2>2, <2>3
<1>11. ASSUME FinishCancel PROVE SuccessIsStored'
  BY <1>11, SuccessKept DEF FinishCancel, Stored, Refused, net, md
<1>12. ASSUME FinishEnd PROVE SuccessIsStored'
  BY <1>12, SuccessKept DEF FinishEnd, Stored, Refused, net, md
<1>13. ASSUME FinishFree PROVE SuccessIsStored'
  BY <1>13, SuccessKept DEF FinishFree, Stored, Refused, net, md
<1>14. ASSUME FinishDone PROVE SuccessIsStored'
  BY <1>14, SuccessKept DEF FinishDone, Stored, Refused, md
<1>15. ASSUME TOFire PROVE SuccessIsStored'
  BY <1>15, SuccessKept DEF TOFire, Stored, Refused, dn, net, md
<1>16. ASSUME NEW w \in BOOLEAN, TOCheck(w) PROVE SuccessIsStored'
  <2>1. "CIUser" \notin mdata_fea => KeepWaiting(w)
    BY DEF KeepWaiting, PLREQ_READ_TO_CNT
  <2>2. usr' = usr /\ UNCHANGED answer
    BY <1>16, <2>1 DEF TOCheck, net
  <2> QED BY <2>2, SuccessKept DEF Stored, Refused
<1>17. CASE UNCHANGED vars
  BY <1>17, SuccessKept DEF vars, net, md, Stored, Refused
<1> QED
  BY <1>1, <1>2, <1>3, <1>4, <1>5, <1>6, <1>7, <1>8, <1>9, <1>10, <1>11, <1>12, <1>13,
     <1>14, <1>15, <1>16, <1>17 DEF Next, DNClient, Finish, Timer

-----------------------------------------------------------------------------
LEMMA InductiveInit == Init => IInv
<1> SUFFICES ASSUME Init PROVE IInv
  OBVIOUS
<1>1. TypeInv /\ AnswerInv /\ SuccessIsStored
  BY TypeInvInit DEF Init, AnswerInv, AnswerOne, SuccessIsStored
<1>2. CountedOK = {} /\ CountedERR = {}
  BY DEF Init, CountedOK, CountedERR, Stored, Refused
<1>3. CountInv
  BY <1>2, FS_EmptySet DEF Init, CountInv, NoAcks
<1> QED BY <1>1, <1>3 DEF IInv

LEMMA InductiveStep == IInv /\ [Next]_vars => IInv'
BY TypeStep, FinStep, TxStep, AnswerStep, CountStep, SuccessStep DEF IInv, TypeInv

(* Every variable of a write keeps its type; the references that the DN     *)
(* workers hold on a DN request are dropped once.                           *)
THEOREM WriteTypeCorrect == Spec => []TypeOK
<1>1. IInv => TypeOK
  BY DEF IInv, TypeInv
<1> QED BY <1>1, InductiveInit, InductiveStep, PTL DEF Spec

(* The acks are counted exactly: the counters equal the numbers of          *)
(* datanodes whose answer has been counted.                                 *)
THEOREM AcksCountedOnce == Spec => []CountInv
<1>1. IInv => CountInv
  BY DEF IInv
<1> QED BY <1>1, InductiveInit, InductiveStep, PTL DEF Spec

(* The user is told success only when enough datanodes have the data on     *)
(* disk, with any number of locations, retries and lost connections.        *)
THEOREM WriteDurable == Spec => []SuccessIsStored
<1>1. IInv => SuccessIsStored
  BY DEF IInv
<1> QED BY <1>1, InductiveInit, InductiveStep, PTL DEF Spec

(* A request that finishes has all its answers, when no connection stays lost. *)
LEMMA EndStep ==
  ~GiveUp /\ TypeOK /\ AnswerInv /\ CountInv /\ NoFailInv /\ EndedIsAnswered /\ [Next]_vars
    => (NoFailInv /\ EndedIsAnswered)'
<1> SUFFICES ASSUME ~GiveUp, TypeOK, AnswerInv, CountInv, NoFailInv, EndedIsAnswered,
                    [Next]_vars
             PROVE  (NoFailInv /\ EndedIsAnswered)'
  OBVIOUS
<1> USE ModeAssumption, LocAssumption
<1>1. ASSUME NEW l \in Loc, Submit(l) PROVE (NoFailInv /\ EndedIsAnswered)'
  <2>1. UNCHANGED <<found, cb, md, fin, answer>>
    BY <1>1 DEF Submit, net, md, pl
  <2> QED BY <2>1 DEF NoFailInv, EndedIsAnswered, md
<1>2. ASSUME NEW l \in Loc, Peek(l) PROVE (NoFailInv /\ EndedIsAnswered)'
  <2>1. UNCHANGED <<found, cb, md, fin, answer>>
    BY <1>2 DEF Peek, md, pl
  <2> QED BY <2>1 DEF NoFailInv, EndedIsAnswered, md
<1>3. ASSUME NEW l \in Loc, TxOk(l) PROVE (NoFailInv /\ EndedIsAnswered)'
  <2>1. UNCHANGED <<found, cb, md, fin, answer>>
    BY <1>3 DEF TxOk, dn, md, pl
  <2> QED BY <2>1 DEF NoFailInv, EndedIsAnswered, md
<1>4. ASSUME NEW l \in Loc, TxLost(l) PROVE (NoFailInv /\ EndedIsAnswered)'
  BY <1>4 DEF TxLost, NoFailInv, EndedIsAnswered, dn, md, pl
<1>5. ASSUME NEW l \in Loc, ConnBack(l) PROVE (NoFailInv /\ EndedIsAnswered)'
  <2>1. UNCHANGED <<found, cb, md, fin, answer>>
    BY <1>5 DEF ConnBack, md, pl
  <2> QED BY <2>1 DEF NoFailInv, EndedIsAnswered, md
<1>6. ASSUME NEW l \in Loc, RetryChkDone(l) PROVE (NoFailInv /\ EndedIsAnswered)'
  <2>1. UNCHANGED <<found, cb, md, fin, answer>>
    BY <1>6 DEF RetryChkDone, md, pl
  <2> QED BY <2>1 DEF NoFailInv, EndedIsAnswered, md
<1>7. ASSUME NEW l \in Loc, RetryReset(l) PROVE (NoFailInv /\ EndedIsAnswered)'
  <2>1. UNCHANGED <<found, cb, mdata_fea, usr, fin, answer>>
    BY <1>7 DEF RetryReset, pl
  <2>2. \A k \in Loc : udata_status'[k] # "FAIL"
    BY <1>7 DEF RetryReset, NoFailInv, TypeOK
  <2>3. acks'.wfail_connErr = 0
    BY <1>7 DEF RetryReset, NoFailInv, TypeOK, Uncount, Counters
  <2>4. EndedIsAnswered'
    BY <2>1 DEF EndedIsAnswered, NoFailInv
  <2> QED BY <2>1, <2>2, <2>3, <2>4 DEF NoFailInv
<1>8. ASSUME NEW l \in Loc, NEW a \in Answers, Ack(l, a) PROVE (NoFailInv /\ EndedIsAnswered)'
  <2>1. UNCHANGED <<cb, md, fin>> /\ answer[l] = "none"
    BY <1>8 DEF Ack, AnswerInv, AnswerOne, pl
  <2>2. \A k \in Loc : <<k, "FAIL">> \in found' => <<k, "FAIL">> \in found
    BY <1>8 DEF Ack
  <2>3. \A k \in Loc : answer[k] # "none" => answer'[k] = answer[k]
    BY <1>8, <2>1 DEF Ack, TypeOK
  <2>4. NoFailInv'
    BY <2>1, <2>2 DEF NoFailInv, md
  <2>5. EndedIsAnswered'
    BY <2>1, <2>3 DEF EndedIsAnswered, NoFailInv, md, Final
  <2> QED BY <2>4, <2>5
<1>9. ASSUME NEW l \in Loc, NEW r \in Results, CbStart(l, r) PROVE (NoFailInv /\ EndedIsAnswered)'
  <2>1. UNCHANGED <<acks, mdata_fea, usr, fin, answer>> /\ r # "FAIL"
    BY <1>9 DEF CbStart, NoFailInv, net, pl
  <2>2. NoFailInv'
    BY <1>9, <2>1 DEF CbStart, NoFailInv, TypeOK
  <2>3. EndedIsAnswered'
    BY <2>1 DEF EndedIsAnswered, NoFailInv
  <2> QED BY <2>2, <2>3
<1>10. ASSUME NEW l \in Loc, NEW r \in Results, CbCount(l, r) PROVE (NoFailInv /\ EndedIsAnswered)'
  <2>1. UNCHANGED <<found, udata_status, answer>> /\ cb' = cb \ {<<l, r>>} /\ r # "FAIL"
    BY <1>10 DEF CbCount, NoFailInv
  <2>2. acks' = Count(acks, r) /\ acks' \in Counters
    BY <1>10, CountFacts DEF CbCount, TypeOK
  <2>3. acks'.wfail_connErr = 0
    BY <2>1, <2>2 DEF Count, NoFailInv, TypeOK, Counters, Results
  <2>4. /\ "CIUser" \in mdata_fea' => usr' # "none"
        /\ usr # "none" => usr' # "none"
        /\ fin' # fin => usr' # "none" /\ ciMDS(acks', N)
    <3> DEFINE mds  == ciMDS(acks', N) /\ "CIMDS" \notin mdata_fea
               told == /\ ciUser(acks', N, MinDiskAck).ci \/ mds
                       /\ "CIUser" \notin mdata_fea
    <3>1. /\ mdata_fea' = mdata_fea \cup (IF told THEN {"CIUser"} ELSE {})
                                    \cup (IF mds THEN {"CIMDS"} ELSE {})
          /\ usr' \in (IF told THEN {"ok", "fail"} ELSE {usr})
          /\ fin' # fin => mds
      BY <1>10, <2>2 DEF CbCount
    <3> HIDE DEF mds, told
    <3>2. mds => ciMDS(acks', N) /\ (told \/ "CIUser" \in mdata_fea)
      BY DEF mds, told
    <3>3. CASE told
      BY <3>1, <3>2, <3>3 DEF NoFailInv
    <3>4. CASE ~told
      BY <3>1, <3>2, <3>4 DEF NoFailInv
    <3> QED BY <3>3, <3>4
  <2>5. NoFailInv'
    BY <2>1, <2>3, <2>4 DEF NoFailInv
  <2>6. CASE fin' = fin
    <3>1. EndedIsAnswered'
      <4> SUFFICES ASSUME fin' # "no" PROVE EndedIsAnswered'
        BY DEF EndedIsAnswered
      <4>1. usr # "none" /\ \A k \in Loc : answer[k] \in Final \/ udata_status[k] = "FAIL"
        BY <2>6 DEF EndedIsAnswered
      <4> QED BY <2>1, <2>4, <4>1 DEF EndedIsAnswered
    <3> QED BY <2>5, <3>1
  <2>7. CASE fin' # fin
    <3>1. CountInv'
      BY <1>10, CountStep DEF Next, DNClient
    <3>2. /\ CountedOK' \in SUBSET Loc /\ CountedERR' \in SUBSET Loc
          /\ CountedOK' \cap CountedERR' = {}
          /\ CountedOK' \cup CountedERR' \subseteq {k \in Loc : answer'[k] \in Final}
      BY DEF CountedOK, CountedERR, Stored, Refused, Final
    <3>3. \/ acks'.diskack = N
          \/ acks'.diskack + acks'.diskErr_ack = N
      BY <2>2, <2>3, <2>4, <2>7, SetFacts DEF ciMDS, Counters
    <3>4. CountedOK' \cup CountedERR' = Loc
      <4>1. acks'.diskack = Cardinality(CountedOK')
            /\ acks'.diskErr_ack = Cardinality(CountedERR')
        BY <3>1 DEF CountInv
      <4>2. CASE acks'.diskack = N
        BY <3>2, <4>1, <4>2, SetFacts
      <4>3. CASE acks'.diskack + acks'.diskErr_ack = N
        BY <3>2, <4>1, <4>3, Cover
      <4> QED BY <3>3, <4>2, <4>3
    <3> QED BY <2>4, <2>5, <2>7, <3>2, <3>4 DEF EndedIsAnswered
  <2> QED BY <2>5, <2>6, <2>7
<1>11. ASSUME FinishCancel PROVE (NoFailInv /\ EndedIsAnswered)'
  <2>1. UNCHANGED <<found, cb, md, answer>> /\ fin # "no"
    BY <1>11 DEF FinishCancel, net
  <2> QED BY <2>1 DEF NoFailInv, EndedIsAnswered, md
<1>12. ASSUME FinishEnd PROVE (NoFailInv /\ EndedIsAnswered)'
  <2>1. UNCHANGED <<found, cb, md, answer>> /\ fin # "no"
    BY <1>12 DEF FinishEnd, net
  <2> QED BY <2>1 DEF NoFailInv, EndedIsAnswered, md
<1>13. ASSUME FinishFree PROVE (NoFailInv /\ EndedIsAnswered)'
  <2>1. UNCHANGED <<found, cb, md, answer>> /\ fin # "no"
    BY <1>13 DEF FinishFree, net
  <2> QED BY <2>1 DEF NoFailInv, EndedIsAnswered, md
<1>14. ASSUME FinishDone PROVE (NoFailInv /\ EndedIsAnswered)'
  <2>1. UNCHANGED <<found, cb, md, answer>> /\ fin # "no"
    BY <1>14 DEF FinishDone
  <2> QED BY <2>1 DEF NoFailInv, EndedIsAnswered, md
<1>15. ASSUME TOFire PROVE (NoFailInv /\ EndedIsAnswered)'
  <2>1. UNCHANGED <<found, cb, md, fin, answer>>
    BY <1>15 DEF TOFire, dn, net, md
  <2> QED BY <2>1 DEF NoFailInv, EndedIsAnswered, md
<1>16. ASSUME NEW w \in BOOLEAN, TOCheck(w) PROVE (NoFailInv /\ EndedIsAnswered)'
  <2>1. "CIUser" \notin mdata_fea => KeepWaiting(w)
    BY DEF KeepWaiting, PLREQ_READ_TO_CNT
  <2>2. UNCHANGED <<found, cb, udata_status, acks, usr, fin, answer>>
    BY <1>16, <2>1 DEF TOCheck, net
  <2>3. "CIUser" \in mdata_fea' => usr # "none"
    BY <1>16, <2>1 DEF TOCheck, NoFailInv
  <2> QED BY <2>2, <2>3 DEF NoFailInv, EndedIsAnswered
<1>17. CASE UNCHANGED vars
  BY <1>17 DEF vars, dn, net, md, pl, NoFailInv, EndedIsAnswered
<1> QED
  BY <1>1, <1>2, <1>3, <1>4, <1>5, <1>6, <1>7, <1>8, <1>9, <1>10, <1>11, <1>12, <1>13,
     <1>14, <1>15, <1>16, <1>17 DEF Next, DNClient, Finish, Timer

(* When no connection stays lost too long, a write payload request that     *)
(* finishes has answered the user and has the final answer of every         *)
(* datanode.                                                                *)
THEOREM WriteEndsAnswered == ASSUME ~GiveUp PROVE Spec => []EndedIsAnswered
<1>1. Init => NoFailInv /\ EndedIsAnswered
  BY DEF Init, NoFailInv, EndedIsAnswered, NoAcks
<1>2. /\ IInv /\ NoFailInv /\ EndedIsAnswered /\ [Next]_vars
      => (IInv /\ NoFailInv /\ EndedIsAnswered)'
  BY InductiveStep, EndStep DEF IInv, TypeInv
<1> QED BY <1>1, <1>2, InductiveInit, PTL DEF Spec
-----------------------------------------------------------------------------
(***************************************************************************)
(* The clean end of a write.  A location is open while a bucket may name    *)
(* its DN request: from its submission to the callback of its final answer. *)
(* The number of DN requests is the number of open locations, so a bucket   *)
(* index may be given out twice, but an occupied bucket always names an     *)
(* open location that knows it (BucketInv).  A mem ack is out of the way    *)
(* before the final answer comes (MemOne), a counted answer frees its DN    *)
(* request unless its callback finishes the payload request (FreeOne), and  *)
(* the criteria of the namenode are met only together with the bit CIMDS    *)
(* (CommitInv): the callback that sets it is the last one (QuietInv).       *)
(***************************************************************************)
Open == {l \in Loc : /\ dnReq[l] # "None"
                     /\ answer[l] \in Final => <<l, answer[l]>> \in found}

Named1(b) == arr_DNUDReq[b] # NoLoc => /\ arr_DNUDReq[b] \in Open
                                       /\ bk[arr_DNUDReq[b]] = b

BucketInv == /\ num_DNUDReq = Cardinality(Open)
             /\ \A b \in Buckets : Named1(b)

MemOne(l) == answer[l] # "none" => <<l, "MEM_OK">> \notin found /\ <<l, "MEM_OK">> \notin cb

Finishing(l) == fin \notin {"no", "done"} /\ finCb[1] = l

FreeOne(l) == /\ answer[l] \in Final
              /\ <<l, answer[l]>> \notin found /\ <<l, answer[l]>> \notin cb
              => dnReq[l] = "Free" \/ Finishing(l)

CommitInv == /\ plReq_stat # "INIT" /\ CommittedEnds
             /\ ciMDS(acks, N) => "CIMDS" \in mdata_fea

QuietInv == fin # "no" => /\ found = {} /\ cb = {}
                          /\ finCb[1] \in Loc /\ finCb[2] \in Final

CleanInv == /\ BucketInv /\ CommitInv /\ QuietInv
            /\ \A l \in Loc : MemOne(l) /\ FreeOne(l)

(* The state machine never goes back to INIT, and CICaller always leads to  *)
(* CI_CALLER.                                                               *)
LEMMA FSMClean ==
  ASSUME NEW st \in PLReqStates, NEW e, st # "INIT"
  PROVE  /\ PLReq_update_state(st, e)[1] # "INIT"
         /\ st = "CI_CALLER" => PLReq_update_state(st, e)[1] = "CI_CALLER"
         /\ PLReq_update_state(st, "CICaller")[1] = "CI_CALLER"
BY DEF PLReq_update_state, PLReqStates

(* When the request finishes, no location is open and every bucket is       *)
(* empty.                                                                   *)
LEMMA EndedIsClosed ==
  ASSUME TypeOK, AnswerInv, NoFailInv, EndedIsAnswered, BucketInv, QuietInv, fin # "no"
  PROVE  /\ \A l \in Loc : answer[l] \in Final /\ dnReq[l] \in {"PROCESS_RESP", "Free"}
         /\ Open = {} /\ num_DNUDReq = 0 /\ \A b \in Buckets : arr_DNUDReq[b] = NoLoc
<1>1. \A l \in Loc : answer[l] \in Final
  BY DEF EndedIsAnswered, NoFailInv
<1>2. \A l \in Loc : dnReq[l] \in {"PROCESS_RESP", "Free"}
  BY <1>1 DEF AnswerInv, AnswerOne, Final
<1>3. Open = {}
  BY <1>1 DEF QuietInv, Open
<1>4. num_DNUDReq = 0
  BY <1>3, FS_EmptySet DEF BucketInv
<1>5. \A b \in Buckets : arr_DNUDReq[b] = NoLoc
  BY <1>3 DEF BucketInv, Named1
<1> QED BY <1>1, <1>2, <1>3, <1>4, <1>5

(* What no callback, no answer and no submission touches.                   *)
LEMMA CleanFrame ==
  ASSUME TypeOK, CleanInv,
         UNCHANGED <<arr_DNUDReq, num_DNUDReq, bk, answer, found, cb, fin, finCb>>,
         \A k \in Loc : /\ dnReq'[k] = "None" <=> dnReq[k] = "None"
                        /\ dnReq[k] = "Free" => dnReq'[k] = "Free"
  PROVE  BucketInv' /\ QuietInv' /\ \A k \in Loc : (MemOne(k) /\ FreeOne(k))'
<1>1. Open' = Open
  BY DEF Open
<1>2. BucketInv'
  BY <1>1 DEF CleanInv, BucketInv, Named1
<1>3. QuietInv'
  BY DEF CleanInv, QuietInv
<1>4. ASSUME NEW k \in Loc PROVE (MemOne(k) /\ FreeOne(k))'
  <2>1. MemOne(k) /\ FreeOne(k)
    BY DEF CleanInv
  <2> QED BY <2>1 DEF MemOne, FreeOne, Finishing
<1> QED BY <1>2, <1>3, <1>4

(* The criteria of the namenode do not look at the mem acks.                *)
LEMMA CommitFrame ==
  ASSUME CommitInv, UNCHANGED <<plReq_stat, mdata_fea>>,
         acks'.diskack = acks.diskack, acks'.diskErr_ack = acks.diskErr_ack,
         acks'.wfail_connErr = acks.wfail_connErr
  PROVE  CommitInv'
BY DEF CommitInv, CommittedEnds, ciMDS

(* A submitted location is open.                                            *)
LEMMA SubmitClean ==
  ASSUME TypeOK, AnswerInv, NoFailInv, EndedIsAnswered, CleanInv, NEW l \in Loc, Submit(l)
  PROVE  CleanInv'
<1> USE LocAssumption
<1>1. /\ dnReq[l] = "None" /\ UNCHANGED <<answer, found, cb, acks, mdata_fea, plReq_stat, fin, finCb>>
      /\ num_DNUDReq' = num_DNUDReq + 1
  BY DEF Submit, net, md, pl
<1>2. \A k \in Loc : dnReq'[k] = IF k = l THEN "WAIT_SEND" ELSE dnReq[k]
  BY DEF Submit, TypeOK
<1>3. \A k \in Loc : bk'[k] = IF k = l THEN num_DNUDReq ELSE bk[k]
  BY DEF Submit, TypeOK
<1>4. \A b \in Buckets : arr_DNUDReq'[b] = IF b = num_DNUDReq THEN l ELSE arr_DNUDReq[b]
  BY DEF Submit, TypeOK
<1>5. answer[l] = "none"
  BY <1>1 DEF AnswerInv, AnswerOne
<1>6. l \notin Open /\ Open' = Open \cup {l}
  BY <1>1, <1>2, <1>5 DEF Open, Final
<1>7. Open \in SUBSET Loc
  BY DEF Open
<1>8. Cardinality(Open') = Cardinality(Open) + 1
  BY <1>6, <1>7, SetFacts, FS_AddElement
<1>9. BucketInv'
  <2>1. num_DNUDReq' = Cardinality(Open')
    BY <1>1, <1>8 DEF CleanInv, BucketInv
  <2>2. ASSUME NEW b \in Buckets PROVE Named1(b)'
    <3>1. Named1(b) /\ arr_DNUDReq[b] \in Loc \cup {NoLoc}
      BY DEF CleanInv, BucketInv, TypeOK
    <3> QED BY <1>3, <1>4, <1>6, <1>7, <3>1 DEF Named1
  <2> QED BY <2>1, <2>2 DEF BucketInv
<1>10. CommitInv'
  BY <1>1, CommitFrame DEF CleanInv
<1>11. QuietInv'
  BY <1>1 DEF CleanInv, QuietInv
<1>12. ASSUME NEW k \in Loc PROVE (MemOne(k) /\ FreeOne(k))'
  <2>1. MemOne(k) /\ FreeOne(k)
    BY DEF CleanInv
  <2> QED BY <1>1, <1>2, <1>5, <2>1 DEF MemOne, FreeOne, Finishing, Final
<1> QED BY <1>9, <1>10, <1>11, <1>12 DEF CleanInv

(* An answer keeps its location open until its callback starts.             *)
LEMMA AckClean ==
  ASSUME TypeOK, AnswerInv, NoFailInv, EndedIsAnswered, CleanInv,
         NEW l \in Loc, NEW a \in Answers, Ack(l, a)
  PROVE  CleanInv'
<1>1. /\ dnReq[l] = "WAIT_RESP"
      /\ UNCHANGED <<arr_DNUDReq, num_DNUDReq, bk, cb, acks, mdata_fea, plReq_stat, fin, finCb>>
  BY DEF Ack, md, pl
<1>2. answer[l] = "none"
  BY <1>1 DEF AnswerInv, AnswerOne
<1>3. fin = "no"
  BY <1>1, EndedIsClosed DEF CleanInv
<1>4. \A k \in Loc : dnReq'[k] = IF k = l /\ a # "MEM_OK" THEN "PROCESS_RESP" ELSE dnReq[k]
  BY DEF Ack, TypeOK
<1>5. \A k \in Loc : answer'[k] = IF k = l /\ a # "MEM_OK" THEN a ELSE answer[k]
  BY DEF Ack, TypeOK
<1>6. found' = IF a = "LUN" THEN found ELSE found \cup {<<l, a>>}
  BY DEF Ack
<1>7. \A k \in Loc : \A r : k # l \/ r # a => (<<k, r>> \in found' <=> <<k, r>> \in found)
  BY <1>6
<1>8. a # "LUN" => <<l, a>> \in found'
  BY <1>6
<1>9. Open' = Open
  <2>1. ASSUME NEW k \in Loc PROVE k \in Open' <=> k \in Open
    <3>1. CASE k = l
      BY <1>1, <1>2, <1>4, <1>5, <1>8, <3>1 DEF Open, Final
    <3>2. CASE k # l
      BY <1>4, <1>5, <1>7, <3>2 DEF Open
    <3> QED BY <3>1, <3>2
  <2> QED BY <2>1 DEF Open
<1>10. BucketInv'
  BY <1>1, <1>9 DEF CleanInv, BucketInv, Named1
<1>11. CommitInv'
  BY <1>1, CommitFrame DEF CleanInv
<1>12. QuietInv'
  BY <1>1, <1>3 DEF QuietInv
<1>13. ASSUME NEW k \in Loc PROVE (MemOne(k) /\ FreeOne(k))'
  <2>1. MemOne(k) /\ FreeOne(k)
    BY DEF CleanInv
  <2>2. CASE k # l
    BY <1>1, <1>4, <1>5, <1>7, <2>1, <2>2 DEF MemOne, FreeOne, Finishing
  <2>3. CASE k = l
    <3>1. <<l, "MEM_OK">> \notin found /\ <<l, "MEM_OK">> \notin cb
      BY DEF Ack, Busy
    <3>2. MemOne(l)'
      BY <1>1, <1>2, <1>5, <1>7, <3>1 DEF MemOne
    <3>3. FreeOne(l)'
      BY <1>2, <1>5, <1>8 DEF FreeOne, Final
    <3> QED BY <2>3, <3>2, <3>3
  <2> QED BY <2>2, <2>3
<1> QED BY <1>10, <1>11, <1>12, <1>13 DEF CleanInv

(* The callback of a final answer empties its bucket and closes the         *)
(* location.                                                                *)
LEMMA CbStartClean ==
  ASSUME TypeOK, AnswerInv, NoFailInv, EndedIsAnswered, CleanInv,
         NEW l \in Loc, NEW r \in Results, CbStart(l, r)
  PROVE  CleanInv'
<1> USE LocAssumption
<1>1. /\ <<l, r>> \in found /\ found' = found \ {<<l, r>>} /\ cb' = cb \cup {<<l, r>>}
      /\ UNCHANGED <<bk, dnReq, answer, acks, mdata_fea, plReq_stat, fin, finCb>>
  BY DEF CbStart, net, pl
<1>2. fin = "no"
  BY <1>1 DEF CleanInv, QuietInv
<1>3. r \in Final => answer[l] = r
  BY <1>1 DEF AnswerInv, AnswerOne
<1>4. \A k \in Loc : \A q : k # l \/ q # r => /\ <<k, q>> \in found' <=> <<k, q>> \in found
                                          /\ <<k, q>> \in cb' <=> <<k, q>> \in cb
  BY <1>1
<1>5. <<l, r>> \notin found' /\ <<l, r>> \in cb'
  BY <1>1
<1>6. \A k \in Loc : k # l => (k \in Open' <=> k \in Open)
  BY <1>1, <1>4 DEF Open
<1>7. BucketInv'
  <2>1. CASE r \in Final
    <3>1. l \in Open /\ l \notin Open'
      <4>1. dnReq[l] # "None"
        BY <1>3, <2>1 DEF AnswerInv, AnswerOne, Final
      <4> QED BY <1>1, <1>3, <1>5, <2>1, <4>1 DEF Open
    <3>2. Open' = Open \ {l} /\ Open \in SUBSET Loc
      BY <1>6, <3>1 DEF Open
    <3>3. Cardinality(Open') = Cardinality(Open) - 1
      BY <3>1, <3>2, SetFacts, FS_RemoveElement
    <3>4. num_DNUDReq' = num_DNUDReq - 1
      BY <2>1 DEF CbStart
    <3>5. \A b \in Buckets : arr_DNUDReq'[b] = IF b = bk[l] THEN NoLoc ELSE arr_DNUDReq[b]
      BY <2>1 DEF CbStart, TypeOK
    <3>6. ASSUME NEW b \in Buckets PROVE Named1(b)'
      <4>1. Named1(b) /\ arr_DNUDReq[b] \in Loc \cup {NoLoc}
        BY DEF CleanInv, BucketInv, TypeOK
      <4> QED BY <1>1, <3>2, <3>5, <4>1 DEF Named1
    <3> QED BY <3>3, <3>4, <3>6 DEF CleanInv, BucketInv
  <2>2. CASE r \notin Final
    <3>1. l \in Open' <=> l \in Open
      <4>1. answer[l] \in Final => answer[l] # r
        BY <2>2
      <4> QED BY <1>1, <1>4, <4>1 DEF Open
    <3>2. Open' = Open
      BY <1>6, <3>1 DEF Open
    <3>3. UNCHANGED <<arr_DNUDReq, num_DNUDReq>>
      BY <2>2 DEF CbStart
    <3> QED BY <1>1, <3>2, <3>3 DEF CleanInv, BucketInv, Named1
  <2> QED BY <2>1, <2>2
<1>8. CommitInv'
  BY <1>1, CommitFrame DEF CleanInv
<1>9. QuietInv'
  BY <1>1, <1>2 DEF QuietInv
<1>10. ASSUME NEW k \in Loc PROVE (MemOne(k) /\ FreeOne(k))'
  <2>1. MemOne(k) /\ FreeOne(k)
    BY DEF CleanInv
  <2>2. CASE k # l
    BY <1>1, <1>4, <2>1, <2>2 DEF MemOne, FreeOne, Finishing
  <2>3. CASE k = l
    BY <1>1, <1>4, <1>5, <2>1, <2>3 DEF MemOne, FreeOne, Finishing
  <2> QED BY <2>2, <2>3
<1> QED BY <1>7, <1>8, <1>9, <1>10 DEF CleanInv

(* A mem ack commits nothing: the criteria were met before it or are not    *)
(* met after it.                                                            *)
LEMMA MemCountClean ==
  ASSUME TypeOK, AnswerInv, NoFailInv, EndedIsAnswered, CleanInv,
         NEW l \in Loc, CbCount(l, "MEM_OK")
  PROVE  CleanInv'
<1>1. /\ <<l, "MEM_OK">> \in cb /\ cb' = cb \ {<<l, "MEM_OK">>} /\ acks' = Count(acks, "MEM_OK")
      /\ UNCHANGED <<arr_DNUDReq, num_DNUDReq, bk, answer, found>>
  BY DEF CbCount
<1>2. /\ acks'.diskack = acks.diskack /\ acks'.diskErr_ack = acks.diskErr_ack
      /\ acks'.wfail_connErr = acks.wfail_connErr
  BY <1>1 DEF TypeOK, Count, Counters
<1>3. ~(ciMDS(acks', N) /\ "CIMDS" \notin mdata_fea)
  BY <1>2 DEF CleanInv, CommitInv, ciMDS
<1>4. "CIMDS" \in mdata_fea' <=> "CIMDS" \in mdata_fea
  BY <1>1, <1>3 DEF CbCount
<1>5. UNCHANGED <<plReq_stat, fin, finCb>> /\ dnReq' = Freed(dnReq, l, "MEM_OK")
  BY <1>1, <1>3 DEF CbCount
<1>6. \A k \in Loc : dnReq'[k] = dnReq[k]
  BY <1>5 DEF Freed, Final, TypeOK
<1>7. fin = "no"
  BY <1>1 DEF CleanInv, QuietInv
<1>8. Open' = Open
  BY <1>1, <1>6 DEF Open
<1>9. BucketInv'
  BY <1>1, <1>8 DEF CleanInv, BucketInv, Named1
<1>10. CommitInv'
  BY <1>2, <1>4, <1>5 DEF CleanInv, CommitInv, CommittedEnds, ciMDS
<1>11. QuietInv'
  BY <1>5, <1>7 DEF QuietInv
<1>12. ASSUME NEW k \in Loc PROVE (MemOne(k) /\ FreeOne(k))'
  <2>1. MemOne(k) /\ FreeOne(k)
    BY DEF CleanInv
  <2>2. \A q : <<k, q>> \in cb' => <<k, q>> \in cb
    BY <1>1
  <2>3. \A q \in Final : <<k, q>> \in cb => <<k, q>> \in cb'
    BY <1>1 DEF Final
  <2> QED BY <1>1, <1>5, <1>6, <2>1, <2>2, <2>3 DEF MemOne, FreeOne, Finishing
<1> QED BY <1>9, <1>10, <1>11, <1>12 DEF CleanInv

(* The callback that meets the criteria is the last one: every datanode has *)
(* given its final answer and every answer has been counted.                *)
LEMMA LastCallback ==
  ASSUME TypeOK', AnswerInv', CountInv', NoFailInv', ciMDS(acks', N),
         \A k \in Loc : MemOne(k)'
  PROVE  found' = {} /\ cb' = {}
<1>1. acks' \in Counters /\ acks'.wfail_connErr = 0
  BY DEF TypeOK, NoFailInv
<1>2. /\ CountedOK' \in SUBSET Loc /\ CountedERR' \in SUBSET Loc
      /\ CountedOK' \cap CountedERR' = {}
  BY DEF CountedOK, CountedERR, Stored, Refused
<1>3. \/ acks'.diskack = N
      \/ acks'.diskack + acks'.diskErr_ack = N
  BY <1>1, SetFacts DEF ciMDS, Counters
<1>4. acks'.diskack = Cardinality(CountedOK') /\ acks'.diskErr_ack = Cardinality(CountedERR')
  BY DEF CountInv
<1>5. CountedOK' \cup CountedERR' = Loc
  <2>1. CASE acks'.diskack = N
    BY <1>2, <1>4, <2>1, SetFacts
  <2>2. CASE acks'.diskack + acks'.diskErr_ack = N
    BY <1>2, <1>4, <2>2, Cover
  <2> QED BY <1>3, <2>1, <2>2
<1>6. ASSUME NEW k \in Loc, NEW q \in Results
      PROVE  <<k, q>> \notin found' /\ <<k, q>> \notin cb'
  <2>1. answer'[k] \in Final /\ <<k, answer'[k]>> \notin found' /\ <<k, answer'[k]>> \notin cb'
    BY <1>5 DEF CountedOK, CountedERR, Stored, Refused, Pending, Final
  <2>2. CASE q \in Final
    BY <2>1, <2>2 DEF AnswerInv, AnswerOne
  <2>3. CASE q = "MEM_OK"
    BY <2>1, <2>3 DEF MemOne, Final
  <2>4. CASE q = "FAIL"
    BY <2>4 DEF NoFailInv
  <2> QED BY <2>2, <2>3, <2>4 DEF Results, Final
<1>7. found' \subseteq Loc \X Results /\ cb' \subseteq Loc \X Results
  BY DEF TypeOK
<1> QED BY <1>6, <1>7

(* A counted final answer frees its DN request, or its callback finishes    *)
(* the payload request when nothing else is on its way.                     *)
LEMMA FinalCountClean ==
  ASSUME TypeOK, AnswerInv, NoFailInv, EndedIsAnswered, CleanInv,
         TypeOK', AnswerInv', CountInv', NoFailInv',
         NEW l \in Loc, NEW r \in Final, CbCount(l, r)
  PROVE  CleanInv'
<1> USE LocAssumption
<1> DEFINE mds == ciMDS(acks', N) /\ "CIMDS" \notin mdata_fea
           tr  == PLReq_update_state(plReq_stat, "CICaller")
           fins == mds /\ tr[2] = "DO_CICaller"
<1>1. /\ <<l, r>> \in cb /\ cb' = cb \ {<<l, r>>}
      /\ UNCHANGED <<arr_DNUDReq, num_DNUDReq, bk, answer, found>>
  BY DEF CbCount
<1>2. /\ "CIMDS" \in mdata_fea' <=> "CIMDS" \in mdata_fea \/ mds
      /\ plReq_stat' = IF mds THEN tr[1] ELSE plReq_stat
  BY DEF CbCount
<1>3. fins => fin' = "timer" /\ finCb' = <<l, r>> /\ dnReq' = dnReq
  BY DEF CbCount
<1>4. ~fins => UNCHANGED <<fin, finCb>> /\ dnReq' = Freed(dnReq, l, r)
  BY DEF CbCount
<1>5. tr[1] = "CI_CALLER"
  BY FSMClean DEF CleanInv, CommitInv, TypeOK
<1> HIDE DEF tr
<1>6. answer[l] = r /\ dnReq[l] \in {"PROCESS_RESP", "Free"} /\ <<l, r>> \notin found
  BY <1>1 DEF AnswerInv, AnswerOne, Final
<1>7. fin = "no"
  BY <1>1 DEF CleanInv, QuietInv
<1>8. \A k \in Loc : dnReq'[k] = IF k = l /\ ~fins THEN "Free" ELSE dnReq[k]
  BY <1>3, <1>4 DEF Freed, TypeOK
<1>9. Open' = Open
  BY <1>1, <1>6, <1>8 DEF Open
<1>10. BucketInv'
  BY <1>1, <1>9 DEF CleanInv, BucketInv, Named1
<1>11. CommitInv'
  BY <1>2, <1>5 DEF CleanInv, CommitInv, CommittedEnds
<1>12. ASSUME NEW k \in Loc PROVE MemOne(k)'
  <2>1. MemOne(k)
    BY DEF CleanInv
  <2> QED BY <1>1, <2>1 DEF MemOne
<1>13. QuietInv'
  <2>1. CASE fins
    <3>1. found' = {} /\ cb' = {}
      BY <1>12, <2>1, LastCallback
    <3>2. finCb'[1] \in Loc /\ finCb'[2] \in Final
      BY <1>3, <2>1
    <3> QED BY <3>1, <3>2 DEF QuietInv
  <2>2. CASE ~fins
    BY <1>4, <1>7, <2>2 DEF QuietInv
  <2> QED BY <2>1, <2>2
<1> HIDE DEF fins, mds
<1>14. ASSUME NEW k \in Loc PROVE FreeOne(k)'
  <2>1. FreeOne(k)
    BY DEF CleanInv
  <2>2. CASE k = l /\ fins
    <3>1. Finishing(l)'
      BY <1>3, <2>2 DEF Finishing
    <3> QED BY <2>2, <3>1 DEF FreeOne
  <2>3. CASE k = l /\ ~fins
    BY <1>8, <2>3 DEF FreeOne
  <2>4. CASE k # l
    <3>1. \A q : <<k, q>> \in cb' <=> <<k, q>> \in cb
      BY <1>1, <2>4
    <3> QED BY <1>1, <1>7, <1>8, <2>1, <2>4, <3>1 DEF FreeOne, Finishing
  <2> QED BY <2>2, <2>3, <2>4
<1> QED BY <1>10, <1>11, <1>12, <1>13, <1>14 DEF CleanInv

(* Finishing cancels nothing, for nothing is open.                          *)
LEMMA FinishClean ==
  ASSUME TypeOK, AnswerInv, NoFailInv, EndedIsAnswered, CleanInv, Finish
  PROVE  CleanInv'
<1> USE LocAssumption
<1>1. /\ fin # "no" /\ fin' \notin {"no"}
      /\ UNCHANGED <<bk, answer, found, cb, acks, mdata_fea, plReq_stat, finCb>>
  BY DEF Finish, FinishCancel, FinishEnd, FinishFree, FinishDone, net, md
<1>2. /\ \A l \in Loc : answer[l] \in Final /\ dnReq[l] \in {"PROCESS_RESP", "Free"}
      /\ Open = {} /\ num_DNUDReq = 0 /\ \A b \in Buckets : arr_DNUDReq[b] = NoLoc
  BY <1>1, EndedIsClosed DEF CleanInv
<1>3. ASSUME NEW B \in SUBSET Buckets, Cancel(B)
      PROVE  /\ num_DNUDReq' = 0 /\ \A b \in Buckets : arr_DNUDReq'[b] = NoLoc
             /\ \A k \in Loc : dnReq'[k] = dnReq[k]
  <2>1. Named(B) = {}
    BY <1>2 DEF Named
  <2>2. {b \in B : arr_DNUDReq[b] # NoLoc} = {}
    BY <1>2
  <2>3. num_DNUDReq' = 0
    BY <1>2, <1>3, <2>2, FS_EmptySet DEF Cancel
  <2>4. \A b \in Buckets : arr_DNUDReq'[b] = NoLoc
    BY <1>2, <1>3 DEF Cancel
  <2>5. \A k \in Loc : dnReq'[k] = dnReq[k]
    BY <1>3, <2>1 DEF Cancel
  <2> QED BY <2>3, <2>4, <2>5
<1>4. /\ num_DNUDReq' = 0 /\ \A b \in Buckets : arr_DNUDReq'[b] = NoLoc
      /\ \A k \in Loc : \/ dnReq'[k] = dnReq[k]
                        \/ fin' = "done" /\ dnReq'[k] = "Free"
      /\ fin' = "done" => dnReq'[finCb[1]] = "Free"
  <2>1. CASE FinishCancel
    BY <1>2, <1>3, <2>1 DEF FinishCancel
  <2>2. CASE FinishEnd
    <3>1. \A k \in Loc : dnReq'[k] = dnReq[k]
      BY <1>2, <2>2 DEF FinishEnd, FreeCancelled
    <3> QED BY <1>2, <2>2, <3>1 DEF FinishEnd
  <2>3. CASE FinishFree
    BY <1>2, <2>3 DEF FinishFree
  <2>4. CASE FinishDone
    <3>1. finCb[1] \in Loc /\ finCb[2] \in Final
      BY <1>1 DEF CleanInv, QuietInv
    <3>2. \A k \in Loc : dnReq'[k] = IF k = finCb[1] THEN "Free" ELSE dnReq[k]
      <4>1. FreeCancelled(dnReq) = dnReq
        BY <1>2 DEF FreeCancelled, TypeOK
      <4> QED BY <2>4, <3>1, <4>1 DEF FinishDone, Freed, TypeOK
    <3> QED BY <1>2, <2>4, <3>1, <3>2 DEF FinishDone
  <2> QED BY <2>1, <2>2, <2>3, <2>4 DEF Finish
<1>5. Open' = {}
  BY <1>1, <1>2 DEF Open, CleanInv, QuietInv
<1>6. BucketInv'
  BY <1>4, <1>5, FS_EmptySet DEF BucketInv, Named1
<1>7. CommitInv'
  BY <1>1, CommitFrame DEF CleanInv
<1>8. QuietInv'
  BY <1>1 DEF CleanInv, QuietInv
<1>9. ASSUME NEW k \in Loc PROVE (MemOne(k) /\ FreeOne(k))'
  <2>1. MemOne(k) /\ FreeOne(k)
    BY DEF CleanInv
  <2>2. fin # "done"
    BY DEF Finish, FinishCancel, FinishEnd, FinishFree, FinishDone
  <2>3. MemOne(k)'
    BY <1>1, <2>1 DEF MemOne
  <2>4. FreeOne(k)'
    BY <1>1, <1>4, <2>1, <2>2 DEF FreeOne, Finishing
  <2> QED BY <2>3, <2>4
<1> QED BY <1>6, <1>7, <1>8, <1>9 DEF CleanInv

(* The timeout of a write only moves the state machine back and forth.      *)
LEMMA TimerClean ==
  ASSUME ~HighResp, TypeOK, CleanInv, Timer
  PROVE  CleanInv'
<1>1. \A w \in BOOLEAN : KeepWaiting(w)
  BY DEF KeepWaiting, PLREQ_READ_TO_CNT
<1>2. UNCHANGED <<arr_DNUDReq, num_DNUDReq, bk, dnReq, answer, found, cb, fin, finCb, acks,
                  mdata_fea>>
  BY <1>1 DEF Timer, TOFire, TOCheck, dn, net, md
<1>3. /\ plReq_stat' # "INIT"
      /\ plReq_stat = "CI_CALLER" => plReq_stat' = "CI_CALLER"
  <2>1. \E e : plReq_stat' = PLReq_update_state(plReq_stat, e)[1]
    BY <1>1 DEF Timer, TOFire, TOCheck
  <2> QED BY <2>1, FSMClean DEF CleanInv, CommitInv, TypeOK
<1>4. CommitInv'
  BY <1>2, <1>3 DEF CleanInv, CommitInv, CommittedEnds
<1>5. BucketInv' /\ QuietInv' /\ \A k \in Loc : (MemOne(k) /\ FreeOne(k))'
  BY <1>2, CleanFrame
<1> QED BY <1>4, <1>5 DEF CleanInv

(* Every step keeps the invariant of a clean end.                           *)
LEMMA CleanStep ==
  /\ ~GiveUp /\ ~HighResp /\ IInv /\ NoFailInv /\ EndedIsAnswered /\ CleanInv
  /\ (IInv /\ NoFailInv)' /\ [Next]_vars
  => CleanInv'
<1> SUFFICES ASSUME ~GiveUp, ~HighResp, TypeOK, AnswerInv, NoFailInv, EndedIsAnswered, CleanInv,
                    TypeOK', AnswerInv', CountInv', NoFailInv', [Next]_vars
             PROVE  CleanInv'
  BY DEF IInv, TypeInv
<1> USE LocAssumption
<1>1. ASSUME NEW l \in Loc, Peek(l) \/ TxOk(l) \/ TxLost(l) \/ ConnBack(l) \/ RetryChkDone(l)
      PROVE  CleanInv'
  <2>1. UNCHANGED <<arr_DNUDReq, num_DNUDReq, bk, answer, found, cb, fin, finCb, acks,
                    mdata_fea, plReq_stat>>
    BY <1>1 DEF Peek, TxOk, TxLost, ConnBack, RetryChkDone, dn, md, pl
  <2>2. \A k \in Loc : \/ dnReq'[k] = dnReq[k]
                       \/ dnReq[k] \notin {"None", "Free"} /\ dnReq'[k] # "None"
    <3>1. CASE Peek(l)
      BY <3>1 DEF Peek, TypeOK
    <3>2. CASE TxOk(l) \/ TxLost(l)
      BY <3>2 DEF TxOk, TxLost, dn
    <3>3. CASE ConnBack(l) \/ RetryChkDone(l)
      BY <3>3 DEF ConnBack, RetryChkDone, TypeOK
    <3> QED BY <1>1, <3>1, <3>2, <3>3
  <2>3. \A k \in Loc : /\ dnReq'[k] = "None" <=> dnReq[k] = "None"
                       /\ dnReq[k] = "Free" => dnReq'[k] = "Free"
    BY <2>2
  <2>4. BucketInv' /\ QuietInv' /\ \A k \in Loc : (MemOne(k) /\ FreeOne(k))'
    BY <2>1, <2>3, CleanFrame
  <2>5. CommitInv'
    BY <2>1, CommitFrame DEF CleanInv
  <2> QED BY <2>4, <2>5 DEF CleanInv
<1>2. ASSUME NEW l \in Loc, RetryReset(l) PROVE CleanInv'
  <2>1. UNCHANGED <<arr_DNUDReq, num_DNUDReq, bk, dnReq, answer, found, cb, fin, finCb,
                    mdata_fea, plReq_stat>>
    BY <1>2 DEF RetryReset, pl
  <2>2. /\ acks'.diskack = acks.diskack /\ acks'.diskErr_ack = acks.diskErr_ack
        /\ acks'.wfail_connErr = acks.wfail_connErr
    <3>1. acks' = Uncount(acks, udata_status[l]) /\ udata_status[l] # "FAIL"
      BY <1>2 DEF RetryReset, NoFailInv
    <3> QED BY <3>1 DEF Uncount, TypeOK, Counters
  <2>3. BucketInv' /\ QuietInv' /\ \A k \in Loc : (MemOne(k) /\ FreeOne(k))'
    BY <2>1, CleanFrame
  <2>4. CommitInv'
    BY <2>1, <2>2, CommitFrame DEF CleanInv
  <2> QED BY <2>3, <2>4 DEF CleanInv
<1>3. ASSUME NEW l \in Loc, NEW r \in Results, CbCount(l, r) PROVE CleanInv'
  <2>1. r # "FAIL"
    BY <1>3 DEF CbCount, NoFailInv
  <2>2. CASE r = "MEM_OK"
    BY <1>3, <2>2, MemCountClean
  <2>3. CASE r \in Final
    BY <1>3, <2>3, FinalCountClean
  <2> QED BY <2>1, <2>2, <2>3 DEF Results, Final
<1>4. CASE UNCHANGED vars
  <2>1. UNCHANGED <<arr_DNUDReq, num_DNUDReq, bk, dnReq, answer, found, cb, fin, finCb, acks,
                    mdata_fea, plReq_stat>>
    BY <1>4 DEF vars, dn, net, md, pl
  <2>2. BucketInv' /\ QuietInv' /\ \A k \in Loc : (MemOne(k) /\ FreeOne(k))'
    BY <2>1, CleanFrame
  <2>3. CommitInv'
    BY <2>1, CommitFrame DEF CleanInv
  <2> QED BY <2>2, <2>3 DEF CleanInv
<1> QED
  BY <1>1, <1>2, <1>3, <1>4, SubmitClean, AckClean, CbStartClean, FinishClean, TimerClean
     DEF Next, DNClient

(* When no connection stays lost too long and the write is not cut short    *)
(* for a quick answer, its end is clean: the callback that commits it       *)
(* finishes it, no callback comes after it is freed, and no bucket and no   *)
(* DN request is left, for up to MAX_NUM_REPLICA locations and any number   *)
(* of retries (PLReq_writeDN_endfn, PLMgr_free_PLReq).                      *)
THEOREM WriteEndsClean == ASSUME ~GiveUp, ~HighResp PROVE Spec => []EndIsClean
<1> DEFINE Inv == IInv /\ NoFailInv /\ EndedIsAnswered /\ CleanInv
<1>1. Init => Inv
  <2> SUFFICES ASSUME Init PROVE Inv
    OBVIOUS
  <2>1. NoFailInv /\ EndedIsAnswered
    BY DEF Init, NoFailInv, EndedIsAnswered, NoAcks
  <2>2. Open = {}
    BY DEF Init, Open
  <2>3. BucketInv
    BY <2>2, FS_EmptySet DEF Init, BucketInv, Named1
  <2>4. CommitInv
    BY SetFacts DEF Init, CommitInv, CommittedEnds, ciMDS, NoAcks
  <2>5. QuietInv /\ \A l \in Loc : MemOne(l) /\ FreeOne(l)
    BY DEF Init, QuietInv, MemOne, FreeOne, Final
  <2> QED BY <2>1, <2>3, <2>4, <2>5, InductiveInit DEF CleanInv
<1>2. Inv /\ [Next]_vars => Inv'
  <2> SUFFICES ASSUME Inv, [Next]_vars PROVE Inv'
    OBVIOUS
  <2>1. IInv'
    BY InductiveStep
  <2>2. (NoFailInv /\ EndedIsAnswered)'
    BY EndStep DEF IInv, TypeInv
  <2>3. CleanInv'
    BY <2>1, <2>2, CleanStep
  <2> QED BY <2>1, <2>2, <2>3
<1>3. Inv => EndIsClean
  <2> SUFFICES ASSUME Inv PROVE EndIsClean
    OBVIOUS
  <2>1. CommittedEnds
    BY DEF CleanInv, CommitInv
  <2>2. NoLateCallback
    BY DEF CleanInv, QuietInv, NoLateCallback
  <2>3. ASSUME fin = "done" PROVE NothingLeft
    <3>1. /\ \A l \in Loc : answer[l] \in Final
          /\ num_DNUDReq = 0 /\ \A b \in Buckets : arr_DNUDReq[b] = NoLoc
      BY <2>3, EndedIsClosed DEF IInv, TypeInv, CleanInv
    <3>2. \A l \in Loc : dnReq[l] = "Free"
      BY <2>3, <3>1 DEF CleanInv, QuietInv, FreeOne, Finishing
    <3> QED BY <3>1, <3>2 DEF NothingLeft
  <2> QED BY <2>1, <2>2, <2>3 DEF EndIsClean, NothingLeft, IInv, TypeInv
<1> HIDE DEF Inv
<1> QED BY <1>1, <1>2, <1>3, PTL DEF Spec
=============================================================================
