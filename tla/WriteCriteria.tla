---------------------------- MODULE WriteCriteria ----------------------------
(***************************************************************************)
(* When a write may be committed (metadata_manager/metadata_manager.c).     *)
(* The counters of a metaD_item_t are a record a = [memack, diskack,        *)
(* diskErr_ack, wfail_connErr]; n is num_dnLoc, the same number as          *)
(* num_replica (MData_init_MDItem).                                         *)
(***************************************************************************)
EXTENDS Integers

Counters == [memack : Int, diskack : Int, diskErr_ack : Int, wfail_connErr : Int]

NoAcks == [memack |-> 0, diskack |-> 0, diskErr_ack |-> 0, wfail_connErr |-> 0]

(* The counter that MData_writeAck_commitResult increments.                 *)
Count(a, udstatus) ==
  CASE udstatus = "MEM_OK" -> [a EXCEPT !.memack = @ + 1]
    [] udstatus = "OK"     -> [a EXCEPT !.diskack = @ + 1]
    [] udstatus = "ERR"    -> [a EXCEPT !.diskErr_ack = @ + 1]
    [] udstatus = "FAIL"   -> [a EXCEPT !.wfail_connErr = @ + 1]

(* MData_wRetry_reset_DNLoc: what a location in this state gives back.      *)
Uncount(a, udstatus) ==
  CASE udstatus = "MEM_OK" -> [a EXCEPT !.memack = @ - 1]
    [] udstatus = "FAIL"   -> [a EXCEPT !.wfail_connErr = @ - 1]
    [] OTHER               -> a

(* Mutants: any answer satisfies the user; one disk ack satisfies the MDS.  *)
ciUser_AnyAck(a, n, minDiskAck) ==
  [ci |-> a.memack + a.diskack > 0, ret |-> TRUE]
ciMDS_FirstAck(a, n) == a.diskack >= 1
(* Mutant: nothing is committed when every datanode refuses.                *)
ciMDS_NeedsOk(a, n) ==
  a.diskack >= 1 /\ a.diskack + a.diskErr_ack + a.wfail_connErr = n

(* _chk_ciUser_criteria: may the user be answered, and how.                 *)
ciUser(a, n, minDiskAck) ==
  LET enough == \/ minDiskAck = 0 /\ (a.diskack > 0 \/ a.memack = n)
                \/ a.diskack >= minDiskAck
                \/ a.diskack >= n
      allErr == n = a.diskErr_ack
      rest   == a.diskack + a.diskErr_ack = n
  IN  [ci |-> enough \/ allErr \/ rest, ret |-> enough \/ (~allErr /\ rest)]

(* _chk_ciMDS_criteria: may the result be committed towards the namenode.   *)
ciMDS(a, n) ==
  \/ a.diskack = n
  \/ /\ a.diskack >= 1
     /\ \/ a.diskack + a.wfail_connErr = n
        \/ a.diskack + a.diskErr_ack + a.wfail_connErr = n
  \/ a.diskack + a.diskErr_ack = n
=============================================================================
