------------------------------ MODULE IOOverlap ------------------------------
(***************************************************************************)
(* The overlap test of io_manager/ioreq_ovlp.c: when two user IOs touch a   *)
(* common logical block (LB) and one of them writes, the later one waits.   *)
(* An IO is a record [dir, lbid_start, lbid_len] (iodir and usrIO_addr).    *)
(***************************************************************************)
EXTENDS Integers

Dirs == {"READ", "WRITE"}

IO == [dir : Dirs, lbid_start : Nat, lbid_len : Nat \ {0}]

LastLB(io) == io.lbid_start + io.lbid_len - 1

LBs(io) == io.lbid_start .. LastLB(io)

-----------------------------------------------------------------------------
(* chk_io_rw: TRUE when the pair needs no overlap check (two reads).        *)
chk_io_rw(prev, next) == prev.dir # "WRITE" /\ next.dir # "WRITE"

NoOvlp == [wait |-> "NoOvlp", ovlp_s |-> 0, ovlp_l |-> 0]

(* Mutant: the ends are taken as exclusive. *)
chk_lb_ovlp_Exclusive(prev, next) ==
  IF prev.lbid_start >= LastLB(next) \/ next.lbid_start >= LastLB(prev) THEN NoOvlp
  ELSE [wait |-> "Partial", ovlp_s |-> prev.lbid_start, ovlp_l |-> prev.lbid_len]

(***************************************************************************)
(* chk_lb_ovlp: how the range of next meets the range of prev.  "All" only  *)
(* when both start at the same LB and prev covers next.                     *)
(***************************************************************************)
chk_lb_ovlp(prev, next) ==
  LET prev_e == LastLB(prev)
      next_e == LastLB(next)
      Partial(s, l) == [wait |-> "Partial", ovlp_s |-> s, ovlp_l |-> l]
  IN  CASE prev.lbid_start > next_e \/ next.lbid_start > prev_e -> NoOvlp
        [] /\ prev.lbid_start <= next_e /\ next.lbid_start <= prev_e
           /\ prev.lbid_start > next.lbid_start ->
             Partial(prev.lbid_start,
                     IF prev_e <= next_e THEN prev.lbid_len
                     ELSE next_e - prev.lbid_start + 1)
        [] /\ prev.lbid_start <= next_e /\ next.lbid_start <= prev_e
           /\ prev.lbid_start = next.lbid_start ->
             IF prev_e < next_e
             THEN Partial(prev.lbid_start, prev.lbid_len)
             ELSE [wait |-> "All", ovlp_s |-> prev.lbid_start,
                   ovlp_l |-> next.lbid_len]
        [] /\ prev.lbid_start <= next_e /\ next.lbid_start <= prev_e
           /\ prev.lbid_start < next.lbid_start ->
             Partial(next.lbid_start,
                     IF prev_e >= next_e THEN next.lbid_len
                     ELSE prev_e - next.lbid_start + 1)

(* The test of the loop body of ioReq_chk_ovlp: next must wait for prev.    *)
Conflict(prev, next) ==
  ~chk_io_rw(prev, next) /\ chk_lb_ovlp(prev, next).wait # "NoOvlp"

-----------------------------------------------------------------------------
(***************************************************************************)
(* What the test must compute: it reports no overlap exactly when the two   *)
(* ranges share no LB, and otherwise ovlp_s and ovlp_l describe exactly the *)
(* shared LBs; "All" means that prev covers next.                           *)
(***************************************************************************)
OverlapExact(prev, next) ==
  LET o == chk_lb_ovlp(prev, next)
  IN  /\ (o.wait = "NoOvlp") <=> (LBs(prev) \cap LBs(next) = {})
      /\ o.wait # "NoOvlp" =>
           o.ovlp_s .. (o.ovlp_s + o.ovlp_l - 1) = LBs(prev) \cap LBs(next)
      /\ o.wait = "All" => LBs(next) \subseteq LBs(prev)
=============================================================================
