----------------------------- MODULE MCIORequest -----------------------------
(* IORequest for TLC.                                                       *)
EXTENDS IORequest, TLC

W(s, l) == [dir |-> "WRITE", lbid_start |-> s, lbid_len |-> l]
R(s, l) == [dir |-> "READ", lbid_start |-> s, lbid_len |-> l]

(* Reads and writes of one or two segments that overlap in an LB or not.    *)
UserIOs == {W(0, 2), R(0, 2), R(1, 1)}
=============================================================================
