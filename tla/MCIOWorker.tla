------------------------------ MODULE MCIOWorker ------------------------------
EXTENDS IOWorker
CONSTANTS v1, v2, ra, rb, rc, rd, re, rg

(* Two writes that exceed MaxSects = 3 together, a read and a flush of the  *)
(* first volume; a write of the second, which may not be read.              *)
MCRq == [r \in {ra, rb, rc, rd, re, rg} |->
  CASE r = ra -> [vol |-> v1, dir |-> "WRITE", pos |-> 0, len |-> 2]
    [] r = rb -> [vol |-> v1, dir |-> "WRITE", pos |-> 2, len |-> 2]
    [] r = rc -> [vol |-> v1, dir |-> "READ", pos |-> 4, len |-> 1]
    [] r = rd -> [vol |-> v1, dir |-> "FLUSH", pos |-> 0, len |-> 0]
    [] r = re -> [vol |-> v2, dir |-> "WRITE", pos |-> 0, len |-> 1]
    [] r = rg -> [vol |-> v2, dir |-> "READ", pos |-> 0, len |-> 1]]
MCArrivals == {<<ra, rb, re>>, <<ra, rd, rb>>, <<ra, rc, rg>>}
MCPerm == [v \in Vol |-> IF v = v1 THEN {"READ", "WRITE"} ELSE {"WRITE"}]
=============================================================================
