---------------------------- MODULE MCIOSegment ----------------------------
(***************************************************************************)
(* Segments of four blocks in three metadata items, and of one item.        *)
(***************************************************************************)
EXTENDS IOSegment

Case(op, len, stale, bad, fail, ok) ==
  [op |-> op, len |-> len, stale |-> stale, inval |-> bad, fail |-> fail, md |-> ok]

(* Three items, the first and the last possibly without a valid location;   *)
(* two items that may fail, the first one possibly without a valid location;*)
(* one item that may be either; one item with stale metadata.               *)
Sound ==
       {Case(op, <<1, 2, 1>>, {}, {1, 3}, {}, m) : op \in SegOps, m \in BOOLEAN}
  \cup {Case(op, <<1, 2>>, {}, {1}, {1, 2}, TRUE) : op \in SegOps}
  \cup {Case(op, <<2>>, {}, {1}, {1}, TRUE) : op \in SegOps}
  \cup {Case("read", <<3>>, {1}, {}, {}, m) : m \in BOOLEAN}

(* A read of two items, one of them with stale metadata.                    *)
TwoItemsOneStale == {Case("read", <<1, 1>>, {1}, {}, {}, TRUE)}
=============================================================================
