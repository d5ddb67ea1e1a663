----------------------------- MODULE DNProtocol -----------------------------
(***************************************************************************)
(* The packets between the client and a datanode, version 1 of the         *)
(* protocol: discoDN_client/discoC_DN_protocol.c and the side of the       *)
(* simulated datanode, discoDN_simulator/discoDNSrv_protocol.c.            *)
(***************************************************************************)
EXTENDS Wire

DN_MAGIC == 7
FP_LENGTH == 2          \* bytes of a fingerprint (20 in the code)
ReadMaskLen == 8        \* bytes of a block's mask of sectors
DNUDREQ_WRITE == 3
DNUDREQ_READ == 4
DNUDREQ_HEART_BEAT == 10
DNUDREQ_WRITE_NO_PAYLOAD == 12
DNUDREQ_READ_NO_PAYLOAD == 13
DNUDREQ_WRITE_NO_IO == 14
DNUDREQ_READ_NO_IO == 15
DNUDREQ_WRITE_NO_PAYLOAD_IO == 16
DNUDREQ_READ_NO_PAYLOAD_IO == 17
DNUDRESP_READ_PAYLOAD == 101
DNUDRESP_MEM_ACK == 102
DNUDRESP_DISK_ACK == 103
DNUDRESP_READ_NO_PAYLOAD == 110
WriteOps == {3, 12, 14, 16}
ReadOps == {4, 13, 15, 17}

CN2DN_UDRWReq_hder ==
  <<<<"magic_num1", 8>>, <<"opcode", 1>>, <<"num_hbids", 2>>, <<"num_triplets", 2>>,
    <<"reserved", 3>>, <<"nnreq_id", 4>>, <<"dnreq_id", 4>>, <<"magic_num2", 8>>>>
\* An answer as it is read: a count of 24 bits in two fields.
CN2DN_UDRWResp_hder ==
  <<<<"magic_num1", 8>>, <<"responseType", 1>>, <<"lb_high", 1>>, <<"lb_low", 2>>,
    <<"reserved", 4>>, <<"pReqID", 4>>, <<"dnid", 4>>, <<"magic_num2", 8>>>>

\* The opcode says whether blocks are sent and whether the disk is used.
_get_DNReadReq_opcode(payload, io) ==
  CASE payload /\ io   -> DNUDREQ_READ
    [] payload /\ ~io  -> DNUDREQ_READ_NO_IO
    [] ~payload /\ io  -> DNUDREQ_READ_NO_PAYLOAD
    [] ~payload /\ ~io -> DNUDREQ_READ_NO_PAYLOAD_IO
_get_DNWriteReq_opcode(payload, io) ==
  CASE payload /\ io   -> DNUDREQ_WRITE
    [] payload /\ ~io  -> DNUDREQ_WRITE_NO_IO
    [] ~payload /\ io  -> DNUDREQ_WRITE_NO_PAYLOAD
    [] ~payload /\ ~io -> DNUDREQ_WRITE_NO_PAYLOAD_IO

_gen_DNReq_header(r) ==
  Pack(CN2DN_UDRWReq_hder,
       [magic_num1 |-> DN_MAGIC, opcode |-> r.opcode, num_hbids |-> Len(r.hbids),
        num_triplets |-> Len(r.rlos), reserved |-> 0, nnreq_id |-> r.caller, dnreq_id |-> r.id,
        magic_num2 |-> DN_MAGIC])

_fill_u64_array_pkt(arr) == FlattenSeq([i \in 1..Len(arr) |-> Put(8, arr[i])])
fill_DNReq_read_mask_pkt(n) == FlattenSeq([i \in 1..n |-> PutStr(<< >>, ReadMaskLen)])
\* A fingerprint for each block; they are all 0 when none are computed.
get_fingerprint(n) == FlattenSeq([i \in 1..n |-> PutStr(<< >>, FP_LENGTH)])

DNProto_gen_ReqPacket(r) ==
  _gen_DNReq_header(r) \o _fill_u64_array_pkt(r.hbids)
    \o (IF r.opcode \in WriteOps THEN get_fingerprint(Len(r.hbids))
                                 ELSE fill_DNReq_read_mask_pkt(Len(r.hbids)))
    \o _fill_u64_array_pkt(r.rlos)

\* A heartbeat is a header whose counts and ids nobody fills in.
DNProto_gen_HBPacket ==
  Put(8, DN_MAGIC) \o Put(1, DNUDREQ_HEART_BEAT) \o [i \in 1..15 |-> Junk] \o Put(8, DN_MAGIC)

DNProto_ReqAck_ntoh(b) ==
  LET h == Unpack(CN2DN_UDRWResp_hder, b)
  IN  [magic_num1 |-> h.magic_num1, responseType |-> h.responseType, pReqID |-> h.pReqID,
       dnid |-> h.dnid, num_of_lb |-> h.lb_low + 65536 * h.lb_high, magic_num2 |-> h.magic_num2]

(***************************************************************************)
(* The simulated datanode's side.                                          *)
(***************************************************************************)
DNClient_ReqHder_ntoh(b) == Unpack(CN2DN_UDRWReq_hder, b)

DNSrv_gen_ackpkt(acktype, num_of_lb, pReqID, dnReqID) ==
  Pack(CN2DN_UDRWResp_hder,
       [magic_num1 |-> DN_MAGIC, responseType |-> acktype, lb_high |-> 0, lb_low |-> num_of_lb,
        reserved |-> 0, pReqID |-> pReqID, dnid |-> dnReqID, magic_num2 |-> DN_MAGIC])

\* Where the blocks' ids and, behind the fingerprints or the masks, their
\* places on the disk are; a header without a body has neither.
_DNSrv_rcv_hder(b) ==
  LET h   == DNClient_ReqHder_ntoh(b)
      at  == Size(CN2DN_UDRWReq_hder)
      rlo == at + 8 * h.num_hbids
             + (IF h.opcode \in WriteOps THEN FP_LENGTH ELSE ReadMaskLen) * h.num_hbids
  IN  IF h.opcode = DNUDREQ_HEART_BEAT \/ Len(b) = at
      THEN [init |-> FALSE]
      ELSE [init |-> TRUE, opcode |-> h.opcode, num_hbids |-> h.num_hbids, pReqID |-> h.nnreq_id,
            DNReqID |-> h.dnreq_id,
            hbids |-> [i \in 1..h.num_hbids |-> Get(From(b, at + 8 * (i - 1)), 8)],
            rlos |-> [i \in 1..h.num_triplets |-> Get(From(b, rlo + 8 * (i - 1)), 8)]]
=============================================================================
