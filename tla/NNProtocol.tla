----------------------------- MODULE NNProtocol -----------------------------
(***************************************************************************)
(* The packets between the client and the namenode: the client's side      *)
(* (discoNN_client/discoC_NN_protocol.c, the senders of reports and of     *)
(* space requests, the parsers of answers) and the side of the simulated   *)
(* namenode (discoNN_simulator/discoNNSrv_protocol.c).                     *)
(*                                                                         *)
(* A metadata item is [lbid_s, hbids, locs, stat]; a location on a         *)
(* datanode is [ip, port, rlos, failed], failed when the datanode did not  *)
(* read or write the blocks.                                               *)
(***************************************************************************)
EXTENDS Wire

\* Characters of an address in a buffer of the client, and in a report: 16 and
\* 20 there, 4 and 8 here, so that they differ by the width of the port.
IPV4ADDR_NM_LEN == 4
DN_IPADDR_NAME_LEN == 8
MAGIC_NUM == 7

REQ_NN_QUERY_MDATA_READIO == 0
REQ_NN_ALLOC_MDATA_NO_OLD == 3
REQ_NN_REPORT_READIO_RESULT == 5
REQ_NN_REPORT_WRITEIO_RESULT == 7
REQ_NN_UPDATE_HEARTBEAT == 8
REQ_NN_PREALLOC_SPACE == 9
REQ_NN_REPORT_SPACE_MDATA == 10
REQ_NN_RETURN_SPACE == 11
AcquireOps == 0..4
NN_RESP_METADATA_REQUEST == 0
NN_RESP_METADATA_COMMIT == 1
NN_RESP_FS_PREALLOCATION == 2
NN_RESP_FS_REPORT_MDATA == 3
NN_RESP_FS_REPORT_FREE == 4
MData_VALID == 0
MData_INVALID == 1

(***************************************************************************)
(* The packed structs.                                                     *)
(***************************************************************************)
Hb_hder == <<<<"magic_number1", 8>>, <<"opcode", 2>>>>
CN2NN_getMDReq_hder == Hb_hder \o
  <<<<"lb_s", 8>>, <<"nnReqID", 8>>, <<"volumeID", 8>>, <<"lb_len", 4>>, <<"magic_number2", 8>>>>
CN2NN_MDResp_hder ==
  <<<<"magic_number1", 8>>, <<"response_type", 2>>, <<"resp_data_size", 2>>, <<"request_ID", 8>>>>
CN2NN_getMDResp_mdhder == <<<<"metadata_ID", 8>>, <<"num_metadata_items", 2>>>>
CN2NN_getMDResp_fcpkt ==
  <<<<"rate_SlowStart", 4>>, <<"rate_SlowStartMaxReqs", 4>>, <<"rate_Alloc", 4>>,
    <<"rate_AllocMaxReqs", 4>>, <<"rate_AgeTime", 4>>>>
\* The header of a report, whose last field goes behind the items.
CN2NN_ciMDReq_hder == Hb_hder \o <<<<"volumeID", 8>>, <<"request_id", 8>>, <<"numOfReportItems", 4>>>>
FSHder == Hb_hder \o <<<<"request_id", 8>>, <<"volumeID", 8>>>>
CN2NN_fsReportMD_hder == FSHder \o <<<<"numOfReportItems", 4>>, <<"magic_number2", 8>>>>
CN2NN_fsReportMD_chunk ==
  <<<<"chunkID", 8>>, <<"length", 4>>, <<"lbid_s", 8>>, <<"hbid_s", 8>>, <<"numReplica", 2>>>>
CN2NN_fsReportFS_hder == FSHder \o <<<<"chunkID", 8>>, <<"hbid_s", 8>>, <<"magic_number2", 8>>>>
CN2NN_fsAllocMD_hder == FSHder \o <<<<"min_space_size", 4>>, <<"magic_number2", 8>>>>
NN2CN_fsAllocMDResp_chunk ==
  <<<<"chunkID", 8>>, <<"chunkLen", 4>>, <<"hbid_s", 8>>, <<"numReplica", 2>>>>
fsReq_DNLoc == <<<<"port", 4>>, <<"rbid", 4>>, <<"offset", 4>>>>

PutAll(w, s) == FlattenSeq([i \in 1..Len(s) |-> Put(w, s[i])])
GetAll(b, w, n) == [i \in 1..n |-> Get(From(b, w * (i - 1)), w)]

(***************************************************************************)
(* The client's requests and the header of every answer.                   *)
(***************************************************************************)
NNProto_gen_HBPacket ==
  Pack(Hb_hder, [magic_number1 |-> MAGIC_NUM, opcode |-> REQ_NN_UPDATE_HEARTBEAT])

NNProto_gen_getMDReqheader(opcode, reqID, volID, lbs, lblen) ==
  Pack(CN2NN_getMDReq_hder,
       [magic_number1 |-> MAGIC_NUM, opcode |-> opcode, lb_s |-> lbs, nnReqID |-> reqID,
        volumeID |-> volID, lb_len |-> lblen, magic_number2 |-> MAGIC_NUM])

\* The size the header gives counts the request's id, which is read already.
NNProto_MDRespheader_ntoh(b) ==
  LET h == Unpack(CN2NN_MDResp_hder, b)
  IN  IF h.magic_number1 /= MAGIC_NUM \/ h.resp_data_size = 0
      THEN [h EXCEPT !.request_ID = Garbled]
      ELSE [h EXCEPT !.resp_data_size = @ - 8]

NNProto_getMDResp_MDheader_ntoh(b) == Unpack(CN2NN_getMDResp_mdhder, b)

(***************************************************************************)
(* The metadata of an answer.  The buffer for the address is cleared once, *)
(* before the first location: of a longer address that was read into it    *)
(* before, the characters behind a shorter one are still there.            *)
(***************************************************************************)
NNAck_DNLoc_ntoh_order(num_dnLoc, b) ==
  FoldLeft(
    LAMBDA a, j :
      LET n   == Get(From(b, a.size), 2)
          str == [i \in 1..IPV4ADDR_NM_LEN |->
                    IF i <= n THEN Get(From(b, a.size + 2 + i - 1), 1) ELSE a.ipv4addr[i]]
          at  == a.size + 2 + n
          rlo == Get(From(b, at + 4), 2)
      IN  [ipv4addr |-> str, size |-> at + 6 + 8 * rlo,
           locs |-> Append(a.locs, [ip |-> ccma_inet_ntoa(str), port |-> Get(From(b, at), 4),
                                    rlos |-> GetAll(From(b, at + 6), 8, rlo), failed |-> FALSE])],
    [ipv4addr |-> [i \in 1..IPV4ADDR_NM_LEN |-> NUL], size |-> 0, locs |-> << >>],
    [j \in 1..num_dnLoc |-> j])

NNProto_getMDResp_MDItem_ntoh(startLB, b) ==
  LET len_hbids == Get(b, 2)
      len_DN    == Get(From(b, 2 + 8 * len_hbids), 2)
      at        == 4 + 8 * len_hbids
      dn        == NNAck_DNLoc_ntoh_order(len_DN, From(b, at))
  IN  [item |-> [lbid_s |-> startLB, hbids |-> GetAll(From(b, 2), 8, len_hbids),
                 locs |-> dn.locs, stat |-> Get(From(b, at + dn.size), 2)],
       size |-> at + dn.size + 2]

NNProto_getMDResp_FlowCtrl_ntoh(b) == Unpack(CN2NN_getMDResp_fcpkt, b)

\* An answer without metadata fails the request; otherwise item after item,
\* each starting where the one before ends, and the rates behind them.
_nnack_alloc_MDArray(len, num_lrs) == len > Size(CN2NN_getMDResp_mdhder) /\ num_lrs /= 0
_do_normal_parse(b, num_lrs, lbid_start, len) ==
  IF ~_nnack_alloc_MDArray(len, num_lrs) THEN [items |-> << >>, fc |-> << >>]
  ELSE LET all == FoldLeft(
             LAMBDA a, i :
               LET r == NNProto_getMDResp_MDItem_ntoh(a.lb, From(b, a.size))
               IN  [lb |-> a.lb + Len(r.item.hbids), size |-> a.size + r.size,
                    items |-> Append(a.items, r.item)],
             [lb |-> lbid_start, size |-> 0, items |-> << >>], [i \in 1..num_lrs |-> i])
       IN  [items |-> all.items, fc |-> NNProto_getMDResp_FlowCtrl_ntoh(From(b, all.size))]

(***************************************************************************)
(* Reports.  A read reports the locations that failed, a write the ones    *)
(* that did not; a location is its address in a field of its own size, its *)
(* port and its places on the disk.                                        *)
(***************************************************************************)
ReportedLoc(l) ==
  PutStr(ccma_inet_aton(l.ip, DN_IPADDR_NAME_LEN), DN_IPADDR_NAME_LEN)
    \o Put(4, l.port) \o Put(4, Len(l.rlos)) \o PutAll(8, l.rlos)
ReportedItem(item, locs) ==
  Put(8, item.lbid_s) \o Put(4, Len(item.hbids)) \o PutAll(8, item.hbids)
    \o Put(4, Len(locs)) \o FlattenSeq([j \in 1..Len(locs) |-> ReportedLoc(locs[j])])

\* An item none of whose reads failed is left out.
pack_failLHO_pkt(item) ==
  LET bad == SelectSeq(item.locs, LAMBDA l : l.failed)
  IN  IF bad = << >> THEN << >> ELSE ReportedItem(item, bad)
pack_MData_failLHO(md) ==
  LET p == SelectSeq([i \in 1..Len(md) |-> pack_failLHO_pkt(md[i])], LAMBDA x : x /= << >>)
  IN  [num |-> Len(p), bytes |-> FlattenSeq(p)]

\* Every item of a write is there, with the locations that were written.
pack_SuccessLHO_pkt_Variant(md) ==
  [num |-> Len(md), bytes |-> FlattenSeq([i \in 1..Len(md) |-> ReportedItem(md[i], md[i].locs)])]
pack_SuccessLHO_pkt(md) ==
  [num |-> Len(md),
   bytes |-> FlattenSeq([i \in 1..Len(md) |->
                           ReportedItem(md[i], SelectSeq(md[i].locs, LAMBDA l : ~l.failed))])]

ciMDReq_pkt(op, volumeID, nnReqID, p) ==
  Pack(CN2NN_ciMDReq_hder, [magic_number1 |-> MAGIC_NUM, opcode |-> op, volumeID |-> volumeID,
                            request_id |-> nnReqID, numOfReportItems |-> p.num])
    \o p.bytes \o Put(8, MAGIC_NUM)

NNProto_gen_ciMDReq_ReadIO_pkt(volumeID, nnReqID, md) ==
  LET p == pack_MData_failLHO(md)
  IN  IF p.num = 0 THEN << >> ELSE ciMDReq_pkt(REQ_NN_REPORT_READIO_RESULT, volumeID, nnReqID, p)
NNProto_gen_ciMDReq_WriteIO_pkt(volumeID, nnReqID, md) ==
  ciMDReq_pkt(REQ_NN_REPORT_WRITEIO_RESULT, volumeID, nnReqID, pack_SuccessLHO_pkt(md))

\* A write is reported when an item is not valid or a datanode failed it.
_nnc_chk_write_fail(md) ==
  \E i \in 1..Len(md) : \/ md[i].stat /= MData_VALID
                        \/ \E j \in 1..Len(md[i].locs) : md[i].locs[j].failed

\* The two senders: whether the metadata cache forgets the blocks
\* (inval_volume_MDCache_LBID), and the packet; << >> is not sent, which also
\* happens when there is no memory (mem) for a buffer.
NNClient_reportMD_writeErr(volumeID, nnReqID, md, mem) ==
  LET fail == _nnc_chk_write_fail(md)
  IN  [inval |-> fail,
       pkt |-> IF fail /\ mem THEN NNProto_gen_ciMDReq_WriteIO_pkt(volumeID, nnReqID, md) ELSE << >>]
NNClient_reportMD_readErr(volumeID, nnReqID, md, mem) ==
  [inval |-> TRUE,
   pkt |-> IF mem THEN NNProto_gen_ciMDReq_ReadIO_pkt(volumeID, nnReqID, md) ELSE << >>]

(***************************************************************************)
(* A reader of a report, which takes addresses of w characters: the items  *)
(* with their locations, and whether the end is where it should be.        *)
(***************************************************************************)
ReadLoc(b, w) ==
  LET n == Get(From(b, w + 4), 4)
  IN  [size |-> w + 8 + 8 * n,
       loc  |-> [ip |-> ccma_inet_ntoa(GetStr(b, w)), port |-> Get(From(b, w), 4),
                 rlos |-> GetAll(From(b, w + 8), 8, n)]]
ReadItem(b, w) ==
  LET n   == Get(From(b, 8), 4)
      at  == 12 + 8 * n
      Loc(a, j) == LET l == ReadLoc(From(b, a.size), w)
                   IN  [size |-> a.size + l.size, locs |-> Append(a.locs, l.loc)]
      dn  == FoldLeft(Loc, [size |-> at + 4, locs |-> << >>], [j \in 1..Get(From(b, at), 4) |-> j])
  IN  [size |-> dn.size, item |-> [lbid_s |-> Get(b, 8), hbids |-> GetAll(From(b, 12), 8, n),
                                   locs |-> dn.locs]]
ReadReport(b, w) ==
  LET h   == Unpack(CN2NN_ciMDReq_hder, b)
      Item(a, i) == LET r == ReadItem(From(b, a.size), w)
                    IN  [size |-> a.size + r.size, items |-> Append(a.items, r.item)]
      all == FoldLeft(Item, [size |-> Size(CN2NN_ciMDReq_hder), items |-> << >>],
                      [i \in 1..h.numOfReportItems |-> i])
  IN  [opcode |-> h.opcode, id |-> h.request_id, vol |-> h.volumeID, items |-> all.items,
       whole |-> h.magic_number1 = MAGIC_NUM /\ From(b, all.size) = Put(8, MAGIC_NUM)]

\* The namenode takes the packet by its format, of which the client's header
\* says that an address has 20 bytes (discoC_NN_protocol.h:130).
NNReadReport(b) == ReadReport(b, DN_IPADDR_NAME_LEN)

\* What the client writes to its log of a report it is about to send: it
\* reads the address by the length of its own buffers.
NNProto_show_ciMDReq_WriteIO_pkt(b) == ReadReport(b, IPV4ADDR_NM_LEN)

(***************************************************************************)
(* Preallocated space (built with DISCO_PREALLOC_SUPPORT).                 *)
(***************************************************************************)
fsReq_gen_allocSpace_header(reqID, opcode, volID, minSize) ==
  Pack(CN2NN_fsAllocMD_hder, [magic_number1 |-> MAGIC_NUM, opcode |-> opcode, request_id |-> reqID,
         volumeID |-> volID, min_space_size |-> minSize, magic_number2 |-> MAGIC_NUM])
fsReq_gen_reportMD_DNLoc(ip, port, rbid, offset) ==
  Put(2, Len(ip)) \o PutStr(ip, Len(ip)) \o Pack(fsReq_DNLoc, [port |-> port, rbid |-> rbid, offset |-> offset])
fsReq_gen_reportMD_ChunkInfo(chunkID, len, lbid_s, hbid_s, numReplica) ==
  Pack(CN2NN_fsReportMD_chunk, [chunkID |-> chunkID, length |-> len, lbid_s |-> lbid_s,
                                hbid_s |-> hbid_s, numReplica |-> numReplica])
fsReq_gen_reportMD_header(opcode, reqID, volID, numItems) ==
  Pack(CN2NN_fsReportMD_hder, [magic_number1 |-> MAGIC_NUM, opcode |-> opcode, request_id |-> reqID,
         volumeID |-> volID, numOfReportItems |-> numItems, magic_number2 |-> MAGIC_NUM])
fsReq_gen_reportFS_header(opcode, reqID, volID, chunkID, hbid_s) ==
  Pack(CN2NN_fsReportFS_hder, [magic_number1 |-> MAGIC_NUM, opcode |-> opcode, request_id |-> reqID,
         volumeID |-> volID, chunkID |-> chunkID, hbid_s |-> hbid_s, magic_number2 |-> MAGIC_NUM])

\* Item mdItem of a report of used space.  Its size is overwritten with that of its
\* first part: the next item is written over the locations of this one.
_gen_ReportMD_MDItem(item) ==
  LET ok == SelectSeq(item.locs, LAMBDA l : ~l.failed)
  IN  [bytes |-> fsReq_gen_reportMD_ChunkInfo(item.lbid_s, Len(item.hbids), item.lbid_s,
                                              item.hbids[1], Len(ok))
                   \o FlattenSeq([j \in 1..Len(ok) |->
                        LET t == decompose_triple(ok[j].rlos[1])
                        IN  fsReq_gen_reportMD_DNLoc(ok[j].ip, ok[j].port, t.rbid, t.off)]),
       size |-> Size(CN2NN_fsReportMD_chunk)]
Overwrite(b, o, x) == SubSeq(b, 1, o) \o x \o SubSeq(b, o + Len(x) + 1, Len(b))
_gen_ReportMD_body(md) ==
  FoldLeft(LAMBDA a, i : LET p == _gen_ReportMD_MDItem(md[i])
                         IN  [bytes |-> Overwrite(a.bytes, a.size, p.bytes), size |-> a.size + p.size],
           [bytes |-> << >>, size |-> 0], [i \in 1..Len(md) |-> i])

\* The bytes in the buffer and how many of them are sent: the size of the
\* whole packet is overwritten with that of its header.
fsReq_send_AllocMData(reqID, volID, len) ==
  LET p == fsReq_gen_allocSpace_header(reqID, REQ_NN_PREALLOC_SPACE, volID, len)
  IN  [bytes |-> p, len |-> Len(p)]
fsReq_send_ReportMData(reqID, volID, md) ==
  LET p == fsReq_gen_reportMD_header(REQ_NN_REPORT_SPACE_MDATA, reqID, volID, Len(md))
  IN  [bytes |-> p \o _gen_ReportMD_body(md).bytes, len |-> Len(p)]
fsReq_send_ReportFreeSpace(reqID, volID, chunkID, hbid) ==
  LET p == fsReq_gen_reportFS_header(REQ_NN_RETURN_SPACE, reqID, volID, chunkID, hbid)
  IN  [bytes |-> p, len |-> Len(p)]

fsResp_parse_prealloc_ack_chkHder(b) == Unpack(<<<<"reqID", 8>>, <<"num_chunk", 4>>>>, b)
fsResp_parse_prealloc_ack_chunk(b) == Unpack(NN2CN_fsAllocMDResp_chunk, b)
fsResp_parse_prealloc_ack_DNLoc(b) ==
  LET n == Get(b, 2)
      str == [i \in 1..IPV4ADDR_NM_LEN |-> IF i <= n THEN Get(From(b, 1 + i), 1) ELSE NUL]
  IN  [loc |-> [ip |-> ccma_inet_ntoa(str)] @@ Unpack(fsReq_DNLoc, From(b, 2 + n)),
       size |-> 2 + n + Size(fsReq_DNLoc)]
fsResp_parse_reportFS_ack(b) == Unpack(<<<<"reqID", 8>>, <<"result", 2>>>>, b)

\* The chunks of an answer with space, each with its locations.
fsReq_process_preAllocAck(b) ==
  LET h == fsResp_parse_prealloc_ack_chkHder(b)
      Loc(a, j) == LET r == fsResp_parse_prealloc_ack_DNLoc(From(b, a.size))
                   IN  [size |-> a.size + r.size, locs |-> Append(a.locs, r.loc)]
      Chunk(a, i) ==
        LET ch == fsResp_parse_prealloc_ack_chunk(From(b, a.size))
            dn == FoldLeft(Loc, [size |-> a.size + Size(NN2CN_fsAllocMDResp_chunk), locs |-> << >>],
                           [j \in 1..ch.numReplica |-> j])
        IN  [size |-> dn.size, chunks |-> Append(a.chunks, [id |-> ch.chunkID, locs |-> dn.locs])]
  IN  [id |-> h.reqID,
       chunks |-> FoldLeft(Chunk, [size |-> 12, chunks |-> << >>],
                           [i \in 1..h.num_chunk |-> i]).chunks]
fsReq_process_ReportMDAck(b) == fsResp_parse_reportFS_ack(b).reqID
fsReq_process_ReportFreeAck(b) == fsResp_parse_reportFS_ack(b).reqID

(***************************************************************************)
(* The simulated namenode's side.                                          *)
(***************************************************************************)
_NNSrv_rcv_opcode(b) == Unpack(Hb_hder, b).opcode
NNClient_MDReqHder_ntoh(b) == Unpack(CN2NN_getMDReq_hder, b)

gen_MDReq_ackHeader(type, dataSize, id) ==
  Pack(CN2NN_MDResp_hder, [magic_number1 |-> MAGIC_NUM, response_type |-> type,
                           resp_data_size |-> dataSize, request_ID |-> id])
gen_MDReq_MDBody1(numLoc, len_hbids) ==
  Pack(CN2NN_getMDResp_mdhder, [metadata_ID |-> 0, num_metadata_items |-> numLoc]) \o Put(2, len_hbids)

\* The places on the disk are not copied: each is the number of places and
\* whatever follows it on the stack.
gen_MDReq_DNLoc(ip, port, num_rlo) ==
  Put(2, Len(ip)) \o PutStr(ip, Len(ip)) \o Put(4, port) \o Put(2, num_rlo)
    \o FlattenSeq([i \in 1..num_rlo |-> Put(2, num_rlo) \o [k \in 1..6 |-> Junk]])

gen_fsReportAlloc_ackHeader(type, dataSize) == gen_MDReq_ackHeader(type, dataSize, MAGIC_NUM)
gen_fsAllocSpace_ackHeader(type, dataSize) == gen_MDReq_ackHeader(type, dataSize, MAGIC_NUM)

NNClient_FSReportReqHder_ntoh(b) == Unpack(CN2NN_fsReportMD_hder, b)
NNClient_FSReportUSHder_ntoh(b) == Unpack(CN2NN_fsReportFS_hder, b)
NNClient_FSAllocSpaceHder_ntoh(b) == Unpack(CN2NN_fsAllocMD_hder, b)
=============================================================================
