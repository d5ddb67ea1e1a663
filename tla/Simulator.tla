----------------------------- MODULE Simulator ------------------------------
(***************************************************************************)
(* The simulated servers the driver is tested against, under the client's  *)
(* real connection threads: the namenode (discoNN_simulator), a datanode   *)
(* (discoDN_simulator) and the namenode's overwrite service                *)
(* (discoNNOVW_simulator).  A simulator is a connection whose tx_send is a *)
(* call into the server's rx_rcv and whose rx_rcv is a call into its       *)
(* tx_send; requests wait in between in items of a memory pool.            *)
(*                                                                         *)
(* Four threads meet here: a sender and the heartbeat thread, which take   *)
(* the socket's mutex and a reference to it, the receiver, and the thread  *)
(* that closes the connection and then frees the server.                   *)
(***************************************************************************)
EXTENDS MemPool, NNProtocol, DNProtocol

CONSTANTS
  Items,        \* items of the server's pool
  MaxReqs,      \* requests the sender sends
  MaxHB,        \* heartbeats
  DEF_NUM_REPLICA,
  DEF_DN_PORT

VARIABLES
  kind,         \* the server: "NN", "DN" or "OVW"
  pool,         \* its memory pool
  item,         \* contents of the pool's items, old contents included
  sim,          \* the server
  conn,         \* the connection: "none", "up", "down"
  mux,          \* who holds the connection's sock_mux
  ref,          \* references to the socket
  snd,          \* the sender
  hbt,          \* the heartbeat thread
  rcv,          \* the receiver
  cls,          \* the closing thread
  sent,         \* requests the server took, in order
  got,          \* answers the receiver took, decoded, in order
  told          \* the last report of failures: its request, whether the metadata
                \* cache forgot the blocks, the packet; NoReport before the first

vars == <<kind, pool, item, sim, conn, mux, ref, snd, hbt, rcv, cls, sent, got, told>>
Kinds == {"NN", "DN", "OVW"}

(***************************************************************************)
(* An item: what CNReq_t, CNMDReq_t and CNOVWReq_t tell apart, and whether *)
(* a heartbeat put it there.                                               *)
(***************************************************************************)
NoReq == [opcode |-> 0, n |-> 0, id1 |-> 0, id2 |-> 0, hb |-> FALSE]
CNReq_init_request(opcode, numhb, pReqID, DNReqID) ==
  [opcode |-> opcode, n |-> numhb, id1 |-> pReqID, id2 |-> DNReqID, hb |-> FALSE]
CNMDReq_init_request(opcode, lbid_len, cnMDReqID, volumeID) ==
  [opcode |-> opcode, n |-> lbid_len, id1 |-> cnMDReqID, id2 |-> volumeID, hb |-> FALSE]
CNOVWReq_init_request(opcode, subopcode, volumeID) ==
  [opcode |-> opcode, n |-> 0, id1 |-> volumeID, id2 |-> subopcode, hb |-> FALSE]

\* States of the answer to the request at hand.
TXNNResp_Send == {"INIT", "Hder_DONE", "Body_DONE"}
TXCNR_Send == {"INIT", "RHder_DONE", "RData_DONE", "WMemAck_DONE", "WDiskAck_DONE"}

(***************************************************************************)
(* A server from its creation to its end.  Only a datanode has a request   *)
(* whose blocks are still to come, only a namenode gives out space.        *)
(***************************************************************************)
_init_NNSmltor_spaceMgr ==
  [ips |-> [i \in 1..DEF_NUM_REPLICA |-> <<9, i>>], port |-> DEF_DN_PORT, HBID_generator |-> 0,
   fc |-> [rate_SlowStart |-> 32, rate_SlowStartMaxReqs |-> 640, rate_Alloc |-> -1,
           rate_AllocMaxReqs |-> 4096, rate_AgeTime |-> 30]]
NoSpace == [_init_NNSmltor_spaceMgr EXCEPT !.ips = << >>]

create_DNSmltor ==
  [state |-> "made", CNReq_pool |-> << >>, qsize |-> 0, rx_pend |-> NoItem, rx_pendSize |-> 0,
   tx_pend |-> NoItem, tx_state |-> "INIT", ack |-> << >>, isRunning |-> TRUE, isInPool |-> TRUE,
   space |-> NoSpace]
create_NNSmltor == [create_DNSmltor EXCEPT !.space = _init_NNSmltor_spaceMgr]
create_NNOVWSmltor == create_DNSmltor
create_Smltor == IF kind = "NN" THEN create_NNSmltor
                 ELSE IF kind = "DN" THEN create_DNSmltor ELSE create_NNOVWSmltor
stop_Smltor(s) == [s EXCEPT !.isRunning = FALSE]

_submit_CNReq(s, x) == [s EXCEPT !.CNReq_pool = Append(@, x), !.qsize = @ + 1]
_peek_CNReq_ReqPool(s) ==
  [s EXCEPT !.CNReq_pool = Tail(@), !.qsize = @ - 1, !.tx_pend = Head(s.CNReq_pool)]

\* Every request is taken off the queue, the last one goes back to the pool.
_free_all_CNReq(p, s) ==
  IF s.CNReq_pool = << >> THEN p ELSE mem_pool_free(p, Last(s.CNReq_pool))
free_DNSmltor(p, s) == mem_pool_free(mem_pool_free(_free_all_CNReq(p, s), s.rx_pend), s.tx_pend)
free_NNSmltor(p, s) == mem_pool_free(_free_all_CNReq(p, s), s.tx_pend)
free_NNOVWSmltor(p, s) == mem_pool_free(_free_all_CNReq(p, s), s.tx_pend)

\* The managers: the pool of their requests, and the end of every server
\* and of the pool.
init_Simulator_manager == register_mem_pool(init_mempool_manager, Items, Items).m.pool[0]
rel_DNSimulator_manager(p, s) == deregister_mem_pool(free_DNSmltor(p, s)).p
rel_NNSimulator_manager(p, s) == deregister_mem_pool(free_NNSmltor(p, s)).p
rel_NNOVWSimulator_manager(p, s) == deregister_mem_pool(free_NNOVWSmltor(p, s)).p

(***************************************************************************)
(* What the server does with a packet of the client: the pool, the items   *)
(* and the server afterwards.                                              *)
(***************************************************************************)
Served(p, it, s) == [pool |-> p, item |-> it, sim |-> s]

\* A request of which the server keeps the opcode and two numbers.
Enqueue(req) ==
  LET a == mem_pool_alloc(pool)
  IN  IF a.item = NoItem THEN Served(pool, item, sim)
      ELSE Served(a.p, [item EXCEPT ![a.item] = req], _submit_CNReq(sim, a.item))

_NNSrv_rcv_MDReq(b) ==
  LET h == NNClient_MDReqHder_ntoh(b)
  IN  Enqueue(CNMDReq_init_request(h.opcode, h.lb_len, h.nnReqID, h.volumeID))
_NNSrv_rcv_PreallocReq(b) ==
  LET h == NNClient_FSAllocSpaceHder_ntoh(b)
  IN  Enqueue(CNMDReq_init_request(h.opcode, 0, h.request_id, h.volumeID))
\* The items of a report of used space are converted where they are and dropped.
_NNSrv_rcv_ReportAlloc(b) ==
  LET h == NNClient_FSReportReqHder_ntoh(b)
  IN  Enqueue(CNMDReq_init_request(h.opcode, 0, h.request_id, h.volumeID))
_NNSrv_rcv_ReturnSpace(b) ==
  LET h == NNClient_FSReportUSHder_ntoh(b)
  IN  Enqueue(CNMDReq_init_request(h.opcode, 0, h.request_id, h.volumeID))

\* Heartbeats and reports of failures are not answered.
discoNNSrv_rx_rcv(b) ==
  LET op == _NNSrv_rcv_opcode(b)
  IN  CASE op \in AcquireOps -> _NNSrv_rcv_MDReq(b)
        [] op = REQ_NN_PREALLOC_SPACE -> _NNSrv_rcv_PreallocReq(b)
        [] op = REQ_NN_REPORT_SPACE_MDATA -> _NNSrv_rcv_ReportAlloc(b)
        [] op = REQ_NN_RETURN_SPACE -> _NNSrv_rcv_ReturnSpace(b)
        [] OTHER -> Served(pool, item, sim)

\* A header of a datanode request.  A heartbeat takes an item too, and what
\* becomes of it is read off the request the item held before.
discoDNSrv_rx_hder_Variant(b, hb) ==
  LET a == mem_pool_alloc(pool)
      h == _DNSrv_rcv_hder(b)
      c == IF h.init THEN CNReq_init_request(h.opcode, h.num_hbids, h.pReqID, h.DNReqID)
                     ELSE [item[a.item] EXCEPT !.hb = hb]
      it == [item EXCEPT ![a.item] = c]
  IN  IF a.item = NoItem THEN Served(pool, item, sim)
      ELSE IF c.opcode \in {DNUDREQ_WRITE, DNUDREQ_WRITE_NO_IO}
      THEN Served(a.p, it, [sim EXCEPT !.rx_pend = a.item, !.rx_pendSize = c.n])
      ELSE IF c.opcode \in ReadOps \cup WriteOps
      THEN Served(a.p, it, _submit_CNReq(sim, a.item))
      ELSE Served(a.p, it, sim)
discoDNSrv_rx_hder(b, hb) ==
  LET a == mem_pool_alloc(pool)
      h == _DNSrv_rcv_hder(b)
      c == IF h.init THEN CNReq_init_request(h.opcode, h.num_hbids, h.pReqID, h.DNReqID)
                     ELSE [item[a.item] EXCEPT !.hb = hb]
      it == [item EXCEPT ![a.item] = c]
  IN  IF a.item = NoItem THEN Served(pool, item, sim)
      ELSE IF c.opcode \in {DNUDREQ_WRITE, DNUDREQ_WRITE_NO_IO}
      THEN Served(a.p, it, [sim EXCEPT !.rx_pend = a.item, !.rx_pendSize = c.n])
      ELSE IF c.opcode \in ReadOps \cup WriteOps
      THEN Served(a.p, it, _submit_CNReq(sim, a.item))
      ELSE Served(mem_pool_free(a.p, a.item), it, sim)

\* n blocks of a write: the request waits for the last one.
discoDNSrv_rx_data(n) ==
  LET left == sim.rx_pendSize - n
      s    == [sim EXCEPT !.rx_pendSize = left]
  IN  Served(pool, item,
             IF left /= 0 THEN s
             ELSE [_submit_CNReq(s, s.rx_pend) EXCEPT !.rx_pend = NoItem])

OVWHder == <<<<"begin_magic_number", 8>>, <<"req_cmd_type", 2>>, <<"sub_type", 2>>,
             <<"vol_id_byte_order", 8>>, <<"end_magic_number", 8>>>>
OVWResp == <<<<"begin_magic_number", 8>>, <<"vol_id", 8>>, <<"req_cmd_type", 2>>, <<"sub_type", 2>>,
             <<"error_code", 2>>, <<"len_in_byte", 8>>, <<"end_magic_number", 8>>>>
OVERWRITTEN == 1
OVW_UPDATE_HB == 8
ovw_pkt(cmd, volid) ==
  Pack(OVWHder, [begin_magic_number |-> MAGIC_NUM, req_cmd_type |-> cmd, sub_type |-> 1,
                 vol_id_byte_order |-> volid, end_magic_number |-> MAGIC_NUM])
_gen_nnovw_conn_hb_pkt == ovw_pkt(OVW_UPDATE_HB, 1)

_NNOVWSrv_rcv_header(b) == Unpack(OVWHder, b)
discoNNOVWSrv_rx_rcv(b) ==
  LET h == _NNOVWSrv_rcv_header(b)
  IN  IF h.req_cmd_type = OVW_UPDATE_HB THEN Served(pool, item, sim)
      ELSE Enqueue(CNOVWReq_init_request(h.req_cmd_type, h.sub_type, h.vol_id_byte_order))

rx_rcv(b, hb) ==
  CASE kind = "NN"  -> discoNNSrv_rx_rcv(b)
    [] kind = "DN"  -> discoDNSrv_rx_hder(b, hb)
    [] kind = "OVW" -> discoNNOVWSrv_rx_rcv(b)
\* Only these calls take an item, and wait for one.
TakesItem(b) ==
  CASE kind = "NN"  -> _NNSrv_rcv_opcode(b) \in AcquireOps \cup 9..11
    [] kind = "DN"  -> TRUE
    [] kind = "OVW" -> _NNOVWSrv_rcv_header(b).req_cmd_type /= OVW_UPDATE_HB

(***************************************************************************)
(* The answers: one call of the receiver gives one packet, and moves the   *)
(* state of the answer.                                                    *)
(***************************************************************************)
Answer(s, b) == [sim |-> s, pkt |-> b]

nnSmltor_alloc_HBID(sp, len) == [sp EXCEPT !.HBID_generator = @ + len]

\* New blocks for every block asked for, on every replica, and the rates.
_gen_MDReq_Metadata(sp, r) ==
  gen_MDReq_MDBody1(1, r.n)
    \o PutAll(8, [i \in 1..r.n |-> sp.HBID_generator + i - 1])
    \o Put(2, Len(sp.ips))
    \o FlattenSeq([i \in 1..Len(sp.ips) |-> gen_MDReq_DNLoc(sp.ips[i], sp.port, 1)])
    \o Put(2, MData_VALID) \o Pack(CN2NN_getMDResp_fcpkt, sp.fc)
\* Always the same chunk, on two datanodes.
_gen_fsAllocSpace_body(r) ==
  Put(8, r.id1) \o Put(4, 1)
    \o Pack(NN2CN_fsAllocMDResp_chunk, [chunkID |-> 10011, chunkLen |-> 65536, hbid_s |-> 99887766,
                                        numReplica |-> 2])
    \o FlattenSeq([i \in 1..2 |-> fsReq_gen_reportMD_DNLoc(<<8, i>>, DEF_DN_PORT, 1002 + i, 191 + i)])
_gen_fsReportAlloc_body(r) == Put(8, r.id1) \o Put(2, 0)

_gen_MDReq_txAck_packet(s, r) ==
  LET body == _gen_MDReq_Metadata(s.space, r)
  IN  Answer([s EXCEPT !.ack = body, !.tx_state = "Hder_DONE", !.space = nnSmltor_alloc_HBID(@, r.n)],
             gen_MDReq_ackHeader(NN_RESP_METADATA_REQUEST, Len(body) + 8, r.id1))
_gen_fsAllocS_txAck_packet(s, r) ==
  LET body == _gen_fsAllocSpace_body(r)
  IN  Answer([s EXCEPT !.ack = body, !.tx_state = "Hder_DONE"],
             gen_fsAllocSpace_ackHeader(NN_RESP_FS_PREALLOCATION, Len(body)))
_gen_fsReport(s, r, type) ==
  LET body == _gen_fsReportAlloc_body(r)
  IN  Answer([s EXCEPT !.ack = body, !.tx_state = "Hder_DONE"],
             gen_fsReportAlloc_ackHeader(type, Len(body)))
_gen_fsReportAlloc_txAck_packet(s, r) == _gen_fsReport(s, r, NN_RESP_FS_REPORT_MDATA)
_gen_fsReportUS_txAck_packet(s, r) == _gen_fsReport(s, r, NN_RESP_FS_REPORT_FREE)

NN_gen_txAck_packet(s, r) ==
  IF s.tx_state = "Hder_DONE" THEN Answer([s EXCEPT !.ack = << >>, !.tx_state = "Body_DONE"], s.ack)
  ELSE CASE r.opcode \in AcquireOps -> _gen_MDReq_txAck_packet(s, r)
         [] r.opcode = REQ_NN_PREALLOC_SPACE -> _gen_fsAllocS_txAck_packet(s, r)
         [] r.opcode = REQ_NN_REPORT_SPACE_MDATA -> _gen_fsReportAlloc_txAck_packet(s, r)
         [] r.opcode = REQ_NN_RETURN_SPACE -> _gen_fsReportUS_txAck_packet(s, r)

\* A write is acknowledged twice, a read gives a header and its blocks.
DN_gen_txAck_packet(s, r) ==
  CASE s.tx_state = "INIT" /\ r.opcode \in WriteOps ->
         Answer([s EXCEPT !.tx_state = "WMemAck_DONE"], DNSrv_gen_ackpkt(DNUDRESP_MEM_ACK, r.n, r.id1, r.id2))
    [] s.tx_state = "INIT" /\ r.opcode \in {DNUDREQ_READ, DNUDREQ_READ_NO_IO} ->
         Answer([s EXCEPT !.tx_state = "RHder_DONE"], DNSrv_gen_ackpkt(DNUDRESP_READ_PAYLOAD, r.n, r.id1, r.id2))
    [] s.tx_state = "INIT" /\ r.opcode \in {DNUDREQ_READ_NO_PAYLOAD, DNUDREQ_READ_NO_PAYLOAD_IO} ->
         Answer([s EXCEPT !.tx_state = "RData_DONE"], DNSrv_gen_ackpkt(DNUDRESP_READ_NO_PAYLOAD, r.n, r.id1, r.id2))
    [] s.tx_state = "RHder_DONE" -> Answer([s EXCEPT !.tx_state = "RData_DONE"], << >>)
    [] s.tx_state = "WMemAck_DONE" ->
         Answer([s EXCEPT !.tx_state = "WDiskAck_DONE"], DNSrv_gen_ackpkt(DNUDRESP_DISK_ACK, r.n, r.id1, r.id2))

NNOVWSrv_gen_ackpkt(cmd, volID, len) ==
  Pack(OVWResp, [begin_magic_number |-> MAGIC_NUM, vol_id |-> volID, req_cmd_type |-> cmd, sub_type |-> 2,
                 error_code |-> 0, len_in_byte |-> len, end_magic_number |-> MAGIC_NUM])
OVW_gen_txAck_packet(s, r) ==
  Answer([s EXCEPT !.tx_state = "Body_DONE"], NNOVWSrv_gen_ackpkt(r.opcode, r.id1, 0))

\* tx_send of the servers: the next request when the last one is answered,
\* one packet, and the item back to the pool behind the last.
CanAnswer == sim.tx_state /= "INIT" \/ (sim.isRunning /\ sim.qsize > 0)
Sent(s0, a, ends) ==
  IF a.sim.tx_state \in ends
  THEN [pool |-> mem_pool_free(pool, s0.tx_pend), pkt |-> a.pkt, hb |-> item[s0.tx_pend].hb,
        sim |-> [a.sim EXCEPT !.tx_state = "INIT", !.tx_pend = NoItem]]
  ELSE [pool |-> pool, pkt |-> a.pkt, hb |-> item[s0.tx_pend].hb, sim |-> a.sim]
NextCNReq == IF sim.tx_state = "INIT" THEN _peek_CNReq_ReqPool(sim) ELSE sim

discoNNSrv_tx_send ==
  LET s == NextCNReq IN Sent(s, NN_gen_txAck_packet(s, item[s.tx_pend]), {"Body_DONE"})
discoDNSrv_tx_send ==
  LET s == NextCNReq
  IN  Sent(s, DN_gen_txAck_packet(s, item[s.tx_pend]), {"RData_DONE", "WDiskAck_DONE"})
discoNNOVWSrv_tx_send ==
  LET s == NextCNReq IN Sent(s, OVW_gen_txAck_packet(s, item[s.tx_pend]), {"Body_DONE"})
tx_send == CASE kind = "NN"  -> discoNNSrv_tx_send
             [] kind = "DN"  -> discoDNSrv_tx_send
             [] kind = "OVW" -> discoNNOVWSrv_tx_send

(***************************************************************************)
(* The client's requests.  A report carries metadata md.                   *)
(***************************************************************************)
CONSTANTS Metadata, DNOps

Requests(id) ==
  CASE kind = "NN"  -> [opcode : {REQ_NN_QUERY_MDATA_READIO, REQ_NN_ALLOC_MDATA_NO_OLD}, id : {id},
                        n : 1..2, md : {<< >>}]
                       \cup [opcode : {REQ_NN_REPORT_READIO_RESULT, REQ_NN_REPORT_WRITEIO_RESULT,
                                       REQ_NN_REPORT_SPACE_MDATA}, id : {id}, n : {0}, md : Metadata]
                       \cup [opcode : {REQ_NN_PREALLOC_SPACE, REQ_NN_RETURN_SPACE}, id : {id},
                             n : {0}, md : {<< >>}]
    [] kind = "DN"  -> [opcode : DNOps, id : {id}, n : 1..2, md : {<< >>}]
    [] kind = "OVW" -> [opcode : {OVERWRITTEN}, id : {id}, n : {0}, md : {<< >>}]

\* What a sender of reports does with r, when there is memory for a buffer.
Report(r, mem) ==
  IF r.opcode = REQ_NN_REPORT_READIO_RESULT THEN NNClient_reportMD_readErr(1, r.id, r.md, mem)
  ELSE NNClient_reportMD_writeErr(1, r.id, r.md, mem)
ReportOps == {REQ_NN_REPORT_READIO_RESULT, REQ_NN_REPORT_WRITEIO_RESULT}

\* The packet of a request; << >> when there is nothing to report.
Packet(r) ==
  CASE kind = "DN"  -> DNProto_gen_ReqPacket(
                         [opcode |-> r.opcode, caller |-> 10 + r.id, id |-> r.id,
                          hbids |-> [i \in 1..r.n |-> i], rlos |-> <<compose_triple(1, r.n, 0)>>])
    [] kind = "OVW" -> ovw_pkt(r.opcode, r.id)
    [] kind = "NN"  ->
         CASE r.opcode \in AcquireOps -> NNProto_gen_getMDReqheader(r.opcode, r.id, 1, 0, r.n)
           [] r.opcode \in ReportOps -> Report(r, TRUE).pkt
           [] r.opcode = REQ_NN_PREALLOC_SPACE -> fsReq_send_AllocMData(r.id, 1, 0).bytes
           [] r.opcode = REQ_NN_REPORT_SPACE_MDATA -> fsReq_send_ReportMData(r.id, 1, r.md).bytes
           [] r.opcode = REQ_NN_RETURN_SPACE -> fsReq_send_ReportFreeSpace(r.id, 1, 1, 1).bytes
HasData(r) == kind = "DN" /\ r.opcode \in {DNUDREQ_WRITE, DNUDREQ_WRITE_NO_IO}
HBPacket == CASE kind = "NN"  -> NNProto_gen_HBPacket
              [] kind = "DN"  -> DNProto_gen_HBPacket
              [] kind = "OVW" -> _gen_nnovw_conn_hb_pkt

NullReq == [opcode |-> 0, id |-> 0, n |-> 0, md |-> << >>]
NoReport == <<NullReq, FALSE, << >>>>
Idle == [pc |-> "idle", r |-> NullReq, k |-> 0, c |-> 0]

Init ==
  /\ kind \in Kinds
  /\ pool = init_Simulator_manager
  /\ item = [x \in 1..Items |-> NoReq]
  /\ sim = [create_DNSmltor EXCEPT !.state = "none"]
  /\ conn = "none" /\ mux = "free" /\ ref = 0
  /\ snd = Idle /\ hbt = [pc |-> "idle", c |-> 0] /\ rcv = [pc |-> "off", len |-> 0, h |-> << >>]
  /\ cls = "idle" /\ sent = << >> /\ got = << >> /\ told = NoReport

\* The connection is made with a new server behind it, and a receiver that
\* keeps a reference to the socket.
connect_target ==
  /\ conn = "none" /\ cls = "idle"
  /\ conn' = "up" /\ sim' = create_Smltor /\ ref' = 1
  /\ rcv' = [rcv EXCEPT !.pc = "hder"]
  /\ UNCHANGED <<kind, pool, item, mux, snd, hbt, cls, sent, got, told>>

(***************************************************************************)
(* tx_send of the connection, by the sender and by the heartbeat thread:   *)
(* the mutex, a reference, the call, and both given back.                  *)
(***************************************************************************)
MayLock(th) == th.pc = "lock" /\ mux = "free"
MayCall(takes) == takes => CanAlloc(pool)
SenderTakes == snd.k = 0 /\ TakesItem(Packet(snd.r))

SendRequest ==
  /\ snd.pc = "idle" /\ snd.c < MaxReqs /\ conn = "up"
  /\ \E r \in Requests(snd.c + 1) :
     \E mem \in BOOLEAN :
       LET report == kind = "NN" /\ r.opcode \in ReportOps
           b      == IF report THEN Report(r, mem).pkt ELSE Packet(r)
       IN  /\ ~report => mem
           /\ told' = IF report THEN <<r, Report(r, mem).inval, b>> ELSE told
           /\ snd' = IF b = << >> THEN [Idle EXCEPT !.c = snd.c + 1]
                     ELSE [pc |-> "lock", r |-> r, k |-> 0, c |-> snd.c + 1]
  /\ UNCHANGED <<kind, pool, item, sim, conn, mux, ref, hbt, rcv, cls, sent, got>>

SendLock ==
  /\ MayLock(snd)
  /\ mux' = "snd" /\ snd' = [snd EXCEPT !.pc = "get"]
  /\ UNCHANGED <<kind, pool, item, sim, conn, ref, hbt, rcv, cls, sent, got, told>>

\* get_sock_wrapper: the socket of a connection that is still there.
SendGet ==
  /\ snd.pc = "get"
  /\ IF conn = "up" THEN /\ ref' = ref + 1 /\ mux' = mux
                         /\ snd' = [snd EXCEPT !.pc = "rcv"]
                    ELSE /\ ref' = ref /\ mux' = "free"
                         /\ snd' = [snd EXCEPT !.pc = "idle", !.r = NullReq, !.k = 0]
  /\ UNCHANGED <<kind, pool, item, sim, conn, hbt, rcv, cls, sent, got, told>>

\* The call into the server, which may wait for an item; block after block
\* for a write, each a call of its own under the same mutex.
SendCall ==
  /\ snd.pc = "rcv" /\ MayCall(SenderTakes)
  /\ \E b \in {Packet(snd.r)} :
     \E x \in {IF snd.k > 0 THEN discoDNSrv_rx_data(1) ELSE rx_rcv(b, FALSE)} :
     LET done == ~HasData(snd.r) \/ snd.k = snd.r.n
     IN  /\ pool' = x.pool /\ item' = x.item /\ sim' = x.sim
         /\ ref' = ref - 1
         /\ mux' = IF done THEN "free" ELSE mux
         /\ snd' = IF done THEN [snd EXCEPT !.pc = "idle", !.r = NullReq, !.k = 0]
                           ELSE [snd EXCEPT !.pc = "get", !.k = @ + 1]
         /\ sent' = IF done THEN Append(sent, snd.r) ELSE sent
  /\ UNCHANGED <<kind, conn, hbt, rcv, cls, got, told>>

\* _send_hb_gut: the heartbeat thread goes round the connections.
_send_hb_gut ==
  /\ hbt.pc = "idle" /\ hbt.c < MaxHB /\ conn = "up"
  /\ hbt' = [pc |-> "lock", c |-> hbt.c + 1]
  /\ UNCHANGED <<kind, pool, item, sim, conn, mux, ref, snd, rcv, cls, sent, got, told>>
HBLock ==
  /\ MayLock(hbt)
  /\ mux' = "hb" /\ hbt' = [hbt EXCEPT !.pc = "get"]
  /\ UNCHANGED <<kind, pool, item, sim, conn, ref, snd, rcv, cls, sent, got, told>>
HBGet ==
  /\ hbt.pc = "get"
  /\ IF conn = "up" THEN /\ ref' = ref + 1 /\ mux' = mux /\ hbt' = [hbt EXCEPT !.pc = "rcv"]
                    ELSE /\ ref' = ref /\ mux' = "free" /\ hbt' = [hbt EXCEPT !.pc = "idle"]
  /\ UNCHANGED <<kind, pool, item, sim, conn, snd, rcv, cls, sent, got, told>>
HBCall ==
  /\ hbt.pc = "rcv" /\ MayCall(TakesItem(HBPacket))
  /\ \E b \in {HBPacket} : \E x \in {rx_rcv(b, TRUE)} :
       pool' = x.pool /\ item' = x.item /\ sim' = x.sim
  /\ ref' = ref - 1 /\ mux' = "free" /\ hbt' = [hbt EXCEPT !.pc = "idle"]
  /\ UNCHANGED <<kind, conn, snd, rcv, cls, sent, got, told>>

(***************************************************************************)
(* The receiver: a header, and what the header says follows it.            *)
(***************************************************************************)
Decoded(h, b) ==
  CASE h.response_type = NN_RESP_METADATA_REQUEST ->
         LET md == NNProto_getMDResp_MDheader_ntoh(b)
             x  == _do_normal_parse(From(b, Size(CN2NN_getMDResp_mdhder)), md.num_metadata_items, 0,
                                    h.resp_data_size)
         IN  [type |-> 0, id |-> h.request_ID, hb |-> FALSE, fc |-> x.fc,
              hbids |-> [i \in 1..Len(x.items) |-> x.items[i].hbids],
              dns |-> [i \in 1..Len(x.items) |-> [j \in 1..Len(x.items[i].locs) |->
                         <<x.items[i].locs[j].ip, x.items[i].locs[j].port>>]]]
    [] h.response_type = NN_RESP_FS_PREALLOCATION ->
         LET x == fsReq_process_preAllocAck(b)
         IN  [type |-> 2, id |-> x.id, hb |-> FALSE,
              dns |-> [i \in 1..Len(x.chunks) |-> [j \in 1..Len(x.chunks[i].locs) |->
                         <<x.chunks[i].locs[j].ip, x.chunks[i].locs[j].port>>]]]
    [] h.response_type = NN_RESP_FS_REPORT_MDATA ->
         [type |-> 3, id |-> fsReq_process_ReportMDAck(b), hb |-> FALSE]
    [] OTHER -> [type |-> 4, id |-> fsReq_process_ReportFreeAck(b), hb |-> FALSE]

\* What is left to read behind a namenode's header: answers about space
\* have no id in the header.
BodyLen(h) == h.resp_data_size + (IF h.response_type > NN_RESP_METADATA_COMMIT THEN 8 ELSE 0)

DNAnswer(b, hb) ==
  LET h == DNProto_ReqAck_ntoh(b)
  IN  [type |-> h.responseType, caller |-> h.pReqID, id |-> h.dnid, n |-> h.num_of_lb, hb |-> hb]
DataAnswer(hb) == [type |-> 0, caller |-> 0, id |-> 0, n |-> 0, hb |-> hb]

rx_hder ==
  /\ rcv.pc = "hder" /\ CanAnswer
  /\ \E t \in {tx_send} :
     /\ pool' = t.pool /\ sim' = t.sim
     /\ CASE kind = "NN" ->
               /\ got' = got
               /\ rcv' = [pc |-> "body", len |-> BodyLen(NNProto_MDRespheader_ntoh(t.pkt)),
                          h |-> NNProto_MDRespheader_ntoh(t.pkt)]
          [] kind = "DN" ->
               LET a == DNAnswer(t.pkt, t.hb)
               IN  /\ got' = Append(got, a)
                   /\ rcv' = [rcv EXCEPT !.pc = IF a.type = DNUDRESP_READ_PAYLOAD THEN "body" ELSE "hder"]
          [] kind = "OVW" ->
               LET h == Unpack(OVWResp, t.pkt)
               IN  /\ got' = Append(got, [id |-> h.vol_id, type |-> h.req_cmd_type, len |-> h.len_in_byte,
                                          hb |-> t.hb])
                   /\ rcv' = rcv
  /\ UNCHANGED <<kind, item, conn, mux, ref, snd, hbt, cls, sent, told>>

rx_body ==
  /\ rcv.pc = "body" /\ CanAnswer
  /\ \E t \in {tx_send} :
     /\ pool' = t.pool /\ sim' = t.sim
     /\ got' = Append(got, IF kind = "NN" THEN Decoded(rcv.h, SubSeq(t.pkt, 1, rcv.len))
                                          ELSE DataAnswer(t.hb))
     /\ rcv' = [pc |-> "hder", len |-> 0, h |-> << >>]
  /\ UNCHANGED <<kind, item, conn, mux, ref, snd, hbt, cls, sent, told>>

\* A server that is stopped gives nothing, and the receiver sees that it is
\* to stop.
MayStop == rcv.pc = "hder" /\ cls = "join" /\ ~CanAnswer /\ ~sim.isRunning
rx_stop ==
  /\ MayStop
  /\ rcv' = [rcv EXCEPT !.pc = "off"] /\ ref' = ref - 1
  /\ UNCHANGED <<kind, pool, item, sim, conn, mux, snd, hbt, cls, sent, got, told>>

(***************************************************************************)
(* close_conn, then the release of the simulator's manager: the server is  *)
(* stopped, the receiver joined, the socket freed when nobody refers to    *)
(* it, the server freed, the pool given back.                              *)
(***************************************************************************)
close_conn ==
  /\ cls = "idle" /\ conn = "up"
  /\ conn' = "down" /\ sim' = stop_Smltor(sim) /\ cls' = "join"
  /\ UNCHANGED <<kind, pool, item, mux, ref, snd, hbt, rcv, sent, got, told>>
MayFree == cls = "join" /\ rcv.pc = "off" /\ ref = 0
_Smltor_free_socket ==
  /\ MayFree
  /\ cls' = "closed"
  /\ UNCHANGED <<kind, pool, item, sim, conn, mux, ref, snd, hbt, rcv, sent, got, told>>
rel_Simulator_manager ==
  /\ cls = "closed"
  /\ pool' = CASE kind = "NN"  -> rel_NNSimulator_manager(pool, sim)
               [] kind = "DN"  -> rel_DNSimulator_manager(pool, sim)
               [] kind = "OVW" -> rel_NNOVWSimulator_manager(pool, sim)
  /\ sim' = [sim EXCEPT !.state = "freed", !.isInPool = FALSE]
  /\ cls' = "done"
  /\ UNCHANGED <<kind, item, conn, mux, ref, snd, hbt, rcv, sent, got, told>>

Next ==
  \/ connect_target \/ SendRequest \/ _send_hb_gut \/ close_conn
  \/ SendLock \/ SendGet \/ SendCall \/ HBLock \/ HBGet \/ HBCall
  \/ rx_hder \/ rx_body \/ rx_stop \/ _Smltor_free_socket \/ rel_Simulator_manager

Spec == Init /\ [][Next]_vars

-----------------------------------------------------------------------------
(***************************************************************************)
(* Properties                                                              *)
(***************************************************************************)
\* What the client is to be told about the requests the server took.
ExpectedNN(r, n) ==
  CASE r.opcode \in AcquireOps ->
         <<[type |-> 0, id |-> r.id, hb |-> FALSE, fc |-> _init_NNSmltor_spaceMgr.fc,
            hbids |-> <<[i \in 1..r.n |-> n + i - 1]>>,
            dns |-> <<[i \in 1..DEF_NUM_REPLICA |-> <<<<9, i>>, DEF_DN_PORT>>]>>]>>
    [] r.opcode = REQ_NN_PREALLOC_SPACE ->
         <<[type |-> 2, id |-> r.id, hb |-> FALSE,
            dns |-> <<[i \in 1..2 |-> <<<<8, i>>, DEF_DN_PORT>>]>>]>>
    [] r.opcode = REQ_NN_REPORT_SPACE_MDATA -> <<[type |-> 3, id |-> r.id, hb |-> FALSE]>>
    [] r.opcode = REQ_NN_RETURN_SPACE -> <<[type |-> 4, id |-> r.id, hb |-> FALSE]>>
    [] OTHER -> << >>
ExpectedDN(r) ==
  LET Ack(t) == [type |-> t, caller |-> 10 + r.id, id |-> r.id, n |-> r.n, hb |-> FALSE]
  IN  CASE r.opcode \in WriteOps -> <<Ack(DNUDRESP_MEM_ACK), Ack(DNUDRESP_DISK_ACK)>>
        [] r.opcode \in {DNUDREQ_READ, DNUDREQ_READ_NO_IO} -> <<Ack(DNUDRESP_READ_PAYLOAD), DataAnswer(FALSE)>>
        [] OTHER -> <<Ack(DNUDRESP_READ_NO_PAYLOAD)>>
Blocks(reqs) == FoldLeft(LAMBDA n, r : n + (IF r.opcode \in AcquireOps THEN r.n ELSE 0), 0, reqs)
Expected ==
  FlattenSeq([k \in 1..Len(sent) |->
    CASE kind = "NN"  -> ExpectedNN(sent[k], Blocks(SubSeq(sent, 1, k - 1)))
      [] kind = "DN"  -> ExpectedDN(sent[k])
      [] kind = "OVW" -> <<[id |-> sent[k].id, type |-> OVERWRITTEN, len |-> 0, hb |-> FALSE]>>])
Real == SelectSeq(got, LAMBDA a : ~a.hb)

\* The answers the client decodes are those of the requests the server took,
\* in their order, each whole and for its own request, whatever heartbeats
\* come in between; blocks of two allocations never overlap.  An answer to a
\* heartbeat, which a datanode should not give (discoDNSrv_simulator.c:203),
\* only repeats an answer to a request that was sent before.
AnswersInOrder ==
  /\ IsPrefix(Real, Expected)
  /\ \A k \in 1..Len(got) : got[k].hb /\ got[k].id /= 0 =>
       \E j \in 1..Len(sent) : sent[j].id = got[k].id /\ sent[j].n = got[k].n

\* An item of the pool is in one place only: on the free list, in the queue,
\* being received or being answered.  The items nobody has any more are those
\* of heartbeats taken for writes (discoDNSrv_simulator.c:257), and once the
\* server is freed those of the requests in front of the last one in its
\* queue (discoDNSrv_simulator.c:128).
LostIsExplained ==
  LET q    == sim.CNReq_pool
      held == ToSet(q) \cup ({sim.rx_pend, sim.tx_pend} \ {NoItem})
      hbs  == {x \in pool.used : item[x].hb /\ item[x].opcode \in {DNUDREQ_WRITE, DNUDREQ_WRITE_NO_IO}}
  IN  IF sim.state = "freed"
      THEN pool.used \subseteq hbs \cup (IF q = << >> THEN {} ELSE ToSet(Front(q)))
      ELSE /\ pool.used \subseteq hbs \cup held
           /\ ToSet(pool.free) \cap (held \cup pool.used) = {}
           /\ Cardinality(ToSet(q)) = Len(q) /\ sim.rx_pend \notin ToSet(q) /\ sim.tx_pend \notin ToSet(q)
           /\ pool.num_free_items = Len(pool.free)

\* The namenode can take a report of failures apart, and it says exactly what
\* happened: which datanodes did not read, or which did write, the blocks of
\* which items, at which places.  A failure is never lost altogether: when no
\* packet can be made of it the metadata cache has forgotten the blocks.
Says(md, f) ==
  [i \in 1..Len(md) |->
     LET l == SelectSeq(md[i].locs, LAMBDA y : y.failed = f)
     IN  [lbid_s |-> md[i].lbid_s, hbids |-> md[i].hbids,
          locs |-> [j \in 1..Len(l) |-> [ip |-> l[j].ip, port |-> l[j].port, rlos |-> l[j].rlos]]]]
Failed(r) == SelectSeq(Says(r.md, TRUE), LAMBDA y : y.locs /= << >>)
ReportIs(x, r) ==
  /\ x.whole /\ x.opcode = r.opcode /\ x.id = r.id /\ x.vol = 1
  /\ x.items = IF r.opcode = REQ_NN_REPORT_READIO_RESULT THEN Failed(r) ELSE Says(r.md, FALSE)
ReportSaysWhatFailed ==
  told /= NoReport =>
    IF told[3] /= << >> THEN ReportIs(NNReadReport(told[3]), told[1])
    ELSE told[2] \/ (Failed(told[1]) = << >> /\ \A i \in DOMAIN told[1].md : told[1].md[i].stat = MData_VALID)

\* "print out all of the msg in the buffer" (discoC_NN_protocol.c:729): what
\* the client logs of the report of a read is what it sends.  Not so in the
\* code (README, Known deviations).
LogShowsReport ==
  told[1].opcode = REQ_NN_REPORT_READIO_RESULT /\ told[3] /= << >> =>
    ReportIs(NNProto_show_ciMDReq_WriteIO_pkt(told[3]), told[1])

\* Nobody can take a step until the environment asks for something again.
AtRest ==
  /\ ~MayLock(snd) /\ ~MayLock(hbt) /\ snd.pc /= "get" /\ hbt.pc /= "get"
  /\ ~(snd.pc = "rcv" /\ MayCall(SenderTakes)) /\ ~(hbt.pc = "rcv" /\ MayCall(TakesItem(HBPacket)))
  /\ ~(rcv.pc \in {"hder", "body"} /\ CanAnswer) /\ ~MayStop /\ ~MayFree /\ cls /= "closed"

\* When the threads come to rest everything asked for is done: every request
\* the server took is answered or the connection was closed, no thread hangs
\* on the mutex, and a close went through to the end.  The one way to hang
\* there is: waiting inside the server for an item of its empty pool, with the
\* mutex and a reference in hand, when the server was stopped or heartbeats
\* hold every item (discoC_mem_manager.c:116).
RestIsEnd ==
  AtRest =>
    \/ /\ snd.pc = "idle" /\ hbt.pc = "idle" /\ cls \in {"idle", "done"}
       /\ conn = "down" \/ Real = Expected
    \/ /\ snd.pc = "rcv" \/ hbt.pc = "rcv"
       /\ pool.num_free_items = 0
       /\ conn = "down" \/ \A x \in pool.used : item[x].hb

\* The server as the client sees it: answers that are whole and in order, a
\* pool that loses nothing unnoticed, and no thread that hangs but for the pool.
ServerInv == AnswersInOrder /\ LostIsExplained /\ RestIsEnd
=============================================================================
