------------------------------ MODULE OvwQuery -------------------------------
(***************************************************************************)
(* The overwrite maps of the volumes (discoNN_client/discoC_NNC_ovw.c).    *)
(* A volume that is attached gets an empty map and a query asks the        *)
(* namenode which of its blocks were written before; a worker sends the    *)
(* queries, a receiver fills the maps from the answers, the namenode's     *)
(* connection can be lost, after which a task sends unanswered queries     *)
(* again, and a volume can be detached in the middle of it.                *)
(*                                                                         *)
(* The k-th attach makes map k and, if it asks, query k.                   *)
(***************************************************************************)
EXTENDS Integers, Sequences, SequencesExt, FiniteSets

CONSTANTS
  Vol,          \* volumes
  MaxAttach,    \* attaches
  MaxLost,      \* losses of the connection
  MaxSend       \* max_ovw_request_can_be_send_out

ASSUME OvwAssumption == 0 \notin Vol /\ MaxAttach \in Nat /\ MaxSend \in Nat

VARIABLES
  vol,          \* the volumes' overwrite data
  req,          \* the queries
  queue,        \* ovwreq_working_queue
  waiting,      \* ovwreq_num_of_req_wait_for_send
  out,          \* ovwreq_num_of_req_send_to_nn
  gone,         \* maps that were freed
  worker,       \* the sending thread
  rx,          \* the receiving thread
  link,         \* the connection: "up", "down", and "back" until the retry task ran
  net,          \* volumes the namenode was asked for and did not answer yet
  made, lost,   \* attaches and losses so far
  early,        \* answers taken for a query that was queued to be sent again
  cut           \* answers that were cut off by a loss

qvars == <<vol, req, queue, waiting, out, gone, worker, rx, link, net, made, lost, early, cut>>

Null == 0
State == {"START", "SEND", "PROCESS", "DONE", "CANCEL", "freed"}
NoQuery == [vol |-> Null, state |-> "freed", ptr |-> Null]

QInit ==
  /\ vol = [v \in Vol |-> [ovw_init |-> FALSE, ovw_memory |-> Null, ovw_reading |-> FALSE]]
  /\ req = [k \in 1..MaxAttach |-> NoQuery]
  /\ queue = << >> /\ waiting = 0 /\ out = 0 /\ gone = {}
  /\ worker = [pc |-> "wait", q |-> Null]
  /\ rx = [pc |-> "hder", q |-> Null, set |-> 0]
  /\ link = "up" /\ net = << >> /\ made = 0 /\ lost = 0 /\ early = 0 /\ cut = 0

(***************************************************************************)
(* The first query of the queue that is in S; that of a volume, and its    *)
(* change of state.  A cancelled query stays cancelled.                    *)
(***************************************************************************)
FirstIn(S) ==
  LET at == {i \in DOMAIN queue : queue[i] \in S}
  IN  IF at = {} THEN Null ELSE queue[Min(at)]
find_ovw_req(v) == FirstIn({k \in DOMAIN req : req[k].vol = v})
Changed(r, st) ==
  IF r.state = "CANCEL" THEN r
  ELSE [r EXCEPT !.state = st,
                 !.ptr = IF st = "CANCEL" /\ r.state \in {"START", "SEND", "DONE"} THEN Null ELSE @]

\* init_ovw: the map, and a query unless the volume has one, whatever state
\* it is in.
create_ovw_req(v, k) == [vol |-> v, state |-> "START", ptr |-> k]
add_ovw_req(v, k) ==
  IF find_ovw_req(v) /= Null THEN UNCHANGED <<req, queue, waiting>>
  ELSE /\ req' = [req EXCEPT ![k] = create_ovw_req(v, k)]
       /\ queue' = Append(queue, k) /\ waiting' = waiting + 1
init_ovw(v) ==
  LET k == made + 1 IN
  /\ ~vol[v].ovw_init /\ made < MaxAttach
  /\ made' = k
  /\ vol' = [vol EXCEPT ![v] = [ovw_init |-> TRUE, ovw_memory |-> k, ovw_reading |-> TRUE]]
  /\ add_ovw_req(v, k)
  /\ UNCHANGED <<out, gone, worker, rx, link, net, lost, early, cut>>

\* The map of a detached volume is freed, unless the receiver fills it: then
\* it goes with the query.  A query that was cancelled before leaves it lost.
release_ovw_Variant(v) ==
  LET k   == find_ovw_req(v)
      old == req[k].state
      mem == vol[v].ovw_memory
  IN
  /\ vol[v].ovw_init
  /\ vol' = [vol EXCEPT ![v].ovw_init = FALSE, ![v].ovw_memory = Null]
  /\ IF k = Null THEN gone' = gone \cup {mem} /\ UNCHANGED <<req, waiting, out>>
     ELSE /\ req' = [req EXCEPT ![k] = Changed(@, "CANCEL")]
          /\ waiting' = IF old = "START" THEN waiting - 1 ELSE waiting
          /\ out' = IF old = "SEND" THEN out - 1 ELSE out
          /\ gone' = gone \cup {mem}
  /\ UNCHANGED <<queue, worker, rx, link, net, made, lost, early, cut>>
release_ovw(v) ==
  LET k   == find_ovw_req(v)
      old == req[k].state
      mem == vol[v].ovw_memory
  IN
  /\ vol[v].ovw_init
  /\ vol' = [vol EXCEPT ![v].ovw_init = FALSE, ![v].ovw_memory = Null]
  /\ IF k = Null THEN gone' = gone \cup {mem} /\ UNCHANGED <<req, waiting, out>>
     ELSE /\ req' = [req EXCEPT ![k] = Changed(@, "CANCEL")]
          /\ waiting' = IF old = "START" THEN waiting - 1 ELSE waiting
          /\ out' = IF old = "SEND" THEN out - 1 ELSE out
          /\ gone' = IF old \in {"START", "SEND", "DONE"} THEN gone \cup {mem} ELSE gone
  /\ UNCHANGED <<queue, worker, rx, link, net, made, lost, early, cut>>

(***************************************************************************)
(* The worker: the first query that is to be sent or was cancelled.  The   *)
(* limit lets one query more through than it says.                         *)
(***************************************************************************)
MayGet == queue /= << >> /\ out <= MaxSend /\ waiting > 0
Freed(k) == [req EXCEPT ![k].state = "freed", ![k].ptr = Null]
Unlinked(k) ==
  LET at == {i \in DOMAIN queue : queue[i] = k}
  IN  IF at = {} THEN queue ELSE RemoveAt(queue, Min(at))

get_ovw_req ==
  LET k == FirstIn({x \in DOMAIN req : req[x].state \in {"START", "CANCEL"}})
  IN
  /\ worker.pc = "wait" /\ MayGet /\ k /= Null
  /\ IF req[k].state = "START"
     THEN /\ req' = [req EXCEPT ![k].state = "SEND"]
          /\ out' = out + 1 /\ waiting' = waiting - 1
          /\ worker' = [pc |-> "send", q |-> k]
          /\ UNCHANGED <<queue, gone>>
     ELSE /\ queue' = Unlinked(k) /\ req' = Freed(k)
          /\ gone' = gone \cup ({req[k].ptr} \ {Null})
          /\ UNCHANGED <<out, waiting, worker>>
  /\ UNCHANGED <<vol, rx, link, net, made, lost, early, cut>>

\* Nothing is sent without a connection; the retry task is to see to it.
nn_ovw_request_worker ==
  /\ worker.pc = "send"
  /\ net' = IF link = "down" THEN net ELSE Append(net, req[worker.q].vol)
  /\ worker' = [pc |-> "wait", q |-> Null]
  /\ UNCHANGED <<vol, req, queue, waiting, out, gone, rx, link, made, lost, early, cut>>

(***************************************************************************)
(* The receiver: the header of an answer claims the volume's query, the    *)
(* payload goes into the query's map, and the query ends.  set is the      *)
(* code's set_ovw: 0 nobody asked, 1 the query was cancelled, 2 fill.      *)
(***************************************************************************)
RcvHder ==
  LET k == find_ovw_req(Head(net)) IN
  /\ rx.pc = "hder" /\ net /= << >> /\ link /= "down"
  /\ net' = Tail(net)
  /\ IF k = Null
     THEN rx' = [pc |-> "data", q |-> Null, set |-> 0] /\ UNCHANGED <<req, out, early>>
     ELSE /\ rx' = [pc |-> "data", q |-> k, set |-> IF req[k].state = "CANCEL" THEN 1 ELSE 2]
          /\ req' = [req EXCEPT ![k] = Changed(@, "PROCESS")]
          /\ out' = IF req[k].state = "SEND" THEN out - 1 ELSE out
          /\ early' = IF req[k].state = "START" THEN early + 1 ELSE early
  /\ UNCHANGED <<vol, queue, waiting, gone, worker, link, made, lost, cut>>

\* The end of the payload, or of the connection before it (recv_fail): then
\* the query is to be sent again.
RcvEnd ==
  LET k    == rx.q
      fill == rx.set = 2 /\ req[k].state \notin {"CANCEL", "freed"}
  IN
  /\ rx.pc = "data"
  /\ IF fill THEN req' = [req EXCEPT ![k].state = IF link = "down" THEN "START" ELSE "DONE"]
             ELSE req' = req
  /\ cut' = IF fill /\ link = "down" THEN cut + 1 ELSE cut
  /\ rx' = IF rx.set = 0 \/ (fill /\ link = "down") THEN [pc |-> "hder", q |-> Null, set |-> 0]
            ELSE [pc |-> "free", q |-> k, set |-> IF fill THEN 2 ELSE 1]
  /\ UNCHANGED <<vol, queue, waiting, out, gone, worker, link, net, made, lost, early>>

\* The volume is found by its number, if it is attached.
set_vol_ovw_read_state(v) ==
  IF vol[v].ovw_init THEN [vol EXCEPT ![v].ovw_reading = FALSE] ELSE vol

\* The volume has its map, and the query leaves the queue, with the map when it was cancelled.  A query
\* the worker freed meanwhile still holds what it held.
RcvFree ==
  LET k == rx.q
      v == req[k].vol
  IN
  /\ rx.pc = "free"
  /\ vol' = set_vol_ovw_read_state(v)
  /\ queue' = Unlinked(k)
  /\ gone' = IF rx.set = 1 THEN gone \cup ({req[k].ptr} \ {Null}) ELSE gone
  /\ req' = Freed(k)
  /\ rx' = [pc |-> "hder", q |-> Null, set |-> 0]
  /\ UNCHANGED <<waiting, out, worker, link, net, made, lost, early, cut>>

(***************************************************************************)
(* The connection.  What was asked is lost with it; it is back with a new  *)
(* receiver, and a task sends what was sent and not answered again.        *)
(***************************************************************************)
ConnLost ==
  /\ link = "up" /\ lost < MaxLost
  /\ link' = "down" /\ net' = << >> /\ lost' = lost + 1
  /\ UNCHANGED <<vol, req, queue, waiting, out, gone, worker, rx, made, early, cut>>
_NNOVW_connected_post_fn ==
  /\ link = "down" /\ rx.pc = "hder"
  /\ link' = "back"
  /\ UNCHANGED <<vol, req, queue, waiting, out, gone, worker, rx, net, made, lost, early, cut>>
retry_nn_ovw_req ==
  LET again == {k \in ToSet(queue) : req[k].state = "SEND"} IN
  /\ link = "back" /\ link' = "up"
  /\ req' = [k \in DOMAIN req |-> IF k \in again THEN [req[k] EXCEPT !.state = "START"] ELSE req[k]]
  /\ out' = out - Cardinality(again) /\ waiting' = waiting + Cardinality(again)
  /\ UNCHANGED <<vol, queue, gone, worker, rx, net, made, lost, early, cut>>

QNext ==
  \/ \E v \in Vol : init_ovw(v) \/ release_ovw(v)
  \/ get_ovw_req \/ nn_ovw_request_worker \/ RcvHder \/ RcvEnd \/ RcvFree
  \/ ConnLost \/ _NNOVW_connected_post_fn \/ retry_nn_ovw_req
QSpec == QInit /\ [][QNext]_qvars

-----------------------------------------------------------------------------
(***************************************************************************)
(* Properties                                                              *)
(***************************************************************************)
\* The map of an attached volume is not freed, and the map the receiver fills
\* is freed under its hands only with its query, which the worker takes away
\* when the volume was detached (discoC_NNC_ovw.c:404); a map is freed or
\* belongs to its volume or to its query, or its volume was attached while a
\* cancelled query stood in the way (discoC_NNC_ovw.c:853).
MapIsLive ==
  /\ \A v \in Vol : vol[v].ovw_init => vol[v].ovw_memory \in (1..made) \ gone
  /\ rx.pc = "data" /\ rx.set = 2 =>
       req[rx.q].state = "freed" \/ req[rx.q].ptr \in (1..made) \ gone
  /\ \A k \in 1..made : k \notin gone =>
       \/ \E v \in Vol : vol[v].ovw_memory = k
       \/ req[k].state /= "freed" /\ req[k].ptr = k
       \/ req[k] = NoQuery

\* Nobody can go on until a volume is attached or detached or the connection
\* is lost.
QAtRest ==
  /\ link = "up" /\ rx.pc = "hder" /\ net = << >> /\ worker.pc = "wait"
  /\ ~(MayGet /\ \E k \in ToSet(queue) : req[k].state \in {"START", "CANCEL"})

\* When everybody rests every attached volume has its map filled, and the
\* counters say how many queries are sent and wait.  The exceptions are a
\* query whose answer was cut off, which is queued but not counted
\* (discoC_NNC_ovw.c:729), one that was answered while it waited to be sent
\* again and stays counted (discoC_NNC_ovw.c:228), and a cancelled query of an
\* earlier attach, which keeps a new one out (discoC_NNC_ovw.c:277).
QueryEnds ==
  /\ out = Cardinality({k \in ToSet(queue) : req[k].state = "SEND"})
  /\ waiting = Cardinality({k \in ToSet(queue) : req[k].state = "START"}) + early - cut
  /\ QAtRest => \A v \in Vol : vol[v].ovw_init /\ vol[v].ovw_reading =>
       cut > 0 \/ req[vol[v].ovw_memory] = NoQuery

\* A query reads into a map that lives, and ends.
QueryInv == MapIsLive /\ QueryEnds
=============================================================================
