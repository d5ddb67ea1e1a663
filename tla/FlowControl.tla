----------------------------- MODULE FlowControl -----------------------------
(***************************************************************************)
(* Flow control of metadata requests (flowcontrol/FlowControl.c) and its    *)
(* users: the sender of each namenode client, which asks before it sends    *)
(* (_nnc_sendMDReq_fccongestion), the receiver, which gives a place back    *)
(* for an answer, the timers, and housekeeping after a reconnect.           *)
(*                                                                          *)
(* Every namenode is a resource with a number of unanswered requests it     *)
(* accepts at a time (fc_curr_max_reqs) and a number it accepts in a slot   *)
(* of time (fc_curr_rate).  wait_flag and the wait queue are shared by all  *)
(* resources.  Time is abstract: a slot is at its first jiffy ("start"),    *)
(* later ("in"), or over; a resource may be unused for so long that its     *)
(* rates age.  A request is seen through the states flow control depends    *)
(* on; NNMDReq has all of them.                                             *)
(***************************************************************************)
EXTENDS Integers, FiniteSets, Sequences, FiniteSetsExt

CONSTANTS
  Cli,         \* the namenode clients, each with its resource and its sender
  Req,         \* the metadata requests
  NoReq,
  CliOf,       \* request -> its client
  Kind,        \* request -> "acquire", "high" (PRIORITY_HIGH) or "report"
  DefaultMax,  \* DEFAULT_NN_MAX_REQUESTS
  DefaultRate, \* DEFAULT_NN_FIXED_RATE
  SlowRate,    \* DEFAULT_NN_SLOW_START_RATE
  MinMax,      \* MIN_NN_MAX_REQUESTS_TIMEOUT
  FromNN,      \* <<rate, max, start max, slow rate>> the namenode may answer with
  Num,         \* DEFAULT_NUM_REQ_IN_COUNT
  Time,        \* response times in seconds
  MaxLost,     \* bound: how often connections are lost
  MaxSwitch    \* bound: how often flow control is switched off or on

ASSUME CliAssumption == CliOf \in [Req -> Cli] /\ NoReq \notin Req
ASSUME FCKindAssumption == Kind \in [Req -> {"acquire", "high", "report"}]
ASSUME RateAssumption ==
  /\ {DefaultMax, DefaultRate, SlowRate, MinMax, Num} \subseteq Nat \ {0} /\ MinMax >= 2
  /\ Time \subseteq Nat /\ MaxLost \in Nat /\ MaxSwitch \in Nat /\ IsFiniteSet(Req)
(* The namenode accepts some rate, now and after a pause, and some requests *)
(* after a pause; that it accepts none now is checked in the code.          *)
ASSUME NamenodeAssumption ==
  \A m \in FromNN : /\ m[1] \in Int \ {0} /\ m[2] \in Int
                    /\ m[3] \in Nat \ {0} /\ m[4] \in Int \ {0}

VARIABLES
  res,        \* dms_res_item_t of each client
  win,        \* its response times: res_response_time, the index and the total
  wait_flag,
  slot,       \* the slot of each client (nn_fc_start_t): "start", "in", "over"
  snd,        \* the sender of each client
  st,         \* the state of each request
  rx,         \* the receiver of each client: <<request, what is next>>
  timer,      \* the timer handler of each request
  cut,        \* set_res_available between its assignments, for each client
  net,        \* requests that reached the namenode
  lost,
  switched,   \* how often enable_fc of dms_client_config was changed
  drift       \* by how much each counter is off (history)

vars == <<res, win, wait_flag, slot, snd, st, rx, timer, cut, net, lost, switched, drift>>

(* create_resource_item for a namenode; never accessed, so its rates age.   *)
create_resource_item ==
  [avail |-> TRUE, max |-> DefaultMax, rate |-> DefaultRate, slow |-> SlowRate,
   start |-> DefaultMax, outMax |-> 0, outRate |-> 0, aged |-> TRUE]

NoWindow == [i \in 0 .. Num - 1 |-> 0]
SndAt(pc, r) == [pc |-> pc, req |-> r, max |-> 0, rate |-> 0, ret |-> "togo"]
Resting  == SndAt("idle", NoReq)
NoRx     == <<NoReq, "idle">>

(* init_flow_control, and NNClient_launch_client for every client.          *)
Init ==
  /\ res = [c \in Cli |-> create_resource_item]
  /\ win = [c \in Cli |-> [time |-> NoWindow, index |-> 0, total |-> 0, ready |-> FALSE,
                           raced |-> FALSE]]
  /\ wait_flag = FALSE
  /\ slot = [c \in Cli |-> "over"]
  /\ snd = [c \in Cli |-> Resting]
  /\ st = [r \in Req |-> "none"]
  /\ rx = [c \in Cli |-> NoRx]
  /\ timer = [r \in Req |-> "on"]
  /\ cut = [c \in Cli |-> FALSE]
  /\ net = {} /\ lost = 0 /\ switched = 0
  /\ drift = [c \in Cli |-> 0]

requests == <<st, timer, net>>
links    == <<cut, lost, switched>>

(* Flow control is on at first.                                             *)
enable_fc == switched % 2 = 0

(* The caller queues a request.                                             *)
Submit(r) ==
  /\ st[r] = "none" /\ st' = [st EXCEPT ![r] = "queued"]
  /\ UNCHANGED <<res, win, wait_flag, slot, snd, rx, timer, net, links, drift>>

(* set_config_item: the administrator switches flow control off, or on.     *)
set_config_item ==
  /\ switched < MaxSwitch /\ switched' = switched + 1
  /\ UNCHANGED <<res, win, wait_flag, slot, snd, requests, rx, cut, lost, drift>>

-----------------------------------------------------------------------------
(* A jiffy, or the rest of a slot, passes; resources may become old.        *)
Tick(c) ==
  /\ slot[c] # "over"
  /\ \E s \in {"in", "over"} : s # slot[c] /\ slot' = [slot EXCEPT ![c] = s]
  /\ \E old \in BOOLEAN :
       res' = [d \in Cli |-> [res[d] EXCEPT !.aged = @ \/ (old /\ slot'[c] = "over")]]
  /\ UNCHANGED <<win, wait_flag, snd, requests, rx, links, drift>>

(* update_all_resource_rate: every slot of any client starts all resources  *)
(* again.                                                                   *)
update_all_resource_rate ==
  [d \in Cli |-> IF res[d].aged
                 THEN [res[d] EXCEPT !.outRate = 0, !.rate = res[d].slow, !.max = res[d].start]
                 ELSE [res[d] EXCEPT !.outRate = 0]]

(* _nnc_sendMDReq_updatefctime                                              *)
_nnc_sendMDReq_updatefctime(c) ==
  IF slot[c] = "over"
  THEN slot' = [slot EXCEPT ![c] = "start"] /\ res' = update_all_resource_rate
  ELSE UNCHANGED <<slot, res>>

(* The sender goes to pc; what alloc_res had in its local variables is gone. *)
Sender(c, pc) == snd' = [snd EXCEPT ![c] = SndAt(pc, snd[c].req)]

(* NNClient_send_MDReq and the head of _nnc_sendMDReq_fccongestion: peek a  *)
(* request, start a slot if the last is over, ask unless flow control is     *)
(* off or the request has high priority.                                    *)
Peek(r) ==
  LET c == CliOf[r]
  IN  /\ st[r] = "queued" /\ snd[c].pc = "idle"
      /\ st' = [st EXCEPT ![r] = "sending"]
      /\ snd' = [snd EXCEPT ![c].req = r,
                            ![c].pc = IF ~enable_fc \/ Kind[r] = "high" THEN "nofc" ELSE "check"]
      /\ _nnc_sendMDReq_updatefctime(c)
      /\ UNCHANGED <<win, wait_flag, rx, timer, net, links, drift>>

(* alloc_res_no_fc: a place without asking.                                 *)
alloc_res_no_fc(c) ==
  /\ snd[c].pc = "nofc"
  /\ res' = [res EXCEPT ![c].outMax = @ + 1, ![c].outRate = @ + 1]
  /\ Sender(c, "granted")
  /\ UNCHANGED <<win, wait_flag, slot, requests, rx, links, drift>>

(* should_trigger_fc; alloc_res first adds to both counters, ...            *)
should_trigger_fc(c) ==
  /\ snd[c].pc = "check"
  /\ IF res[c].avail
     THEN /\ res' = [res EXCEPT ![c].outMax = @ + 1, ![c].outRate = @ + 1]
          /\ snd' = [snd EXCEPT ![c].pc = "test", ![c].max = res[c].outMax + 1,
                                ![c].rate = res[c].outRate + 1]
     ELSE Sender(c, "sleep") /\ UNCHANGED res
  /\ UNCHANGED <<win, wait_flag, slot, requests, rx, links, drift>>

(* ... then compares what they were with the limits, ...                    *)
Limited(c) == snd[c].rate >= res[c].rate /\ res[c].rate # -1 /\ slot[c] # "start"

alloc_res(c) ==
  /\ snd[c].pc = "test"
  /\ IF snd[c].max > res[c].max
     THEN /\ wait_flag' = TRUE /\ UNCHANGED res
          /\ snd' = [snd EXCEPT ![c].pc = "undo", ![c].max = 0, ![c].rate = 0, ![c].ret = "waitq"]
     ELSE IF Limited(c)
     THEN /\ snd' = [snd EXCEPT ![c].pc = "undo", ![c].max = 0, ![c].rate = 0, ![c].ret = "sleep"]
          /\ UNCHANGED <<wait_flag, res>>
     ELSE /\ res' = [res EXCEPT ![c].aged = FALSE]
          /\ Sender(c, "granted") /\ UNCHANGED wait_flag
  /\ UNCHANGED <<win, slot, requests, rx, links, drift>>

(* Mutant: the rate is given back, the place is not.                        *)
AllocUndo_Keep(c) ==
  /\ snd[c].pc = "undo"
  /\ res' = [res EXCEPT ![c].outRate = @ - 1]
  /\ Sender(c, snd[c].ret)
  /\ UNCHANGED <<win, wait_flag, slot, requests, rx, links, drift>>

(* ... and subtracts again what it did not get.                             *)
AllocUndo(c) ==
  /\ snd[c].pc = "undo"
  /\ res' = [res EXCEPT ![c].outMax = @ - 1, ![c].outRate = @ - 1]
  /\ Sender(c, snd[c].ret)
  /\ UNCHANGED <<win, wait_flag, slot, requests, rx, links, drift>>

(* After a wait _nnc_sendMDReq_fccongestion gives up on a request that is   *)
(* not (any more) SENDING as an acquire request is; a report never is.  When *)
(* flow control was switched off meanwhile the request is sent without a    *)
(* place ("will cause wrong value of fc"), otherwise it asks again.         *)
GoOn(c) ==
  LET r == snd[c].req
  IN  \/ /\ ~(Kind[r] = "acquire" /\ st[r] = "sending")
         /\ snd' = [snd EXCEPT ![c] = Resting] /\ UNCHANGED drift
      \/ /\ Kind[r] = "acquire" /\ st[r] = "sending" /\ enable_fc
         /\ Sender(c, "check") /\ UNCHANGED drift
      \/ /\ Kind[r] = "acquire" /\ st[r] = "sending" /\ ~enable_fc
         /\ Sender(c, "granted") /\ drift' = [drift EXCEPT ![c] = @ - 1]

(* Mutant: the sender in the queue waits for a wake up only.                *)
do_flow_control_Forever(c) ==
  /\ snd[c].pc \in {"waitq", "sleep"}
  /\ snd[c].pc = "waitq" => ~wait_flag
  /\ _nnc_sendMDReq_updatefctime(c)
  /\ GoOn(c)
  /\ UNCHANGED <<win, wait_flag, requests, rx, links>>

(***************************************************************************)
(* do_flow_control waits for a fixed time, or in the queue until wait_flag  *)
(* is cleared or 100 jiffies have passed, so it always goes on.  Then a new *)
(* slot may have begun.                                                     *)
(***************************************************************************)
do_flow_control(c) ==
  /\ snd[c].pc \in {"waitq", "sleep"}
  /\ _nnc_sendMDReq_updatefctime(c)
  /\ GoOn(c)
  /\ UNCHANGED <<win, wait_flag, requests, rx, links>>

(* _nnc_send_acquireMDReq, _nnc_send_reportMDReq: SendDone, unless the       *)
(* timer was first; nothing is sent while the connection is down.           *)
SendDone(c) ==
  LET r == snd[c].req
  IN  /\ snd[c].pc = "granted"
      /\ snd' = [snd EXCEPT ![c] = Resting]
      /\ IF st[r] = "sending"
         THEN /\ st' = [st EXCEPT ![r] = "out"]
              /\ net' = IF res[c].avail THEN net \cup {r} ELSE net
              /\ UNCHANGED drift
         ELSE drift' = [drift EXCEPT ![c] = @ + 1] /\ UNCHANGED <<st, net>>
      /\ UNCHANGED <<res, win, wait_flag, slot, rx, timer, links>>

-----------------------------------------------------------------------------
(* dec_res_rate_max_reqs                                                    *)
dec_res_rate_max_reqs(c) ==
  /\ res' = [res EXCEPT ![c].outMax = @ - 1]
  /\ wait_flag' = (wait_flag /\ res[c].outMax - 1 >= res[c].max)

(* The receiver finds the request of an answer and gives its place back.    *)
Answer(r) ==
  LET c == CliOf[r]
  IN  /\ r \in net /\ rx[c] = NoRx /\ st[r] = "out"
      /\ st' = [st EXCEPT ![r] = "done"] /\ net' = net \ {r}
      /\ rx' = [rx EXCEPT ![c] = <<r, "dec">>]
      /\ UNCHANGED <<res, win, wait_flag, slot, snd, timer, links, drift>>

(* NNAckProc_reportMDReq is done then; parse_namenode_response goes on with *)
(* the response time, if it sees the resource available.                    *)
AnswerDec(c) ==
  /\ rx[c][2] = "dec"
  /\ dec_res_rate_max_reqs(c)
  /\ rx' = [rx EXCEPT ![c] = IF Kind[rx[c][1]] = "report" THEN NoRx
                             ELSE IF res[c].avail THEN <<rx[c][1], "time">>
                             ELSE <<rx[c][1], "rate">>]
  /\ UNCHANGED <<win, slot, snd, requests, links, drift>>

(* add_req_response_time under res_lock: a window of the last Num times.    *)
add_req_response_time(w, t) ==
  LET i == (w.index + 1) % Num
  IN  [w EXCEPT !.ready = @ \/ w.index + 1 = Num, !.index = i,
                !.total = @ + t - w.time[i], !.time[i] = t]

AnswerTime(c) ==
  /\ rx[c][2] = "time"
  /\ \E t \in Time : win' = [win EXCEPT ![c] = [add_req_response_time(win[c], t)
                                                  EXCEPT !.raced = @ \/ cut[c]]]
  /\ rx' = [rx EXCEPT ![c][2] = "rate"]
  /\ UNCHANGED <<res, wait_flag, slot, snd, requests, links, drift>>

(* update_resource_rate with what the namenode sent: a limit of 0 is not     *)
(* taken.  An answer without metadata (_nnack_alloc_MDArray fails) changes   *)
(* nothing.                                                                 *)
update_resource_rate(f, m) ==
  [f EXCEPT !.rate = m[1], !.max = IF m[2] > 0 THEN m[2] ELSE MinMax, !.start = m[3],
            !.slow = m[4]]

AnswerRate(c) ==
  /\ rx[c][2] = "rate"
  /\ \/ \E m \in FromNN : res' = [res EXCEPT ![c] = update_resource_rate(@, m)]
     \/ UNCHANGED res
  /\ rx' = [rx EXCEPT ![c] = NoRx]
  /\ UNCHANGED <<win, wait_flag, slot, snd, requests, links, drift>>

-----------------------------------------------------------------------------
(* The timer of an acquire request; one that was never granted a place will *)
(* give one back all the same.                                              *)
TimeoutFire(r) ==
  /\ timer[r] = "on" /\ Kind[r] # "report" /\ st[r] \in {"queued", "sending", "out"}
  /\ drift' = IF st[r] = "out" THEN drift ELSE [drift EXCEPT ![CliOf[r]] = @ - 1]
  /\ st' = [st EXCEPT ![r] = "done"] /\ net' = net \ {r}
  /\ timer' = [timer EXCEPT ![r] = "dec"]
  /\ UNCHANGED <<res, win, wait_flag, slot, snd, rx, links>>

TimeoutDec(r) ==
  /\ timer[r] = "dec"
  /\ dec_res_rate_max_reqs(CliOf[r])
  /\ timer' = [timer EXCEPT ![r] = "rate"]
  /\ UNCHANGED <<win, slot, snd, st, rx, net, links, drift>>

(* update_res_rate_timeout, under alloc_res_lock: both limits are halved.    *)
update_res_rate_timeout(f) ==
  [f EXCEPT !.max = IF @ >= MinMax THEN @ \div 2 ELSE MinMax,
            !.rate = IF @ > 1 THEN @ \div 2 ELSE 1]

TimeoutRate(r) ==
  LET c == CliOf[r]
  IN  /\ timer[r] = "rate" /\ snd[c].pc \notin {"test", "undo"}
      /\ res' = [res EXCEPT ![c] = update_res_rate_timeout(@)]
      /\ timer' = [timer EXCEPT ![r] = "off"]
      /\ UNCHANGED <<win, wait_flag, slot, snd, st, rx, net, links, drift>>

-----------------------------------------------------------------------------
(* _retry_discoC_conn: set_res_available clears the total, then the times,  *)
(* without a lock.  What is under way is lost.                              *)
ConnLost(c) ==
  /\ res[c].avail /\ lost < MaxLost
  /\ res' = [res EXCEPT ![c].avail = FALSE]
  /\ win' = [win EXCEPT ![c].total = 0, ![c].raced = rx[c][2] = "time"]
  /\ cut' = [cut EXCEPT ![c] = TRUE] /\ lost' = lost + 1
  /\ net' = {r \in net : CliOf[r] # c}
  /\ UNCHANGED <<wait_flag, slot, snd, st, rx, timer, switched, drift>>

set_res_available(c) ==
  /\ cut[c]
  /\ win' = [win EXCEPT ![c].time = NoWindow]
  /\ cut' = [cut EXCEPT ![c] = FALSE]
  /\ UNCHANGED <<res, wait_flag, slot, snd, requests, rx, lost, switched, drift>>

(* The connection is back: housekeeping queues again what was sent and not  *)
(* answered, then the resource is available (_post_req_retry).              *)
ConnBack(c) ==
  /\ ~res[c].avail /\ ~cut[c]
  /\ LET again == {r \in Req : CliOf[r] = c /\ st[r] = "out"}
     IN  /\ st' = [r \in Req |-> IF r \in again THEN "queued" ELSE st[r]]
         /\ drift' = [drift EXCEPT ![c] = @ + Cardinality(again)]
  /\ res' = [res EXCEPT ![c].avail = TRUE]
  /\ UNCHANGED <<win, wait_flag, slot, snd, rx, timer, net, links>>

-----------------------------------------------------------------------------
SenderStep(c) == \/ alloc_res_no_fc(c) \/ should_trigger_fc(c) \/ alloc_res(c)
                 \/ AllocUndo(c) \/ do_flow_control(c) \/ SendDone(c)
RxStep(c)     == AnswerDec(c) \/ AnswerTime(c) \/ AnswerRate(c)
TimerStep(r)  == TimeoutFire(r) \/ TimeoutDec(r) \/ TimeoutRate(r)
Link(c)       == set_res_available(c) \/ ConnBack(c)

Next == \/ \E r \in Req : Submit(r) \/ Peek(r) \/ Answer(r) \/ TimerStep(r)
        \/ \E c \in Cli : SenderStep(c) \/ RxStep(c) \/ Tick(c) \/ Link(c) \/ ConnLost(c)
        \/ set_config_item

Spec == Init /\ [][Next]_vars

(* Fairness: the sender runs, and timers fire.  Nothing is assumed of the   *)
(* namenode or of the connection.                                           *)
FairSpec == /\ Spec
            /\ \A c \in Cli : WF_vars(SenderStep(c))
            /\ \A r \in Req : WF_vars(TimerStep(r))

-----------------------------------------------------------------------------
(***************************************************************************)
(* alloc_out_res_max ("max # of requests no response") counts the requests   *)
(* that wait for an answer, up to four things the code does: a request      *)
(* that timed out before it was sent gives back a place it never had, a     *)
(* request sent again takes a second one, one refused after its grant keeps *)
(* it, and one that waits while flow control is switched off is sent        *)
(* without one.  Nothing else, no interleaving of alloc_res with an answer  *)
(* or a timeout, makes it drift.                                            *)
(***************************************************************************)
Holders(c) ==
  Cardinality({r \in Req : CliOf[r] = c /\ st[r] = "out"})
  + Cardinality({r \in Req : CliOf[r] = c /\ timer[r] = "dec"})
  + (IF rx[c][2] = "dec" THEN 1 ELSE 0)
  + (IF snd[c].pc \in {"test", "undo", "granted"} THEN 1 ELSE 0)
DriftIsExplained == \A c \in Cli : res[c].outMax = Holders(c) + drift[c]

(***************************************************************************)
(* The total the average response time is computed from is the sum of the   *)
(* window, unless a loss of the connection overlapped an answer (the check   *)
(* of is_available and set_res_available are not under res_lock).           *)
(***************************************************************************)
TotalIsWindow ==
  \A c \in Cli : ~cut[c] /\ ~win[c].raced =>
    win[c].total = FoldFunction(LAMBDA a, b : a + b, 0, win[c].time)

(***************************************************************************)
(* A namenode is never left with room for no request at all: timeouts halve *)
(* the limit, answers and ageing replace it, and it stays positive.         *)
(***************************************************************************)
AlwaysRoom == \A c \in Cli : res[c].max >= 1 /\ res[c].rate # 0

(* The numbers flow control decides by are right, up to what is named.      *)
FlowInv == DriftIsExplained /\ TotalIsWindow /\ AlwaysRoom

(***************************************************************************)
(* The sender of a client does not stop for ever in flow control, although  *)
(* the wake up of do_flow_control can be lost between the comparison of      *)
(* alloc_res and its subtraction, and although a counter can drift to its   *)
(* limit while no answer is under way.                                      *)
(***************************************************************************)
SenderGoesOn == \A c \in Cli : snd[c].pc # "idle" ~> snd[c].pc = "idle"
=============================================================================
