----------------------------- MODULE Connection -----------------------------
(***************************************************************************)
(* One connection of the connection manager and everything that works on   *)
(* it: the threads that send requests and reset the connection when a send *)
(* fails, the socket callback that reports a broken socket, the house-     *)
(* keeping thread, the connection retry task on its workqueue, the socket  *)
(* receiver thread, the worker that frees replaced sockets, and the        *)
(* shutdown of the driver.  Sockets are numbered in the order in which     *)
(* they are allocated; 0 is NULL.                                          *)
(***************************************************************************)
EXTENDS Naturals, Sequences, FiniteSets

CONSTANTS
  Senders,         \* threads that send on the connection (client workers)
  MaxSock,         \* bound: sockets allocated in the life of the connection
  MaxBad,          \* bound: packets with a wrong magic number
  BreakWhileDone,  \* whether the connection may be found broken before the
                   \* retry task that restored it has left the retry queue
  NoMem            \* whether a retry or housekeeping task may not be allocated

ASSUME ConnAssumption ==
  /\ MaxSock \in Nat \ {0}
  /\ MaxBad \in Nat
  /\ BreakWhileDone \in BOOLEAN /\ NoMem \in BOOLEAN
  /\ "hk" \notin Senders /\ "mk" \notin Senders /\ IsFiniteSet(Senders)

VARIABLES
  conn,    \* conn_state of the connection
  cur,     \* current_sock
  sock,    \* life of each socket: unallocated, open, in the release queue,
           \* taken by the release worker, freed
  alive,   \* whether the peer can be reached through the socket
  user,    \* whether sk_user_data names the connection and the callback is set
  ref,     \* sock_ref_cnt
  pc,      \* what each thread is doing with the connection
  held,    \* the socket a thread holds or carries to the release queue, or
           \* the receiver thread it is stopping
  rx,      \* the receiver thread created for a socket
  rxsock,  \* the socket that receiver thread reads from
  skrx,    \* skrx_thread_ds: the receiver thread the connection remembers
  crt,     \* the connection retry task: its state and its socket
  hkq,     \* hk_task_queue
  relq,    \* sock_rel_pools
  avail,   \* is_available of the target in the flow control
  nbad,    \* number of bad packets so far
  run      \* FALSE once the driver is shutting down

vars == <<conn, cur, sock, alive, user, ref, pc, held, rx, rxsock, skrx, crt,
          hkq, relq, avail, nbad, run>>

ConnStates == {"INIT", "Connecting", "Connected", "ConnectRetry", "Closing", "End"}
Threads == Senders \cup {"hk", "mk"}     \* hk_worker; the creator of the connection
Socks == 1..MaxSock
Allocated == {s \in Socks : sock[s] # "none"}
NoTask == [st |-> "none", sock |-> 0, up |-> FALSE]

(* Bound: a connection breaks only while a socket is left to replace it.   *)
CanBreak == Cardinality(Allocated) < MaxSock

(* The retry task has called its done function and is still in the queue.  *)
TaskDone == crt.st \in {"Done", "Serving"}
DetectOK == BreakWhileDone \/ ~TaskDone

Init ==
  /\ conn = "INIT" /\ cur = 0
  /\ sock = [s \in Socks |-> "none"]
  /\ alive = [s \in Socks |-> FALSE]
  /\ user = [s \in Socks |-> FALSE]
  /\ ref = [s \in Socks |-> 0]
  /\ pc = [t \in Threads |-> IF t = "mk" THEN "create" ELSE "idle"]
  /\ held = [t \in Threads |-> 0]
  /\ rx = [s \in Socks |-> "none"] /\ rxsock = [s \in Socks |-> 0] /\ skrx = 0
  /\ crt = NoTask /\ hkq = <<>> /\ relq = <<>>
  /\ avail = TRUE /\ nbad = 0 /\ run = TRUE

-----------------------------------------------------------------------------
(* The state machine of a connection (conn_state_fsm.c): which event moves *)
(* it where, and the action the caller of update_conn_state has to carry   *)
(* out.                                                                    *)
(* _update_connStat: the state after event e.  Every other pair of a state *)
(* and an event leaves the state alone.                                    *)
update_conn_state(st, e) ==
  CASE st = "INIT" /\ e = "Connect"                                   -> "Connecting"
    [] st \in {"Connecting", "ConnectRetry"} /\ e = "Connect_OK"      -> "Connected"
    [] st = "Connecting" /\ e = "Connect_FAIL"                        -> "ConnectRetry"
    [] st = "Connected" /\ e = "Connect_Broken"                       -> "ConnectRetry"
    [] st \in {"Connecting", "Connected", "ConnectRetry"} /\ e = "STOP" -> "Closing"
    [] st = "Closing" /\ e = "STOP_DONE"                              -> "End"
    [] OTHER                                                          -> st

(* The action is CONN_A_NoAction exactly when the state does not move.     *)
acts(st, e) == update_conn_state(st, e) # st

(* update_conn_state_and_sock: under conn_stlock the state moves and, when *)
(* it moved, the socket is replaced.                                       *)
update_conn_state_and_sock(e, s) ==
  /\ conn' = update_conn_state(conn, e)
  /\ cur' = IF acts(conn, e) THEN s ELSE cur

(* alloc_sock_wrapper: the next socket, with no reference and no callback. *)
Next_sock == Cardinality(Allocated) + 1
alloc_sock(s) == s = Next_sock /\ s \in Socks /\ sock' = [sock EXCEPT ![s] = "open"]

Goto(t, l) == pc' = [pc EXCEPT ![t] = l]

(* add_hk_task: nothing is queued when the housekeeping has ended or there  *)
(* is no memory for the task.                                               *)
add_hk_task(task) ==
  \/ run /\ hkq' = Append(hkq, task)
  \/ (~run \/ NoMem) /\ hkq' = hkq

-----------------------------------------------------------------------------
(* connMgr_create_conn and connTarget, in the thread that creates the      *)
(* connection: connect_target either connects or gives up and frees its    *)
(* socket again (its number is not used up then).                          *)
Create ==
  /\ pc["mk"] = "create" /\ run
  /\ update_conn_state_and_sock("Connect", 0)
  /\ Goto("mk", "connect")
  /\ UNCHANGED <<sock, alive, user, ref, held, rx, rxsock, skrx, crt, hkq, relq,
                 avail, nbad, run>>

(* sockImpl_connDONE_fn up to the state change. *)
ConnectOK(s) ==
  /\ pc["mk"] = "connect" /\ alloc_sock(s)
  /\ alive' = [alive EXCEPT ![s] = TRUE]
  /\ update_conn_state_and_sock("Connect_OK", s)
  /\ Goto("mk", "service")
  /\ UNCHANGED <<user, ref, held, rx, rxsock, skrx, crt, hkq, relq, avail, nbad, run>>

(* The rest of sockImpl_connDONE_fn: sk_user_data, then the conn_done_fn   *)
(* of the client, which starts a receiver thread and, after a reconnect,   *)
(* asks the housekeeping thread to send the requests again.                *)
conn_done_fn(s, do_req_retry, installed) ==
  /\ user' = [user EXCEPT ![s] = installed]
  /\ rx' = [rx EXCEPT ![s] = "start"]
  /\ skrx' = s
  /\ IF do_req_retry THEN add_hk_task("back") ELSE UNCHANGED hkq

ConnectServe ==
  /\ pc["mk"] = "service"
  /\ conn_done_fn(1, FALSE, TRUE)
  /\ Goto("mk", "idle")
  /\ UNCHANGED <<conn, cur, sock, alive, ref, held, rxsock, crt, relq, avail, nbad, run>>

(* _retry_discoC_conn with CONN_E_Connect_FAIL. *)
ConnectFail ==
  /\ pc["mk"] = "connect"
  /\ update_conn_state_and_sock("Connect_FAIL", 0)
  /\ Goto("mk", "enq")
  /\ UNCHANGED <<sock, alive, user, ref, held, rx, rxsock, skrx, crt, hkq, relq,
                 avail, nbad, run>>

-----------------------------------------------------------------------------
(* sockImpl_tx_send, one sender at a time (sock_mux).  get_sock_wrapper     *)
(* takes a reference under conn_stlock when the connection is connected.   *)
(* Otherwise nothing is sent and the caller resets the connection: no step  *)
(* while it is lost, and the reset after a failed send once it is back.     *)
GetSock(t) ==
  /\ pc[t] = "idle" /\ \A u \in Senders : pc[u] # "send"
  /\ conn = "Connected" /\ cur # 0 /\ run
  /\ ref' = [ref EXCEPT ![cur] = @ + 1]
  /\ held' = [held EXCEPT ![t] = cur]
  /\ Goto(t, "send")
  /\ UNCHANGED <<conn, cur, sock, alive, user, rx, rxsock, skrx, crt, hkq, relq,
                 avail, nbad, run>>

(* deRef_conn_sock *)
deRef(s) == ref' = [ref EXCEPT ![s] = @ - 1]

(* The send ends.  It fails when the peer cannot be reached, and it may    *)
(* time out on a good socket too.  The caller then resets the connection,  *)
(* but for the heartbeat worker and a failed write to a datanode.          *)
SendEnd(t, res) ==
  /\ pc[t] = "send"
  /\ (res = "ok") => alive[held[t]]
  /\ (res = "fail" /\ alive[held[t]]) => CanBreak
  /\ deRef(held[t])
  /\ held' = [held EXCEPT ![t] = 0]
  /\ Goto(t, IF res = "fail" THEN "reset" ELSE "idle")
  /\ UNCHANGED <<conn, cur, sock, alive, user, rx, rxsock, skrx, crt, hkq, relq,
                 avail, nbad, run>>

SendResults == {"ok", "fail", "no reset"}

-----------------------------------------------------------------------------
(* sockImpl_reset_conn, in a sender or in the housekeeping thread, one     *)
(* step for each piece of _retry_discoC_conn.  A reset of a connection     *)
(* that is not connected does nothing.                                     *)
Reset(t) ==
  /\ pc[t] = "reset"
  /\ \/ /\ acts(conn, "Connect_Broken") /\ CanBreak /\ DetectOK
        /\ held' = [held EXCEPT ![t] = cur]
        /\ update_conn_state_and_sock("Connect_Broken", 0)
        /\ Goto(t, "enq")
     \/ /\ ~acts(conn, "Connect_Broken") \/ ~CanBreak
        /\ Goto(t, "idle")
        /\ UNCHANGED <<conn, cur, held>>
  /\ UNCHANGED <<sock, alive, user, ref, rx, rxsock, skrx, crt, hkq, relq, avail,
                 nbad, run>>

(* enq_release_sock *)
enq_release_sock(s) ==
  /\ relq' = IF s = 0 THEN relq ELSE Append(relq, s)
  /\ sock' = IF s = 0 THEN sock ELSE [sock EXCEPT ![s] = "queued"]

(* set_res_available(FALSE) and the old socket goes to the release worker. *)
RetryEnq(t) ==
  /\ pc[t] = "enq"
  /\ avail' = FALSE
  /\ enq_release_sock(held[t])
  /\ held' = [held EXCEPT ![t] = 0]
  /\ Goto(t, "add")
  /\ UNCHANGED <<conn, cur, alive, user, ref, rx, rxsock, skrx, crt, hkq, nbad, run>>

(* sockImpl_reconnect.  add_conn_retry_task is refused when the manager is *)
(* shutting down, when a task of this target is in the queue or when there *)
(* is no memory for it; the receiver thread is stopped only when the task  *)
(* was accepted, while that runs already.                                  *)
add_conn_retry_task(s) ==
  /\ run /\ crt.st = "none"
  /\ alloc_sock(s)
  /\ crt' = [st |-> "Waiting", sock |-> s, up |-> FALSE]

Reconnect(t) ==
  /\ pc[t] = "add"
  /\ \/ \E s \in Socks : add_conn_retry_task(s) /\ Goto(t, "stop")
     \/ /\ ~run \/ crt.st # "none" \/ NoMem
        /\ Goto(t, "idle")
        /\ UNCHANGED <<crt, sock>>
  /\ UNCHANGED <<conn, cur, alive, user, ref, held, rx, rxsock, skrx, hkq, relq,
                 avail, nbad, run>>

(* The thread that skrx_thread_ds names is stopped; the field is cleared    *)
(* when it has ended, whatever it names by then.                            *)
StopRx(t) ==
  /\ pc[t] = "stop"
  /\ held' = [held EXCEPT ![t] = skrx]
  /\ Goto(t, IF skrx = 0 THEN "idle" ELSE "stopping")
  /\ UNCHANGED <<conn, cur, sock, alive, user, ref, rx, rxsock, skrx, crt, hkq, relq,
                 avail, nbad, run>>

(* stop_sk_rx_thread waits until thread k has ended, which it does when its *)
(* receive times out; a thread that reads from a socket drops its reference *)
(* on the way out.                                                          *)
stop_sk_rx_thread(k) ==
  /\ rx' = IF k = 0 THEN rx ELSE [rx EXCEPT ![k] = "none"]
  /\ rxsock' = IF k = 0 THEN rxsock ELSE [rxsock EXCEPT ![k] = 0]
  /\ IF k # 0 /\ rx[k] = "run" THEN deRef(rxsock[k]) ELSE UNCHANGED ref
  /\ skrx' = 0

(* Mutant: the receiver thread is stopped only once the old socket is freed. *)
StopDone_AfterFree(t) ==
  /\ pc[t] = "stopping" /\ \A s \in Socks : sock[s] \notin {"queued", "check"}
  /\ stop_sk_rx_thread(held[t])
  /\ held' = [held EXCEPT ![t] = 0]
  /\ Goto(t, "idle")
  /\ UNCHANGED <<conn, cur, sock, alive, user, crt, hkq, relq, avail, nbad, run>>

StopDone(t) ==
  /\ pc[t] = "stopping"
  /\ stop_sk_rx_thread(held[t])
  /\ held' = [held EXCEPT ![t] = 0]
  /\ Goto(t, "idle")
  /\ UNCHANGED <<conn, cur, sock, alive, user, crt, hkq, relq, avail, nbad, run>>

-----------------------------------------------------------------------------
(* The receiver thread takes a reference on the socket of the connection   *)
(* and ends at once when there is none.                                    *)
RxStart(s) ==
  /\ rx[s] = "start"
  /\ \/ /\ conn = "Connected" /\ cur # 0
        /\ rx' = [rx EXCEPT ![s] = "run"]
        /\ rxsock' = [rxsock EXCEPT ![s] = cur]
        /\ ref' = [ref EXCEPT ![cur] = @ + 1]
     \/ /\ ~(conn = "Connected" /\ cur # 0)
        /\ rx' = [rx EXCEPT ![s] = "none"]
        /\ UNCHANGED <<rxsock, ref>>
  /\ UNCHANGED <<conn, cur, sock, alive, user, pc, held, skrx, crt, hkq, relq,
                 avail, nbad, run>>

(* A packet with a wrong magic number: the receiver (or the ack worker)    *)
(* asks the housekeeping thread to reset the connection.                   *)
BadPacket(s) ==
  /\ rx[s] = "run" /\ alive[rxsock[s]] /\ nbad < MaxBad /\ run
  /\ nbad' = nbad + 1
  /\ add_hk_task("reset")
  /\ UNCHANGED <<conn, cur, sock, alive, user, ref, pc, held, rx, rxsock, skrx,
                 crt, relq, avail, run>>

(* Mutant: the callback leaves the retry to nobody. *)
sock_state_change_NoTask(s, lives) ==
  \/ /\ user[s] /\ acts(conn, "Connect_Broken") /\ CanBreak /\ DetectOK
     /\ update_conn_state_and_sock("Connect_Broken", 0)
     /\ avail' = FALSE
     /\ relq' = Append(relq, cur)
     /\ sock' = [lives EXCEPT ![cur] = "queued"]
     /\ UNCHANGED hkq
  \/ /\ ~(user[s] /\ acts(conn, "Connect_Broken") /\ CanBreak)
     /\ sock' = lives
     /\ UNCHANGED <<conn, cur, avail, relq, hkq>>

(* sock_state_change -> _sock_rx_err_func: socket s reports its loss to    *)
(* the connection its sk_user_data names, whichever socket that uses by    *)
(* now.  The callback runs in softirq context, so it leaves the retry to   *)
(* the housekeeping thread.  The lives of the sockets start from "lives".  *)
sock_state_change(s, lives) ==
  \/ /\ user[s] /\ acts(conn, "Connect_Broken") /\ CanBreak
     /\ DetectOK
     /\ update_conn_state_and_sock("Connect_Broken", 0)
     /\ avail' = FALSE
     /\ relq' = Append(relq, cur)
     /\ sock' = [lives EXCEPT ![cur] = "queued"]
     /\ add_hk_task("retry")
  \/ /\ ~(user[s] /\ acts(conn, "Connect_Broken") /\ CanBreak)
     /\ sock' = lives
     /\ UNCHANGED <<conn, cur, avail, relq, hkq>>

(* The peer of an open socket is lost. *)
SockBreak(s) ==
  /\ alive[s] /\ CanBreak
  /\ alive' = [alive EXCEPT ![s] = FALSE]
  /\ sock_state_change(s, sock)
  /\ UNCHANGED <<user, ref, pc, held, rx, rxsock, skrx, crt, nbad, run>>

(* A socket whose connect was still in progress gets connected after all.  *)
SockUp(s) ==
  /\ cur = s /\ ~alive[s] /\ ~user[s] /\ ~(crt.st = "Done" /\ crt.up)
  /\ pc["mk"] # "service"
  /\ alive' = [alive EXCEPT ![s] = TRUE]
  /\ UNCHANGED <<conn, cur, sock, user, ref, pc, held, rx, rxsock, skrx, crt, hkq,
                 relq, avail, nbad, run>>

-----------------------------------------------------------------------------
(* hk_worker takes the first task of the queue.                            *)
HkTask ==
  /\ pc["hk"] = "idle" /\ hkq # <<>>
  /\ hkq' = Tail(hkq)
  /\ \/ Head(hkq) = "retry" /\ Goto("hk", "add") /\ UNCHANGED avail
     \/ Head(hkq) = "reset" /\ Goto("hk", "reset") /\ UNCHANGED avail
     \/ Head(hkq) = "back" /\ avail' = TRUE /\ UNCHANGED pc
  /\ UNCHANGED <<conn, cur, sock, alive, user, ref, held, rx, rxsock, skrx, crt,
                 relq, nbad, run>>

-----------------------------------------------------------------------------
(* connection_retry_handler runs CONN_RETRY_INTVL (5 s) after the task was *)
(* queued, while the old receiver thread may take SOCK_TIME_SO_RCVTIMEO    *)
(* (10 s) to end: nothing orders the two.  When the manager is shutting    *)
(* down the handler returns at once.                                       *)
RetryStart ==
  /\ crt.st = "Waiting" /\ run
  /\ crt' = [crt EXCEPT !.st = "Connecting"]
  /\ UNCHANGED <<conn, cur, sock, alive, user, ref, pc, held, rx, rxsock, skrx,
                 hkq, relq, avail, nbad, run>>

RetryFail ==
  /\ crt.st = "Connecting"
  /\ crt' = [crt EXCEPT !.st = "Waiting"]
  /\ UNCHANGED <<conn, cur, sock, alive, user, ref, pc, held, rx, rxsock, skrx,
                 hkq, relq, avail, nbad, run>>

(* The connect succeeds, or reports -EALREADY: then the socket is not      *)
(* connected yet and has no callback, and is taken for a good one.  When   *)
(* the connection takes no new socket (it is closing) or the manager is    *)
(* shutting down, the task ends and its socket is freed.                   *)
RetryOK(up) ==
  /\ crt.st = "Connecting" /\ (up \/ CanBreak)
  /\ \/ /\ run /\ acts(conn, "Connect_OK")
        /\ update_conn_state_and_sock("Connect_OK", crt.sock)
        /\ alive' = [alive EXCEPT ![crt.sock] = up]
        /\ crt' = [crt EXCEPT !.st = "Done", !.up = up]
        /\ UNCHANGED sock
     \/ /\ ~(run /\ acts(conn, "Connect_OK"))
        /\ crt' = NoTask
        /\ sock' = [sock EXCEPT ![crt.sock] = "freed"]
        /\ UNCHANGED <<conn, cur, alive>>
  /\ UNCHANGED <<user, ref, pc, held, rx, rxsock, skrx, hkq, relq, avail, nbad, run>>

(* The rest of the done function. *)
RetryServe ==
  /\ crt.st = "Done"
  /\ conn_done_fn(crt.sock, TRUE, crt.up)
  /\ crt' = [crt EXCEPT !.st = "Serving"]
  /\ UNCHANGED <<conn, cur, sock, alive, ref, pc, held, rxsock, relq, avail, nbad, run>>

(* _conn_retry_success takes the task out of the queue afterwards. *)
RetryRemove ==
  /\ crt.st = "Serving"
  /\ crt' = NoTask
  /\ UNCHANGED <<conn, cur, sock, alive, user, ref, pc, held, rx, rxsock, skrx,
                 hkq, relq, avail, nbad, run>>

-----------------------------------------------------------------------------
(* sock_rel_worker_fn takes the first socket and waits for its references; *)
(* the shutdown of the socket in free_sock_wrapper runs its callback once  *)
(* more.  rel_sock_release_mgr frees the rest of the queue the same way.   *)
RelTake ==
  /\ relq # <<>> /\ \A s \in Socks : sock[s] # "check"
  /\ sock' = [sock EXCEPT ![Head(relq)] = "check"]
  /\ relq' = Tail(relq)
  /\ UNCHANGED <<conn, cur, alive, user, ref, pc, held, rx, rxsock, skrx, crt, hkq,
                 avail, nbad, run>>

(* Mutant: the worker does not wait for the references. *)
check_sock_ref_None(s) == TRUE

check_sock_ref(s) == ref[s] = 0

RelFree(s) ==
  /\ sock[s] = "check" /\ check_sock_ref(s)
  /\ sock_state_change(s, [sock EXCEPT ![s] = "freed"])
  /\ alive' = [alive EXCEPT ![s] = FALSE]
  /\ user' = [user EXCEPT ![s] = FALSE]
  /\ UNCHANGED <<ref, pc, held, rx, rxsock, skrx, crt, nbad, run>>

-----------------------------------------------------------------------------
(* The driver shuts down once nobody works on the connection any more:     *)
(* rel_housekeeping_res drops the tasks, rel_conn_manager clears the       *)
(* running bits of the connection manager and of the retry manager.        *)
Shutdown ==
  /\ run /\ \A t \in Threads : pc[t] = "idle"
  /\ run' = FALSE /\ hkq' = <<>>
  /\ UNCHANGED <<conn, cur, sock, alive, user, ref, pc, held, rx, rxsock, skrx,
                 crt, relq, avail, nbad>>

(* cancel_conn_retry_task: it waits for a task that is connecting. *)
CancelTask ==
  /\ ~run /\ crt.st = "Waiting"
  /\ crt' = NoTask
  /\ sock' = [sock EXCEPT ![crt.sock] = "freed"]
  /\ UNCHANGED <<conn, cur, alive, user, ref, pc, held, rx, rxsock, skrx, hkq,
                 relq, avail, nbad, run>>

(* close_discoC_conn, up to set_res_available. *)
CloseStop ==
  /\ ~run /\ crt.st = "none" /\ pc["mk"] = "idle" /\ acts(conn, "STOP")
  /\ held' = [held EXCEPT !["mk"] = cur]
  /\ update_conn_state_and_sock("STOP", 0)
  /\ avail' = FALSE
  /\ Goto("mk", "close")
  /\ UNCHANGED <<sock, alive, user, ref, rx, rxsock, skrx, crt, hkq, relq, nbad, run>>

(* sockImpl_close_conn, then the connection is given back. *)
CloseConn ==
  /\ pc["mk"] = "close"
  /\ enq_release_sock(held["mk"])
  /\ stop_sk_rx_thread(skrx)
  /\ update_conn_state_and_sock("STOP_DONE", 0)
  /\ held' = [held EXCEPT !["mk"] = 0]
  /\ Goto("mk", "idle")
  /\ UNCHANGED <<alive, user, crt, hkq, avail, nbad, run>>

-----------------------------------------------------------------------------
Next ==
  \/ Create \/ ConnectServe \/ ConnectFail
  \/ \E s \in Socks : ConnectOK(s) \/ RxStart(s) \/ BadPacket(s) \/ SockBreak(s)
                      \/ SockUp(s) \/ RelFree(s)
  \/ \E t \in Senders : GetSock(t) \/ \E res \in SendResults : SendEnd(t, res)
  \/ \E t \in Threads : Reset(t) \/ RetryEnq(t) \/ Reconnect(t) \/ StopRx(t)
                        \/ StopDone(t)
  \/ HkTask \/ RetryStart \/ RetryFail \/ RetryServe \/ RetryRemove \/ RelTake
  \/ \E up \in BOOLEAN : RetryOK(up)
  \/ Shutdown \/ CancelTask \/ CloseStop \/ CloseConn

Spec == Init /\ [][Next]_vars

(* Every thread that can go on does; the target of the connection can be   *)
(* reached again sooner or later, so a connect that is tried again and     *)
(* again succeeds.  Nothing makes a socket break, a thread send or the     *)
(* driver shut down.                                                       *)
Fairness ==
  /\ WF_vars(Create) /\ WF_vars(ConnectServe) /\ WF_vars(ConnectFail)
  /\ WF_vars(HkTask) /\ WF_vars(RetryStart) /\ WF_vars(RetryServe)
  /\ WF_vars(RetryRemove) /\ WF_vars(RelTake)
  /\ SF_vars(RetryOK(TRUE))
  /\ WF_vars(CancelTask) /\ WF_vars(CloseStop) /\ WF_vars(CloseConn)
  /\ \A s \in Socks : WF_vars(RxStart(s)) /\ WF_vars(RelFree(s))
  /\ \A t \in Senders : WF_vars(\E res \in SendResults : SendEnd(t, res))
  /\ \A t \in Threads : /\ WF_vars(Reset(t)) /\ WF_vars(RetryEnq(t))
                         /\ WF_vars(Reconnect(t)) /\ WF_vars(StopRx(t))
                         /\ WF_vars(StopDone(t))

FairSpec == Spec /\ Fairness

-----------------------------------------------------------------------------
TaskStates == {"none", "Waiting", "Connecting", "Done", "Serving"}

(* Every variable keeps its type; in particular no reference count of a    *)
(* socket (sock_ref_cnt) goes below zero or above the number of threads    *)
(* that may hold one.                                                      *)
TypeOK ==
  /\ conn \in ConnStates /\ cur \in 0..MaxSock
  /\ sock \in [Socks -> {"none", "open", "queued", "check", "freed"}]
  /\ alive \in [Socks -> BOOLEAN] /\ user \in [Socks -> BOOLEAN]
  /\ ref \in [Socks -> 0..(Cardinality(Senders) + MaxSock)]
  /\ pc \in [Threads -> {"idle", "create", "connect", "service", "send", "reset",
                         "enq", "add", "stop", "stopping", "close"}]
  /\ held \in [Threads -> 0..MaxSock]
  /\ rx \in [Socks -> {"none", "start", "run"}] /\ rxsock \in [Socks -> 0..MaxSock]
  /\ skrx \in 0..MaxSock
  /\ crt \in [st : TaskStates, sock : 0..MaxSock, up : BOOLEAN]
  /\ hkq \in Seq({"retry", "back", "reset"}) /\ relq \in Seq(Socks)
  /\ avail \in BOOLEAN /\ nbad \in 0..MaxBad /\ run \in BOOLEAN

(* A lost connection is always being restored: a retry task that has not   *)
(* yet connected is queued, or the housekeeping queue holds the request to *)
(* queue one, or a thread is on its way to queue one (_retry_discoC_conn,  *)
(* sockImpl_reconnect).                                                    *)
Retried ==
  (conn = "ConnectRetry" /\ run) =>
     \/ crt.st \in {"Waiting", "Connecting"}
     \/ \E i \in 1..Len(hkq) : hkq[i] = "retry"
     \/ \E t \in Threads : pc[t] \in {"enq", "add"}

(* A socket is freed only when nobody can use it any more: no sender and   *)
(* no receiver thread holds it, the connection and the retry task do not   *)
(* name it, and the connection never names one that waits to be freed      *)
(* (get_sock_wrapper, deRef_conn_sock, _check_sock_ref).                   *)
FreedIsUnused ==
  /\ cur # 0 => sock[cur] = "open"
  /\ \A t \in Senders : pc[t] = "send" => sock[held[t]] # "freed"
  /\ \A s \in Socks : rx[s] = "run" => sock[rxsock[s]] # "freed"
  /\ crt.st # "none" => sock[crt.sock] # "freed"

(* The connection knows its receiver thread: no receiver thread is left    *)
(* behind that nobody would ever stop and that would keep its socket from  *)
(* being freed (skrx_thread_ds, sockImpl_reconnect).                       *)
ReceiverKnown == \A s \in Socks : rx[s] = "run" => skrx = s

(* A lost connection comes back, unless the driver is shut down.           *)
Reconnects == (conn = "ConnectRetry") ~> (conn \in {"Connected", "Closing", "End"})

(* A socket that was replaced is freed in the end.                         *)
ReplacedIsFreed == \A s \in Socks : (sock[s] = "queued") ~> (sock[s] = "freed")

(* When a connection came back, its requests are sent again and its target *)
(* is available again, unless it is lost again before                      *)
(* (TASK_*_CONN_BACK_REQ_RETRY, _post_req_retry).                          *)
BackIsAvailable ==
  (conn = "Connected" /\ ~avail) ~> (avail \/ conn # "Connected" \/ ~run)

(* The sockets of a connection are safe: none is freed in use, whichever    *)
(* threads are stopped or left behind (sock_ref_cnt, sock_rel_worker_fn).   *)
SocketsAreSafe == TypeOK /\ FreedIsUnused

(* A lost connection is restored: it comes back, its requests are sent      *)
(* again, and its old socket is freed unless a receiver thread that the     *)
(* connection has forgotten keeps it (conn_retry_handler_common,            *)
(* sock_rel_worker_fn, _post_req_retry).                                    *)
Restored == Reconnects /\ BackIsAvailable /\ ([]ReceiverKnown => ReplacedIsFreed)
=============================================================================
