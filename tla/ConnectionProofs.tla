-------------------------- MODULE ConnectionProofs --------------------------
(***************************************************************************)
(* Proofs about Connection, for any finite set of sending threads and any   *)
(* number of sockets, when a connection is not found broken before the      *)
(* retry task that restored it has left the queue (the setting in which     *)
(* both properties are known to fail).                                      *)
(***************************************************************************)
EXTENDS Connection, FiniteSetTheorems, TLAPS

RetryQueued == \E i \in 1 .. Len(hkq) : hkq[i] = "retry"

(* What the state of the connection says of its socket, of its creator and  *)
(* of the retry task.                                                       *)
StateInv ==
  /\ conn = "Connected" <=> cur # 0
  /\ pc["mk"] = "create" <=> conn = "INIT"
  /\ pc["mk"] = "connect" <=> conn = "Connecting"
  /\ crt.st \in {"Waiting", "Connecting"} => conn = "ConnectRetry"
  /\ TaskDone => conn = "Connected" /\ cur = crt.sock

(* A lost connection is restored by one actor: a thread on its way to queue *)
(* a retry task, a housekeeping task, or the retry task.                    *)
OneRetry ==
  /\ \A t, u \in Threads :
       pc[t] \in {"enq", "add", "close"} /\ pc[u] \in {"enq", "add", "close"} => t = u
  /\ \A t \in Threads : pc[t] \in {"enq", "add"} =>
       conn = "ConnectRetry" /\ crt.st = "none" /\ ~RetryQueued
  /\ \A t \in Threads : pc[t] = "close" =>
       t = "mk" /\ ~run /\ conn = "Closing" /\ crt.st = "none"
  /\ RetryQueued => conn = "ConnectRetry" /\ crt.st = "none"
  /\ \A i, j \in 1 .. Len(hkq) : hkq[i] = "retry" /\ hkq[j] = "retry" => i = j
  /\ ~run => hkq = <<>> /\ \A t \in Threads : pc[t] \in {"idle", "close"}

(* Where each socket is.  Sockets are allocated in their order; ...         *)
SockOrder == \A s, x \in Socks : sock[s] = "none" /\ s < x => sock[x] = "none"

(* ... one that is connected, being connected or being replaced is open; ...*)
SockPlaces ==
  /\ cur # 0 => sock[cur] = "open"
  /\ crt.st # "none" => crt.sock # 0
  /\ crt.st \in {"Waiting", "Connecting"} => sock[crt.sock] = "open"
  /\ \A t \in Threads : pc[t] \in {"enq", "close"} /\ held[t] # 0 => sock[held[t]] = "open"
  /\ \A t \in Threads : held[t] # 0 => pc[t] \in {"send", "enq", "stopping", "close"}

(* ... the release queue holds a socket once; ...                           *)
RelQueue ==
  /\ \A i \in 1 .. Len(relq) : sock[relq[i]] = "queued"
  /\ \A i, j \in 1 .. Len(relq) : relq[i] = relq[j] => i = j

(* ... and nobody refers to one that is not allocated, not yet connected or *)
(* freed.                                                                   *)
NoRef ==
  /\ \A s \in Socks : sock[s] \in {"none", "freed"} => ref[s] = 0
  /\ crt.st \in {"Waiting", "Connecting"} => ref[crt.sock] = 0

SockInv == SockOrder /\ SockPlaces /\ RelQueue /\ NoRef

(* One sender at a time and the receiver threads hold the references.       *)
Sending(s)     == \E t \in Senders : pc[t] = "send" /\ held[t] = s
Reads(r, k, s) == {x \in Socks : r[x] = "run" /\ k[x] = s}
RefInv ==
  /\ \A t, u \in Senders : pc[t] = "send" /\ pc[u] = "send" => t = u
  /\ \A t \in Senders : pc[t] = "send" => held[t] # 0
  /\ \A s \in Socks : rx[s] = "run" => rxsock[s] # 0
  /\ \A s \in Socks : ref[s] = (IF Sending(s) THEN 1 ELSE 0) + Cardinality(Reads(rx, rxsock, s))

(* A socket gets its receiver thread once, after it was connected.          *)
RxInv ==
  /\ \A s \in Socks : sock[s] = "none" => rx[s] = "none"
  /\ crt.st \in {"Waiting", "Connecting", "Done"} => rx[crt.sock] = "none"
  /\ pc["mk"] \in {"create", "connect"} => \A s \in Socks : sock[s] = "none"
  /\ pc["mk"] = "service" => /\ sock[1] # "none" /\ rx[1] = "none"
                             /\ crt.st \in {"Waiting", "Connecting", "Done"} => crt.sock # 1

ConnInv == TypeOK /\ StateInv /\ OneRetry /\ SockInv /\ RefInv /\ RxInv
-----------------------------------------------------------------------------
(* The state machine of a connection, event by event.                       *)
LEMMA ConnFacts ==
  ASSUME NEW c
  PROVE  /\ acts(c, "Connect") <=> c = "INIT"
         /\ acts(c, "Connect_OK") <=> c \in {"Connecting", "ConnectRetry"}
         /\ acts(c, "Connect_FAIL") <=> c = "Connecting"
         /\ acts(c, "Connect_Broken") <=> c = "Connected"
         /\ acts(c, "STOP") <=> c \in {"Connecting", "Connected", "ConnectRetry"}
         /\ acts(c, "STOP_DONE") <=> c = "Closing"
         /\ update_conn_state("INIT", "Connect") = "Connecting"
         /\ update_conn_state("Connecting", "Connect_OK") = "Connected"
         /\ update_conn_state("ConnectRetry", "Connect_OK") = "Connected"
         /\ update_conn_state("Connecting", "Connect_FAIL") = "ConnectRetry"
         /\ update_conn_state("Connected", "Connect_Broken") = "ConnectRetry"
         /\ c \in {"Connecting", "Connected", "ConnectRetry"} =>
              update_conn_state(c, "STOP") = "Closing"
         /\ update_conn_state("Closing", "STOP_DONE") = "End"
BY DEF acts, update_conn_state

(* alloc_sock takes a socket that was never allocated, the lowest one.      *)
Fresh(s) == s \in Socks /\ sock[s] = "none" /\ \A x \in Socks : x < s => sock[x] # "none"

LEMMA NextIsFresh ==
  ASSUME TypeOK, SockInv, Next_sock \in Socks
  PROVE  Fresh(Next_sock)
<1> DEFINE n == Cardinality(Allocated)
<1>1. IsFiniteSet(Socks) /\ Allocated \subseteq Socks
  BY ConnAssumption, FS_Interval DEF Socks, Allocated
<1>2. IsFiniteSet(Allocated) /\ n \in Nat /\ n = Cardinality(Allocated)
  BY <1>1, FS_Subset, FS_CardinalityType
<1>0. n + 1 \in Socks
  BY DEF Next_sock
<1> HIDE DEF n
<1>3. sock[n + 1] = "none"
  <2> SUFFICES ASSUME sock[n + 1] # "none" PROVE FALSE
    OBVIOUS
  <2>1. 1 .. n + 1 \subseteq Allocated
    <3> SUFFICES ASSUME NEW x \in 1 .. n + 1, sock[x] = "none" PROVE FALSE
      BY <1>0, <1>2, ConnAssumption DEF Allocated, Socks
    <3> QED BY <1>0, <1>2, ConnAssumption DEF SockInv, SockOrder, Socks
  <2>2. Cardinality(1 .. n + 1) = n + 1
    BY <1>2, FS_Interval
  <2> QED BY <1>2, <2>1, <2>2, FS_Subset
<1>4. ASSUME NEW x \in Socks, x < n + 1 PROVE sock[x] # "none"
  <2> SUFFICES ASSUME sock[x] = "none" PROVE FALSE
    OBVIOUS
  <2>1. Allocated \subseteq 1 .. x - 1
    BY <1>4, ConnAssumption DEF SockInv, SockOrder, Allocated, Socks
  <2>2. IsFiniteSet(1 .. x - 1) /\ Cardinality(1 .. x - 1) = x - 1
    BY <1>4, ConnAssumption, FS_Interval DEF Socks
  <2>3. n <= x - 1
    BY <1>2, <2>1, <2>2, FS_Subset
  <2> QED BY <1>2, <1>4, <2>3, ConnAssumption DEF Socks
<1> QED BY <1>0, <1>3, <1>4 DEF Fresh, Next_sock, n

-----------------------------------------------------------------------------
(* What the steps that depend on the state of the connection change.        *)
CreateEffect ==
  /\ pc["mk"] = "create" /\ run /\ conn = "INIT"
  /\ conn' = "Connecting" /\ cur' = 0 /\ pc' = [pc EXCEPT !["mk"] = "connect"]
  /\ UNCHANGED <<sock, alive, user, ref, held, rx, rxsock, skrx, crt, hkq, relq,
                 avail, nbad, run>>

ConnectOKEffect(s) ==
  /\ pc["mk"] = "connect" /\ conn = "Connecting" /\ Fresh(s)
  /\ conn' = "Connected" /\ cur' = s /\ pc' = [pc EXCEPT !["mk"] = "service"]
  /\ sock' = [sock EXCEPT ![s] = "open"] /\ alive' = [alive EXCEPT ![s] = TRUE]
  /\ UNCHANGED <<user, ref, held, rx, rxsock, skrx, crt, hkq, relq, avail, nbad, run>>

ConnectFailEffect ==
  /\ pc["mk"] = "connect" /\ conn = "Connecting"
  /\ conn' = "ConnectRetry" /\ cur' = 0 /\ pc' = [pc EXCEPT !["mk"] = "enq"]
  /\ UNCHANGED <<sock, alive, user, ref, held, rx, rxsock, skrx, crt, hkq, relq,
                 avail, nbad, run>>

ResetEffect(t) ==
  /\ pc[t] = "reset"
  /\ \/ /\ conn = "Connected" /\ crt.st = "none"
        /\ conn' = "ConnectRetry" /\ cur' = 0
        /\ held' = [held EXCEPT ![t] = cur] /\ pc' = [pc EXCEPT ![t] = "enq"]
     \/ pc' = [pc EXCEPT ![t] = "idle"] /\ UNCHANGED <<conn, cur, held>>
  /\ UNCHANGED <<sock, alive, user, ref, rx, rxsock, skrx, crt, hkq, relq, avail,
                 nbad, run>>

ReconnectEffect(t) ==
  /\ pc[t] = "add" /\ run /\ crt.st = "none"
  /\ \/ /\ pc' = [pc EXCEPT ![t] = "stop"]
        /\ \E s \in Socks : /\ Fresh(s) /\ sock' = [sock EXCEPT ![s] = "open"]
                            /\ crt' = [st |-> "Waiting", sock |-> s, up |-> FALSE]
     \/ NoMem /\ pc' = [pc EXCEPT ![t] = "idle"] /\ UNCHANGED <<sock, crt>>
  /\ UNCHANGED <<conn, cur, alive, user, ref, held, rx, rxsock, skrx, hkq, relq,
                 avail, nbad, run>>

LossEffect(lives) ==
  \/ /\ conn = "Connected" /\ crt.st = "none"
     /\ conn' = "ConnectRetry" /\ cur' = 0 /\ avail' = FALSE
     /\ relq' = Append(relq, cur) /\ sock' = [lives EXCEPT ![cur] = "queued"]
     /\ add_hk_task("retry")
  \/ sock' = lives /\ UNCHANGED <<conn, cur, avail, relq, hkq>>

SockBreakEffect(s) ==
  /\ LossEffect(sock) /\ alive' = [alive EXCEPT ![s] = FALSE]
  /\ UNCHANGED <<user, ref, pc, held, rx, rxsock, skrx, crt, nbad, run>>

RelFreeEffect(s) ==
  /\ sock[s] = "check" /\ ref[s] = 0 /\ LossEffect([sock EXCEPT ![s] = "freed"])
  /\ alive' = [alive EXCEPT ![s] = FALSE] /\ user' = [user EXCEPT ![s] = FALSE]
  /\ UNCHANGED <<ref, pc, held, rx, rxsock, skrx, crt, nbad, run>>

RetryOKEffect(up) ==
  /\ crt.st = "Connecting" /\ conn = "ConnectRetry"
  /\ \/ /\ run /\ conn' = "Connected" /\ cur' = crt.sock
        /\ alive' = [alive EXCEPT ![crt.sock] = up]
        /\ crt'.st = "Done" /\ crt'.sock = crt.sock /\ UNCHANGED sock
        /\ crt' \in [st : TaskStates, sock : 0 .. MaxSock, up : BOOLEAN]
     \/ /\ crt' = NoTask /\ sock' = [sock EXCEPT ![crt.sock] = "freed"] /\ ~run
        /\ UNCHANGED <<conn, cur, alive>>
  /\ UNCHANGED <<user, ref, pc, held, rx, rxsock, skrx, hkq, relq, avail, nbad, run>>

CloseStopEffect ==
  /\ ~run /\ crt.st = "none" /\ pc["mk"] = "idle"
  /\ conn' = "Closing" /\ cur' = 0 /\ avail' = FALSE
  /\ held' = [held EXCEPT !["mk"] = cur] /\ pc' = [pc EXCEPT !["mk"] = "close"]
  /\ UNCHANGED <<sock, alive, user, ref, rx, rxsock, skrx, crt, hkq, relq, nbad, run>>

CloseConnEffect ==
  /\ pc["mk"] = "close" /\ conn = "Closing" /\ conn' = "End" /\ cur' = 0
  /\ enq_release_sock(held["mk"]) /\ stop_sk_rx_thread(skrx)
  /\ held' = [held EXCEPT !["mk"] = 0] /\ pc' = [pc EXCEPT !["mk"] = "idle"]
  /\ UNCHANGED <<alive, user, crt, hkq, avail, nbad, run>>

(* Those steps do change that, given the invariant.                         *)
LEMMA CreateStep ==
  ASSUME ConnInv, Create
  PROVE  CreateEffect
BY ConnFacts DEF ConnInv, StateInv, Create, update_conn_state_and_sock, Goto, CreateEffect

LEMMA ConnectOKStep ==
  ASSUME ConnInv, NEW s \in Socks, ConnectOK(s)
  PROVE  ConnectOKEffect(s)
<1>1. Fresh(s)
  BY NextIsFresh DEF ConnInv, ConnectOK, alloc_sock
<1> QED BY <1>1, ConnFacts DEF ConnInv, StateInv, ConnectOK, alloc_sock, update_conn_state_and_sock,
                              Goto, ConnectOKEffect

LEMMA ConnectFailStep ==
  ASSUME ConnInv, ConnectFail
  PROVE  ConnectFailEffect
BY ConnFacts DEF ConnInv, StateInv, ConnectFail, update_conn_state_and_sock, Goto, ConnectFailEffect

LEMMA ResetStep ==
  ASSUME ConnInv, ~BreakWhileDone, NEW t \in Threads, Reset(t)
  PROVE  ResetEffect(t)
<1>1. conn = "Connected" /\ ~TaskDone => crt.st = "none"
  BY DEF ConnInv, TypeOK, TaskStates, StateInv, TaskDone
<1> QED BY <1>1, ConnFacts DEF Reset, DetectOK, update_conn_state_and_sock, Goto, ResetEffect

LEMMA ReconnectStep ==
  ASSUME ConnInv, NEW t \in Threads, Reconnect(t)
  PROVE  ReconnectEffect(t)
<1>1. run /\ crt.st = "none"
  BY DEF ConnInv, OneRetry, Reconnect
<1>2. CASE \E s \in Socks : add_conn_retry_task(s) /\ Goto(t, "stop")
  <2>1. PICK s \in Socks : add_conn_retry_task(s) /\ Goto(t, "stop")
    BY <1>2
  <2>2. Fresh(s)
    BY <2>1, NextIsFresh DEF ConnInv, add_conn_retry_task, alloc_sock
  <2> QED BY <1>1, <2>1, <2>2 DEF Reconnect, add_conn_retry_task, alloc_sock, Goto, ReconnectEffect
<1>3. CASE NoMem /\ Goto(t, "idle") /\ UNCHANGED <<crt, sock>>
  BY <1>1, <1>3 DEF Reconnect, Goto, ReconnectEffect
<1> QED BY <1>1, <1>2, <1>3 DEF Reconnect

(* The callback of a socket takes the connection from Connected, or nothing *)
(* happens.                                                                 *)
LEMMA LossStep ==
  ASSUME ConnInv, ~BreakWhileDone, NEW s, NEW lives, sock_state_change(s, lives)
  PROVE  LossEffect(lives)
<1>1. conn = "Connected" /\ ~TaskDone => crt.st = "none"
  BY DEF ConnInv, TypeOK, TaskStates, StateInv, TaskDone
<1> QED BY <1>1, ConnFacts DEF sock_state_change, DetectOK, update_conn_state_and_sock, LossEffect

LEMMA SockBreakStep ==
  ASSUME ConnInv, ~BreakWhileDone, NEW s \in Socks, SockBreak(s)
  PROVE  SockBreakEffect(s)
BY LossStep DEF SockBreak, SockBreakEffect

LEMMA RelFreeStep ==
  ASSUME ConnInv, ~BreakWhileDone, NEW s \in Socks, RelFree(s)
  PROVE  RelFreeEffect(s)
BY LossStep DEF RelFree, check_sock_ref, RelFreeEffect

LEMMA RetryOKStep ==
  ASSUME ConnInv, NEW up \in BOOLEAN, RetryOK(up)
  PROVE  RetryOKEffect(up)
<1>1. crt.st = "Connecting" => conn = "ConnectRetry"
  BY DEF ConnInv, StateInv
<1>2. crt \in [st : TaskStates, sock : 0 .. MaxSock, up : BOOLEAN]
  BY DEF ConnInv, TypeOK
<1>3. ASSUME NEW c, c = [crt EXCEPT !.st = "Done", !.up = up]
      PROVE  /\ c.st = "Done" /\ c.sock = crt.sock
             /\ c \in [st : TaskStates, sock : 0 .. MaxSock, up : BOOLEAN]
  BY <1>2, <1>3 DEF TaskStates
<1> QED BY <1>1, <1>3, ConnFacts DEF RetryOK, update_conn_state_and_sock, RetryOKEffect

LEMMA CloseStopStep ==
  ASSUME ConnInv, CloseStop
  PROVE  CloseStopEffect
BY ConnFacts DEF CloseStop, update_conn_state_and_sock, Goto, CloseStopEffect

LEMMA CloseConnStep ==
  ASSUME ConnInv, CloseConn
  PROVE  CloseConnEffect
<1>1. pc["mk"] = "close" => conn = "Closing"
  BY DEF ConnInv, OneRetry, Threads
<1> QED BY <1>1, ConnFacts DEF CloseConn, update_conn_state_and_sock, Goto, CloseConnEffect
(* The socket that sock_rel_worker_fn takes.                                *)
RelTakeEffect(h) ==
  /\ h \in Socks /\ sock[h] = "queued" /\ sock' = [sock EXCEPT ![h] = "check"]
  /\ relq # <<>> /\ relq[1] = h /\ relq' = Tail(relq)
  /\ UNCHANGED <<conn, cur, alive, user, ref, pc, held, rx, rxsock, skrx, crt, hkq,
                 avail, nbad, run>>

LEMMA RelTakeStep ==
  ASSUME ConnInv, RelTake
  PROVE  \E h \in Socks : RelTakeEffect(h)
<1>1. Len(relq) > 0 /\ relq[1] \in Socks /\ Head(relq) = relq[1]
  BY DEF RelTake, ConnInv, TypeOK
<1>2. sock[relq[1]] = "queued"
  BY <1>1 DEF ConnInv, SockInv, RelQueue
<1> QED BY <1>1, <1>2 DEF RelTake, RelTakeEffect

(* A loss that a callback finds queues the socket of the connection.        *)
LEMMA LossSocks ==
  ASSUME ConnInv, NEW lives, LossEffect(lives)
  PROVE  \/ /\ cur \in Socks /\ sock[cur] = "open" /\ cur' = 0
            /\ sock' = [lives EXCEPT ![cur] = "queued"] /\ relq' = Append(relq, cur)
         \/ sock' = lives /\ UNCHANGED <<cur, relq>>
<1>1. conn = "Connected" => cur \in Socks /\ sock[cur] = "open"
  BY ConnAssumption DEF ConnInv, StateInv, SockInv, SockPlaces, TypeOK, Socks
<1> QED BY <1>1 DEF LossEffect

(* What happens to each socket when one is freed.                           *)
LEMMA RelFreeSocks ==
  ASSUME ConnInv, NEW s \in Socks, RelFreeEffect(s)
  PROVE  \A x \in Socks : \/ x = s /\ sock[x] = "check" /\ sock'[x] = "freed"
                          \/ x = cur /\ sock[x] = "open" /\ sock'[x] = "queued" /\ cur' = 0
                          \/ x # s /\ sock'[x] = sock[x] /\ (x = cur => cur' = cur)
<1> DEFINE lives == [sock EXCEPT ![s] = "freed"]
<1>1. sock[s] = "check" /\ LossEffect(lives)
  BY DEF RelFreeEffect
<1>2. \A x \in Socks : lives[x] = IF x = s THEN "freed" ELSE sock[x]
  BY DEF ConnInv, TypeOK
<1>3. lives \in [Socks -> {"none", "open", "queued", "check", "freed"}]
  BY DEF ConnInv, TypeOK
<1> HIDE DEF lives
<1>4. CASE cur \in Socks /\ sock[cur] = "open" /\ cur' = 0 /\ sock' = [lives EXCEPT ![cur] = "queued"]
  BY <1>1, <1>2, <1>3, <1>4
<1>5. CASE sock' = lives /\ UNCHANGED cur
  BY <1>1, <1>2, <1>5
<1> QED BY <1>1, <1>4, <1>5, LossSocks

(* The socket of a retry task that is connecting is nowhere else.           *)
LEMMA TaskSock ==
  ASSUME ConnInv, crt.st \in {"Waiting", "Connecting"}
  PROVE  crt.sock \in Socks /\ sock[crt.sock] = "open" /\ ref[crt.sock] = 0 /\ cur = 0
BY ConnAssumption DEF ConnInv, SockInv, SockPlaces, NoRef, StateInv, TypeOK, Socks

-----------------------------------------------------------------------------
(* The steps of the specification, one by one.                              *)
LEMMA ConnCases ==
  ASSUME [Next]_vars
  PROVE  \/ Create \/ ConnectServe \/ ConnectFail
         \/ \E s \in Socks : \/ ConnectOK(s) \/ RxStart(s) \/ BadPacket(s)
                             \/ SockBreak(s) \/ SockUp(s) \/ RelFree(s)
         \/ \E t \in Senders : GetSock(t) \/ \E res \in SendResults : SendEnd(t, res)
         \/ \E t \in Threads : Reset(t) \/ RetryEnq(t) \/ Reconnect(t) \/ StopRx(t)
                               \/ StopDone(t)
         \/ HkTask \/ RetryStart \/ RetryFail \/ RetryServe \/ RetryRemove \/ RelTake
         \/ \E up \in BOOLEAN : RetryOK(up)
         \/ Shutdown \/ CancelTask \/ CloseStop \/ CloseConn \/ UNCHANGED vars
BY DEF Next

(* StateInv is preserved.                                                   *)
LEMMA StateStep ==
  ASSUME ConnInv, ~BreakWhileDone, [Next]_vars
  PROVE  StateInv'
<1>1. ASSUME Create PROVE StateInv'
  <2>1. CreateEffect
    BY <1>1, CreateStep
  <2> QED BY <2>1 DEF CreateEffect, ConnInv, StateInv, TypeOK, TaskDone, TaskStates, NoTask, Threads
<1>2. ASSUME ConnectServe PROVE StateInv'
  BY <1>2 DEF ConnectServe, conn_done_fn, Goto, ConnInv, StateInv, TypeOK, TaskDone, TaskStates,
     NoTask, Threads
<1>3. ASSUME ConnectFail PROVE StateInv'
  <2>1. ConnectFailEffect
    BY <1>3, ConnectFailStep
  <2> QED BY <2>1 DEF ConnectFailEffect, ConnInv, StateInv, TypeOK, TaskDone, TaskStates, NoTask,
       Threads
<1>4. ASSUME NEW s \in Socks, ConnectOK(s) PROVE StateInv'
  <2>1. ConnectOKEffect(s)
    BY <1>4, ConnectOKStep
  <2> QED BY <2>1, ConnAssumption DEF ConnectOKEffect, ConnInv, StateInv, TypeOK, TaskDone,
       TaskStates, NoTask, Threads, Fresh, Socks
<1>5. ASSUME NEW s \in Socks, RxStart(s) PROVE StateInv'
  BY <1>5 DEF RxStart, ConnInv, StateInv, TypeOK, TaskDone, TaskStates, NoTask, Threads
<1>6. ASSUME NEW s \in Socks, BadPacket(s) PROVE StateInv'
  BY <1>6 DEF BadPacket, ConnInv, StateInv, TypeOK, TaskDone, TaskStates, NoTask, Threads
<1>7. ASSUME NEW s \in Socks, SockBreak(s) PROVE StateInv'
  <2>1. SockBreakEffect(s)
    BY <1>7, SockBreakStep
  <2> QED BY <2>1 DEF SockBreakEffect, LossEffect, ConnInv, StateInv, TypeOK, TaskDone, TaskStates,
       NoTask, Threads
<1>8. ASSUME NEW s \in Socks, SockUp(s) PROVE StateInv'
  BY <1>8 DEF SockUp, ConnInv, StateInv, TypeOK, TaskDone, TaskStates, NoTask, Threads
<1>9. ASSUME NEW s \in Socks, RelFree(s) PROVE StateInv'
  <2>1. RelFreeEffect(s)
    BY <1>9, RelFreeStep
  <2> QED BY <2>1 DEF RelFreeEffect, LossEffect, ConnInv, StateInv, TypeOK, TaskDone, TaskStates,
       NoTask, Threads
<1>10. ASSUME NEW t \in Senders, GetSock(t) PROVE StateInv'
  BY <1>10 DEF GetSock, Goto, ConnInv, StateInv, TypeOK, TaskDone, TaskStates, NoTask, Threads
<1>11. ASSUME NEW t \in Senders, NEW res \in SendResults, SendEnd(t, res) PROVE StateInv'
  BY <1>11 DEF SendEnd, Goto, deRef, ConnInv, StateInv, TypeOK, TaskDone, TaskStates, NoTask,
     Threads
<1>12. ASSUME NEW t \in Threads, Reset(t) PROVE StateInv'
  <2>1. ResetEffect(t)
    BY <1>12, ResetStep
  <2> QED BY <2>1 DEF ResetEffect, ConnInv, StateInv, TypeOK, TaskDone, TaskStates, NoTask, Threads
<1>13. ASSUME NEW t \in Threads, RetryEnq(t) PROVE StateInv'
  BY <1>13 DEF RetryEnq, Goto, enq_release_sock, ConnInv, StateInv, TypeOK, TaskDone, TaskStates,
     NoTask, Threads
<1>14. ASSUME NEW t \in Threads, Reconnect(t) PROVE StateInv'
  <2>1. ReconnectEffect(t)
    BY <1>14, ReconnectStep
  <2> QED BY <2>1 DEF ReconnectEffect, ConnInv, StateInv, TypeOK, TaskDone, TaskStates, NoTask,
       Threads, OneRetry
<1>15. ASSUME NEW t \in Threads, StopRx(t) PROVE StateInv'
  BY <1>15 DEF StopRx, Goto, ConnInv, StateInv, TypeOK, TaskDone,
     TaskStates, NoTask, Threads
<1>28. ASSUME NEW t \in Threads, StopDone(t) PROVE StateInv'
  BY <1>28 DEF StopDone, Goto, ConnInv, StateInv, TypeOK, TaskDone, Threads
<1>16. ASSUME HkTask PROVE StateInv'
  BY <1>16 DEF HkTask, Goto, ConnInv, StateInv, TypeOK, TaskDone, TaskStates, NoTask, Threads
<1>17. ASSUME RetryStart PROVE StateInv'
  BY <1>17 DEF RetryStart, ConnInv, StateInv, TypeOK, TaskDone, TaskStates, NoTask, Threads
<1>18. ASSUME RetryFail PROVE StateInv'
  BY <1>18 DEF RetryFail, ConnInv, StateInv, TypeOK, TaskDone, TaskStates, NoTask, Threads
<1>19. ASSUME RetryServe PROVE StateInv'
  BY <1>19 DEF RetryServe, conn_done_fn, ConnInv, StateInv, TypeOK, TaskDone, TaskStates, NoTask,
     Threads
<1>20. ASSUME RetryRemove PROVE StateInv'
  BY <1>20 DEF RetryRemove, ConnInv, StateInv, TypeOK, TaskDone, TaskStates, NoTask, Threads
<1>21. ASSUME RelTake PROVE StateInv'
  BY <1>21 DEF RelTake, ConnInv, StateInv, TypeOK, TaskDone, TaskStates, NoTask, Threads
<1>22. ASSUME NEW up \in BOOLEAN, RetryOK(up) PROVE StateInv'
  <2>1. RetryOKEffect(up)
    BY <1>22, RetryOKStep
  <2>2. crt.sock # 0
    BY <2>1 DEF RetryOKEffect, ConnInv, SockInv, SockPlaces
  <2>3. crt'.st \in {"Done", "none"} /\ (crt'.st = "Done" => crt'.sock = crt.sock)
    BY <2>1 DEF RetryOKEffect, NoTask
  <2> QED BY <2>1, <2>2, <2>3 DEF RetryOKEffect, ConnInv, StateInv, TypeOK, TaskDone, NoTask
<1>23. ASSUME Shutdown PROVE StateInv'
  BY <1>23 DEF Shutdown, ConnInv, StateInv, TypeOK, TaskDone, TaskStates, NoTask, Threads
<1>24. ASSUME CancelTask PROVE StateInv'
  BY <1>24 DEF CancelTask, ConnInv, StateInv, TypeOK, TaskDone, TaskStates, NoTask, Threads
<1>25. ASSUME CloseStop PROVE StateInv'
  <2>1. CloseStopEffect
    BY <1>25, CloseStopStep
  <2> QED BY <2>1 DEF CloseStopEffect, ConnInv, StateInv, TypeOK, TaskDone, TaskStates, NoTask,
       Threads
<1>26. ASSUME CloseConn PROVE StateInv'
  <2>1. CloseConnEffect
    BY <1>26, CloseConnStep
  <2> QED BY <2>1 DEF CloseConnEffect, enq_release_sock, stop_sk_rx_thread, deRef, ConnInv,
       StateInv, TypeOK, TaskDone, TaskStates, NoTask, Threads
<1>27. CASE UNCHANGED vars
  BY <1>27 DEF vars, ConnInv, StateInv, TypeOK, TaskDone, TaskStates, NoTask, Threads
<1> QED
  BY ConnCases, <1>1, <1>2, <1>3, <1>4, <1>5, <1>6, <1>7, <1>8, <1>9, <1>10, <1>11, <1>12, <1>13,
     <1>14, <1>15, <1>16, <1>17, <1>18, <1>19, <1>20, <1>21, <1>22, <1>23, <1>24, <1>25, <1>26,
     <1>27, <1>28

(* The receiver threads that read from a socket are finitely many.          *)
LEMMA ReadsFinite ==
  ASSUME NEW r, NEW k, NEW s
  PROVE  /\ IsFiniteSet(Reads(r, k, s))
         /\ Cardinality(Reads(r, k, s)) \in Nat /\ Cardinality(Reads(r, k, s)) <= MaxSock
         /\ \A x \in Reads(r, k, s) : Cardinality(Reads(r, k, s)) # 0
<1>1. IsFiniteSet(Socks) /\ Cardinality(Socks) = MaxSock /\ Reads(r, k, s) \subseteq Socks
  BY ConnAssumption, FS_Interval DEF Socks, Reads
<1>2. IsFiniteSet(Reads(r, k, s)) /\ Cardinality(Reads(r, k, s)) <= MaxSock
  BY <1>1, FS_Subset
<1> QED BY <1>2, FS_CardinalityType, FS_EmptySet

(* References stay what they are when no sender or receiver comes or goes.  *)
LEMMA RefFrame ==
  ASSUME RefInv, UNCHANGED ref,
         \A t \in Senders : /\ pc'[t] = "send" <=> pc[t] = "send"
                            /\ pc[t] = "send" => held'[t] = held[t],
         \A x \in Socks : /\ rx'[x] = "run" <=> rx[x] = "run"
                          /\ rx[x] = "run" => rxsock'[x] = rxsock[x]
  PROVE  RefInv'
<1>1. \A s : Sending(s)' <=> Sending(s)
  BY DEF Sending
<1>2. \A s : Reads(rx', rxsock', s) = Reads(rx, rxsock, s)
  BY DEF Reads
<1> QED BY <1>1, <1>2 DEF RefInv

RefKept ==
  /\ UNCHANGED <<ref, rx, rxsock>>
  /\ \A u \in Senders : /\ pc'[u] = "send" <=> pc[u] = "send"
                        /\ pc[u] = "send" => held'[u] = held[u]

LEMMA RefSame == ASSUME RefInv, RefKept PROVE RefInv'
BY RefFrame DEF RefKept

(* stop_sk_rx_thread drops the reference of the receiver thread.            *)
LEMMA StopRef ==
  ASSUME TypeOK, RefInv, NEW k \in 0 .. MaxSock, stop_sk_rx_thread(k),
         \A t \in Senders : /\ pc'[t] = "send" <=> pc[t] = "send"
                            /\ pc[t] = "send" => held'[t] = held[t]
  PROVE  RefInv'
<1> DEFINE f == rxsock[k]
<1>1. CASE k # 0 /\ rx[k] = "run"
  <2>1. k \in Socks /\ f \in Socks
    BY <1>1, ConnAssumption DEF TypeOK, Socks, RefInv
  <2>2. \A x \in Socks : /\ rx'[x] = IF x = k THEN "none" ELSE rx[x]
                         /\ rxsock'[x] = IF x = k THEN 0 ELSE rxsock[x]
    BY <1>1, <2>1 DEF stop_sk_rx_thread, TypeOK
  <2>3. Reads(rx', rxsock', f) = Reads(rx, rxsock, f) \ {k} /\ k \in Reads(rx, rxsock, f)
    BY <1>1, <2>1, <2>2 DEF Reads
  <2>4. \A s \in Socks \ {f} : Reads(rx', rxsock', s) = Reads(rx, rxsock, s)
    BY <1>1, <2>1, <2>2 DEF Reads
  <2>5. Cardinality(Reads(rx', rxsock', f)) = Cardinality(Reads(rx, rxsock, f)) - 1
    <3>1. IsFiniteSet(Reads(rx, rxsock, f))
      BY ReadsFinite
    <3> HIDE DEF f
    <3> QED BY <2>3, <3>1, FS_RemoveElement
  <2>6. \A s \in Socks : Sending(s)' <=> Sending(s)
    BY DEF Sending
  <2>7. \A s \in Socks : ref'[s] = IF s = f THEN ref[s] - 1 ELSE ref[s]
    BY <1>1, <2>1 DEF stop_sk_rx_thread, deRef, TypeOK
  <2> HIDE DEF f
  <2>8. \A s \in Socks : ref'[s] = (IF Sending(s)' THEN 1 ELSE 0) + Cardinality(Reads(rx', rxsock', s))
    BY <2>1, <2>4, <2>5, <2>6, <2>7, ReadsFinite DEF RefInv
  <2>9. \A s \in Socks : rx'[s] = "run" => rxsock'[s] # 0
    BY <2>2 DEF RefInv
  <2> QED BY <2>8, <2>9 DEF RefInv
<1>2. CASE ~(k # 0 /\ rx[k] = "run")
  <2>1. UNCHANGED ref
    BY <1>2 DEF stop_sk_rx_thread
  <2>2. \A x \in Socks : /\ rx'[x] = "run" <=> rx[x] = "run"
                         /\ rx[x] = "run" => rxsock'[x] = rxsock[x]
    BY <1>2, ConnAssumption DEF stop_sk_rx_thread, TypeOK, Socks
  <2> QED BY <2>1, <2>2, RefFrame
<1> QED BY <1>1, <1>2

(* RefInv is preserved.                                                     *)
LEMMA RefStep ==
  ASSUME ConnInv, ~BreakWhileDone, [Next]_vars
  PROVE  RefInv'
<1>1. ASSUME Create PROVE RefInv'
  <2>1. CreateEffect
    BY <1>1, CreateStep
  <2>2. RefKept
    BY <2>1, ConnAssumption DEF RefKept, CreateEffect, ConnInv, TypeOK, Threads
  <2> QED BY <2>2, RefSame DEF ConnInv
<1>2. ASSUME ConnectServe PROVE RefInv'
  <2>1. rx[1] = "none"
    BY <1>2 DEF ConnectServe, ConnInv, RxInv
  <2>2. \A x \in Socks : (rx'[x] = "run" <=> rx[x] = "run") /\ rxsock'[x] = rxsock[x]
    BY <1>2, <2>1 DEF ConnectServe, conn_done_fn, ConnInv, TypeOK
  <2>3. \A t \in Senders : (pc'[t] = "send" <=> pc[t] = "send") /\ held'[t] = held[t]
    BY <1>2, ConnAssumption DEF ConnectServe, Goto, ConnInv, TypeOK
  <2> QED BY <1>2, <2>2, <2>3, RefFrame DEF ConnectServe, ConnInv
<1>3. ASSUME ConnectFail PROVE RefInv'
  <2>1. ConnectFailEffect
    BY <1>3, ConnectFailStep
  <2>2. RefKept
    BY <2>1, ConnAssumption DEF RefKept, ConnectFailEffect, ConnInv, TypeOK, Threads
  <2> QED BY <2>2, RefSame DEF ConnInv
<1>4. ASSUME NEW s \in Socks, ConnectOK(s) PROVE RefInv'
  <2>1. ConnectOKEffect(s)
    BY <1>4, ConnectOKStep
  <2>2. RefKept
    BY <2>1, ConnAssumption DEF RefKept, ConnectOKEffect, ConnInv, TypeOK, Threads
  <2> QED BY <2>2, RefSame DEF ConnInv
<1>5. ASSUME NEW s \in Socks, RxStart(s) PROVE RefInv'
  <2>1. CASE conn = "Connected" /\ cur # 0
    <3>1. cur \in Socks
      BY <2>1, ConnAssumption DEF ConnInv, TypeOK, Socks
    <3>2. \A x \in Socks : /\ rx'[x] = IF x = s THEN "run" ELSE rx[x]
                           /\ rxsock'[x] = IF x = s THEN cur ELSE rxsock[x]
      BY <1>5, <2>1 DEF RxStart, ConnInv, TypeOK
    <3>3. rx[s] # "run"
      BY <1>5 DEF RxStart
    <3>4. /\ Reads(rx', rxsock', cur) = Reads(rx, rxsock, cur) \cup {s}
          /\ s \notin Reads(rx, rxsock, cur)
      BY <3>1, <3>2, <3>3 DEF Reads
    <3>5. \A x \in Socks \ {cur} : Reads(rx', rxsock', x) = Reads(rx, rxsock, x)
      BY <3>2, <3>3 DEF Reads
    <3>6. Cardinality(Reads(rx', rxsock', cur)) = Cardinality(Reads(rx, rxsock, cur)) + 1
      BY <3>4, ReadsFinite, FS_AddElement
    <3>7. \A x \in Socks : Sending(x)' <=> Sending(x)
      BY <1>5 DEF RxStart, Sending
    <3>8. \A x \in Socks : ref'[x] = IF x = cur THEN ref[x] + 1 ELSE ref[x]
      BY <1>5, <2>1, <3>1 DEF RxStart, ConnInv, TypeOK
    <3>9. UNCHANGED <<pc, held>>
      BY <1>5 DEF RxStart
    <3>10. \A x \in Socks : ref'[x] = (IF Sending(x)' THEN 1 ELSE 0)
                                        + Cardinality(Reads(rx', rxsock', x))
      BY <3>1, <3>5, <3>6, <3>7, <3>8, ReadsFinite DEF ConnInv, RefInv
    <3> QED BY <2>1, <3>2, <3>9, <3>10 DEF ConnInv, RefInv
  <2>2. CASE ~(conn = "Connected" /\ cur # 0)
    <3>1. \A x \in Socks : (rx'[x] = "run" <=> rx[x] = "run") /\ rxsock'[x] = rxsock[x]
      BY <1>5, <2>2 DEF RxStart, ConnInv, TypeOK
    <3> QED BY <1>5, <2>2, <3>1, RefFrame DEF RxStart, ConnInv
  <2> QED BY <2>1, <2>2
<1>6. ASSUME NEW s \in Socks, BadPacket(s) PROVE RefInv'
  <2>1. RefKept
    BY <1>6, ConnAssumption DEF RefKept, BadPacket, ConnInv, TypeOK, Threads
  <2> QED BY <2>1, RefSame DEF ConnInv
<1>7. ASSUME NEW s \in Socks, SockBreak(s) PROVE RefInv'
  <2>1. SockBreakEffect(s)
    BY <1>7, SockBreakStep
  <2>2. RefKept
    BY <2>1, ConnAssumption DEF RefKept, SockBreakEffect, LossEffect, ConnInv, TypeOK, Threads
  <2> QED BY <2>2, RefSame DEF ConnInv
<1>8. ASSUME NEW s \in Socks, SockUp(s) PROVE RefInv'
  <2>1. RefKept
    BY <1>8, ConnAssumption DEF RefKept, SockUp, ConnInv, TypeOK, Threads
  <2> QED BY <2>1, RefSame DEF ConnInv
<1>9. ASSUME NEW s \in Socks, RelFree(s) PROVE RefInv'
  <2>1. RelFreeEffect(s)
    BY <1>9, RelFreeStep
  <2>2. RefKept
    BY <2>1, ConnAssumption DEF RefKept, RelFreeEffect, LossEffect, ConnInv, TypeOK, Threads
  <2> QED BY <2>2, RefSame DEF ConnInv
<1>10. ASSUME NEW t \in Senders, GetSock(t) PROVE RefInv'
  <2>1. cur \in Socks
    BY <1>10, ConnAssumption DEF GetSock, ConnInv, TypeOK, Socks
  <2>2. \A u \in Senders : /\ pc[u] # "send" /\ (pc'[u] = "send" <=> u = t)
                           /\ held'[t] = cur
    BY <1>10 DEF GetSock, Goto, ConnInv, TypeOK, Threads
  <2>3. \A x \in Socks : ~Sending(x) /\ (Sending(x)' <=> x = cur)
    BY <2>2 DEF Sending
  <2>4. \A x \in Socks : Reads(rx', rxsock', x) = Reads(rx, rxsock, x)
    BY <1>10 DEF GetSock
  <2>5. \A x \in Socks : ref'[x] = IF x = cur THEN ref[x] + 1 ELSE ref[x]
    BY <1>10, <2>1 DEF GetSock, ConnInv, TypeOK
  <2>6. UNCHANGED <<rx, rxsock>> /\ cur # 0
    BY <1>10 DEF GetSock
  <2> QED BY <2>2, <2>3, <2>4, <2>5, <2>6, ReadsFinite DEF ConnInv, RefInv
<1>11. ASSUME NEW t \in Senders, NEW res \in SendResults, SendEnd(t, res) PROVE RefInv'
  <2>1. held[t] \in Socks
    BY <1>11, ConnAssumption DEF SendEnd, ConnInv, RefInv, TypeOK, Socks, Threads
  <2>2. \A u \in Senders : (pc[u] = "send" <=> u = t) /\ pc'[u] # "send"
    BY <1>11 DEF SendEnd, Goto, ConnInv, RefInv, TypeOK, Threads
  <2>3. \A x \in Socks : ~Sending(x)' /\ (Sending(x) <=> x = held[t])
    BY <2>2 DEF Sending
  <2>4. \A x \in Socks : Reads(rx', rxsock', x) = Reads(rx, rxsock, x)
    BY <1>11 DEF SendEnd
  <2>5. \A x \in Socks : ref'[x] = IF x = held[t] THEN ref[x] - 1 ELSE ref[x]
    BY <1>11, <2>1 DEF SendEnd, deRef, ConnInv, TypeOK
  <2>6. UNCHANGED <<rx, rxsock>>
    BY <1>11 DEF SendEnd
  <2> QED BY <2>2, <2>3, <2>4, <2>5, <2>6, ReadsFinite DEF ConnInv, RefInv
<1>12. ASSUME NEW t \in Threads, Reset(t) PROVE RefInv'
  <2>1. ResetEffect(t)
    BY <1>12, ResetStep
  <2>2. \A u \in Senders : /\ pc'[u] = "send" <=> pc[u] = "send"
                           /\ pc[u] = "send" => held'[u] = held[u]
    <3>1. CASE pc' = [pc EXCEPT ![t] = "enq"] /\ held' = [held EXCEPT ![t] = cur]
      BY <2>1, <3>1 DEF ResetEffect, ConnInv, TypeOK, Threads
    <3>2. CASE pc' = [pc EXCEPT ![t] = "idle"] /\ held' = held
      BY <2>1, <3>2 DEF ResetEffect, ConnInv, TypeOK, Threads
    <3> QED BY <2>1, <3>1, <3>2 DEF ResetEffect
  <2>3. UNCHANGED <<ref, rx, rxsock>>
    BY <2>1 DEF ResetEffect
  <2> QED BY <2>2, <2>3, RefFrame DEF ConnInv
<1>13. ASSUME NEW t \in Threads, RetryEnq(t) PROVE RefInv'
  <2>1. RefKept
    BY <1>13, ConnAssumption DEF RefKept, RetryEnq, Goto, enq_release_sock, ConnInv, TypeOK, Threads
  <2> QED BY <2>1, RefSame DEF ConnInv
<1>14. ASSUME NEW t \in Threads, Reconnect(t) PROVE RefInv'
  <2>1. ReconnectEffect(t)
    BY <1>14, ReconnectStep
  <2>2. \A u \in Senders : pc'[u] = "send" <=> pc[u] = "send"
    BY <2>1 DEF ReconnectEffect, ConnInv, TypeOK, Threads
  <2> QED BY <2>1, <2>2, RefFrame DEF ReconnectEffect, ConnInv
<1>15. ASSUME NEW t \in Threads, StopRx(t) PROVE RefInv'
  <2>1. \A u \in Senders : /\ pc'[u] = "send" <=> pc[u] = "send"
                           /\ pc[u] = "send" => held'[u] = held[u]
    BY <1>15 DEF StopRx, Goto, ConnInv, TypeOK, Threads
  <2> QED BY <1>15, <2>1, RefFrame DEF StopRx, ConnInv
<1>28. ASSUME NEW t \in Threads, StopDone(t) PROVE RefInv'
  <2>1. \A u \in Senders : /\ pc'[u] = "send" <=> pc[u] = "send"
                           /\ pc[u] = "send" => held'[u] = held[u]
    BY <1>28 DEF StopDone, Goto, ConnInv, TypeOK, Threads
  <2>2. held[t] \in 0 .. MaxSock
    BY DEF ConnInv, TypeOK
  <2> QED BY <1>28, <2>1, <2>2, StopRef DEF StopDone, ConnInv
<1>16. ASSUME HkTask PROVE RefInv'
  <2>1. RefKept
    BY <1>16, ConnAssumption DEF RefKept, HkTask, Goto, ConnInv, TypeOK, Threads
  <2> QED BY <2>1, RefSame DEF ConnInv
<1>17. ASSUME RetryStart PROVE RefInv'
  <2>1. RefKept
    BY <1>17, ConnAssumption DEF RefKept, RetryStart, ConnInv, TypeOK, Threads
  <2> QED BY <2>1, RefSame DEF ConnInv
<1>18. ASSUME RetryFail PROVE RefInv'
  <2>1. RefKept
    BY <1>18, ConnAssumption DEF RefKept, RetryFail, ConnInv, TypeOK, Threads
  <2> QED BY <2>1, RefSame DEF ConnInv
<1>19. ASSUME RetryServe PROVE RefInv'
  <2>1. rx[crt.sock] = "none"
    BY <1>19 DEF RetryServe, ConnInv, RxInv
  <2>2. \A x \in Socks : (rx'[x] = "run" <=> rx[x] = "run") /\ rxsock'[x] = rxsock[x]
    BY <1>19, <2>1 DEF RetryServe, conn_done_fn, ConnInv, TypeOK
  <2> QED BY <1>19, <2>2, RefFrame DEF RetryServe, ConnInv
<1>20. ASSUME RetryRemove PROVE RefInv'
  <2>1. RefKept
    BY <1>20, ConnAssumption DEF RefKept, RetryRemove, ConnInv, TypeOK, Threads
  <2> QED BY <2>1, RefSame DEF ConnInv
<1>21. ASSUME RelTake PROVE RefInv'
  <2>1. RefKept
    BY <1>21, ConnAssumption DEF RefKept, RelTake, ConnInv, TypeOK, Threads
  <2> QED BY <2>1, RefSame DEF ConnInv
<1>22. ASSUME NEW up \in BOOLEAN, RetryOK(up) PROVE RefInv'
  <2>1. RetryOKEffect(up)
    BY <1>22, RetryOKStep
  <2>2. RefKept
    BY <2>1, ConnAssumption DEF RefKept, RetryOKEffect, ConnInv, TypeOK, Threads
  <2> QED BY <2>2, RefSame DEF ConnInv
<1>23. ASSUME Shutdown PROVE RefInv'
  <2>1. RefKept
    BY <1>23, ConnAssumption DEF RefKept, Shutdown, ConnInv, TypeOK, Threads
  <2> QED BY <2>1, RefSame DEF ConnInv
<1>24. ASSUME CancelTask PROVE RefInv'
  <2>1. RefKept
    BY <1>24, ConnAssumption DEF RefKept, CancelTask, ConnInv, TypeOK, Threads
  <2> QED BY <2>1, RefSame DEF ConnInv
<1>25. ASSUME CloseStop PROVE RefInv'
  <2>1. CloseStopEffect
    BY <1>25, CloseStopStep
  <2>2. RefKept
    BY <2>1, ConnAssumption DEF RefKept, CloseStopEffect, ConnInv, TypeOK, Threads
  <2> QED BY <2>2, RefSame DEF ConnInv
<1>26. ASSUME CloseConn PROVE RefInv'
  <2>1. CloseConnEffect
    BY <1>26, CloseConnStep
  <2>2. \A u \in Senders : (pc'[u] = "send" <=> pc[u] = "send") /\ held'[u] = held[u]
    BY <2>1, ConnAssumption DEF CloseConnEffect, ConnInv, TypeOK, Threads
  <2>3. skrx \in 0 .. MaxSock
    BY DEF ConnInv, TypeOK
  <2> QED BY <2>1, <2>2, <2>3, StopRef DEF CloseConnEffect, ConnInv
<1>27. CASE UNCHANGED vars
  <2>1. RefKept
    BY <1>27, ConnAssumption DEF RefKept, vars, ConnInv, TypeOK, Threads
  <2> QED BY <2>1, RefSame DEF ConnInv
<1> QED
  BY ConnCases, <1>1, <1>2, <1>3, <1>4, <1>5, <1>6, <1>7, <1>8, <1>9, <1>10, <1>11, <1>12, <1>13,
     <1>14, <1>15, <1>16, <1>17, <1>18, <1>19, <1>20, <1>21, <1>22, <1>23, <1>24, <1>25, <1>26,
     <1>27, <1>28

(* RxInv looks at the sockets only to see whether they were allocated.      *)
RxKept ==
  /\ UNCHANGED <<rx, crt>> /\ \A x \in Socks : sock[x] = "none" <=> sock'[x] = "none"
  /\ pc'["mk"] \in {"create", "connect", "service"} => pc'["mk"] = pc["mk"]

LEMMA RxFrame == ASSUME ConnInv, RxKept PROVE RxInv'
<1>1. 1 \in Socks
  BY ConnAssumption DEF Socks
<1> QED BY <1>1 DEF RxKept, ConnInv, RxInv

(* RxInv is preserved.                                                      *)
LEMMA RxStep ==
  ASSUME ConnInv, ~BreakWhileDone, [Next]_vars
  PROVE  RxInv'
<1>1. ASSUME Create PROVE RxInv'
  <2>1. CreateEffect
    BY <1>1, CreateStep
  <2> QED BY <2>1 DEF CreateEffect, ConnInv, RxInv, TypeOK, Threads
<1>2. ASSUME ConnectServe PROVE RxInv'
  <2>1. 1 \in Socks /\ "mk" \in Threads
    BY ConnAssumption DEF Socks, Threads
  <2>2. pc["mk"] = "service" /\ pc'["mk"] = "idle" /\ UNCHANGED <<sock, crt>>
    BY <1>2, <2>1 DEF ConnectServe, Goto, ConnInv, TypeOK
  <2>3. \A x \in Socks : x # 1 => rx'[x] = rx[x]
    BY <1>2 DEF ConnectServe, conn_done_fn, ConnInv, TypeOK
  <2>4. crt.st \in {"Waiting", "Connecting", "Done"} => crt.sock \in Socks
    BY ConnAssumption DEF ConnInv, SockInv, SockPlaces, TypeOK, Socks
  <2> QED BY <2>1, <2>2, <2>3, <2>4 DEF ConnInv, RxInv
<1>3. ASSUME ConnectFail PROVE RxInv'
  <2>1. ConnectFailEffect
    BY <1>3, ConnectFailStep
  <2> QED BY <2>1 DEF ConnectFailEffect, ConnInv, RxInv, TypeOK, Threads
<1>4. ASSUME NEW s \in Socks, ConnectOK(s) PROVE RxInv'
  <2>1. ConnectOKEffect(s)
    BY <1>4, ConnectOKStep
  <2>2. 1 \in Socks /\ \A x \in Socks : sock[x] = "none" /\ rx[x] = "none"
    BY <2>1, ConnAssumption DEF ConnectOKEffect, ConnInv, RxInv, Socks
  <2>3. s = 1
    BY <2>1, <2>2, ConnAssumption DEF ConnectOKEffect, Fresh, Socks
  <2>4. crt.st \notin {"Waiting", "Connecting", "Done"}
    BY <2>1 DEF ConnectOKEffect, ConnInv, StateInv, TaskDone
  <2>5. UNCHANGED <<rx, crt>> /\ pc'["mk"] = "service" /\ sock'[1] = "open"
    BY <2>1, <2>2, <2>3 DEF ConnectOKEffect, ConnInv, TypeOK, Threads
  <2> QED BY <2>2, <2>4, <2>5 DEF RxInv
<1>5. ASSUME NEW s \in Socks, RxStart(s) PROVE RxInv'
  <2>1. rx[s] = "start" /\ UNCHANGED <<sock, crt, pc>>
    BY <1>5 DEF RxStart
  <2>2. \A x \in Socks : x # s => rx'[x] = rx[x]
    BY <1>5 DEF RxStart, ConnInv, TypeOK
  <2>3. 1 \in Socks /\ (crt.st \in {"Waiting", "Connecting", "Done"} => crt.sock \in Socks)
    BY ConnAssumption DEF ConnInv, SockInv, SockPlaces, TypeOK, Socks
  <2> QED BY <2>1, <2>2, <2>3 DEF ConnInv, RxInv
<1>6. ASSUME NEW s \in Socks, BadPacket(s) PROVE RxInv'
  <2>1. RxKept
    BY <1>6 DEF BadPacket, RxKept, ConnInv, TypeOK, Threads
  <2> QED BY <2>1, RxFrame
<1>7. ASSUME NEW s \in Socks, SockBreak(s) PROVE RxInv'
  <2>1. SockBreakEffect(s)
    BY <1>7, SockBreakStep
  <2>2. \A x \in Socks : sock[x] = "none" <=> sock'[x] = "none"
    BY <2>1, LossSocks DEF SockBreakEffect, ConnInv, TypeOK
  <2>3. RxKept
    BY <2>1, <2>2 DEF SockBreakEffect, RxKept
  <2> QED BY <2>3, RxFrame
<1>8. ASSUME NEW s \in Socks, SockUp(s) PROVE RxInv'
  <2>1. RxKept
    BY <1>8 DEF SockUp, RxKept, ConnInv, TypeOK, Threads
  <2> QED BY <2>1, RxFrame
<1>9. ASSUME NEW s \in Socks, RelFree(s) PROVE RxInv'
  <2>1. RelFreeEffect(s)
    BY <1>9, RelFreeStep
  <2>2. RxKept
    BY <2>1, RelFreeSocks DEF RelFreeEffect, RxKept
  <2> QED BY <2>2, RxFrame
<1>10. ASSUME NEW t \in Senders, GetSock(t) PROVE RxInv'
  <2>1. RxKept
    BY <1>10 DEF GetSock, RxKept, ConnInv, TypeOK, Threads, Goto
  <2> QED BY <2>1, RxFrame
<1>11. ASSUME NEW t \in Senders, NEW res \in SendResults, SendEnd(t, res) PROVE RxInv'
  <2>1. RxKept
    BY <1>11 DEF SendEnd, RxKept, ConnInv, TypeOK, Threads, Goto
  <2> QED BY <2>1, RxFrame
<1>12. ASSUME NEW t \in Threads, Reset(t) PROVE RxInv'
  <2>1. ResetEffect(t)
    BY <1>12, ResetStep
  <2>2. RxKept
    BY <2>1 DEF ResetEffect, RxKept, ConnInv, TypeOK, Threads
  <2> QED BY <2>2, RxFrame
<1>13. ASSUME NEW t \in Threads, RetryEnq(t) PROVE RxInv'
  <2>1. held[t] # 0 => sock[held[t]] = "open"
    BY <1>13 DEF RetryEnq, ConnInv, SockInv, SockPlaces
  <2>2. \A x \in Socks : sock[x] = "none" <=> sock'[x] = "none"
    BY <1>13, <2>1 DEF RetryEnq, enq_release_sock, ConnInv, TypeOK
  <2>3. RxKept
    BY <1>13, <2>2 DEF RetryEnq, Goto, RxKept, ConnInv, TypeOK, Threads
  <2> QED BY <2>3, RxFrame
<1>14. ASSUME NEW t \in Threads, Reconnect(t) PROVE RxInv'
  <2>1. ReconnectEffect(t)
    BY <1>14, ReconnectStep
  <2>2. conn = "ConnectRetry" /\ pc["mk"] \notin {"create", "connect"}
    BY <2>1 DEF ReconnectEffect, ConnInv, OneRetry, StateInv
  <2>3. pc'["mk"] \in {"create", "connect", "service"} => pc'["mk"] = pc["mk"]
    BY <2>1 DEF ReconnectEffect, ConnInv, TypeOK, Threads
  <2>4. CASE UNCHANGED <<sock, crt>>
    BY <2>1, <2>3, <2>4, RxFrame DEF ReconnectEffect, RxKept
  <2>5. ASSUME NEW s \in Socks, Fresh(s), sock' = [sock EXCEPT ![s] = "open"],
               crt' = [st |-> "Waiting", sock |-> s, up |-> FALSE]
        PROVE  RxInv'
    <3>1. 1 \in Socks /\ sock[s] = "none" /\ UNCHANGED rx
      BY <2>1, <2>5, ConnAssumption DEF ReconnectEffect, Fresh, Socks
    <3>2. \A x \in Socks : sock'[x] = IF x = s THEN "open" ELSE sock[x]
      BY <2>5 DEF ConnInv, TypeOK
    <3>3. crt'.sock = s
      BY <2>5
    <3> QED BY <2>2, <2>3, <3>1, <3>2, <3>3 DEF ConnInv, RxInv
  <2> QED BY <2>1, <2>4, <2>5 DEF ReconnectEffect
<1>15. ASSUME NEW t \in Threads, StopRx(t) PROVE RxInv'
  <2>1. RxKept
    BY <1>15 DEF StopRx, RxKept, ConnInv, TypeOK, Threads, Goto
  <2> QED BY <2>1, RxFrame
<1>28. ASSUME NEW t \in Threads, StopDone(t) PROVE RxInv'
  <2>1. \A x \in Socks : rx'[x] = rx[x] \/ rx'[x] = "none"
    BY <1>28 DEF StopDone, stop_sk_rx_thread, ConnInv, TypeOK
  <2>2. pc'["mk"] \in {"create", "connect", "service"} => pc'["mk"] = pc["mk"]
    BY <1>28 DEF StopDone, Goto, ConnInv, TypeOK, Threads
  <2>3. 1 \in Socks /\ (crt.st \in {"Waiting", "Connecting", "Done"} => crt.sock \in Socks)
    BY ConnAssumption DEF ConnInv, SockInv, SockPlaces, TypeOK, Socks
  <2> QED BY <1>28, <2>1, <2>2, <2>3 DEF StopDone, ConnInv, RxInv
<1>16. ASSUME HkTask PROVE RxInv'
  <2>1. RxKept
    BY <1>16 DEF HkTask, RxKept, ConnInv, TypeOK, Threads, Goto
  <2> QED BY <2>1, RxFrame
<1>17. ASSUME RetryStart PROVE RxInv'
  <2>1. /\ UNCHANGED <<rx, sock, pc>> /\ crt'.sock = crt.sock
        /\ crt.st \in {"Waiting", "Connecting"}
    BY <1>17 DEF RetryStart, ConnInv, TypeOK
  <2> QED BY <2>1 DEF ConnInv, RxInv
<1>18. ASSUME RetryFail PROVE RxInv'
  <2>1. /\ UNCHANGED <<rx, sock, pc>> /\ crt'.sock = crt.sock
        /\ crt.st \in {"Waiting", "Connecting"}
    BY <1>18 DEF RetryFail, ConnInv, TypeOK
  <2> QED BY <2>1 DEF ConnInv, RxInv
<1>19. ASSUME RetryServe PROVE RxInv'
  <2>1. crt.st = "Done" /\ crt'.st = "Serving" /\ UNCHANGED <<sock, pc>>
    BY <1>19 DEF RetryServe, ConnInv, TypeOK
  <2>2. crt.sock \in Socks /\ 1 \in Socks /\ sock[crt.sock] = "open"
    BY <2>1, ConnAssumption DEF ConnInv, StateInv, TaskDone, SockInv, SockPlaces, TypeOK, Socks
  <2>3. \A x \in Socks : x # crt.sock => rx'[x] = rx[x]
    BY <1>19 DEF RetryServe, conn_done_fn, ConnInv, TypeOK
  <2> QED BY <2>1, <2>2, <2>3 DEF ConnInv, RxInv
<1>20. ASSUME RetryRemove PROVE RxInv'
  BY <1>20 DEF RetryRemove, NoTask, ConnInv, RxInv
<1>21. ASSUME RelTake PROVE RxInv'
  <2>1. PICK h \in Socks : RelTakeEffect(h)
    BY <1>21, RelTakeStep
  <2>2. RxKept
    BY <2>1 DEF RelTakeEffect, RxKept, ConnInv, TypeOK
  <2> QED BY <2>2, RxFrame
<1>22. ASSUME NEW up \in BOOLEAN, RetryOK(up) PROVE RxInv'
  <2>1. RetryOKEffect(up)
    BY <1>22, RetryOKStep
  <2>2. crt.st = "Connecting" /\ UNCHANGED <<rx, pc>>
    BY <2>1 DEF RetryOKEffect
  <2>3. crt.sock \in Socks /\ sock[crt.sock] = "open"
    BY <2>2, TaskSock
  <2>4. CASE crt'.st = "Done" /\ crt'.sock = crt.sock /\ UNCHANGED sock
    BY <2>2, <2>4 DEF ConnInv, RxInv
  <2>5. CASE crt' = NoTask /\ sock' = [sock EXCEPT ![crt.sock] = "freed"]
    <3>1. \A x \in Socks : sock[x] = "none" <=> sock'[x] = "none"
      BY <2>3, <2>5 DEF ConnInv, TypeOK
    <3>2. 1 \in Socks /\ crt'.st = "none"
      BY <2>5, ConnAssumption DEF Socks, NoTask
    <3> QED BY <2>2, <3>1, <3>2 DEF ConnInv, RxInv
  <2> QED BY <2>1, <2>4, <2>5 DEF RetryOKEffect
<1>23. ASSUME Shutdown PROVE RxInv'
  <2>1. RxKept
    BY <1>23 DEF Shutdown, RxKept, ConnInv, TypeOK, Threads
  <2> QED BY <2>1, RxFrame
<1>24. ASSUME CancelTask PROVE RxInv'
  <2>1. crt.sock \in Socks /\ sock[crt.sock] = "open"
    BY <1>24, TaskSock DEF CancelTask
  <2>2. \A x \in Socks : sock[x] = "none" <=> sock'[x] = "none"
    BY <1>24, <2>1 DEF CancelTask, ConnInv, TypeOK
  <2>3. 1 \in Socks /\ crt'.st = "none" /\ UNCHANGED <<rx, pc>>
    BY <1>24, ConnAssumption DEF CancelTask, Socks, NoTask
  <2> QED BY <2>2, <2>3 DEF ConnInv, RxInv
<1>25. ASSUME CloseStop PROVE RxInv'
  <2>1. CloseStopEffect
    BY <1>25, CloseStopStep
  <2>2. RxKept
    BY <2>1 DEF CloseStopEffect, RxKept, ConnInv, TypeOK, Threads
  <2> QED BY <2>2, RxFrame
<1>26. ASSUME CloseConn PROVE RxInv'
  <2>1. CloseConnEffect
    BY <1>26, CloseConnStep
  <2>2. crt.st = "none" /\ pc'["mk"] = "idle" /\ UNCHANGED crt
    BY <2>1 DEF CloseConnEffect, ConnInv, OneRetry, TypeOK, Threads
  <2>3. \A x \in Socks : rx'[x] = rx[x] \/ rx'[x] = "none"
    BY <2>1 DEF CloseConnEffect, stop_sk_rx_thread, ConnInv, TypeOK
  <2>4. \A x \in Socks : sock'[x] = "none" => sock[x] = "none"
    BY <2>1 DEF CloseConnEffect, enq_release_sock, ConnInv, TypeOK
  <2> QED BY <2>2, <2>3, <2>4 DEF ConnInv, RxInv
<1>27. CASE UNCHANGED vars
  BY <1>27 DEF vars, ConnInv, RxInv
<1> QED
  BY ConnCases, <1>1, <1>2, <1>3, <1>4, <1>5, <1>6, <1>7, <1>8, <1>9, <1>10, <1>11, <1>12, <1>13,
     <1>14, <1>15, <1>16, <1>17, <1>18, <1>19, <1>20, <1>21, <1>22, <1>23, <1>24, <1>25, <1>26,
     <1>27, <1>28

(* A loss that a socket callback finds is given to housekeeping, once.      *)
LEMMA LossOneRetry ==
  ASSUME ConnInv, NEW lives, LossEffect(lives), UNCHANGED <<pc, crt, run>>
  PROVE  OneRetry'
<1>1. CASE conn = "Connected" /\ crt.st = "none" /\ conn' = "ConnectRetry" /\ add_hk_task("retry")
  <2>1. ~RetryQueued /\ \A t \in Threads : pc[t] \notin {"enq", "add", "close"}
    BY <1>1 DEF ConnInv, OneRetry
  <2>2. CASE run /\ hkq' = Append(hkq, "retry")
    <3>1. /\ Len(hkq') = Len(hkq) + 1 /\ Len(hkq) \in Nat
          /\ \A i \in 1 .. Len(hkq) : hkq'[i] = hkq[i]
      BY <1>1, <2>2 DEF ConnInv, TypeOK
    <3> QED BY <1>1, <2>1, <2>2, <3>1 DEF ConnInv, OneRetry, RetryQueued
  <2>3. CASE hkq' = hkq
    BY <1>1, <2>1, <2>3 DEF ConnInv, OneRetry, RetryQueued
  <2> QED BY <1>1, <2>2, <2>3 DEF add_hk_task
<1>2. CASE UNCHANGED <<conn, hkq>>
  BY <1>2 DEF ConnInv, OneRetry, RetryQueued
<1> QED BY <1>1, <1>2 DEF LossEffect

(* A housekeeping task of another kind asks for no retry.                   *)
LEMMA OtherTask ==
  ASSUME ConnInv, NEW task \in {"back", "reset"}, add_hk_task(task)
  PROVE  /\ hkq' \in Seq({"retry", "back", "reset"}) /\ (~run => hkq' = hkq)
         /\ \A i \in 1 .. Len(hkq') : hkq'[i] = "retry" => i \in 1 .. Len(hkq) /\ hkq[i] = "retry"
         /\ \A i \in 1 .. Len(hkq) : hkq[i] = "retry" => i \in 1 .. Len(hkq') /\ hkq'[i] = "retry"
<1>1. hkq \in Seq({"retry", "back", "reset"})
  BY DEF ConnInv, TypeOK
<1>2. CASE hkq' = Append(hkq, task)
  <2>1. /\ hkq' \in Seq({"retry", "back", "reset"})
        /\ Len(hkq') = Len(hkq) + 1 /\ Len(hkq) \in Nat /\ hkq'[Len(hkq) + 1] = task
        /\ \A i \in 1 .. Len(hkq) : hkq'[i] = hkq[i]
    BY <1>1, <1>2
  <2>2. ~run => hkq' = hkq
    BY DEF add_hk_task
  <2> QED BY <2>1, <2>2
<1>3. CASE hkq' = hkq
  BY <1>1, <1>3
<1> QED BY <1>2, <1>3 DEF add_hk_task

(* OneRetry is preserved.                                                   *)
LEMMA OneRetryStep ==
  ASSUME ConnInv, ~BreakWhileDone, [Next]_vars
  PROVE  OneRetry'
<1>1. ASSUME Create PROVE OneRetry'
  <2>1. CreateEffect
    BY <1>1, CreateStep
  <2> QED BY <2>1 DEF CreateEffect, ConnInv, OneRetry, RetryQueued, StateInv, TypeOK, TaskDone,
       TaskStates, NoTask, Threads
<1>2. ASSUME ConnectServe PROVE OneRetry'
  BY <1>2 DEF ConnectServe, conn_done_fn, Goto, ConnInv, OneRetry, RetryQueued, StateInv, TypeOK,
     TaskDone, TaskStates, NoTask, Threads
<1>3. ASSUME ConnectFail PROVE OneRetry'
  <2>1. ConnectFailEffect
    BY <1>3, ConnectFailStep
  <2> QED BY <2>1 DEF ConnectFailEffect, ConnInv, OneRetry, RetryQueued, StateInv, TypeOK,
       TaskDone, TaskStates, NoTask, Threads
<1>4. ASSUME NEW s \in Socks, ConnectOK(s) PROVE OneRetry'
  <2>1. ConnectOKEffect(s)
    BY <1>4, ConnectOKStep
  <2> QED BY <2>1 DEF ConnectOKEffect, ConnInv, OneRetry, RetryQueued, StateInv, TypeOK, TaskDone,
       TaskStates, NoTask, Threads
<1>5. ASSUME NEW s \in Socks, RxStart(s) PROVE OneRetry'
  BY <1>5 DEF RxStart, ConnInv, OneRetry, RetryQueued, StateInv, TypeOK, TaskDone, TaskStates,
     NoTask, Threads
<1>6. ASSUME NEW s \in Socks, BadPacket(s) PROVE OneRetry'
  <2>1. \A i \in 1 .. Len(hkq') : hkq'[i] = "retry" => i \in 1 .. Len(hkq) /\ hkq[i] = "retry"
    BY <1>6, OtherTask DEF BadPacket
  <2> QED BY <1>6, <2>1 DEF BadPacket, ConnInv, OneRetry, RetryQueued
<1>7. ASSUME NEW s \in Socks, SockBreak(s) PROVE OneRetry'
  <2>1. SockBreakEffect(s)
    BY <1>7, SockBreakStep
  <2> QED BY <2>1, LossOneRetry DEF SockBreakEffect
<1>8. ASSUME NEW s \in Socks, SockUp(s) PROVE OneRetry'
  BY <1>8 DEF SockUp, ConnInv, OneRetry, RetryQueued, StateInv, TypeOK, TaskDone, TaskStates,
     NoTask, Threads
<1>9. ASSUME NEW s \in Socks, RelFree(s) PROVE OneRetry'
  <2>1. RelFreeEffect(s)
    BY <1>9, RelFreeStep
  <2> QED BY <2>1, LossOneRetry DEF RelFreeEffect
<1>10. ASSUME NEW t \in Senders, GetSock(t) PROVE OneRetry'
  BY <1>10 DEF GetSock, Goto, ConnInv, OneRetry, RetryQueued, StateInv, TypeOK, TaskDone,
     TaskStates, NoTask, Threads
<1>11. ASSUME NEW t \in Senders, NEW res \in SendResults, SendEnd(t, res) PROVE OneRetry'
  BY <1>11 DEF SendEnd, Goto, deRef, ConnInv, OneRetry, RetryQueued, StateInv, TypeOK, TaskDone,
     TaskStates, NoTask, Threads
<1>12. ASSUME NEW t \in Threads, Reset(t) PROVE OneRetry'
  <2>1. ResetEffect(t)
    BY <1>12, ResetStep
  <2>2. CASE conn = "Connected" /\ crt.st = "none" /\ conn' = "ConnectRetry"
             /\ pc' = [pc EXCEPT ![t] = "enq"]
    <3>1. ~RetryQueued /\ run /\ \A u \in Threads : pc[u] \notin {"enq", "add", "close"}
      BY <2>1, <2>2 DEF ResetEffect, ConnInv, OneRetry
    <3> QED BY <2>1, <2>2, <3>1 DEF ResetEffect, ConnInv, OneRetry, RetryQueued, TypeOK
  <2>3. CASE pc' = [pc EXCEPT ![t] = "idle"] /\ UNCHANGED conn
    BY <2>1, <2>3 DEF ResetEffect, ConnInv, OneRetry, RetryQueued, TypeOK
  <2> QED BY <2>1, <2>2, <2>3 DEF ResetEffect
<1>13. ASSUME NEW t \in Threads, RetryEnq(t) PROVE OneRetry'
  BY <1>13 DEF RetryEnq, Goto, enq_release_sock, ConnInv, OneRetry, RetryQueued, StateInv, TypeOK,
     TaskDone, TaskStates, NoTask, Threads
<1>14. ASSUME NEW t \in Threads, Reconnect(t) PROVE OneRetry'
  <2>1. ReconnectEffect(t)
    BY <1>14, ReconnectStep
  <2>2. \A u \in Threads : pc[u] \in {"enq", "add", "close"} => u = t
    BY <2>1 DEF ReconnectEffect, ConnInv, OneRetry
  <2>3. \A u \in Threads : pc'[u] \notin {"enq", "add", "close"}
    BY <2>1, <2>2 DEF ReconnectEffect, ConnInv, TypeOK
  <2>4. ~RetryQueued
    BY <2>1 DEF ReconnectEffect, ConnInv, OneRetry
  <2> QED BY <2>1, <2>3, <2>4 DEF ReconnectEffect, ConnInv, OneRetry, RetryQueued
<1>15. ASSUME NEW t \in Threads, StopRx(t) PROVE OneRetry'
  BY <1>15 DEF StopRx, Goto, ConnInv, OneRetry, RetryQueued, StateInv,
     TypeOK, TaskDone, TaskStates, NoTask, Threads
<1>28. ASSUME NEW t \in Threads, StopDone(t) PROVE OneRetry'
  BY <1>28 DEF StopDone, Goto, ConnInv, OneRetry, RetryQueued, TypeOK, Threads
<1>16. ASSUME HkTask PROVE OneRetry'
  BY <1>16 DEF HkTask, Goto, ConnInv, OneRetry, RetryQueued, StateInv, TypeOK, TaskDone,
     TaskStates, NoTask, Threads
<1>17. ASSUME RetryStart PROVE OneRetry'
  BY <1>17 DEF RetryStart, ConnInv, OneRetry, RetryQueued, StateInv, TypeOK, TaskDone,
     TaskStates, NoTask, Threads
<1>18. ASSUME RetryFail PROVE OneRetry'
  BY <1>18 DEF RetryFail, ConnInv, OneRetry, RetryQueued, StateInv, TypeOK, TaskDone, TaskStates,
     NoTask, Threads
<1>19. ASSUME RetryServe PROVE OneRetry'
  <2>1. /\ \A i \in 1 .. Len(hkq') : hkq'[i] = "retry" => i \in 1 .. Len(hkq) /\ hkq[i] = "retry"
        /\ ~run => hkq' = hkq
    BY <1>19, OtherTask DEF RetryServe, conn_done_fn
  <2>2. conn = "Connected"
    BY <1>19 DEF RetryServe, ConnInv, StateInv, TaskDone
  <2>3. UNCHANGED <<conn, pc, run>>
    BY <1>19 DEF RetryServe
  <2> QED BY <2>1, <2>2, <2>3 DEF ConnInv, OneRetry, RetryQueued
<1>20. ASSUME RetryRemove PROVE OneRetry'
  BY <1>20 DEF RetryRemove, ConnInv, OneRetry, RetryQueued, StateInv, TypeOK, TaskDone, TaskStates,
     NoTask, Threads
<1>21. ASSUME RelTake PROVE OneRetry'
  BY <1>21 DEF RelTake, ConnInv, OneRetry, RetryQueued, StateInv, TypeOK, TaskDone, TaskStates,
     NoTask, Threads
<1>22. ASSUME NEW up \in BOOLEAN, RetryOK(up) PROVE OneRetry'
  <2>1. RetryOKEffect(up)
    BY <1>22, RetryOKStep
  <2> QED BY <2>1 DEF RetryOKEffect, ConnInv, OneRetry, RetryQueued, StateInv, TypeOK, TaskDone,
       TaskStates, NoTask, Threads
<1>23. ASSUME Shutdown PROVE OneRetry'
  BY <1>23 DEF Shutdown, ConnInv, OneRetry, RetryQueued, StateInv, TypeOK, TaskDone, TaskStates,
     NoTask, Threads
<1>24. ASSUME CancelTask PROVE OneRetry'
  BY <1>24 DEF CancelTask, ConnInv, OneRetry, RetryQueued, StateInv, TypeOK, TaskDone, TaskStates,
     NoTask, Threads
<1>25. ASSUME CloseStop PROVE OneRetry'
  <2>1. CloseStopEffect
    BY <1>25, CloseStopStep
  <2> QED BY <2>1 DEF CloseStopEffect, ConnInv, OneRetry, RetryQueued, StateInv, TypeOK, TaskDone,
       TaskStates, NoTask, Threads
<1>26. ASSUME CloseConn PROVE OneRetry'
  <2>1. CloseConnEffect
    BY <1>26, CloseConnStep
  <2> QED BY <2>1 DEF CloseConnEffect, enq_release_sock, stop_sk_rx_thread, deRef, ConnInv,
       OneRetry, RetryQueued, StateInv, TypeOK, TaskDone, TaskStates, NoTask, Threads
<1>27. CASE UNCHANGED vars
  BY <1>27 DEF vars, ConnInv, OneRetry, RetryQueued, StateInv, TypeOK, TaskDone, TaskStates,
     NoTask, Threads
<1> QED
  BY ConnCases, <1>1, <1>2, <1>3, <1>4, <1>5, <1>6, <1>7, <1>8, <1>9, <1>10, <1>11, <1>12, <1>13,
     <1>14, <1>15, <1>16, <1>17, <1>18, <1>19, <1>20, <1>21, <1>22, <1>23, <1>24, <1>25, <1>26,
     <1>27, <1>28

(* SockOrder only depends on which sockets are allocated.                   *)
LEMMA OrderFrame ==
  ASSUME SockOrder, \A x \in Socks : sock'[x] = "none" <=> sock[x] = "none"
  PROVE  SockOrder'
BY DEF SockOrder

(* SockOrder is preserved.                                                  *)
LEMMA OrderStep ==
  ASSUME ConnInv, ~BreakWhileDone, [Next]_vars
  PROVE  SockOrder'
<1>1. ASSUME Create PROVE SockOrder'
  <2>1. CreateEffect
    BY <1>1, CreateStep
  <2> QED BY <2>1 DEF CreateEffect, ConnInv, SockInv, SockOrder, SockPlaces, TypeOK
<1>2. ASSUME ConnectServe PROVE SockOrder'
  BY <1>2 DEF ConnectServe, conn_done_fn, Goto, ConnInv, SockInv, SockOrder, SockPlaces, TypeOK
<1>3. ASSUME ConnectFail PROVE SockOrder'
  <2>1. ConnectFailEffect
    BY <1>3, ConnectFailStep
  <2> QED BY <2>1 DEF ConnectFailEffect, ConnInv, SockInv, SockOrder, SockPlaces, TypeOK
<1>4. ASSUME NEW s \in Socks, ConnectOK(s) PROVE SockOrder'
  <2>1. ConnectOKEffect(s)
    BY <1>4, ConnectOKStep
  <2> QED BY <2>1, ConnAssumption DEF ConnectOKEffect, ConnInv, SockInv, SockOrder, SockPlaces,
       TypeOK, Fresh, Socks
<1>5. ASSUME NEW s \in Socks, RxStart(s) PROVE SockOrder'
  BY <1>5 DEF RxStart, ConnInv, SockInv, SockOrder, SockPlaces, TypeOK
<1>6. ASSUME NEW s \in Socks, BadPacket(s) PROVE SockOrder'
  BY <1>6 DEF BadPacket, ConnInv, SockInv, SockOrder, SockPlaces, TypeOK
<1>7. ASSUME NEW s \in Socks, SockBreak(s) PROVE SockOrder'
  <2>1. SockBreakEffect(s)
    BY <1>7, SockBreakStep
  <2>2. \A x \in Socks : sock'[x] = "none" <=> sock[x] = "none"
    BY <2>1, LossSocks DEF SockBreakEffect, ConnInv, TypeOK
  <2> QED BY <2>2, OrderFrame DEF ConnInv, SockInv
<1>8. ASSUME NEW s \in Socks, SockUp(s) PROVE SockOrder'
  BY <1>8 DEF SockUp, ConnInv, SockInv, SockOrder, SockPlaces, TypeOK
<1>9. ASSUME NEW s \in Socks, RelFree(s) PROVE SockOrder'
  <2>1. RelFreeEffect(s)
    BY <1>9, RelFreeStep
  <2>2. \A x \in Socks : sock'[x] = "none" <=> sock[x] = "none"
    BY <2>1, RelFreeSocks
  <2> QED BY <2>2, OrderFrame DEF ConnInv, SockInv
<1>10. ASSUME NEW t \in Senders, GetSock(t) PROVE SockOrder'
  BY <1>10 DEF GetSock, Goto, ConnInv, SockInv, SockOrder, SockPlaces, TypeOK
<1>11. ASSUME NEW t \in Senders, NEW res \in SendResults, SendEnd(t, res) PROVE SockOrder'
  BY <1>11 DEF SendEnd, Goto, deRef, ConnInv, SockInv, SockOrder, SockPlaces, TypeOK
<1>12. ASSUME NEW t \in Threads, Reset(t) PROVE SockOrder'
  <2>1. ResetEffect(t)
    BY <1>12, ResetStep
  <2> QED BY <2>1 DEF ResetEffect, ConnInv, SockInv, SockOrder, SockPlaces, TypeOK
<1>13. ASSUME NEW t \in Threads, RetryEnq(t) PROVE SockOrder'
  BY <1>13, ConnAssumption DEF RetryEnq, Goto, enq_release_sock, ConnInv, SockInv, SockOrder,
     SockPlaces, TypeOK, Socks
<1>14. ASSUME NEW t \in Threads, Reconnect(t) PROVE SockOrder'
  <2>1. ReconnectEffect(t)
    BY <1>14, ReconnectStep
  <2> QED BY <2>1, ConnAssumption DEF ReconnectEffect, ConnInv, SockInv, SockOrder, SockPlaces,
       TypeOK, Fresh, Socks
<1>15. ASSUME NEW t \in Threads, StopRx(t) PROVE SockOrder'
  BY <1>15 DEF StopRx, Goto, ConnInv, SockInv, SockOrder, SockPlaces,
     TypeOK
<1>28. ASSUME NEW t \in Threads, StopDone(t) PROVE SockOrder'
  BY <1>28 DEF StopDone, Goto, ConnInv, SockInv, SockOrder
<1>16. ASSUME HkTask PROVE SockOrder'
  BY <1>16 DEF HkTask, Goto, ConnInv, SockInv, SockOrder, SockPlaces, TypeOK
<1>17. ASSUME RetryStart PROVE SockOrder'
  BY <1>17 DEF RetryStart, ConnInv, SockInv, SockOrder, SockPlaces, TypeOK
<1>18. ASSUME RetryFail PROVE SockOrder'
  BY <1>18 DEF RetryFail, ConnInv, SockInv, SockOrder, SockPlaces, TypeOK
<1>19. ASSUME RetryServe PROVE SockOrder'
  BY <1>19 DEF RetryServe, conn_done_fn, ConnInv, SockInv, SockOrder, SockPlaces, TypeOK
<1>20. ASSUME RetryRemove PROVE SockOrder'
  BY <1>20 DEF RetryRemove, ConnInv, SockInv, SockOrder, SockPlaces, TypeOK
<1>21. ASSUME RelTake PROVE SockOrder'
  <2>1. PICK h \in Socks : RelTakeEffect(h)
    BY <1>21, RelTakeStep
  <2>2. \A x \in Socks : sock'[x] = "none" <=> sock[x] = "none"
    BY <2>1 DEF RelTakeEffect, ConnInv, TypeOK
  <2> QED BY <2>2, OrderFrame DEF ConnInv, SockInv
<1>22. ASSUME NEW up \in BOOLEAN, RetryOK(up) PROVE SockOrder'
  <2>1. RetryOKEffect(up)
    BY <1>22, RetryOKStep
  <2>2. \A x \in Socks : sock'[x] = "none" <=> sock[x] = "none"
    BY <2>1, TaskSock DEF RetryOKEffect, ConnInv, TypeOK
  <2> QED BY <2>2, OrderFrame DEF ConnInv, SockInv
<1>23. ASSUME Shutdown PROVE SockOrder'
  BY <1>23 DEF Shutdown, ConnInv, SockInv, SockOrder, SockPlaces, TypeOK
<1>24. ASSUME CancelTask PROVE SockOrder'
  BY <1>24, ConnAssumption DEF CancelTask, ConnInv, SockInv, SockOrder, SockPlaces, TypeOK, Socks
<1>25. ASSUME CloseStop PROVE SockOrder'
  <2>1. CloseStopEffect
    BY <1>25, CloseStopStep
  <2> QED BY <2>1 DEF CloseStopEffect, ConnInv, SockInv, SockOrder, SockPlaces, TypeOK
<1>26. ASSUME CloseConn PROVE SockOrder'
  <2>1. CloseConnEffect
    BY <1>26, CloseConnStep
  <2>2. held["mk"] # 0 => held["mk"] \in Socks /\ sock[held["mk"]] = "open"
    BY <2>1, ConnAssumption DEF CloseConnEffect, ConnInv, SockInv, SockPlaces, TypeOK, Threads, Socks
  <2>3. \A x \in Socks : sock'[x] = "none" <=> sock[x] = "none"
    BY <2>1, <2>2 DEF CloseConnEffect, enq_release_sock, ConnInv, TypeOK
  <2> QED BY <2>3, OrderFrame DEF ConnInv, SockInv
<1>27. CASE UNCHANGED vars
  BY <1>27 DEF vars, ConnInv, SockInv, SockOrder, SockPlaces, TypeOK
<1> QED
  BY ConnCases, <1>1, <1>2, <1>3, <1>4, <1>5, <1>6, <1>7, <1>8, <1>9, <1>10, <1>11, <1>12, <1>13,
     <1>14, <1>15, <1>16, <1>17, <1>18, <1>19, <1>20, <1>21, <1>22, <1>23, <1>24, <1>25, <1>26,
     <1>27, <1>28

(* Places are kept while open sockets stay open, or the connection is lost. *)
LEMMA PlacesFrame ==
  ASSUME ConnInv, UNCHANGED <<crt, pc, held>>,
         \/ UNCHANGED cur /\ \A x \in Socks : sock[x] = "open" => sock'[x] = "open"
         \/ cur' = 0 /\ conn = "Connected" /\ crt.st = "none"
  PROVE  SockPlaces'
<1>1. CASE UNCHANGED cur /\ \A x \in Socks : sock[x] = "open" => sock'[x] = "open"
  <2>1. \A t \in Threads : held[t] # 0 => held[t] \in Socks
    BY ConnAssumption DEF ConnInv, TypeOK, Socks
  <2>2. (cur # 0 => cur \in Socks) /\ (crt.sock # 0 => crt.sock \in Socks)
    BY ConnAssumption DEF ConnInv, TypeOK, Socks
  <2> QED BY <1>1, <2>1, <2>2 DEF ConnInv, SockInv, SockPlaces
<1>2. CASE cur' = 0 /\ conn = "Connected" /\ crt.st = "none"
  <2>1. \A t \in Threads : pc[t] \notin {"enq", "close"}
    BY <1>2 DEF ConnInv, OneRetry
  <2> QED BY <1>2, <2>1 DEF ConnInv, SockInv, SockPlaces
<1> QED BY <1>1, <1>2

(* SockPlaces is preserved.                                                 *)
LEMMA PlacesStep ==
  ASSUME ConnInv, ~BreakWhileDone, [Next]_vars
  PROVE  SockPlaces'
<1>1. ASSUME Create PROVE SockPlaces'
  <2>1. CreateEffect
    BY <1>1, CreateStep
  <2> QED BY <2>1 DEF CreateEffect, ConnInv, SockInv, SockPlaces, TypeOK, StateInv, OneRetry,
       TaskDone, NoTask, Threads
<1>2. ASSUME ConnectServe PROVE SockPlaces'
  BY <1>2 DEF ConnectServe, conn_done_fn, Goto, ConnInv, SockInv, SockPlaces, TypeOK, StateInv,
     OneRetry, TaskDone, NoTask, Threads
<1>3. ASSUME ConnectFail PROVE SockPlaces'
  <2>1. ConnectFailEffect
    BY <1>3, ConnectFailStep
  <2> QED BY <2>1 DEF ConnectFailEffect, ConnInv, SockInv, SockPlaces, TypeOK, StateInv, OneRetry,
       TaskDone, NoTask, Threads
<1>4. ASSUME NEW s \in Socks, ConnectOK(s) PROVE SockPlaces'
  <2>1. ConnectOKEffect(s)
    BY <1>4, ConnectOKStep
  <2> QED BY <2>1, ConnAssumption DEF ConnectOKEffect, ConnInv, SockInv, SockPlaces, TypeOK,
       StateInv, OneRetry, TaskDone, NoTask, Threads, Fresh, Socks
<1>5. ASSUME NEW s \in Socks, RxStart(s) PROVE SockPlaces'
  BY <1>5 DEF RxStart, ConnInv, SockInv, SockPlaces, TypeOK, StateInv, OneRetry, TaskDone, NoTask,
     Threads
<1>6. ASSUME NEW s \in Socks, BadPacket(s) PROVE SockPlaces'
  BY <1>6 DEF BadPacket, ConnInv, SockInv, SockPlaces, TypeOK, StateInv, OneRetry, TaskDone,
     NoTask, Threads
<1>7. ASSUME NEW s \in Socks, SockBreak(s) PROVE SockPlaces'
  <2>1. SockBreakEffect(s)
    BY <1>7, SockBreakStep
  <2> QED BY <2>1, ConnAssumption DEF SockBreakEffect, LossEffect, ConnInv, SockInv, SockPlaces,
       TypeOK, StateInv, OneRetry, TaskDone, NoTask, Threads, Socks
<1>8. ASSUME NEW s \in Socks, SockUp(s) PROVE SockPlaces'
  BY <1>8 DEF SockUp, ConnInv, SockInv, SockPlaces, TypeOK, StateInv, OneRetry, TaskDone, NoTask,
     Threads
<1>9. ASSUME NEW s \in Socks, RelFree(s) PROVE SockPlaces'
  <2>1. RelFreeEffect(s)
    BY <1>9, RelFreeStep
  <2>2. CASE UNCHANGED cur
    <3>1. \A x \in Socks : sock[x] = "open" => sock'[x] = "open"
      BY <2>1, <2>2, RelFreeSocks, ConnAssumption DEF Socks
    <3> QED BY <2>1, <2>2, <3>1, PlacesFrame DEF RelFreeEffect
  <2>3. CASE cur' = 0 /\ conn = "Connected" /\ crt.st = "none"
    BY <2>1, <2>3, PlacesFrame DEF RelFreeEffect
  <2> QED BY <2>1, <2>2, <2>3 DEF RelFreeEffect, LossEffect
<1>10. ASSUME NEW t \in Senders, GetSock(t) PROVE SockPlaces'
  BY <1>10 DEF GetSock, Goto, ConnInv, SockInv, SockPlaces, TypeOK, StateInv, OneRetry, TaskDone,
     NoTask, Threads
<1>11. ASSUME NEW t \in Senders, NEW res \in SendResults, SendEnd(t, res) PROVE SockPlaces'
  BY <1>11 DEF SendEnd, Goto, deRef, ConnInv, SockInv, SockPlaces, TypeOK, StateInv, OneRetry,
     TaskDone, NoTask, Threads
<1>12. ASSUME NEW t \in Threads, Reset(t) PROVE SockPlaces'
  <2>1. ResetEffect(t)
    BY <1>12, ResetStep
  <2>2. CASE /\ conn = "Connected" /\ crt.st = "none" /\ cur' = 0
             /\ held' = [held EXCEPT ![t] = cur] /\ pc' = [pc EXCEPT ![t] = "enq"]
    <3>1. \A u \in Threads : pc[u] \notin {"enq", "close"}
      BY <2>2 DEF ConnInv, OneRetry
    <3>2. UNCHANGED <<sock, crt>>
      BY <2>1 DEF ResetEffect
    <3> QED BY <2>2, <3>1, <3>2 DEF ConnInv, SockInv, SockPlaces, TypeOK
  <2>3. CASE pc' = [pc EXCEPT ![t] = "idle"] /\ UNCHANGED <<conn, cur, held>>
    BY <2>1, <2>3 DEF ResetEffect, ConnInv, SockInv, SockPlaces, TypeOK
  <2> QED BY <2>1, <2>2, <2>3 DEF ResetEffect
<1>13. ASSUME NEW t \in Threads, RetryEnq(t) PROVE SockPlaces'
  BY <1>13, ConnAssumption DEF RetryEnq, Goto, enq_release_sock, ConnInv, SockInv, SockPlaces,
     TypeOK, StateInv, OneRetry, TaskDone, NoTask, Threads, Socks
<1>14. ASSUME NEW t \in Threads, Reconnect(t) PROVE SockPlaces'
  <2>1. ReconnectEffect(t)
    BY <1>14, ReconnectStep
  <2>2. CASE NoMem /\ pc' = [pc EXCEPT ![t] = "idle"] /\ UNCHANGED <<sock, crt>>
    <3>1. held[t] = 0
      BY <2>1 DEF ReconnectEffect, ConnInv, SockInv, SockPlaces
    <3> QED BY <2>1, <2>2, <3>1 DEF ReconnectEffect, ConnInv, SockInv, SockPlaces, TypeOK
  <2>3. ASSUME NEW s \in Socks, Fresh(s), sock' = [sock EXCEPT ![s] = "open"],
               crt' = [st |-> "Waiting", sock |-> s, up |-> FALSE],
               pc' = [pc EXCEPT ![t] = "stop"]
        PROVE  SockPlaces'
    <3>1. held[t] = 0 /\ \A u \in Threads : pc[u] \notin {"enq", "close"}
      BY <2>1 DEF ReconnectEffect, ConnInv, OneRetry, SockInv, SockPlaces
    <3>2. cur = 0 /\ UNCHANGED <<cur, held>>
      BY <2>1 DEF ReconnectEffect, ConnInv, OneRetry, StateInv
    <3>3. crt'.sock = s /\ s # 0 /\ sock'[s] = "open"
      BY <2>3, ConnAssumption DEF ConnInv, TypeOK, Socks
    <3> QED BY <2>3, <3>1, <3>2, <3>3 DEF ConnInv, SockInv, SockPlaces, TypeOK
  <2> QED BY <2>1, <2>2, <2>3 DEF ReconnectEffect
<1>15. ASSUME NEW t \in Threads, StopRx(t) PROVE SockPlaces'
  BY <1>15 DEF StopRx, Goto, ConnInv, SockInv, SockPlaces, TypeOK,
     StateInv, OneRetry, TaskDone, NoTask, Threads
<1>28. ASSUME NEW t \in Threads, StopDone(t) PROVE SockPlaces'
  BY <1>28 DEF StopDone, Goto, ConnInv, SockInv, SockPlaces, TypeOK, Threads
<1>16. ASSUME HkTask PROVE SockPlaces'
  BY <1>16 DEF HkTask, Goto, ConnInv, SockInv, SockPlaces, TypeOK, StateInv, OneRetry, TaskDone,
     NoTask, Threads
<1>17. ASSUME RetryStart PROVE SockPlaces'
  BY <1>17 DEF RetryStart, ConnInv, SockInv, SockPlaces, TypeOK, StateInv, OneRetry,
     TaskDone, NoTask, Threads
<1>18. ASSUME RetryFail PROVE SockPlaces'
  BY <1>18 DEF RetryFail, ConnInv, SockInv, SockPlaces, TypeOK, StateInv, OneRetry, TaskDone,
     NoTask, Threads
<1>19. ASSUME RetryServe PROVE SockPlaces'
  BY <1>19 DEF RetryServe, conn_done_fn, ConnInv, SockInv, SockPlaces, TypeOK, StateInv, OneRetry,
     TaskDone, NoTask, Threads
<1>20. ASSUME RetryRemove PROVE SockPlaces'
  BY <1>20 DEF RetryRemove, ConnInv, SockInv, SockPlaces, TypeOK, StateInv, OneRetry, TaskDone,
     NoTask, Threads
<1>21. ASSUME RelTake PROVE SockPlaces'
  <2>1. PICK h \in Socks : RelTakeEffect(h)
    BY <1>21, RelTakeStep
  <2>2. \A x \in Socks : sock[x] = "open" => sock'[x] = "open"
    BY <2>1 DEF RelTakeEffect, ConnInv, TypeOK
  <2> QED BY <2>1, <2>2, PlacesFrame DEF RelTakeEffect
<1>22. ASSUME NEW up \in BOOLEAN, RetryOK(up) PROVE SockPlaces'
  <2>1. RetryOKEffect(up)
    BY <1>22, RetryOKStep
  <2>2. crt.sock \in Socks /\ sock[crt.sock] = "open" /\ cur = 0
    BY <2>1, TaskSock DEF RetryOKEffect
  <2>3. UNCHANGED <<pc, held>>
    BY <2>1 DEF RetryOKEffect
  <2>4. CASE crt'.st = "Done" /\ crt'.sock = crt.sock /\ cur' = crt.sock /\ UNCHANGED sock
    BY <2>2, <2>3, <2>4, ConnAssumption DEF ConnInv, SockInv, SockPlaces, Socks
  <2>5. CASE crt'.st = "none" /\ UNCHANGED cur /\ ~run
    <3>1. \A t \in Threads : pc[t] \notin {"enq", "close"}
      BY <2>1 DEF RetryOKEffect, ConnInv, OneRetry
    <3> QED BY <2>2, <2>3, <2>5, <3>1 DEF ConnInv, SockInv, SockPlaces
  <2> QED BY <2>1, <2>4, <2>5 DEF RetryOKEffect, NoTask
<1>23. ASSUME Shutdown PROVE SockPlaces'
  BY <1>23 DEF Shutdown, ConnInv, SockInv, SockPlaces, TypeOK, StateInv, OneRetry, TaskDone,
     NoTask, Threads
<1>24. ASSUME CancelTask PROVE SockPlaces'
  BY <1>24, ConnAssumption DEF CancelTask, ConnInv, SockInv, SockPlaces, TypeOK, StateInv,
     OneRetry, TaskDone, NoTask, Threads, Socks
<1>25. ASSUME CloseStop PROVE SockPlaces'
  <2>1. CloseStopEffect
    BY <1>25, CloseStopStep
  <2> QED BY <2>1 DEF CloseStopEffect, ConnInv, SockInv, SockPlaces, TypeOK, StateInv, OneRetry,
       TaskDone, NoTask, Threads
<1>26. ASSUME CloseConn PROVE SockPlaces'
  <2>1. CloseConnEffect
    BY <1>26, CloseConnStep
  <2> QED BY <2>1, ConnAssumption DEF CloseConnEffect, enq_release_sock, stop_sk_rx_thread, deRef,
       ConnInv, SockInv, SockPlaces, TypeOK, StateInv, OneRetry, TaskDone, NoTask, Threads, Socks
<1>27. CASE UNCHANGED vars
  BY <1>27 DEF vars, ConnInv, SockInv, SockPlaces, TypeOK, StateInv, OneRetry, TaskDone, NoTask,
     Threads
<1> QED
  BY ConnCases, <1>1, <1>2, <1>3, <1>4, <1>5, <1>6, <1>7, <1>8, <1>9, <1>10, <1>11, <1>12, <1>13,
     <1>14, <1>15, <1>16, <1>17, <1>18, <1>19, <1>20, <1>21, <1>22, <1>23, <1>24, <1>25, <1>26,
     <1>27, <1>28

(* A queued socket stays queued, or a socket that was open joins the queue. *)
LEMMA QueueFrame ==
  ASSUME TypeOK, RelQueue, UNCHANGED relq,
         \A x \in Socks : sock[x] = "queued" => sock'[x] = "queued"
  PROVE  RelQueue'
<1>1. \A i \in 1 .. Len(relq) : relq[i] \in Socks
  BY DEF TypeOK
<1> QED BY <1>1 DEF RelQueue

(* A socket that was open joins the queue.                                  *)
LEMMA QueueAppend ==
  ASSUME TypeOK, RelQueue, NEW k \in Socks, sock[k] = "open", relq' = Append(relq, k),
         sock'[k] = "queued", \A x \in Socks : sock[x] = "queued" => sock'[x] = "queued"
  PROVE  RelQueue'
<1>1. /\ Len(relq) \in Nat /\ Len(relq') = Len(relq) + 1 /\ relq'[Len(relq) + 1] = k
      /\ \A i \in 1 .. Len(relq) : relq'[i] = relq[i] /\ relq[i] \in Socks
  BY DEF TypeOK
<1>2. \A i \in 1 .. Len(relq) : relq[i] # k
  BY DEF RelQueue
<1> QED BY <1>1, <1>2 DEF RelQueue

(* RelQueue is preserved.                                                   *)
LEMMA RelQueueStep ==
  ASSUME ConnInv, ~BreakWhileDone, [Next]_vars
  PROVE  RelQueue'
<1>1. ASSUME Create PROVE RelQueue'
  <2>1. CreateEffect
    BY <1>1, CreateStep
  <2> QED BY <2>1 DEF CreateEffect, ConnInv, SockInv, RelQueue, TypeOK
<1>2. ASSUME ConnectServe PROVE RelQueue'
  BY <1>2 DEF ConnectServe, conn_done_fn, Goto, ConnInv, SockInv, RelQueue, TypeOK
<1>3. ASSUME ConnectFail PROVE RelQueue'
  <2>1. ConnectFailEffect
    BY <1>3, ConnectFailStep
  <2> QED BY <2>1 DEF ConnectFailEffect, ConnInv, SockInv, RelQueue, TypeOK
<1>4. ASSUME NEW s \in Socks, ConnectOK(s) PROVE RelQueue'
  <2>1. ConnectOKEffect(s)
    BY <1>4, ConnectOKStep
  <2> QED BY <2>1, ConnAssumption DEF ConnectOKEffect, ConnInv, SockInv, RelQueue, TypeOK, Fresh,
       Socks
<1>5. ASSUME NEW s \in Socks, RxStart(s) PROVE RelQueue'
  BY <1>5 DEF RxStart, ConnInv, SockInv, RelQueue, TypeOK
<1>6. ASSUME NEW s \in Socks, BadPacket(s) PROVE RelQueue'
  BY <1>6 DEF BadPacket, ConnInv, SockInv, RelQueue, TypeOK
<1>7. ASSUME NEW s \in Socks, SockBreak(s) PROVE RelQueue'
  <2>1. SockBreakEffect(s)
    BY <1>7, SockBreakStep
  <2>2. \A x \in Socks : sock[x] = "queued" => sock'[x] = "queued"
    BY <2>1, LossSocks DEF SockBreakEffect, ConnInv, TypeOK
  <2>3. CASE UNCHANGED relq
    BY <2>2, <2>3, QueueFrame DEF ConnInv, SockInv
  <2>4. CASE cur \in Socks /\ sock[cur] = "open" /\ sock'[cur] = "queued"
             /\ relq' = Append(relq, cur)
    BY <2>2, <2>4, QueueAppend DEF ConnInv, SockInv
  <2> QED BY <2>1, <2>3, <2>4, LossSocks DEF SockBreakEffect, ConnInv, TypeOK
<1>8. ASSUME NEW s \in Socks, SockUp(s) PROVE RelQueue'
  BY <1>8 DEF SockUp, ConnInv, SockInv, RelQueue, TypeOK
<1>9. ASSUME NEW s \in Socks, RelFree(s) PROVE RelQueue'
  <2>1. RelFreeEffect(s)
    BY <1>9, RelFreeStep
  <2>2. \A x \in Socks : sock[x] = "queued" => sock'[x] = "queued"
    BY <2>1, RelFreeSocks
  <2>3. CASE UNCHANGED relq
    BY <2>2, <2>3, QueueFrame DEF ConnInv, SockInv
  <2>4. CASE cur \in Socks /\ sock[cur] = "open" /\ sock'[cur] = "queued"
             /\ relq' = Append(relq, cur)
    BY <2>2, <2>4, QueueAppend DEF ConnInv, SockInv
  <2>5. cur' = 0 /\ cur \in Socks => sock'[cur] = "queued" \/ sock[cur] # "open"
    BY <2>1, RelFreeSocks, ConnAssumption DEF Socks
  <2> QED BY <2>1, <2>3, <2>4, <2>5, LossSocks DEF RelFreeEffect
<1>10. ASSUME NEW t \in Senders, GetSock(t) PROVE RelQueue'
  BY <1>10 DEF GetSock, Goto, ConnInv, SockInv, RelQueue, TypeOK
<1>11. ASSUME NEW t \in Senders, NEW res \in SendResults, SendEnd(t, res) PROVE RelQueue'
  BY <1>11 DEF SendEnd, Goto, deRef, ConnInv, SockInv, RelQueue, TypeOK
<1>12. ASSUME NEW t \in Threads, Reset(t) PROVE RelQueue'
  <2>1. ResetEffect(t)
    BY <1>12, ResetStep
  <2> QED BY <2>1 DEF ResetEffect, ConnInv, SockInv, RelQueue, TypeOK
<1>13. ASSUME NEW t \in Threads, RetryEnq(t) PROVE RelQueue'
  <2>1. CASE held[t] = 0
    BY <1>13, <2>1, QueueFrame DEF RetryEnq, enq_release_sock, ConnInv, SockInv
  <2>2. CASE held[t] # 0
    <3>1. held[t] \in Socks /\ sock[held[t]] = "open"
      BY <1>13, <2>2, ConnAssumption DEF RetryEnq, ConnInv, SockInv, SockPlaces, TypeOK, Threads, Socks
    <3>2. sock' = [sock EXCEPT ![held[t]] = "queued"] /\ relq' = Append(relq, held[t])
      BY <1>13, <2>2 DEF RetryEnq, enq_release_sock
    <3> QED BY <3>1, <3>2, QueueAppend DEF ConnInv, SockInv, TypeOK
  <2> QED BY <2>1, <2>2
<1>14. ASSUME NEW t \in Threads, Reconnect(t) PROVE RelQueue'
  <2>1. ReconnectEffect(t)
    BY <1>14, ReconnectStep
  <2>2. \A x \in Socks : sock[x] = "queued" => sock'[x] = "queued"
    BY <2>1 DEF ReconnectEffect, Fresh, ConnInv, TypeOK
  <2> QED BY <2>1, <2>2, QueueFrame DEF ReconnectEffect, ConnInv, SockInv
<1>15. ASSUME NEW t \in Threads, StopRx(t) PROVE RelQueue'
  BY <1>15 DEF StopRx, Goto, ConnInv, SockInv, RelQueue, TypeOK
<1>28. ASSUME NEW t \in Threads, StopDone(t) PROVE RelQueue'
  BY <1>28 DEF StopDone, Goto, ConnInv, SockInv, RelQueue
<1>16. ASSUME HkTask PROVE RelQueue'
  BY <1>16 DEF HkTask, Goto, ConnInv, SockInv, RelQueue, TypeOK
<1>17. ASSUME RetryStart PROVE RelQueue'
  BY <1>17 DEF RetryStart, ConnInv, SockInv, RelQueue, TypeOK
<1>18. ASSUME RetryFail PROVE RelQueue'
  BY <1>18 DEF RetryFail, ConnInv, SockInv, RelQueue, TypeOK
<1>19. ASSUME RetryServe PROVE RelQueue'
  BY <1>19 DEF RetryServe, conn_done_fn, ConnInv, SockInv, RelQueue, TypeOK
<1>20. ASSUME RetryRemove PROVE RelQueue'
  BY <1>20 DEF RetryRemove, ConnInv, SockInv, RelQueue, TypeOK
<1>21. ASSUME RelTake PROVE RelQueue'
  <2>1. PICK h \in Socks : RelTakeEffect(h)
    BY <1>21, RelTakeStep
  <2>2. /\ Len(relq) \in Nat \ {0} /\ Len(relq') = Len(relq) - 1
        /\ \A i \in 1 .. Len(relq') : relq'[i] = relq[i + 1] /\ i + 1 \in 1 .. Len(relq)
    BY <2>1 DEF RelTakeEffect, ConnInv, TypeOK
  <2>3. \A i \in 1 .. Len(relq') : relq'[i] # h /\ relq'[i] \in Socks
    BY <2>1, <2>2 DEF RelTakeEffect, ConnInv, SockInv, RelQueue, TypeOK
  <2>4. \A x \in Socks : x # h => sock'[x] = sock[x]
    BY <2>1 DEF RelTakeEffect, ConnInv, TypeOK
  <2>5. \A i \in 1 .. Len(relq') : sock'[relq'[i]] = "queued"
    BY <2>2, <2>3, <2>4 DEF ConnInv, SockInv, RelQueue
  <2>6. \A i, j \in 1 .. Len(relq') : relq'[i] = relq'[j] => i + 1 = j + 1
    BY <2>2 DEF ConnInv, SockInv, RelQueue
  <2>7. Len(relq') \in Nat
    BY <2>2
  <2> QED BY <2>5, <2>6, <2>7 DEF RelQueue
<1>22. ASSUME NEW up \in BOOLEAN, RetryOK(up) PROVE RelQueue'
  <2>1. RetryOKEffect(up)
    BY <1>22, RetryOKStep
  <2>2. \A x \in Socks : sock[x] = "queued" => sock'[x] = "queued"
    BY <2>1, TaskSock DEF RetryOKEffect, ConnInv, TypeOK
  <2> QED BY <2>1, <2>2, QueueFrame DEF RetryOKEffect, ConnInv, SockInv
<1>23. ASSUME Shutdown PROVE RelQueue'
  BY <1>23 DEF Shutdown, ConnInv, SockInv, RelQueue, TypeOK
<1>24. ASSUME CancelTask PROVE RelQueue'
  <2>1. \A x \in Socks : sock[x] = "queued" => sock'[x] = "queued"
    BY <1>24 DEF CancelTask, ConnInv, SockInv, SockPlaces, TypeOK
  <2> QED BY <1>24, <2>1, QueueFrame DEF CancelTask, ConnInv, SockInv
<1>25. ASSUME CloseStop PROVE RelQueue'
  <2>1. CloseStopEffect
    BY <1>25, CloseStopStep
  <2> QED BY <2>1 DEF CloseStopEffect, ConnInv, SockInv, RelQueue, TypeOK
<1>26. ASSUME CloseConn PROVE RelQueue'
  <2>1. CloseConnEffect
    BY <1>26, CloseConnStep
  <2>2. CASE held["mk"] = 0
    BY <2>1, <2>2, QueueFrame DEF CloseConnEffect, enq_release_sock, ConnInv, SockInv
  <2>3. CASE held["mk"] # 0
    <3>1. held["mk"] \in Socks /\ sock[held["mk"]] = "open"
      BY <2>1, <2>3, ConnAssumption DEF CloseConnEffect, ConnInv, SockInv, SockPlaces, TypeOK, Threads, Socks
    <3>2. sock' = [sock EXCEPT ![held["mk"]] = "queued"] /\ relq' = Append(relq, held["mk"])
      BY <2>1, <2>3 DEF CloseConnEffect, enq_release_sock
    <3> QED BY <3>1, <3>2, QueueAppend DEF ConnInv, SockInv, TypeOK
  <2> QED BY <2>2, <2>3
<1>27. CASE UNCHANGED vars
  BY <1>27 DEF vars, ConnInv, SockInv, RelQueue, TypeOK
<1> QED
  BY ConnCases, <1>1, <1>2, <1>3, <1>4, <1>5, <1>6, <1>7, <1>8, <1>9, <1>10, <1>11, <1>12, <1>13,
     <1>14, <1>15, <1>16, <1>17, <1>18, <1>19, <1>20, <1>21, <1>22, <1>23, <1>24, <1>25, <1>26,
     <1>27, <1>28

(* A socket without references gets none when references are only dropped.  *)
LEMMA NoRefDown ==
  ASSUME TypeOK, SockPlaces, NoRef, RefInv', UNCHANGED crt,
         \A x \in Socks : /\ ref'[x] <= ref[x]
                          /\ sock'[x] \in {"none", "freed"} => sock[x] \in {"none", "freed"}
  PROVE  NoRef'
<1>1. \A x \in Socks : ref'[x] \in Nat
  BY ReadsFinite DEF RefInv
<1>2. \A x \in Socks : ref[x] = 0 => ref'[x] = 0
  BY <1>1
<1>3. crt.st \in {"Waiting", "Connecting"} => crt.sock \in Socks
  BY ConnAssumption DEF SockPlaces, TypeOK, Socks
<1> QED BY <1>2, <1>3 DEF NoRef

(* stop_sk_rx_thread adds no reference.                                     *)
LEMMA StopDown ==
  ASSUME TypeOK, RefInv, NEW k \in 0 .. MaxSock, stop_sk_rx_thread(k)
  PROVE  \A x \in Socks : ref'[x] <= ref[x]
<1>1. \A x \in Socks : ref[x] \in Int
  BY ConnAssumption, FS_CardinalityType DEF TypeOK
<1>2. CASE k # 0 /\ rx[k] = "run"
  <2>1. k \in Socks /\ rxsock[k] \in Socks
    BY <1>2, ConnAssumption DEF TypeOK, Socks, RefInv
  <2>2. \A x \in Socks : ref'[x] = IF x = rxsock[k] THEN ref[x] - 1 ELSE ref[x]
    BY <1>2, <2>1 DEF stop_sk_rx_thread, deRef, TypeOK
  <2> QED BY <1>1, <2>2
<1>3. CASE ~(k # 0 /\ rx[k] = "run")
  BY <1>1, <1>3 DEF stop_sk_rx_thread
<1> QED BY <1>2, <1>3

(* NoRef is preserved.                                                      *)
LEMMA NoRefStep ==
  ASSUME ConnInv, RefInv', ~BreakWhileDone, [Next]_vars
  PROVE  NoRef'
<1>1. ASSUME Create PROVE NoRef'
  <2>1. CreateEffect
    BY <1>1, CreateStep
  <2> QED BY <2>1 DEF CreateEffect, ConnInv, SockInv, NoRef, TypeOK, NoTask
<1>2. ASSUME ConnectServe PROVE NoRef'
  BY <1>2 DEF ConnectServe, conn_done_fn, Goto, ConnInv, SockInv, NoRef, TypeOK, NoTask
<1>3. ASSUME ConnectFail PROVE NoRef'
  <2>1. ConnectFailEffect
    BY <1>3, ConnectFailStep
  <2> QED BY <2>1 DEF ConnectFailEffect, ConnInv, SockInv, NoRef, TypeOK, NoTask
<1>4. ASSUME NEW s \in Socks, ConnectOK(s) PROVE NoRef'
  <2>1. ConnectOKEffect(s)
    BY <1>4, ConnectOKStep
  <2> QED BY <2>1, ConnAssumption DEF ConnectOKEffect, ConnInv, SockInv, NoRef, TypeOK, NoTask,
       Fresh, Socks
<1>5. ASSUME NEW s \in Socks, RxStart(s) PROVE NoRef'
  BY <1>5, ConnAssumption DEF RxStart, ConnInv, SockInv, NoRef, TypeOK, NoTask, SockPlaces,
     StateInv, Socks
<1>6. ASSUME NEW s \in Socks, BadPacket(s) PROVE NoRef'
  BY <1>6 DEF BadPacket, ConnInv, SockInv, NoRef, TypeOK, NoTask
<1>7. ASSUME NEW s \in Socks, SockBreak(s) PROVE NoRef'
  <2>1. SockBreakEffect(s)
    BY <1>7, SockBreakStep
  <2> QED BY <2>1, ConnAssumption DEF SockBreakEffect, LossEffect, ConnInv, SockInv, NoRef, TypeOK,
       NoTask, SockPlaces, StateInv, Socks
<1>8. ASSUME NEW s \in Socks, SockUp(s) PROVE NoRef'
  BY <1>8 DEF SockUp, ConnInv, SockInv, NoRef, TypeOK, NoTask
<1>9. ASSUME NEW s \in Socks, RelFree(s) PROVE NoRef'
  <2>1. RelFreeEffect(s)
    BY <1>9, RelFreeStep
  <2> QED BY <2>1, ConnAssumption DEF RelFreeEffect, LossEffect, ConnInv, SockInv, NoRef, TypeOK,
       NoTask, SockPlaces, StateInv, Socks
<1>10. ASSUME NEW t \in Senders, GetSock(t) PROVE NoRef'
  BY <1>10, ConnAssumption DEF GetSock, Goto, ConnInv, SockInv, NoRef, TypeOK, NoTask, SockPlaces,
     StateInv, Socks
<1>11. ASSUME NEW t \in Senders, NEW res \in SendResults, SendEnd(t, res) PROVE NoRef'
  <2>1. \A x \in Socks : ref[x] \in Int
    BY ConnAssumption, FS_CardinalityType DEF ConnInv, TypeOK
  <2>2. \A x \in Socks : ref'[x] <= ref[x]
    BY <1>11, <2>1 DEF SendEnd, deRef, ConnInv, TypeOK
  <2> QED BY <1>11, <2>2, NoRefDown DEF SendEnd, ConnInv, SockInv
<1>12. ASSUME NEW t \in Threads, Reset(t) PROVE NoRef'
  <2>1. ResetEffect(t)
    BY <1>12, ResetStep
  <2> QED BY <2>1 DEF ResetEffect, ConnInv, SockInv, NoRef, TypeOK, NoTask
<1>13. ASSUME NEW t \in Threads, RetryEnq(t) PROVE NoRef'
  BY <1>13, ConnAssumption DEF RetryEnq, Goto, enq_release_sock, ConnInv, SockInv, NoRef, TypeOK,
     NoTask, SockPlaces, Socks
<1>14. ASSUME NEW t \in Threads, Reconnect(t) PROVE NoRef'
  <2>1. ReconnectEffect(t)
    BY <1>14, ReconnectStep
  <2>2. CASE NoMem /\ pc' = [pc EXCEPT ![t] = "idle"] /\ UNCHANGED <<sock, crt>>
    BY <2>1, <2>2 DEF ReconnectEffect, ConnInv, SockInv, NoRef
  <2>3. ASSUME NEW s \in Socks, Fresh(s), sock' = [sock EXCEPT ![s] = "open"],
               crt' = [st |-> "Waiting", sock |-> s, up |-> FALSE],
               pc' = [pc EXCEPT ![t] = "stop"]
        PROVE  NoRef'
    <3>1. sock[s] = "none" /\ ref[s] = 0 /\ UNCHANGED ref /\ crt'.sock = s
      BY <2>1, <2>3 DEF ReconnectEffect, Fresh, ConnInv, SockInv, NoRef
    <3>2. \A x \in Socks : sock'[x] = IF x = s THEN "open" ELSE sock[x]
      BY <2>3 DEF ConnInv, TypeOK
    <3> QED BY <3>1, <3>2 DEF ConnInv, SockInv, NoRef
  <2> QED BY <2>1, <2>2, <2>3 DEF ReconnectEffect
<1>15. ASSUME NEW t \in Threads, StopRx(t) PROVE NoRef'
  BY <1>15 DEF StopRx, ConnInv, SockInv, NoRef
<1>28. ASSUME NEW t \in Threads, StopDone(t) PROVE NoRef'
  <2>1. held[t] \in 0 .. MaxSock
    BY DEF ConnInv, TypeOK
  <2>2. \A x \in Socks : ref'[x] <= ref[x]
    BY <1>28, <2>1, StopDown DEF StopDone, ConnInv
  <2> QED BY <1>28, <2>2, NoRefDown DEF StopDone, ConnInv, SockInv
<1>16. ASSUME HkTask PROVE NoRef'
  BY <1>16 DEF HkTask, Goto, ConnInv, SockInv, NoRef, TypeOK, NoTask
<1>17. ASSUME RetryStart PROVE NoRef'
  BY <1>17 DEF RetryStart, ConnInv, SockInv, NoRef, TypeOK, NoTask
<1>18. ASSUME RetryFail PROVE NoRef'
  BY <1>18 DEF RetryFail, ConnInv, SockInv, NoRef, TypeOK, NoTask
<1>19. ASSUME RetryServe PROVE NoRef'
  BY <1>19 DEF RetryServe, conn_done_fn, ConnInv, SockInv, NoRef, TypeOK, NoTask
<1>20. ASSUME RetryRemove PROVE NoRef'
  BY <1>20 DEF RetryRemove, ConnInv, SockInv, NoRef, TypeOK, NoTask
<1>21. ASSUME RelTake PROVE NoRef'
  BY <1>21 DEF RelTake, ConnInv, SockInv, NoRef, TypeOK, NoTask
<1>22. ASSUME NEW up \in BOOLEAN, RetryOK(up) PROVE NoRef'
  <2>1. RetryOKEffect(up)
    BY <1>22, RetryOKStep
  <2>2. crt.sock \in Socks /\ ref[crt.sock] = 0
    BY <2>1, ConnAssumption DEF RetryOKEffect, ConnInv, SockInv, SockPlaces, NoRef, TypeOK, Socks
  <2>3. crt'.st \in {"Done", "none"}
    BY <2>1 DEF RetryOKEffect, NoTask
  <2>4. \A x \in Socks : sock'[x] = sock[x] \/ x = crt.sock
    BY <2>1 DEF RetryOKEffect, ConnInv, TypeOK
  <2> QED BY <2>1, <2>2, <2>3, <2>4 DEF RetryOKEffect, ConnInv, SockInv, NoRef
<1>23. ASSUME Shutdown PROVE NoRef'
  BY <1>23 DEF Shutdown, ConnInv, SockInv, NoRef, TypeOK, NoTask
<1>24. ASSUME CancelTask PROVE NoRef'
  BY <1>24, ConnAssumption DEF CancelTask, ConnInv, SockInv, NoRef, TypeOK, NoTask, SockPlaces,
     Socks
<1>25. ASSUME CloseStop PROVE NoRef'
  <2>1. CloseStopEffect
    BY <1>25, CloseStopStep
  <2> QED BY <2>1 DEF CloseStopEffect, ConnInv, SockInv, NoRef, TypeOK, NoTask
<1>26. ASSUME CloseConn PROVE NoRef'
  <2>1. CloseConnEffect
    BY <1>26, CloseConnStep
  <2>2. \A x \in Socks : ref'[x] <= ref[x]
    BY <2>1, StopDown DEF CloseConnEffect, ConnInv, TypeOK
  <2>3. \A x \in Socks : sock'[x] \in {"none", "freed"} => sock[x] \in {"none", "freed"}
    BY <2>1 DEF CloseConnEffect, enq_release_sock, ConnInv, TypeOK
  <2> QED BY <2>1, <2>2, <2>3, NoRefDown DEF CloseConnEffect, ConnInv, SockInv
<1>27. CASE UNCHANGED vars
  BY <1>27 DEF vars, ConnInv, SockInv, NoRef, TypeOK, NoTask
<1> QED
  BY ConnCases, <1>1, <1>2, <1>3, <1>4, <1>5, <1>6, <1>7, <1>8, <1>9, <1>10, <1>11, <1>12, <1>13,
     <1>14, <1>15, <1>16, <1>17, <1>18, <1>19, <1>20, <1>21, <1>22, <1>23, <1>24, <1>25, <1>26,
     <1>27, <1>28

(* A count of references is at most the number of those that may hold one.  *)
LEMMA RefBound ==
  ASSUME RefInv', ref' \in [Socks -> Int]
  PROVE  ref' \in [Socks -> 0 .. (Cardinality(Senders) + MaxSock)]
<1>1. Cardinality(Senders) \in Nat /\ MaxSock \in Nat \ {0}
  BY ConnAssumption, FS_CardinalityType
<1>2. Senders # {} => Cardinality(Senders) # 0
  BY ConnAssumption, FS_EmptySet
<1>3. ASSUME NEW s \in Socks PROVE ref'[s] \in 0 .. (Cardinality(Senders) + MaxSock)
  <2>1. Sending(s)' => Senders # {}
    BY DEF Sending
  <2> QED BY <1>1, <1>2, <2>1, ReadsFinite DEF RefInv
<1> QED BY <1>3

(* stop_sk_rx_thread keeps the types.                                       *)
LEMMA StopType ==
  ASSUME TypeOK, RefInv, RefInv', NEW k \in 0 .. MaxSock, stop_sk_rx_thread(k)
  PROVE  /\ ref' \in [Socks -> 0 .. (Cardinality(Senders) + MaxSock)]
         /\ rx' \in [Socks -> {"none", "start", "run"}] /\ rxsock' \in [Socks -> 0 .. MaxSock]
         /\ skrx' \in 0 .. MaxSock
<1>1. ref \in [Socks -> Int] /\ MaxSock \in Nat
  BY ConnAssumption, FS_CardinalityType DEF TypeOK
<1>2. ref' \in [Socks -> Int]
  BY <1>1 DEF stop_sk_rx_thread, deRef
<1>3. ref' \in [Socks -> 0 .. (Cardinality(Senders) + MaxSock)]
  BY <1>2, RefBound
<1>4. rx \in [Socks -> {"none", "start", "run"}] /\ rxsock \in [Socks -> 0 .. MaxSock]
  BY DEF TypeOK
<1>5. rx' \in [Socks -> {"none", "start", "run"}]
  BY <1>4 DEF stop_sk_rx_thread
<1>6. 0 \in 0 .. MaxSock
  BY <1>1
<1>7. rxsock' \in [Socks -> 0 .. MaxSock] /\ skrx' \in 0 .. MaxSock
  BY <1>4, <1>6 DEF stop_sk_rx_thread
<1> QED BY <1>3, <1>5, <1>7

(* What a queue holds after an element was added.                           *)
LEMMA AppendType ==
  ASSUME NEW S, NEW q \in Seq(S), NEW e \in S
  PROVE  Append(q, e) \in Seq(S)
OBVIOUS

(* A loss that a callback finds keeps the types.                            *)
LossType ==
  /\ conn' \in ConnStates /\ cur' \in 0 .. MaxSock /\ avail' \in BOOLEAN
  /\ sock' \in [Socks -> {"none", "open", "queued", "check", "freed"}]
  /\ relq' \in Seq(Socks) /\ hkq' \in Seq({"retry", "back", "reset"})

LEMMA LossTypes ==
  ASSUME ConnInv, NEW lives \in [Socks -> {"none", "open", "queued", "check", "freed"}],
         LossEffect(lives)
  PROVE  LossType
<1>1. conn' \in ConnStates /\ cur' \in 0 .. MaxSock
  BY ConnAssumption DEF LossEffect, ConnInv, TypeOK, ConnStates
<1>2. avail' \in BOOLEAN
  BY DEF LossEffect, ConnInv, TypeOK
<1>3. hkq' \in Seq({"retry", "back", "reset"})
  <2>1. hkq \in Seq({"retry", "back", "reset"})
    BY DEF ConnInv, TypeOK
  <2>2. Append(hkq, "retry") \in Seq({"retry", "back", "reset"})
    BY <2>1, AppendType
  <2> QED BY <2>1, <2>2 DEF LossEffect, add_hk_task
<1>4. relq' \in Seq(Socks)
  <2>1. relq \in Seq(Socks)
    BY DEF ConnInv, TypeOK
  <2> QED BY <2>1, LossSocks, AppendType
<1>5. sock' \in [Socks -> {"none", "open", "queued", "check", "freed"}]
  BY LossSocks
<1> QED BY <1>1, <1>2, <1>3, <1>4, <1>5 DEF LossType

(* Types are kept.                                                          *)
LEMMA TypeStep ==
  ASSUME ConnInv, RefInv', ~BreakWhileDone, [Next]_vars
  PROVE  TypeOK'
<1>1. ASSUME Create PROVE TypeOK'
  <2>1. CreateEffect
    BY <1>1, CreateStep
  <2> QED BY <2>1, ConnAssumption DEF CreateEffect, ConnInv, TypeOK, ConnStates, Threads
<1>2. ASSUME ConnectServe PROVE TypeOK'
  BY <1>2, ConnAssumption DEF ConnectServe, conn_done_fn, Goto, ConnInv, TypeOK, Threads, Socks
<1>3. ASSUME ConnectFail PROVE TypeOK'
  <2>1. ConnectFailEffect
    BY <1>3, ConnectFailStep
  <2> QED BY <2>1, ConnAssumption DEF ConnectFailEffect, ConnInv, TypeOK, ConnStates, Threads
<1>4. ASSUME NEW s \in Socks, ConnectOK(s) PROVE TypeOK'
  <2>1. ConnectOKEffect(s)
    BY <1>4, ConnectOKStep
  <2> QED BY <2>1 DEF ConnectOKEffect, ConnInv, TypeOK, ConnStates, Threads, Fresh, Socks
<1>5. ASSUME NEW s \in Socks, RxStart(s) PROVE TypeOK'
  <2>1. ref \in [Socks -> Int] /\ rx \in [Socks -> {"none", "start", "run"}]
    BY ConnAssumption, FS_CardinalityType DEF ConnInv, TypeOK
  <2>2. rxsock \in [Socks -> 0 .. MaxSock] /\ cur \in 0 .. MaxSock
    BY DEF ConnInv, TypeOK
  <2>3. ref' \in [Socks -> Int]
    BY <1>5, <2>1 DEF RxStart
  <2>4. ref' \in [Socks -> 0 .. (Cardinality(Senders) + MaxSock)]
    BY <2>3, RefBound
  <2>5. rx' \in [Socks -> {"none", "start", "run"}]
    BY <1>5, <2>1 DEF RxStart
  <2>6. rxsock' \in [Socks -> 0 .. MaxSock]
    BY <1>5, <2>2 DEF RxStart
  <2> QED BY <1>5, <2>4, <2>5, <2>6 DEF RxStart, ConnInv, TypeOK
<1>6. ASSUME NEW s \in Socks, BadPacket(s) PROVE TypeOK'
  <2>1. hkq' \in Seq({"retry", "back", "reset"})
    BY <1>6, OtherTask DEF BadPacket
  <2> QED BY <1>6, <2>1, ConnAssumption DEF BadPacket, ConnInv, TypeOK
<1>7. ASSUME NEW s \in Socks, SockBreak(s) PROVE TypeOK'
  <2>1. SockBreakEffect(s)
    BY <1>7, SockBreakStep
  <2>2. LossType
    BY <2>1, LossTypes DEF SockBreakEffect, ConnInv, TypeOK
  <2>3. alive' \in [Socks -> BOOLEAN] /\ user' \in [Socks -> BOOLEAN]
    BY <2>1 DEF SockBreakEffect, ConnInv, TypeOK
  <2> QED BY <2>1, <2>2, <2>3 DEF SockBreakEffect, LossType, ConnInv, TypeOK
<1>8. ASSUME NEW s \in Socks, SockUp(s) PROVE TypeOK'
  BY <1>8 DEF SockUp, ConnInv, TypeOK
<1>9. ASSUME NEW s \in Socks, RelFree(s) PROVE TypeOK'
  <2>1. RelFreeEffect(s)
    BY <1>9, RelFreeStep
  <2>2. LossType
    BY <2>1, LossTypes DEF RelFreeEffect, ConnInv, TypeOK
  <2>3. alive' \in [Socks -> BOOLEAN] /\ user' \in [Socks -> BOOLEAN]
    BY <2>1 DEF RelFreeEffect, ConnInv, TypeOK
  <2> QED BY <2>1, <2>2, <2>3 DEF RelFreeEffect, LossType, ConnInv, TypeOK
<1>10. ASSUME NEW t \in Senders, GetSock(t) PROVE TypeOK'
  <2>1. ref \in [Socks -> Int] /\ held \in [Threads -> 0 .. MaxSock] /\ cur \in 0 .. MaxSock
    BY ConnAssumption, FS_CardinalityType DEF ConnInv, TypeOK
  <2>2. ref' \in [Socks -> Int]
    BY <1>10, <2>1, ConnAssumption DEF GetSock, Socks
  <2>3. ref' \in [Socks -> 0 .. (Cardinality(Senders) + MaxSock)]
    BY <2>2, RefBound
  <2>4. held' \in [Threads -> 0 .. MaxSock]
    BY <1>10, <2>1 DEF GetSock
  <2> QED BY <1>10, <2>3, <2>4 DEF GetSock, Goto, ConnInv, TypeOK
<1>11. ASSUME NEW t \in Senders, NEW res \in SendResults, SendEnd(t, res) PROVE TypeOK'
  <2>1. ref \in [Socks -> Int] /\ held \in [Threads -> 0 .. MaxSock] /\ MaxSock \in Nat
    BY ConnAssumption, FS_CardinalityType DEF ConnInv, TypeOK
  <2>2. held[t] \in Socks
    BY <1>11, <2>1 DEF SendEnd, ConnInv, RefInv, Threads, Socks
  <2>3. ref' \in [Socks -> Int]
    BY <1>11, <2>1, <2>2 DEF SendEnd, deRef
  <2>4. ref' \in [Socks -> 0 .. (Cardinality(Senders) + MaxSock)]
    BY <2>3, RefBound
  <2>5. held' \in [Threads -> 0 .. MaxSock]
    <3>1. 0 \in 0 .. MaxSock
      BY <2>1
    <3> QED BY <1>11, <2>1, <3>1 DEF SendEnd
  <2> QED BY <1>11, <2>4, <2>5 DEF SendEnd, Goto, ConnInv, TypeOK
<1>12. ASSUME NEW t \in Threads, Reset(t) PROVE TypeOK'
  <2>1. ResetEffect(t)
    BY <1>12, ResetStep
  <2>2. conn' \in ConnStates /\ cur' \in 0 .. MaxSock
    BY <2>1, ConnAssumption DEF ResetEffect, ConnInv, TypeOK, ConnStates
  <2>3. held' \in [Threads -> 0 .. MaxSock]
    BY <2>1 DEF ResetEffect, ConnInv, TypeOK
  <2> QED BY <2>1, <2>2, <2>3 DEF ResetEffect, ConnInv, TypeOK
<1>13. ASSUME NEW t \in Threads, RetryEnq(t) PROVE TypeOK'
  <2>1. held[t] \in 0 .. MaxSock /\ held \in [Threads -> 0 .. MaxSock] /\ MaxSock \in Nat
    BY ConnAssumption DEF ConnInv, TypeOK
  <2>2. sock' \in [Socks -> {"none", "open", "queued", "check", "freed"}]
    BY <1>13 DEF RetryEnq, enq_release_sock, ConnInv, TypeOK
  <2>3. relq' \in Seq(Socks)
    <3>1. relq \in Seq(Socks) /\ (held[t] # 0 => held[t] \in Socks)
      BY <2>1 DEF ConnInv, TypeOK, Socks
    <3> QED BY <1>13, <3>1, AppendType DEF RetryEnq, enq_release_sock
  <2>4. held' \in [Threads -> 0 .. MaxSock]
    BY <1>13, <2>1 DEF RetryEnq
  <2> QED BY <1>13, <2>2, <2>3, <2>4 DEF RetryEnq, Goto, ConnInv, TypeOK
<1>14. ASSUME NEW t \in Threads, Reconnect(t) PROVE TypeOK'
  <2>1. ReconnectEffect(t)
    BY <1>14, ReconnectStep
  <2>2. CASE NoMem /\ pc' = [pc EXCEPT ![t] = "idle"] /\ UNCHANGED <<sock, crt>>
    BY <2>1, <2>2 DEF ReconnectEffect, ConnInv, TypeOK
  <2>3. ASSUME NEW s \in Socks, Fresh(s), sock' = [sock EXCEPT ![s] = "open"],
               crt' = [st |-> "Waiting", sock |-> s, up |-> FALSE],
               pc' = [pc EXCEPT ![t] = "stop"]
        PROVE  TypeOK'
    <3>1. crt' \in [st : TaskStates, sock : 0 .. MaxSock, up : BOOLEAN]
      BY <2>3, ConnAssumption DEF TaskStates, Socks
    <3>2. sock' \in [Socks -> {"none", "open", "queued", "check", "freed"}]
      BY <2>3 DEF ConnInv, TypeOK
    <3> QED BY <2>1, <2>3, <3>1, <3>2 DEF ReconnectEffect, ConnInv, TypeOK
  <2> QED BY <2>1, <2>2, <2>3 DEF ReconnectEffect
<1>15. ASSUME NEW t \in Threads, StopRx(t) PROVE TypeOK'
  <2>1. held' \in [Threads -> 0 .. MaxSock]
    BY <1>15 DEF StopRx, ConnInv, TypeOK
  <2> QED BY <1>15, <2>1 DEF StopRx, Goto, ConnInv, TypeOK
<1>28. ASSUME NEW t \in Threads, StopDone(t) PROVE TypeOK'
  <2>1. held[t] \in 0 .. MaxSock /\ MaxSock \in Nat
    BY ConnAssumption DEF ConnInv, TypeOK
  <2>2. held' \in [Threads -> 0 .. MaxSock]
    BY <1>28, <2>1 DEF StopDone, ConnInv, TypeOK
  <2>3. /\ ref' \in [Socks -> 0 .. (Cardinality(Senders) + MaxSock)]
        /\ rx' \in [Socks -> {"none", "start", "run"}] /\ rxsock' \in [Socks -> 0 .. MaxSock]
        /\ skrx' \in 0 .. MaxSock
    BY <1>28, <2>1, StopType DEF StopDone, ConnInv
  <2> QED BY <1>28, <2>2, <2>3 DEF StopDone, Goto, ConnInv, TypeOK
<1>16. ASSUME HkTask PROVE TypeOK'
  <2>1. hkq' \in Seq({"retry", "back", "reset"})
    BY <1>16 DEF HkTask, ConnInv, TypeOK
  <2>2. avail' \in BOOLEAN
    BY <1>16 DEF HkTask, ConnInv, TypeOK
  <2>3. pc' \in [Threads -> {"idle", "create", "connect", "service", "send", "reset",
                             "enq", "add", "stop", "stopping", "close"}]
    BY <1>16 DEF HkTask, Goto, ConnInv, TypeOK
  <2> QED BY <1>16, <2>1, <2>2, <2>3 DEF HkTask, ConnInv, TypeOK
<1>17. ASSUME RetryStart PROVE TypeOK'
  BY <1>17 DEF RetryStart, ConnInv, TypeOK, TaskStates
<1>18. ASSUME RetryFail PROVE TypeOK'
  BY <1>18 DEF RetryFail, ConnInv, TypeOK, TaskStates
<1>19. ASSUME RetryServe PROVE TypeOK'
  <2>1. crt.sock \in 0 .. MaxSock /\ crt.up \in BOOLEAN
    BY DEF ConnInv, TypeOK
  <2>2. user' \in [Socks -> BOOLEAN]
    BY <1>19, <2>1 DEF RetryServe, conn_done_fn, ConnInv, TypeOK
  <2>3. rx' \in [Socks -> {"none", "start", "run"}] /\ skrx' \in 0 .. MaxSock
    BY <1>19, <2>1 DEF RetryServe, conn_done_fn, ConnInv, TypeOK
  <2>4. hkq' \in Seq({"retry", "back", "reset"})
    BY <1>19, OtherTask DEF RetryServe, conn_done_fn
  <2>5. crt' \in [st : TaskStates, sock : 0 .. MaxSock, up : BOOLEAN]
    BY <1>19 DEF RetryServe, ConnInv, TypeOK, TaskStates
  <2> QED BY <1>19, <2>2, <2>3, <2>4, <2>5 DEF RetryServe, ConnInv, TypeOK
<1>20. ASSUME RetryRemove PROVE TypeOK'
  BY <1>20, ConnAssumption DEF RetryRemove, ConnInv, TypeOK, TaskStates, NoTask
<1>21. ASSUME RelTake PROVE TypeOK'
  <2>1. PICK h \in Socks : RelTakeEffect(h)
    BY <1>21, RelTakeStep
  <2> QED BY <2>1 DEF RelTakeEffect, ConnInv, TypeOK
<1>22. ASSUME NEW up \in BOOLEAN, RetryOK(up) PROVE TypeOK'
  <2>1. RetryOKEffect(up)
    BY <1>22, RetryOKStep
  <2>2. conn' \in ConnStates /\ cur' \in 0 .. MaxSock
    BY <2>1 DEF RetryOKEffect, ConnInv, TypeOK, ConnStates
  <2>3. alive' \in [Socks -> BOOLEAN]
    BY <2>1 DEF RetryOKEffect, ConnInv, TypeOK
  <2>4. sock' \in [Socks -> {"none", "open", "queued", "check", "freed"}]
    BY <2>1 DEF RetryOKEffect, ConnInv, TypeOK
  <2>5. crt' \in [st : TaskStates, sock : 0 .. MaxSock, up : BOOLEAN]
    <3>1. NoTask \in [st : TaskStates, sock : 0 .. MaxSock, up : BOOLEAN]
      BY ConnAssumption DEF TaskStates, NoTask
    <3> QED BY <2>1, <3>1 DEF RetryOKEffect
  <2> QED BY <2>1, <2>2, <2>3, <2>4, <2>5 DEF RetryOKEffect, ConnInv, TypeOK
<1>23. ASSUME Shutdown PROVE TypeOK'
  <2>1. hkq' \in Seq({"retry", "back", "reset"})
    BY <1>23 DEF Shutdown
  <2>2. run' \in BOOLEAN
    BY <1>23 DEF Shutdown
  <2> QED BY <1>23, <2>1, <2>2 DEF Shutdown, ConnInv, TypeOK
<1>24. ASSUME CancelTask PROVE TypeOK'
  <2>1. crt' \in [st : TaskStates, sock : 0 .. MaxSock, up : BOOLEAN]
    BY <1>24, ConnAssumption DEF CancelTask, TaskStates, NoTask
  <2>2. sock' \in [Socks -> {"none", "open", "queued", "check", "freed"}]
    BY <1>24 DEF CancelTask, ConnInv, TypeOK
  <2> QED BY <1>24, <2>1, <2>2 DEF CancelTask, ConnInv, TypeOK
<1>25. ASSUME CloseStop PROVE TypeOK'
  <2>1. CloseStopEffect
    BY <1>25, CloseStopStep
  <2>2. conn' \in ConnStates /\ cur' \in 0 .. MaxSock
    BY <2>1, ConnAssumption DEF CloseStopEffect, ConnStates
  <2>3. held' \in [Threads -> 0 .. MaxSock]
    BY <2>1 DEF CloseStopEffect, ConnInv, TypeOK
  <2>4. avail' \in BOOLEAN
    BY <2>1 DEF CloseStopEffect
  <2> QED BY <2>1, <2>2, <2>3, <2>4 DEF CloseStopEffect, ConnInv, TypeOK
<1>26. ASSUME CloseConn PROVE TypeOK'
  <2>1. CloseConnEffect
    BY <1>26, CloseConnStep
  <2>2. held["mk"] \in 0 .. MaxSock /\ MaxSock \in Nat /\ held' \in [Threads -> 0 .. MaxSock]
    BY <2>1, ConnAssumption DEF CloseConnEffect, ConnInv, TypeOK, Threads
  <2>3. relq' \in Seq(Socks)
    <3>1. relq \in Seq(Socks) /\ (held["mk"] # 0 => held["mk"] \in Socks)
      BY <2>2 DEF ConnInv, TypeOK, Socks
    <3> QED BY <2>1, <3>1, AppendType DEF CloseConnEffect, enq_release_sock
  <2>4. sock' \in [Socks -> {"none", "open", "queued", "check", "freed"}]
    BY <2>1 DEF CloseConnEffect, enq_release_sock, ConnInv, TypeOK
  <2>5. conn' \in ConnStates /\ cur' \in 0 .. MaxSock
    BY <2>1, ConnAssumption DEF CloseConnEffect, ConnStates
  <2>6. /\ ref' \in [Socks -> 0 .. (Cardinality(Senders) + MaxSock)]
        /\ rx' \in [Socks -> {"none", "start", "run"}] /\ rxsock' \in [Socks -> 0 .. MaxSock]
        /\ skrx' \in 0 .. MaxSock
    BY <2>1, StopType DEF CloseConnEffect, ConnInv, TypeOK
  <2> QED BY <2>1, <2>2, <2>3, <2>4, <2>5, <2>6 DEF CloseConnEffect, ConnInv, TypeOK
<1>27. CASE UNCHANGED vars
  BY <1>27 DEF vars, ConnInv, TypeOK
<1> QED
  BY ConnCases, <1>1, <1>2, <1>3, <1>4, <1>5, <1>6, <1>7, <1>8, <1>9, <1>10, <1>11, <1>12, <1>13,
     <1>14, <1>15, <1>16, <1>17, <1>18, <1>19, <1>20, <1>21, <1>22, <1>23, <1>24, <1>25, <1>26,
     <1>27, <1>28

(* Retried is preserved: whoever stops working on a lost connection hands it on.*)
LEMMA RetriedStep ==
  ASSUME ConnInv, Retried, ~BreakWhileDone, ~NoMem, [Next]_vars
  PROVE  Retried'
<1>1. ASSUME Create PROVE Retried'
  <2>1. CreateEffect
    BY <1>1, CreateStep
  <2> QED BY <2>1 DEF CreateEffect, ConnInv, Retried, TypeOK, StateInv, TaskDone, TaskStates
<1>2. ASSUME ConnectServe PROVE Retried'
  BY <1>2 DEF ConnectServe, conn_done_fn, Goto, ConnInv, Retried, TypeOK, StateInv, TaskDone,
     TaskStates
<1>3. ASSUME ConnectFail PROVE Retried'
  <2>1. ConnectFailEffect
    BY <1>3, ConnectFailStep
  <2>2. "mk" \in Threads /\ pc'["mk"] = "enq"
    BY <2>1 DEF ConnectFailEffect, ConnInv, TypeOK, Threads
  <2> QED BY <2>2 DEF Retried
<1>4. ASSUME NEW s \in Socks, ConnectOK(s) PROVE Retried'
  <2>1. ConnectOKEffect(s)
    BY <1>4, ConnectOKStep
  <2> QED BY <2>1 DEF ConnectOKEffect, ConnInv, Retried, TypeOK, StateInv, TaskDone, TaskStates
<1>5. ASSUME NEW s \in Socks, RxStart(s) PROVE Retried'
  BY <1>5 DEF RxStart, ConnInv, Retried, TypeOK, StateInv, TaskDone, TaskStates
<1>6. ASSUME NEW s \in Socks, BadPacket(s) PROVE Retried'
  BY <1>6, OtherTask DEF BadPacket, Retried
<1>7. ASSUME NEW s \in Socks, SockBreak(s) PROVE Retried'
  <2>1. SockBreakEffect(s)
    BY <1>7, SockBreakStep
  <2>2. CASE conn' = "ConnectRetry" /\ add_hk_task("retry") /\ UNCHANGED run
    <3>1. CASE run
      <4>1. hkq \in Seq({"retry", "back", "reset"}) /\ hkq' = Append(hkq, "retry")
        BY <2>2, <3>1 DEF add_hk_task, ConnInv, TypeOK
      <4>2. Len(hkq') = Len(hkq) + 1 /\ Len(hkq) \in Nat /\ hkq'[Len(hkq) + 1] = "retry"
        BY <4>1
      <4> QED BY <4>2 DEF Retried
    <3>2. CASE ~run
      BY <2>2, <3>2 DEF Retried
    <3> QED BY <3>1, <3>2
  <2>3. CASE UNCHANGED <<conn, hkq>>
    BY <2>1, <2>3 DEF SockBreakEffect, Retried
  <2> QED BY <2>1, <2>2, <2>3 DEF SockBreakEffect, LossEffect
<1>8. ASSUME NEW s \in Socks, SockUp(s) PROVE Retried'
  BY <1>8 DEF SockUp, ConnInv, Retried, TypeOK, StateInv, TaskDone, TaskStates
<1>9. ASSUME NEW s \in Socks, RelFree(s) PROVE Retried'
  <2>1. RelFreeEffect(s)
    BY <1>9, RelFreeStep
  <2>2. CASE conn' = "ConnectRetry" /\ add_hk_task("retry") /\ UNCHANGED run
    <3>1. CASE run
      <4>1. hkq \in Seq({"retry", "back", "reset"}) /\ hkq' = Append(hkq, "retry")
        BY <2>2, <3>1 DEF add_hk_task, ConnInv, TypeOK
      <4>2. Len(hkq') = Len(hkq) + 1 /\ Len(hkq) \in Nat /\ hkq'[Len(hkq) + 1] = "retry"
        BY <4>1
      <4> QED BY <4>2 DEF Retried
    <3>2. CASE ~run
      BY <2>2, <3>2 DEF Retried
    <3> QED BY <3>1, <3>2
  <2>3. CASE UNCHANGED <<conn, hkq>>
    BY <2>1, <2>3 DEF RelFreeEffect, Retried
  <2> QED BY <2>1, <2>2, <2>3 DEF RelFreeEffect, LossEffect
<1>10. ASSUME NEW t \in Senders, GetSock(t) PROVE Retried'
  BY <1>10 DEF GetSock, Goto, ConnInv, Retried, TypeOK, StateInv, TaskDone, TaskStates
<1>11. ASSUME NEW t \in Senders, NEW res \in SendResults, SendEnd(t, res) PROVE Retried'
  BY <1>11 DEF SendEnd, Goto, deRef, ConnInv, Retried, TypeOK, StateInv, TaskDone, TaskStates
<1>12. ASSUME NEW t \in Threads, Reset(t) PROVE Retried'
  <2>1. ResetEffect(t)
    BY <1>12, ResetStep
  <2> QED BY <2>1 DEF ResetEffect, ConnInv, Retried, TypeOK, StateInv, TaskDone, TaskStates
<1>13. ASSUME NEW t \in Threads, RetryEnq(t) PROVE Retried'
  BY <1>13 DEF RetryEnq, Goto, enq_release_sock, ConnInv, Retried, TypeOK, StateInv, TaskDone,
     TaskStates
<1>14. ASSUME NEW t \in Threads, Reconnect(t) PROVE Retried'
  <2>1. ReconnectEffect(t)
    BY <1>14, ReconnectStep
  <2> QED BY <2>1 DEF ReconnectEffect, ConnInv, Retried, TypeOK, StateInv, TaskDone, TaskStates
<1>15. ASSUME NEW t \in Threads, StopRx(t) PROVE Retried'
  BY <1>15 DEF StopRx, Goto, ConnInv, Retried, TypeOK, StateInv,
     TaskDone, TaskStates
<1>28. ASSUME NEW t \in Threads, StopDone(t) PROVE Retried'
  BY <1>28 DEF StopDone, Goto, ConnInv, Retried, TypeOK, Threads
<1>16. ASSUME HkTask PROVE Retried'
  <2>1. hkq \in Seq({"retry", "back", "reset"}) /\ hkq # <<>> /\ hkq' = Tail(hkq)
    BY <1>16 DEF HkTask, ConnInv, TypeOK
  <2>2. Len(hkq') = Len(hkq) - 1 /\ Len(hkq) \in Nat /\ Head(hkq) = hkq[1]
    BY <2>1
  <2>3. \A i \in 1 .. Len(hkq') : hkq'[i] = hkq[i + 1]
    BY <2>1
  <2>4. CASE Head(hkq) = "retry"
    <3>1. "hk" \in Threads /\ pc'["hk"] = "add"
      BY <1>16, <2>4 DEF HkTask, Goto, ConnInv, TypeOK, Threads
    <3> QED BY <3>1 DEF Retried
  <2>5. CASE Head(hkq) # "retry"
    <3>1. \A i \in 1 .. Len(hkq) : hkq[i] = "retry" => i - 1 \in 1 .. Len(hkq') /\ hkq'[i - 1] = "retry"
      BY <2>2, <2>3, <2>5
    <3>2. \A t \in Threads : pc[t] \in {"enq", "add"} => pc'[t] \in {"enq", "add"}
      BY <1>16 DEF HkTask, Goto, ConnInv, TypeOK
    <3> QED BY <1>16, <3>1, <3>2 DEF HkTask, Retried
  <2> QED BY <2>4, <2>5
<1>17. ASSUME RetryStart PROVE Retried'
  BY <1>17 DEF RetryStart, ConnInv, Retried, TypeOK, StateInv, TaskDone, TaskStates
<1>18. ASSUME RetryFail PROVE Retried'
  BY <1>18 DEF RetryFail, ConnInv, Retried, TypeOK, StateInv, TaskDone, TaskStates
<1>19. ASSUME RetryServe PROVE Retried'
  BY <1>19 DEF RetryServe, ConnInv, Retried, StateInv, TaskDone
<1>20. ASSUME RetryRemove PROVE Retried'
  BY <1>20 DEF RetryRemove, ConnInv, Retried, TypeOK, StateInv, TaskDone, TaskStates
<1>21. ASSUME RelTake PROVE Retried'
  BY <1>21 DEF RelTake, ConnInv, Retried, TypeOK, StateInv, TaskDone, TaskStates
<1>22. ASSUME NEW up \in BOOLEAN, RetryOK(up) PROVE Retried'
  <2>1. RetryOKEffect(up)
    BY <1>22, RetryOKStep
  <2> QED BY <2>1 DEF RetryOKEffect, ConnInv, Retried, TypeOK, StateInv, TaskDone, TaskStates
<1>23. ASSUME Shutdown PROVE Retried'
  BY <1>23 DEF Shutdown, ConnInv, Retried, TypeOK, StateInv, TaskDone, TaskStates
<1>24. ASSUME CancelTask PROVE Retried'
  BY <1>24 DEF CancelTask, ConnInv, Retried, TypeOK, StateInv, TaskDone, TaskStates
<1>25. ASSUME CloseStop PROVE Retried'
  <2>1. CloseStopEffect
    BY <1>25, CloseStopStep
  <2> QED BY <2>1 DEF CloseStopEffect, ConnInv, Retried, TypeOK, StateInv, TaskDone, TaskStates
<1>26. ASSUME CloseConn PROVE Retried'
  <2>1. CloseConnEffect
    BY <1>26, CloseConnStep
  <2> QED BY <2>1 DEF CloseConnEffect, enq_release_sock, stop_sk_rx_thread, deRef, ConnInv,
       Retried, TypeOK, StateInv, TaskDone, TaskStates
<1>27. CASE UNCHANGED vars
  BY <1>27 DEF vars, ConnInv, Retried, TypeOK, StateInv, TaskDone, TaskStates
<1> QED
  BY ConnCases, <1>1, <1>2, <1>3, <1>4, <1>5, <1>6, <1>7, <1>8, <1>9, <1>10, <1>11, <1>12, <1>13,
     <1>14, <1>15, <1>16, <1>17, <1>18, <1>19, <1>20, <1>21, <1>22, <1>23, <1>24, <1>25, <1>26,
     <1>27, <1>28

(* The invariant holds before the connection is created.                    *)
LEMMA ConnInit == Init => ConnInv /\ Retried
<1> SUFFICES ASSUME Init PROVE ConnInv /\ Retried
  OBVIOUS
<1> USE ConnAssumption DEF Init, NoTask
<1>1. TypeOK
  <2>1. Cardinality(Senders) \in Nat
    BY FS_CardinalityType
  <2> QED BY <2>1 DEF TypeOK, ConnStates, TaskStates
<1>2. StateInv /\ OneRetry /\ RxInv
  BY DEF StateInv, OneRetry, RxInv, RetryQueued, TaskDone, Threads
<1>3. SockInv
  BY DEF SockInv, SockOrder, SockPlaces, RelQueue, NoRef
<1>4. RefInv
  <2>1. \A s : Reads(rx, rxsock, s) = {}
    BY DEF Reads
  <2>2. \A s \in Socks : Cardinality(Reads(rx, rxsock, s)) = 0
    BY <2>1, FS_EmptySet
  <2>3. \A s \in Socks : ref[s] = 0 /\ ~Sending(s) /\ rx[s] # "run"
    BY DEF Sending, Threads
  <2>4. \A t \in Senders : pc[t] # "send"
    BY DEF Threads
  <2> HIDE DEF Init
  <2> QED BY <2>2, <2>3, <2>4 DEF RefInv
<1> QED BY <1>1, <1>2, <1>3, <1>4 DEF ConnInv, Retried

(* ConnInv is inductive.                                                    *)
LEMMA ConnStep ==
  ASSUME ConnInv, ~BreakWhileDone, [Next]_vars
  PROVE  ConnInv'
<1>1. RefInv'
  BY RefStep
<1>2. TypeOK' /\ NoRef'
  BY <1>1, TypeStep, NoRefStep
<1> QED
  BY <1>1, <1>2, StateStep, OneRetryStep, OrderStep, PlacesStep, RelQueueStep, RxStep
  DEF ConnInv, SockInv

(* What the references say keeps a socket in use from being freed.          *)
LEMMA ConnSafe == ASSUME ConnInv PROVE SocketsAreSafe
<1>1. ASSUME NEW t \in Senders, pc[t] = "send" PROVE sock[held[t]] # "freed"
  <2>1. held[t] \in Socks
    BY <1>1, ConnAssumption DEF ConnInv, RefInv, TypeOK, Threads, Socks
  <2>2. Sending(held[t])
    BY <1>1 DEF Sending
  <2>3. ref[held[t]] # 0
    BY <2>1, <2>2, ReadsFinite DEF ConnInv, RefInv
  <2> QED BY <2>1, <2>3 DEF ConnInv, SockInv, NoRef
<1>2. ASSUME NEW s \in Socks, rx[s] = "run" PROVE sock[rxsock[s]] # "freed"
  <2>1. rxsock[s] \in Socks
    BY <1>2, ConnAssumption DEF ConnInv, RefInv, TypeOK, Socks
  <2>2. s \in Reads(rx, rxsock, rxsock[s])
    BY <1>2 DEF Reads
  <2>3. ref[rxsock[s]] # 0
    BY <2>1, <2>2, ReadsFinite DEF ConnInv, RefInv
  <2> QED BY <2>1, <2>3 DEF ConnInv, SockInv, NoRef
<1>3. crt.st # "none" => sock[crt.sock] # "freed"
  BY DEF ConnInv, SockInv, SockPlaces, StateInv, TaskDone, TypeOK, TaskStates
<1>4. FreedIsUnused
  BY <1>1, <1>2, <1>3 DEF FreedIsUnused, ConnInv, SockInv, SockPlaces
<1> QED BY <1>4 DEF SocketsAreSafe, ConnInv

(***************************************************************************)
(* Whatever senders, callbacks, housekeeping, the retry task, receivers     *)
(* old and new and the shutdown do, with or without memory for the tasks,   *)
(* no socket is freed while somebody uses it (get_sock_wrapper,             *)
(* _check_sock_ref, stop_sk_rx_thread).                                     *)
(***************************************************************************)
THEOREM SocketSafety == ~BreakWhileDone => (Spec => []SocketsAreSafe)
<1> SUFFICES ASSUME ~BreakWhileDone PROVE Spec => []SocketsAreSafe
  OBVIOUS
<1>1. Init => ConnInv
  BY ConnInit
<1>2. ConnInv /\ [Next]_vars => ConnInv'
  BY ConnStep
<1>3. ConnInv => SocketsAreSafe
  BY ConnSafe
<1> QED BY <1>1, <1>2, <1>3, PTL DEF Spec

(***************************************************************************)
(* A lost connection never falls between the threads that could restore it: *)
(* one of them is always on its way to a retry, as long as there is memory  *)
(* for the tasks (_retry_discoC_conn, sockImpl_reconnect).                  *)
(***************************************************************************)
THEOREM LossIsRetried == ~BreakWhileDone /\ ~NoMem => (Spec => []Retried)
<1> SUFFICES ASSUME ~BreakWhileDone, ~NoMem PROVE Spec => []Retried
  OBVIOUS
<1>1. Init => ConnInv /\ Retried
  BY ConnInit
<1>2. (ConnInv /\ Retried) /\ [Next]_vars => (ConnInv /\ Retried)'
  BY ConnStep, RetriedStep
<1> QED BY <1>1, <1>2, PTL DEF Spec

=============================================================================
