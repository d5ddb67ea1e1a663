---------------------------- MODULE NNMDReqProofs ----------------------------
(***************************************************************************)
(* Proofs about NNMDReq, for any set of requests, any IDs and buckets and   *)
(* any number of lost connections, when the sender is not congested and a   *)
(* retry always has time left (the two settings that are known to go wrong).*)
(*                                                                          *)
(* Neither RefsAreUsers nor FreedIsDone nor Attended is inductive: each     *)
(* depends on who may be working on a request in which state.  LifeInv says *)
(* that for one request, state by state.                                    *)
(***************************************************************************)
EXTENDS NNMDReq, FiniteSetTheorems, TLAPS

Ends(t, r) == thr[t] \in {<<r, "end">>, <<r, "free">>}

(* The places a thread can be in: only the two workers send, only the cache *)
(* hit worker and the receiver answer a caller.                             *)
ThreadInv ==
  /\ thr["cm"] = Idle \/ thr["cm"][2] \in {"send", "tx"}
  /\ thr["ch"] = Idle \/ thr["ch"][2] \in {"send", "tx", "end", "free"}
  /\ thr["rx"] = Idle \/ thr["rx"][2] \in {"end", "free"}
  /\ thr["hk"] = Idle \/ thr["hk"][2] = "add"

(* Where a request is listed, by its state.                                 *)
Listed(r) ==
  /\ r \in inPool <=> stat[r] \in {"WAIT_SEND", "SENDING", "WAIT_RESP", "RETRY_REQ"}
  /\ r \in rlist <=> stat[r] = "RETRY_REQ"
  /\ r \in sub \/ thr["hk"] = <<r, "add">> => stat[r] = "WAIT_SEND" /\ r \notin workQ
  /\ ~(r \in sub /\ thr["hk"] = <<r, "add">>)
  /\ stat[r] = "WAIT_SEND" => r \in workQ \cup sub \/ thr["hk"] = <<r, "add">>
  /\ r \in workQ => \/ stat[r] = "WAIT_SEND"
                    \/ stat[r] = "TIMEOUT_FIRE" /\ timer[r] = "run"
  /\ stat[r] = "SENDING" => thr[Worker(r)] = <<r, "send">>

(* Who answers the caller and frees the request: one thread, or the timer.  *)
Ending(r) ==
  /\ stat[r] = "PROCESS_RESP" <=> \E t \in Threads : Ends(t, r)
  /\ \A t, u \in Threads : Ends(t, r) /\ Ends(u, r) => t = u
  /\ stat[r] = "TIMEOUT_FIRE" <=> timer[r] \in {"run", "free"}
  /\ \A t \in Threads : thr[t] = <<r, "free">> => timer[r] = "off"
  /\ ended[r] = IF \/ stat[r] = "Freed" \/ timer[r] = "free"
                   \/ \E t \in Threads : thr[t] = <<r, "free">> THEN 1 ELSE 0

(* Before its submission and after its end nobody knows a request.          *)
Unknown(r) ==
  stat[r] \in {"None", "Freed"} => /\ timer[r] = "off"
                                   /\ \A t \in Threads : thr[t][1] # r

LifeOne(r) == Listed(r) /\ Ending(r) /\ Unknown(r)
LifeInv == \A r \in Req : LifeOne(r)

IInv == TypeOK /\ ThreadInv /\ LifeInv /\ RefsAreUsers

-----------------------------------------------------------------------------
(* What each event does to a request: whether its action is taken, and the  *)
(* next state.                                                              *)
LEMMA FSMFacts ==
  ASSUME NEW r \in Req
  PROVE  /\ Update(r, "PeekWorkQ").action = "DO_SEND" <=> stat[r] = "WAIT_SEND"
         /\ stat[r] = "WAIT_SEND" => Update(r, "PeekWorkQ").state = "SENDING"
         /\ Update(r, "SendDone").action = "DO_WAIT_RESP" <=> stat[r] = "SENDING"
         /\ stat[r] = "SENDING" => Update(r, "SendDone").state = "WAIT_RESP"
         /\ Update(r, "FindReqOK").action = "DO_PROCESS_RESP" <=> stat[r] = "WAIT_RESP"
         /\ Update(r, "FindReqOK").state = IF stat[r] = "WAIT_RESP" THEN "PROCESS_RESP" ELSE stat[r]
         /\ Update(r, "ConnBack").action = "DO_RETRY_REQ" <=> stat[r] = "WAIT_RESP"
         /\ stat[r] = "WAIT_RESP" => Update(r, "ConnBack").state = "RETRY_REQ"
         /\ Update(r, "RetryChkDone").state = IF stat[r] = "RETRY_REQ" THEN "WAIT_SEND" ELSE stat[r]
         /\ Acquire(r) => /\ Update(r, "TimeoutFire").action = "DO_TO_PROCESS"
                                <=> stat[r] \in {"WAIT_SEND", "SENDING", "WAIT_RESP"}
                          /\ Update(r, "TimeoutFire").state =
                                IF stat[r] \in {"WAIT_SEND", "SENDING", "WAIT_RESP"}
                                THEN "TIMEOUT_FIRE" ELSE stat[r]
         /\ NNMDgetReq_update_state("INIT", "InitDone").state = "WAIT_SEND"
BY DEF Update, NNMDgetReq_update_state, NNMDciReq_update_state, Go, NoAction

(* A request of which nothing changes keeps its place in the life cycle.    *)
LEMMA Frame ==
  ASSUME TypeOK, TypeOK', NEW r \in Req, LifeOne(r),
         stat'[r] = stat[r], timer'[r] = timer[r], ended'[r] = ended[r],
         r \in inPool' <=> r \in inPool, r \in workQ' <=> r \in workQ,
         r \in sub' <=> r \in sub, r \in rlist' <=> r \in rlist,
         \A t \in Threads : thr[t][1] = r \/ thr'[t][1] = r => thr'[t] = thr[t]
  PROVE  LifeOne(r)'
<1>1. \A t \in Threads, pc \in STRING : thr'[t] = <<r, pc>> <=> thr[t] = <<r, pc>>
  OBVIOUS
<1>2. \A t \in Threads : thr'[t][1] = r <=> thr[t][1] = r
  OBVIOUS
<1>3. Listed(r)'
  <2>1. thr'["hk"] = <<r, "add">> <=> thr["hk"] = <<r, "add">>
    BY <1>1 DEF Threads
  <2>2. thr'[Worker(r)] = <<r, "send">> <=> thr[Worker(r)] = <<r, "send">>
    BY <1>1 DEF Threads, Worker
  <2> QED BY <2>1, <2>2 DEF LifeOne, Listed, Worker
<1>4. Ending(r)'
  <2>1. \A t \in Threads : Ends(t, r)' <=> Ends(t, r)
    BY <1>1 DEF Ends
  <2>2. \A t \in Threads : thr'[t] = <<r, "free">> <=> thr[t] = <<r, "free">>
    BY <1>1
  <2> QED BY <2>1, <2>2 DEF LifeOne, Ending
<1>5. Unknown(r)'
  BY <1>2 DEF LifeOne, Unknown
<1> QED BY <1>3, <1>4, <1>5 DEF LifeOne

(* Counting one user more or less.                                          *)
LEMMA CardAdd ==
  ASSUME NEW S, NEW T, NEW x, IsFiniteSet(S), x \notin S, T = S \cup {x}
  PROVE  Cardinality(T) = Cardinality(S) + 1
BY FS_AddElement

LEMMA CardRemove ==
  ASSUME NEW S, NEW T, NEW x, IsFiniteSet(S), x \in S, T = S \ {x}
  PROVE  Cardinality(T) = Cardinality(S) - 1
BY FS_RemoveElement

LEMMA UsersFinite ==
  ASSUME NEW r
  PROVE  IsFiniteSet(Users(r)) /\ Cardinality(Users(r)) \in Nat
<1> DEFINE All == {"cm", "ch", "rx", "hk", "caller", "retry list", "timer"}
<1>1. IsFiniteSet(All)
  <2>1. IsFiniteSet({"cm"}) /\ IsFiniteSet({"rx"}) /\ IsFiniteSet({"caller"}) /\ IsFiniteSet({"timer"})
    BY FS_Singleton
  <2>2. IsFiniteSet({"cm"} \cup {"ch"}) /\ IsFiniteSet({"rx"} \cup {"hk"})
        /\ IsFiniteSet({"caller"} \cup {"retry list"})
    BY <2>1, FS_AddElement
  <2>3. IsFiniteSet(({"cm"} \cup {"ch"}) \cup ({"rx"} \cup {"hk"}))
        /\ IsFiniteSet(({"caller"} \cup {"retry list"}) \cup {"timer"})
    BY <2>1, <2>2, FS_Union
  <2>4. IsFiniteSet((({"cm"} \cup {"ch"}) \cup ({"rx"} \cup {"hk"}))
                      \cup (({"caller"} \cup {"retry list"}) \cup {"timer"}))
    BY <2>3, FS_Union
  <2>5. All = (({"cm"} \cup {"ch"}) \cup ({"rx"} \cup {"hk"}))
                \cup (({"caller"} \cup {"retry list"}) \cup {"timer"})
    OBVIOUS
  <2> QED BY <2>4, <2>5
<1>2. Users(r) \subseteq All
  BY DEF Users, Threads
<1> QED BY <1>1, <1>2, FS_Subset, FS_CardinalityType

(* Whoever is a user of a request has a reference to it.                    *)
LEMMA UserCounts ==
  ASSUME RefsAreUsers, NEW r \in Req, Users(r) # {}
  PROVE  ref[r] \in Nat /\ ref[r] > 0
<1>1. ref[r] = Cardinality(Users(r))
  BY DEF RefsAreUsers
<1>2. Cardinality(Users(r)) # 0
  BY UsersFinite, FS_EmptySet
<1> QED BY <1>1, <1>2, UsersFinite

-----------------------------------------------------------------------------
USE KindAssumption, NNBoundAssumption DEF req, hk, link, vars

(* The steps of the specification, one by one.                              *)
LEMMA NextCases ==
  ASSUME [Next]_vars
  PROVE  \/ \E r \in Req :
              \/ SubmitMDReq(r) \/ SubmitAdd(r) \/ RetryAdd(r) \/ Peek(r) \/ SendDone(r)
              \/ Transmit(r) \/ CacheHit(r) \/ Answer(r) \/ TimeoutFire(r) \/ TimeoutEnd(r)
              \/ TimeoutFree(r) \/ RetryScan(r) \/ RetryReq(r)
         \/ \E t \in Threads : EndReq(t) \/ FreeReq(t)
         \/ ConnLost \/ ConnBack \/ RetryStart \/ UNCHANGED vars
BY DEF Next, Sender, Finisher, Timer, Retry

(* What the steps that depend on the state machine change, spelled out.     *)
PeekEffect(r) ==
  /\ r \in workQ /\ thr[Worker(r)] = Idle /\ workQ' = workQ \ {r}
  /\ stat[r] = "WAIT_SEND" => /\ stat' = [stat EXCEPT ![r] = "SENDING"]
                              /\ ref' = [ref EXCEPT ![r] = @ + 1]
                              /\ thr' = [thr EXCEPT ![Worker(r)] = <<r, "send">>]
  /\ stat[r] # "WAIT_SEND" => UNCHANGED <<stat, ref, thr>>
  /\ UNCHANGED <<inPool, timer, ended, locked, sub, hk, link>>

SendDoneEffect(r) ==
  /\ thr[Worker(r)] = <<r, "send">>
  /\ stat[r] = "SENDING" => /\ stat' = [stat EXCEPT ![r] = "WAIT_RESP"]
                            /\ thr' = [thr EXCEPT ![Worker(r)] = <<r, "tx">>]
                            /\ UNCHANGED ref
  /\ stat[r] # "SENDING" => /\ thr' = [thr EXCEPT ![Worker(r)] = Idle]
                            /\ ref' = [ref EXCEPT ![r] = @ - 1] /\ UNCHANGED stat
  /\ UNCHANGED <<inPool, workQ, timer, ended, locked, sub, hk, link>>

CacheHitEffect(r) ==
  /\ thr["ch"] = <<r, "tx">>
  /\ stat[r] = "WAIT_RESP" => /\ stat' = [stat EXCEPT ![r] = "PROCESS_RESP"]
                              /\ inPool' = inPool \ {r}
                              /\ thr' = [thr EXCEPT !["ch"] = <<r, "end">>]
                              /\ UNCHANGED ref
  /\ stat[r] # "WAIT_RESP" => /\ thr' = [thr EXCEPT !["ch"] = Idle]
                              /\ ref' = [ref EXCEPT ![r] = @ - 1]
                              /\ UNCHANGED <<stat, inPool>>
  /\ UNCHANGED <<workQ, timer, ended, locked, sub, hk, link>>

AnswerEffect(r) ==
  /\ thr["rx"] = Idle /\ net[r] > 0 /\ net' = [net EXCEPT ![r] = @ - 1]
  /\ stat[r] = "WAIT_RESP" => /\ stat' = [stat EXCEPT ![r] = "PROCESS_RESP"]
                              /\ inPool' = inPool \ {r}
                              /\ ref' = [ref EXCEPT ![r] = @ + 1]
                              /\ thr' = [thr EXCEPT !["rx"] = <<r, "end">>]
  /\ stat[r] # "WAIT_RESP" => UNCHANGED <<stat, inPool, ref, thr>>
  /\ UNCHANGED <<workQ, timer, ended, locked, sub, hk, conn, lost>>

TimeoutFireEffect(r) ==
  /\ timer[r] = "on" /\ r \notin sub /\ thr["hk"] # <<r, "add">>
  /\ locked' \subseteq locked \cup {Bucket(r)}
  /\ \/ /\ stat[r] \in {"WAIT_SEND", "SENDING", "WAIT_RESP"}
        /\ stat' = [stat EXCEPT ![r] = "TIMEOUT_FIRE"]
        /\ inPool' = inPool \ {r} /\ ref' = [ref EXCEPT ![r] = @ + 1]
        /\ timer' = [timer EXCEPT ![r] = "run"]
     \/ timer' = [timer EXCEPT ![r] = "off"] /\ UNCHANGED <<stat, inPool, ref>>
  /\ UNCHANGED <<workQ, ended, sub, thr, hk, link>>

RetryScanEffect(r) ==
  /\ hkScan' = hkScan \ {r}
  /\ stat[r] = "WAIT_RESP" => /\ stat' = [stat EXCEPT ![r] = "RETRY_REQ"]
                              /\ ref' = [ref EXCEPT ![r] = @ + 1]
                              /\ rlist' = rlist \cup {r}
  /\ stat[r] # "WAIT_RESP" => UNCHANGED <<stat, ref, rlist>>
  /\ UNCHANGED <<inPool, workQ, timer, ended, locked, sub, thr, hkTask, link>>

RetryReqEffect(r) ==
  /\ stat[r] = "RETRY_REQ" /\ r \in rlist /\ thr["hk"] = Idle
  /\ timer[r] \in {"on", "off"}
  /\ rlist' = rlist \ {r} /\ stat' = [stat EXCEPT ![r] = "WAIT_SEND"]
  /\ timer' = [timer EXCEPT ![r] = "on"]
  /\ thr' = [thr EXCEPT !["hk"] = <<r, "add">>]
  /\ UNCHANGED <<inPool, workQ, ref, ended, locked, sub, hkTask, hkScan, link>>

(* Those steps do change that, given where the invariant says a request is. *)
LEMMA PeekStep ==
  ASSUME TypeOK, NEW r \in Req, Peek(r)
  PROVE  PeekEffect(r)
BY FSMFacts DEF PeekEffect, Peek, SetStat, Ref, Thread

LEMMA SendDoneStep ==
  ASSUME TypeOK, ~FlowControl, NEW r \in Req, SendDone(r)
  PROVE  SendDoneEffect(r)
BY FSMFacts DEF SendDoneEffect, SendDone, Congested, SetStat, Ref, Thread, Rest, TypeOK

LEMMA CacheHitStep ==
  ASSUME TypeOK, LifeInv, NEW r \in Req, CacheHit(r)
  PROVE  CacheHitEffect(r)
<1>1. stat[r] = "WAIT_RESP" => r \in inPool
  BY DEF LifeInv, LifeOne, Listed
<1>2. stat[r] # "WAIT_RESP" => [stat EXCEPT ![r] = stat[r]] = stat
  BY DEF TypeOK
<1> QED BY <1>1, <1>2, FSMFacts DEF CacheHitEffect, CacheHit, SetStat, Ref, Thread, Rest

LEMMA AnswerStep ==
  ASSUME TypeOK, LifeInv, NEW r \in Req, Answer(r)
  PROVE  AnswerEffect(r)
<1>1. stat[r] = "WAIT_RESP" => r \in inPool
  BY DEF LifeInv, LifeOne, Listed
<1> QED BY <1>1, FSMFacts DEF AnswerEffect, Answer, SetStat, Ref, Thread

LEMMA TimeoutFireStep ==
  ASSUME TypeOK, LifeInv, NEW r \in Req, TimeoutFire(r)
  PROVE  TimeoutFireEffect(r)
<1>1. stat[r] \in {"WAIT_SEND", "SENDING", "WAIT_RESP"} => r \in inPool
  BY DEF LifeInv, LifeOne, Listed
<1>2. [stat EXCEPT ![r] = stat[r]] = stat
  BY DEF TypeOK
<1>3. CASE Acquire(r)
  BY <1>1, <1>2, <1>3, FSMFacts DEF TimeoutFireEffect, TimeoutFire, SetStat, SetTimer, Ref
<1>4. CASE ~Acquire(r)
  BY <1>4 DEF TimeoutFireEffect, TimeoutFire, SetTimer
<1> QED BY <1>3, <1>4

LEMMA RetryScanStep ==
  ASSUME TypeOK, LifeInv, NEW r \in Req, RetryScan(r)
  PROVE  RetryScanEffect(r)
<1>1. stat[r] = "WAIT_RESP" => r \in inPool
  BY DEF LifeInv, LifeOne, Listed
<1> QED BY <1>1, FSMFacts DEF RetryScanEffect, RetryScan, SetStat, Ref

LEMMA RetryReqStep ==
  ASSUME TypeOK, LifeInv, ~RunOut, NEW r \in Req, RetryReq(r)
  PROVE  RetryReqEffect(r)
<1>1. r \in rlist => stat[r] = "RETRY_REQ"
  BY DEF LifeInv, LifeOne, Listed
<1> QED BY <1>1, FSMFacts DEF RetryReqEffect, RetryReq, SetStat, SetTimer, Thread

LEMMA TypeStep ==
  ASSUME TypeOK, RefsAreUsers, ThreadInv, LifeInv, ~FlowControl, ~RunOut, [Next]_vars
  PROVE  TypeOK'
<1>1. ASSUME NEW r \in Req, SubmitMDReq(r) PROVE TypeOK'
  <2>1. NNMDgetReq_update_state("INIT", "InitDone").state = "WAIT_SEND"
    BY FSMFacts
  <2> QED BY <1>1, <2>1 DEF SubmitMDReq, SetStat, Ref, SetTimer, TypeOK, Threads, NNMDReqStates
<1>2. ASSUME NEW r \in Req, SubmitAdd(r) PROVE TypeOK'
  <2>1. "caller" \in Users(r)
    BY <1>2 DEF SubmitAdd, Users, TypeOK, Threads, NNMDReqStates
  <2> QED BY <1>2, <2>1, UserCounts DEF SubmitAdd, Ref, TypeOK, Threads, NNMDReqStates
<1>3. ASSUME NEW r \in Req, RetryAdd(r) PROVE TypeOK'
  <2>1. "hk" \in Users(r)
    BY <1>3 DEF RetryAdd, Users, TypeOK, Threads, NNMDReqStates
  <2> QED BY <1>3, <2>1, UserCounts DEF RetryAdd, Ref, Rest, TypeOK, Threads, NNMDReqStates
<1>4. ASSUME NEW r \in Req, Peek(r) PROVE TypeOK'
  <2>1. PeekEffect(r)
    BY <1>4, PeekStep
  <2>2. Worker(r) \in Threads
    BY DEF Worker, Threads
  <2> QED BY <2>1, <2>2 DEF PeekEffect, TypeOK, NNMDReqStates
<1>5. ASSUME NEW r \in Req, SendDone(r) PROVE TypeOK'
  <2>1. Worker(r) \in Users(r)
    BY <1>5 DEF SendDone, Users, Worker, TypeOK, Threads, NNMDReqStates
  <2>2. SendDoneEffect(r)
    BY <1>5, SendDoneStep
  <2>3. Worker(r) \in Threads
    BY DEF Worker, Threads
  <2>4. ref[r] > 0
    BY <2>1, UserCounts
  <2> QED BY <2>2, <2>3, <2>4 DEF SendDoneEffect, TypeOK, NNMDReqStates
<1>6. ASSUME NEW r \in Req, Transmit(r) PROVE TypeOK'
  <2>1. "cm" \in Users(r)
    BY <1>6 DEF Transmit, Users, TypeOK, Threads, NNMDReqStates
  <2> QED BY <1>6, <2>1, UserCounts DEF Transmit, Ref, Rest, TypeOK, Threads, NNMDReqStates
<1>7. ASSUME NEW r \in Req, CacheHit(r) PROVE TypeOK'
  <2>1. "ch" \in Users(r)
    BY <1>7 DEF CacheHit, Users, TypeOK, Threads, NNMDReqStates
  <2>2. CacheHitEffect(r)
    BY <1>7, CacheHitStep
  <2> QED BY <2>1, <2>2, UserCounts DEF CacheHitEffect, TypeOK, Threads, NNMDReqStates
<1>8. ASSUME NEW r \in Req, Answer(r) PROVE TypeOK'
  <2>1. AnswerEffect(r)
    BY <1>8, AnswerStep
  <2> QED BY <2>1 DEF AnswerEffect, TypeOK, Threads, NNMDReqStates
<1>9. ASSUME NEW r \in Req, TimeoutFire(r) PROVE TypeOK'
  <2>1. Bucket(r) \in 0 .. NBuckets - 1
    BY IDAssumption DEF Bucket
  <2>2. TimeoutFireEffect(r)
    BY <1>9, TimeoutFireStep
  <2> QED BY <2>1, <2>2 DEF TimeoutFireEffect, TypeOK, Threads, NNMDReqStates
<1>10. ASSUME NEW r \in Req, TimeoutEnd(r) PROVE TypeOK'
  <2>1. "timer" \in Users(r)
    BY <1>10 DEF TimeoutEnd, Users, TypeOK, Threads, NNMDReqStates
  <2> QED BY <1>10, <2>1, UserCounts DEF TimeoutEnd, CallEndfn, Ref, SetTimer, TypeOK
<1>11. ASSUME NEW r \in Req, TimeoutFree(r) PROVE TypeOK'
  BY <1>11 DEF TimeoutFree, SetStat, SetTimer, TypeOK, Threads, NNMDReqStates
<1>12. ASSUME NEW r \in Req, RetryScan(r) PROVE TypeOK'
  <2>1. RetryScanEffect(r)
    BY <1>12, RetryScanStep
  <2> QED BY <2>1 DEF RetryScanEffect, TypeOK, Threads, NNMDReqStates
<1>13. ASSUME NEW r \in Req, RetryReq(r) PROVE TypeOK'
  <2>1. RetryReqEffect(r)
    BY <1>13, RetryReqStep
  <2> QED BY <2>1 DEF RetryReqEffect, TypeOK, Threads, NNMDReqStates
<1>14. ASSUME NEW t \in Threads, EndReq(t) PROVE TypeOK'
  <2>1. thr[t][1] \in Req /\ t \in Users(thr[t][1])
    <3>1. thr[t] \in Req \X {"send", "tx", "end", "free", "add"}
      BY <1>14 DEF EndReq, Idle, TypeOK, Threads, NNMDReqStates
    <3> QED BY <1>14, <3>1 DEF EndReq, Users, TypeOK, Threads, NNMDReqStates
  <2> QED BY <1>14, <2>1, UserCounts DEF EndReq, SetTimer, CallEndfn, Ref, Thread, TypeOK
<1>15. ASSUME NEW t \in Threads, FreeReq(t) PROVE TypeOK'
  BY <1>15 DEF FreeReq, SetStat, Rest, TypeOK, Threads, NNMDReqStates
<1>16. CASE ConnLost \/ ConnBack \/ RetryStart \/ UNCHANGED vars
  <2>1. CASE ConnLost
    <3>1. net' \in [Req -> Nat]
      BY <2>1 DEF ConnLost, TypeOK, Threads, NNMDReqStates
    <3>2. lost' \in 0 .. MaxLost
      BY <2>1 DEF ConnLost, TypeOK, Threads, NNMDReqStates
    <3> QED BY <2>1, <3>1, <3>2 DEF ConnLost, TypeOK, Threads, NNMDReqStates
  <2>2. CASE ConnBack
    BY <2>2 DEF ConnBack, TypeOK, Threads, NNMDReqStates
  <2>3. CASE RetryStart
    BY <2>3 DEF RetryStart, TypeOK, Threads, NNMDReqStates
  <2>4. CASE UNCHANGED vars
    BY <2>4 DEF TypeOK
  <2> QED BY <1>16, <2>1, <2>2, <2>3, <2>4
<1> QED
  BY NextCases, <1>1, <1>2, <1>3, <1>4, <1>5, <1>6, <1>7, <1>8, <1>9, <1>10, <1>11, <1>12, <1>13,
     <1>14, <1>15, <1>16

(* ThreadInv is preserved.                                                  *)
LEMMA ThreadStep ==
  ASSUME TypeOK, ThreadInv, LifeInv, ~FlowControl, ~RunOut, [Next]_vars
  PROVE  ThreadInv'
<1> USE DEF Threads
<1>1. ASSUME NEW r \in Req, SubmitMDReq(r) PROVE ThreadInv'
  BY <1>1 DEF SubmitMDReq, ThreadInv, TypeOK, Idle
<1>2. ASSUME NEW r \in Req, SubmitAdd(r) PROVE ThreadInv'
  BY <1>2 DEF SubmitAdd, ThreadInv, TypeOK, Idle
<1>3. ASSUME NEW r \in Req, RetryAdd(r) PROVE ThreadInv'
  BY <1>3 DEF RetryAdd, Rest, ThreadInv, TypeOK, Idle
<1>4. ASSUME NEW r \in Req, Peek(r) PROVE ThreadInv'
  <2>1. PeekEffect(r)
    BY <1>4, PeekStep
  <2> QED BY <2>1 DEF PeekEffect, Worker, ThreadInv, TypeOK, Idle
<1>5. ASSUME NEW r \in Req, SendDone(r) PROVE ThreadInv'
  <2>1. SendDoneEffect(r)
    BY <1>5, SendDoneStep
  <2> QED BY <2>1 DEF SendDoneEffect, Worker, ThreadInv, TypeOK, Idle
<1>6. ASSUME NEW r \in Req, Transmit(r) PROVE ThreadInv'
  BY <1>6 DEF Transmit, Rest, ThreadInv, TypeOK, Idle
<1>7. ASSUME NEW r \in Req, CacheHit(r) PROVE ThreadInv'
  <2>1. CacheHitEffect(r)
    BY <1>7, CacheHitStep
  <2> QED BY <2>1 DEF CacheHitEffect, ThreadInv, TypeOK, Idle
<1>8. ASSUME NEW r \in Req, Answer(r) PROVE ThreadInv'
  <2>1. AnswerEffect(r)
    BY <1>8, AnswerStep
  <2> QED BY <2>1 DEF AnswerEffect, ThreadInv, TypeOK, Idle
<1>9. ASSUME NEW r \in Req, TimeoutFire(r) PROVE ThreadInv'
  <2>1. TimeoutFireEffect(r)
    BY <1>9, TimeoutFireStep
  <2> QED BY <2>1 DEF TimeoutFireEffect, ThreadInv, TypeOK, Idle
<1>10. ASSUME NEW r \in Req, TimeoutEnd(r) PROVE ThreadInv'
  BY <1>10 DEF TimeoutEnd, ThreadInv, TypeOK, Idle
<1>11. ASSUME NEW r \in Req, TimeoutFree(r) PROVE ThreadInv'
  BY <1>11 DEF TimeoutFree, ThreadInv, TypeOK, Idle
<1>12. ASSUME NEW r \in Req, RetryScan(r) PROVE ThreadInv'
  <2>1. RetryScanEffect(r)
    BY <1>12, RetryScanStep
  <2> QED BY <2>1 DEF RetryScanEffect, ThreadInv, TypeOK, Idle
<1>13. ASSUME NEW r \in Req, RetryReq(r) PROVE ThreadInv'
  <2>1. RetryReqEffect(r)
    BY <1>13, RetryReqStep
  <2> QED BY <2>1 DEF RetryReqEffect, ThreadInv, TypeOK, Idle
<1>14. ASSUME NEW t \in Threads, EndReq(t) PROVE ThreadInv'
  BY <1>14 DEF EndReq, Thread, ThreadInv, TypeOK, Idle
<1>15. ASSUME NEW t \in Threads, FreeReq(t) PROVE ThreadInv'
  BY <1>15 DEF FreeReq, Rest, ThreadInv, TypeOK, Idle
<1>16. CASE ConnLost \/ ConnBack \/ RetryStart \/ UNCHANGED vars
  BY <1>16 DEF ConnLost, ConnBack, RetryStart, ThreadInv
<1> QED
  BY NextCases, <1>1, <1>2, <1>3, <1>4, <1>5, <1>6, <1>7, <1>8, <1>9, <1>10, <1>11, <1>12, <1>13,
     <1>14, <1>15, <1>16

-----------------------------------------------------------------------------
(* Nobody works on a request that has no reference, except who frees it.   *)
LEMMA NoUsers ==
  ASSUME RefsAreUsers, NEW r \in Req, ref[r] = 0
  PROVE  \A t \in Threads : thr[t][1] = r => thr[t][2] = "free"
<1>1. Users(r) = {}
  BY UserCounts
<1> QED BY <1>1 DEF Users

(* LifeInv is preserved: a step moves one request on, and the others keep   *)
(* their place.                                                             *)
LEMMA LifeStep ==
  ASSUME TypeOK, TypeOK', ThreadInv, LifeInv, RefsAreUsers,
         ~FlowControl, ~RunOut, [Next]_vars
  PROVE  LifeInv'
<1> USE DEF Threads
<1>1. ASSUME NEW r \in Req, SubmitMDReq(r) PROVE LifeInv'
  <2>1. LifeOne(r)
    BY DEF LifeInv
  <2>2. ASSUME NEW q \in Req, q # r PROVE LifeOne(q)'
    <3>1. LifeOne(q)
      BY DEF LifeInv
    <3>2. NNMDgetReq_update_state("INIT", "InitDone").state = "WAIT_SEND"
      BY FSMFacts
    <3> QED BY <1>1, <2>2, <3>1, <3>2, Frame DEF SubmitMDReq, SetStat, Ref, SetTimer, TypeOK, Idle
  <2>3. Listed(r)'
    BY <1>1, FSMFacts, <2>1 DEF SubmitMDReq, SetStat, Ref, SetTimer, ThreadInv, LifeOne, Listed, Ending, Ends, Unknown, TypeOK, Idle, Worker
  <2>4. Ending(r)'
    BY <1>1, FSMFacts, <2>1 DEF SubmitMDReq, SetStat, Ref, SetTimer, ThreadInv, LifeOne, Listed, Ending, Ends, Unknown, TypeOK, Idle, Worker
  <2>5. Unknown(r)'
    BY <1>1, FSMFacts, <2>1 DEF SubmitMDReq, SetStat, Ref, SetTimer, ThreadInv, LifeOne, Listed, Ending, Ends, Unknown, TypeOK, Idle, Worker
  <2> QED BY <2>2, <2>3, <2>4, <2>5 DEF LifeInv, LifeOne
<1>2. ASSUME NEW r \in Req, SubmitAdd(r) PROVE LifeInv'
  <2>1. LifeOne(r)
    BY DEF LifeInv
  <2>2. ASSUME NEW q \in Req, q # r PROVE LifeOne(q)'
    <3>1. LifeOne(q)
      BY DEF LifeInv
    <3> QED BY <1>2, <2>2, <3>1, Frame DEF SubmitAdd, Ref, TypeOK, Idle
  <2>3. Listed(r)'
    BY <1>2, <2>1 DEF SubmitAdd, Ref, ThreadInv, LifeOne, Listed, Ending, Ends, Unknown, TypeOK, Idle, Worker
  <2>4. Ending(r)'
    BY <1>2, <2>1 DEF SubmitAdd, Ref, ThreadInv, LifeOne, Listed, Ending, Ends, Unknown, TypeOK, Idle, Worker
  <2>5. Unknown(r)'
    BY <1>2, <2>1 DEF SubmitAdd, Ref, ThreadInv, LifeOne, Listed, Ending, Ends, Unknown, TypeOK, Idle, Worker
  <2> QED BY <2>2, <2>3, <2>4, <2>5 DEF LifeInv, LifeOne
<1>3. ASSUME NEW r \in Req, RetryAdd(r) PROVE LifeInv'
  <2>1. LifeOne(r)
    BY DEF LifeInv
  <2>2. ASSUME NEW q \in Req, q # r PROVE LifeOne(q)'
    <3>1. LifeOne(q)
      BY DEF LifeInv
    <3> QED BY <1>3, <2>2, <3>1, Frame DEF RetryAdd, Ref, Rest, TypeOK, Idle
  <2>3. Listed(r)'
    BY <1>3, <2>1 DEF RetryAdd, Ref, Rest, ThreadInv, LifeOne, Listed, Ending, Ends, Unknown, TypeOK, Idle, Worker
  <2>4. Ending(r)'
    BY <1>3, <2>1 DEF RetryAdd, Ref, Rest, ThreadInv, LifeOne, Listed, Ending, Ends, Unknown, TypeOK, Idle, Worker
  <2>5. Unknown(r)'
    BY <1>3, <2>1 DEF RetryAdd, Ref, Rest, ThreadInv, LifeOne, Listed, Ending, Ends, Unknown, TypeOK, Idle, Worker
  <2> QED BY <2>2, <2>3, <2>4, <2>5 DEF LifeInv, LifeOne
<1>4. ASSUME NEW r \in Req, Peek(r) PROVE LifeInv'
  <2>0. PeekEffect(r)
    BY <1>4, PeekStep
  <2>1. LifeOne(r)
    BY DEF LifeInv
  <2>2. ASSUME NEW q \in Req, q # r PROVE LifeOne(q)'
    <3>1. LifeOne(q)
      BY DEF LifeInv
    <3> QED BY <2>0, <2>2, <3>1, Frame DEF PeekEffect, Worker, TypeOK, Idle
  <2>3. Listed(r)'
    BY <2>0, <2>1 DEF PeekEffect, Worker, ThreadInv, LifeOne, Listed, Ending, Ends, Unknown, TypeOK, Idle, Worker
  <2>4. Ending(r)'
    BY <2>0, <2>1 DEF PeekEffect, Worker, ThreadInv, LifeOne, Listed, Ending, Ends, Unknown, TypeOK, Idle, Worker
  <2>5. Unknown(r)'
    BY <2>0, <2>1 DEF PeekEffect, Worker, ThreadInv, LifeOne, Listed, Ending, Ends, Unknown, TypeOK, Idle, Worker
  <2> QED BY <2>2, <2>3, <2>4, <2>5 DEF LifeInv, LifeOne
<1>5. ASSUME NEW r \in Req, SendDone(r) PROVE LifeInv'
  <2>0. SendDoneEffect(r)
    BY <1>5, SendDoneStep
  <2>1. LifeOne(r)
    BY DEF LifeInv
  <2>2. ASSUME NEW q \in Req, q # r PROVE LifeOne(q)'
    <3>1. LifeOne(q)
      BY DEF LifeInv
    <3> QED BY <2>0, <2>2, <3>1, Frame DEF SendDoneEffect, Worker, TypeOK, Idle
  <2>3. Listed(r)'
    BY <2>0, <2>1 DEF SendDoneEffect, Worker, ThreadInv, LifeOne, Listed, Ending, Ends, Unknown, TypeOK, Idle, Worker
  <2>4. Ending(r)'
    BY <2>0, <2>1 DEF SendDoneEffect, Worker, ThreadInv, LifeOne, Listed, Ending, Ends, Unknown, TypeOK, Idle, Worker
  <2>5. Unknown(r)'
    BY <2>0, <2>1 DEF SendDoneEffect, Worker, ThreadInv, LifeOne, Listed, Ending, Ends, Unknown, TypeOK, Idle, Worker
  <2> QED BY <2>2, <2>3, <2>4, <2>5 DEF LifeInv, LifeOne
<1>6. ASSUME NEW r \in Req, Transmit(r) PROVE LifeInv'
  <2>1. LifeOne(r)
    BY DEF LifeInv
  <2>2. ASSUME NEW q \in Req, q # r PROVE LifeOne(q)'
    <3>1. LifeOne(q)
      BY DEF LifeInv
    <3> QED BY <1>6, <2>2, <3>1, Frame DEF Transmit, Ref, Rest, TypeOK, Idle
  <2>3. Listed(r)'
    BY <1>6, <2>1 DEF Transmit, Ref, Rest, ThreadInv, LifeOne, Listed, Ending, Ends, Unknown, TypeOK, Idle, Worker
  <2>4. Ending(r)'
    BY <1>6, <2>1 DEF Transmit, Ref, Rest, ThreadInv, LifeOne, Listed, Ending, Ends, Unknown, TypeOK, Idle, Worker
  <2>5. Unknown(r)'
    BY <1>6, <2>1 DEF Transmit, Ref, Rest, ThreadInv, LifeOne, Listed, Ending, Ends, Unknown, TypeOK, Idle, Worker
  <2> QED BY <2>2, <2>3, <2>4, <2>5 DEF LifeInv, LifeOne
<1>7. ASSUME NEW r \in Req, CacheHit(r) PROVE LifeInv'
  <2>0. CacheHitEffect(r)
    BY <1>7, CacheHitStep
  <2>1. LifeOne(r)
    BY DEF LifeInv
  <2>2. ASSUME NEW q \in Req, q # r PROVE LifeOne(q)'
    <3>1. LifeOne(q)
      BY DEF LifeInv
    <3> QED BY <2>0, <2>2, <3>1, Frame DEF CacheHitEffect, TypeOK, Idle
  <2>3. Listed(r)'
    BY <2>0, <2>1 DEF CacheHitEffect, ThreadInv, LifeOne, Listed, Ending, Ends, Unknown, TypeOK, Idle, Worker
  <2>4. Ending(r)'
    BY <2>0, <2>1 DEF CacheHitEffect, ThreadInv, LifeOne, Listed, Ending, Ends, Unknown, TypeOK, Idle, Worker
  <2>5. Unknown(r)'
    BY <2>0, <2>1 DEF CacheHitEffect, ThreadInv, LifeOne, Listed, Ending, Ends, Unknown, TypeOK, Idle, Worker
  <2> QED BY <2>2, <2>3, <2>4, <2>5 DEF LifeInv, LifeOne
<1>8. ASSUME NEW r \in Req, Answer(r) PROVE LifeInv'
  <2>0. AnswerEffect(r)
    BY <1>8, AnswerStep
  <2>1. LifeOne(r)
    BY DEF LifeInv
  <2>2. ASSUME NEW q \in Req, q # r PROVE LifeOne(q)'
    <3>1. LifeOne(q)
      BY DEF LifeInv
    <3> QED BY <2>0, <2>2, <3>1, Frame DEF AnswerEffect, TypeOK, Idle
  <2>3. Listed(r)'
    BY <2>0, <2>1 DEF AnswerEffect, ThreadInv, LifeOne, Listed, Ending, Ends, Unknown, TypeOK, Idle, Worker
  <2>4. Ending(r)'
    BY <2>0, <2>1 DEF AnswerEffect, ThreadInv, LifeOne, Listed, Ending, Ends, Unknown, TypeOK, Idle, Worker
  <2>5. Unknown(r)'
    BY <2>0, <2>1 DEF AnswerEffect, ThreadInv, LifeOne, Listed, Ending, Ends, Unknown, TypeOK, Idle, Worker
  <2> QED BY <2>2, <2>3, <2>4, <2>5 DEF LifeInv, LifeOne
<1>9. ASSUME NEW r \in Req, TimeoutFire(r) PROVE LifeInv'
  <2>0. TimeoutFireEffect(r)
    BY <1>9, TimeoutFireStep
  <2>1. LifeOne(r)
    BY DEF LifeInv
  <2>2. ASSUME NEW q \in Req, q # r PROVE LifeOne(q)'
    <3>1. LifeOne(q)
      BY DEF LifeInv
    <3> QED BY <2>0, <2>2, <3>1, Frame DEF TimeoutFireEffect, TypeOK, Idle
  <2>3. Listed(r)'
    BY <2>0, <2>1 DEF TimeoutFireEffect, ThreadInv, LifeOne, Listed, Ending, Ends, Unknown, TypeOK, Idle, Worker
  <2>4. Ending(r)'
    BY <2>0, <2>1 DEF TimeoutFireEffect, ThreadInv, LifeOne, Listed, Ending, Ends, Unknown, TypeOK, Idle, Worker
  <2>5. Unknown(r)'
    BY <2>0, <2>1 DEF TimeoutFireEffect, ThreadInv, LifeOne, Listed, Ending, Ends, Unknown, TypeOK, Idle, Worker
  <2> QED BY <2>2, <2>3, <2>4, <2>5 DEF LifeInv, LifeOne
<1>10. ASSUME NEW r \in Req, TimeoutEnd(r) PROVE LifeInv'
  <2>1. LifeOne(r)
    BY DEF LifeInv
  <2>2. ASSUME NEW q \in Req, q # r PROVE LifeOne(q)'
    <3>1. LifeOne(q)
      BY DEF LifeInv
    <3> QED BY <1>10, <2>2, <3>1, Frame DEF TimeoutEnd, CallEndfn, Ref, SetTimer, TypeOK, Idle
  <2>3. Listed(r)'
    BY <1>10, <2>1 DEF TimeoutEnd, CallEndfn, Ref, SetTimer, ThreadInv, LifeOne, Listed, Ending, Ends, Unknown, TypeOK, Idle, Worker
  <2>4. Ending(r)'
    BY <1>10, <2>1 DEF TimeoutEnd, CallEndfn, Ref, SetTimer, ThreadInv, LifeOne, Listed, Ending, Ends, Unknown, TypeOK, Idle, Worker
  <2>5. Unknown(r)'
    BY <1>10, <2>1 DEF TimeoutEnd, CallEndfn, Ref, SetTimer, ThreadInv, LifeOne, Listed, Ending, Ends, Unknown, TypeOK, Idle, Worker
  <2> QED BY <2>2, <2>3, <2>4, <2>5 DEF LifeInv, LifeOne
<1>11. ASSUME NEW r \in Req, TimeoutFree(r) PROVE LifeInv'
  <2>1. LifeOne(r)
    BY DEF LifeInv
  <2>2. ASSUME NEW q \in Req, q # r PROVE LifeOne(q)'
    <3>1. LifeOne(q)
      BY DEF LifeInv
    <3> QED BY <1>11, <2>2, <3>1, Frame DEF TimeoutFree, SetStat, SetTimer, TypeOK, Idle
  <2>3. Listed(r)'
    BY <1>11, <2>1 DEF TimeoutFree, SetStat, SetTimer, ThreadInv, LifeOne, Listed, Ending, Ends, Unknown, TypeOK, Idle, Worker
  <2>4. Ending(r)'
    BY <1>11, <2>1 DEF TimeoutFree, SetStat, SetTimer, ThreadInv, LifeOne, Listed, Ending, Ends, Unknown, TypeOK, Idle, Worker
  <2>5. Unknown(r)'
    BY <1>11, <2>1, NoUsers DEF TimeoutFree, SetStat, SetTimer, ThreadInv, LifeOne, Listed, Ending, Ends, Unknown, TypeOK, Idle, Worker
  <2> QED BY <2>2, <2>3, <2>4, <2>5 DEF LifeInv, LifeOne
<1>12. ASSUME NEW r \in Req, RetryScan(r) PROVE LifeInv'
  <2>0. RetryScanEffect(r)
    BY <1>12, RetryScanStep
  <2>1. LifeOne(r)
    BY DEF LifeInv
  <2>2. ASSUME NEW q \in Req, q # r PROVE LifeOne(q)'
    <3>1. LifeOne(q)
      BY DEF LifeInv
    <3> QED BY <2>0, <2>2, <3>1, Frame DEF RetryScanEffect, TypeOK, Idle
  <2>3. Listed(r)'
    BY <2>0, <2>1 DEF RetryScanEffect, ThreadInv, LifeOne, Listed, Ending, Ends, Unknown, TypeOK, Idle, Worker
  <2>4. Ending(r)'
    BY <2>0, <2>1 DEF RetryScanEffect, ThreadInv, LifeOne, Listed, Ending, Ends, Unknown, TypeOK, Idle, Worker
  <2>5. Unknown(r)'
    BY <2>0, <2>1 DEF RetryScanEffect, ThreadInv, LifeOne, Listed, Ending, Ends, Unknown, TypeOK, Idle, Worker
  <2> QED BY <2>2, <2>3, <2>4, <2>5 DEF LifeInv, LifeOne
<1>13. ASSUME NEW r \in Req, RetryReq(r) PROVE LifeInv'
  <2>0. RetryReqEffect(r)
    BY <1>13, RetryReqStep
  <2>1. LifeOne(r)
    BY DEF LifeInv
  <2>2. ASSUME NEW q \in Req, q # r PROVE LifeOne(q)'
    <3>1. LifeOne(q)
      BY DEF LifeInv
    <3> QED BY <2>0, <2>2, <3>1, Frame DEF RetryReqEffect, TypeOK, Idle
  <2>3. Listed(r)'
    BY <2>0, <2>1 DEF RetryReqEffect, ThreadInv, LifeOne, Listed, Ending, Ends, Unknown, TypeOK, Idle, Worker
  <2>4. Ending(r)'
    BY <2>0, <2>1 DEF RetryReqEffect, ThreadInv, LifeOne, Listed, Ending, Ends, Unknown, TypeOK, Idle, Worker
  <2>5. Unknown(r)'
    BY <2>0, <2>1 DEF RetryReqEffect, ThreadInv, LifeOne, Listed, Ending, Ends, Unknown, TypeOK, Idle, Worker
  <2> QED BY <2>2, <2>3, <2>4, <2>5 DEF LifeInv, LifeOne
<1>14. ASSUME NEW t \in Threads, EndReq(t) PROVE LifeInv'
  <2>0. PICK r \in Req : thr[t] = <<r, "end">>
    <3>1. thr[t] \in Req \X {"send", "tx", "end", "free", "add"}
      BY <1>14 DEF EndReq, Idle, TypeOK
    <3> QED BY <1>14, <3>1 DEF EndReq
  <2>1. LifeOne(r)
    BY DEF LifeInv
  <2>2. ASSUME NEW q \in Req, q # r PROVE LifeOne(q)'
    <3>1. LifeOne(q)
      BY DEF LifeInv
    <3> QED BY <1>14, <2>0, <2>2, <3>1, Frame DEF EndReq, SetTimer, CallEndfn, Ref, Thread, TypeOK, Idle
  <2>3. Listed(r)'
    BY <1>14, <2>0, <2>1 DEF EndReq, SetTimer, CallEndfn, Ref, Thread, ThreadInv, LifeOne, Listed, Ending, Ends, Unknown, TypeOK, Idle, Worker
  <2>4. Ending(r)'
    BY <1>14, <2>0, <2>1 DEF EndReq, SetTimer, CallEndfn, Ref, Thread, ThreadInv, LifeOne, Listed, Ending, Ends, Unknown, TypeOK, Idle, Worker
  <2>5. Unknown(r)'
    BY <1>14, <2>0, <2>1 DEF EndReq, SetTimer, CallEndfn, Ref, Thread, ThreadInv, LifeOne, Listed, Ending, Ends, Unknown, TypeOK, Idle, Worker
  <2> QED BY <2>2, <2>3, <2>4, <2>5 DEF LifeInv, LifeOne
<1>15. ASSUME NEW t \in Threads, FreeReq(t) PROVE LifeInv'
  <2>0. PICK r \in Req : thr[t] = <<r, "free">>
    <3>1. thr[t] \in Req \X {"send", "tx", "end", "free", "add"}
      BY <1>15 DEF FreeReq, Idle, TypeOK
    <3> QED BY <1>15, <3>1 DEF FreeReq
  <2>1. LifeOne(r)
    BY DEF LifeInv
  <2>2. ASSUME NEW q \in Req, q # r PROVE LifeOne(q)'
    <3>1. LifeOne(q)
      BY DEF LifeInv
    <3> QED BY <1>15, <2>0, <2>2, <3>1, Frame DEF FreeReq, SetStat, Rest, TypeOK, Idle
  <2>3. Listed(r)'
    BY <1>15, <2>0, <2>1 DEF FreeReq, SetStat, Rest, ThreadInv, LifeOne, Listed, Ending, Ends, Unknown, TypeOK, Idle, Worker
  <2>4. Ending(r)'
    BY <1>15, <2>0, <2>1 DEF FreeReq, SetStat, Rest, ThreadInv, LifeOne, Listed, Ending, Ends, Unknown, TypeOK, Idle, Worker
  <2>5. Unknown(r)'
    BY <1>15, <2>0, <2>1, NoUsers DEF FreeReq, SetStat, Rest, ThreadInv, LifeOne, Listed, Ending, Ends, Unknown, TypeOK, Idle, Worker
  <2> QED BY <2>2, <2>3, <2>4, <2>5 DEF LifeInv, LifeOne
<1>16. CASE ConnLost \/ ConnBack \/ RetryStart \/ UNCHANGED vars
  <2>1. UNCHANGED <<stat, inPool, workQ, timer, ended, sub, thr, rlist>>
    BY <1>16 DEF ConnLost, ConnBack, RetryStart
  <2>2. ASSUME NEW q \in Req PROVE LifeOne(q)'
    <3>1. LifeOne(q)
      BY DEF LifeInv
    <3> QED BY <2>1, <3>1, Frame
  <2> QED BY <2>2 DEF LifeInv
<1> QED
  BY NextCases, <1>1, <1>2, <1>3, <1>4, <1>5, <1>6, <1>7, <1>8, <1>9, <1>10, <1>11, <1>12, <1>13,
     <1>14, <1>15, <1>16

-----------------------------------------------------------------------------
(* A request that no step touches keeps its references.                     *)
LEMMA UsersFrame ==
  ASSUME RefsAreUsers, NEW q \in Req, ref'[q] = ref[q], timer'[q] = timer[q],
         q \in sub' <=> q \in sub, q \in rlist' <=> q \in rlist,
         \A t \in Threads : thr[t][1] = q \/ thr'[t][1] = q => thr'[t] = thr[t]
  PROVE  ref'[q] = Cardinality(Users(q)')
<1>1. Users(q)' = Users(q)
  BY DEF Users
<1> QED BY <1>1 DEF RefsAreUsers

(* One who begins to use a request takes a reference, one who stops drops it.*)
LEMMA UserComes ==
  ASSUME TypeOK, RefsAreUsers, NEW q \in Req, NEW x, x \notin Users(q),
         Users(q)' = Users(q) \cup {x}, ref' = [ref EXCEPT ![q] = @ + 1]
  PROVE  ref'[q] = Cardinality(Users(q)')
<1>1. ref[q] = Cardinality(Users(q)) /\ ref'[q] = ref[q] + 1
  BY DEF RefsAreUsers, TypeOK
<1>2. Cardinality(Users(q)') = Cardinality(Users(q)) + 1
  BY UsersFinite, CardAdd
<1> QED BY <1>1, <1>2

LEMMA UserGoes ==
  ASSUME TypeOK, RefsAreUsers, NEW q \in Req, NEW x, x \in Users(q),
         Users(q)' = Users(q) \ {x}, ref' = [ref EXCEPT ![q] = @ - 1]
  PROVE  ref'[q] = Cardinality(Users(q)')
<1>1. ref[q] = Cardinality(Users(q)) /\ ref'[q] = ref[q] - 1
  BY DEF RefsAreUsers, TypeOK
<1>2. Cardinality(Users(q)') = Cardinality(Users(q)) - 1
  BY UsersFinite, CardRemove
<1> QED BY <1>1, <1>2

(* A thread that leaves a request alone, or only frees it, uses it no more. *)
LEMMA ThreadLeaves ==
  ASSUME NEW r, NEW w \in Threads, r \in sub' <=> r \in sub, r \in rlist' <=> r \in rlist,
         timer'[r] = "run" <=> timer[r] = "run",
         \A u \in Threads : thr'[u][1] = r /\ thr'[u][2] # "free"
                            <=> thr[u][1] = r /\ thr[u][2] # "free" /\ u # w
  PROVE  Users(r)' = Users(r) \ {w}
<1> DEFINE S == {t \in Threads : thr[t][1] = r /\ thr[t][2] # "free"}
           Others == (IF r \in sub THEN {"caller"} ELSE {})
                     \cup (IF r \in rlist THEN {"retry list"} ELSE {})
                     \cup (IF timer[r] = "run" THEN {"timer"} ELSE {})
<1>1. Users(r) = S \cup Others /\ Users(r)' = S' \cup Others'
  BY DEF Users
<1>2. S' = S \ {w}
  OBVIOUS
<1>3. Others' = Others /\ w \notin Others
  BY DEF Threads
<1> QED BY <1>1, <1>2, <1>3

(* One user takes over from another.                                        *)
LEMMA CardSwap ==
  ASSUME NEW S, NEW T, NEW x, NEW y, IsFiniteSet(S), x \in S, y \notin S, T = (S \ {x}) \cup {y}
  PROVE  Cardinality(T) = Cardinality(S)
<1>1. IsFiniteSet(S \ {x}) /\ Cardinality(S \ {x}) = Cardinality(S) - 1
  BY FS_RemoveElement
<1>2. Cardinality(T) = Cardinality(S \ {x}) + 1
  BY <1>1, CardAdd
<1>3. Cardinality(S) \in Nat
  BY FS_CardinalityType
<1> QED BY <1>1, <1>2, <1>3

(* RefsAreUsers is preserved.                                               *)
LEMMA RefsStep ==
  ASSUME TypeOK, TypeOK', ThreadInv, LifeInv, RefsAreUsers,
         ~FlowControl, ~RunOut, [Next]_vars
  PROVE  RefsAreUsers'
<1> USE DEF Threads
<1>1. ASSUME NEW r \in Req, SubmitMDReq(r) PROVE RefsAreUsers'
  <2>1. LifeOne(r)
    BY DEF LifeInv
  <2>2. ASSUME NEW q \in Req, q # r PROVE ref'[q] = Cardinality(Users(q)')
    BY <1>1, <2>2, UsersFrame DEF SubmitMDReq, SetStat, Ref, SetTimer, TypeOK, Idle
  <2>3. ref'[r] = Cardinality(Users(r)')
    <3>1. Users(r)' = Users(r) \cup {"caller"}
      BY <1>1, <2>1 DEF SubmitMDReq, SetStat, Ref, SetTimer, Users, LifeOne, Listed, Unknown, TypeOK, Idle
    <3>2. "caller" \notin Users(r)
      BY <1>1, <2>1 DEF SubmitMDReq, SetStat, Ref, SetTimer, Users, LifeOne, Listed, Unknown, TypeOK, Idle
    <3>3. ref' = [ref EXCEPT ![r] = @ + 1]
      BY <1>1 DEF SubmitMDReq, SetStat, Ref, SetTimer
    <3> QED BY <3>1, <3>2, <3>3, UserComes
  <2> QED BY <2>2, <2>3 DEF RefsAreUsers
<1>2. ASSUME NEW r \in Req, SubmitAdd(r) PROVE RefsAreUsers'
  <2>1. LifeOne(r)
    BY DEF LifeInv
  <2>2. ASSUME NEW q \in Req, q # r PROVE ref'[q] = Cardinality(Users(q)')
    BY <1>2, <2>2, UsersFrame DEF SubmitAdd, Ref, TypeOK, Idle
  <2>3. ref'[r] = Cardinality(Users(r)')
    <3>1. Users(r)' = Users(r) \ {"caller"}
      BY <1>2, <2>1 DEF SubmitAdd, Ref, Users, LifeOne, Listed, Unknown, TypeOK, Idle
    <3>2. "caller" \in Users(r)
      BY <1>2, <2>1 DEF SubmitAdd, Ref, Users, LifeOne, Listed, Unknown, TypeOK, Idle
    <3>3. ref' = [ref EXCEPT ![r] = @ - 1]
      BY <1>2 DEF SubmitAdd, Ref
    <3> QED BY <3>1, <3>2, <3>3, UserGoes
  <2> QED BY <2>2, <2>3 DEF RefsAreUsers
<1>3. ASSUME NEW r \in Req, RetryAdd(r) PROVE RefsAreUsers'
  <2>1. LifeOne(r)
    BY DEF LifeInv
  <2>2. ASSUME NEW q \in Req, q # r PROVE ref'[q] = Cardinality(Users(q)')
    BY <1>3, <2>2, UsersFrame DEF RetryAdd, Ref, Rest, TypeOK, Idle
  <2>3. ref'[r] = Cardinality(Users(r)')
    <3>1. Users(r)' = Users(r) \ {"hk"}
      BY <1>3, <2>1 DEF RetryAdd, Ref, Rest, Users, LifeOne, Listed, Unknown, TypeOK, Idle
    <3>2. "hk" \in Users(r)
      BY <1>3, <2>1 DEF RetryAdd, Ref, Rest, Users, LifeOne, Listed, Unknown, TypeOK, Idle
    <3>3. ref' = [ref EXCEPT ![r] = @ - 1]
      BY <1>3 DEF RetryAdd, Ref, Rest
    <3> QED BY <3>1, <3>2, <3>3, UserGoes
  <2> QED BY <2>2, <2>3 DEF RefsAreUsers
<1>4. ASSUME NEW r \in Req, Peek(r) PROVE RefsAreUsers'
  <2>0. PeekEffect(r)
    BY <1>4, PeekStep
  <2>1. LifeOne(r)
    BY DEF LifeInv
  <2>2. ASSUME NEW q \in Req, q # r PROVE ref'[q] = Cardinality(Users(q)')
    BY <2>0, <2>2, UsersFrame DEF PeekEffect, Worker, TypeOK, Idle
  <2>3. ref'[r] = Cardinality(Users(r)')
    <3>1. CASE stat[r] = "WAIT_SEND"
      <4>1. Users(r)' = Users(r) \cup {Worker(r)}
        BY <2>0, <2>1, <3>1 DEF PeekEffect, Worker, Users, LifeOne, Listed, Unknown, TypeOK, Idle
      <4>2. Worker(r) \notin Users(r)
        BY <2>0, <2>1, <3>1 DEF PeekEffect, Worker, Users, LifeOne, Listed, Unknown, TypeOK, Idle
      <4>3. ref' = [ref EXCEPT ![r] = @ + 1]
        BY <2>0, <3>1 DEF PeekEffect, Worker, TypeOK
      <4> QED BY <4>1, <4>2, <4>3, UserComes
    <3>2. CASE stat[r] # "WAIT_SEND"
      <4>1. Users(r)' = Users(r) /\ ref'[r] = ref[r]
        BY <2>0, <2>1, <3>2 DEF PeekEffect, Worker, Users, LifeOne, Listed, Unknown, TypeOK, Idle
      <4> QED BY <4>1 DEF RefsAreUsers
    <3> QED BY <3>1, <3>2
  <2> QED BY <2>2, <2>3 DEF RefsAreUsers
<1>5. ASSUME NEW r \in Req, SendDone(r) PROVE RefsAreUsers'
  <2>0. SendDoneEffect(r)
    BY <1>5, SendDoneStep
  <2>1. LifeOne(r)
    BY DEF LifeInv
  <2>2. ASSUME NEW q \in Req, q # r PROVE ref'[q] = Cardinality(Users(q)')
    BY <2>0, <2>2, UsersFrame DEF SendDoneEffect, Worker, TypeOK, Idle
  <2>3. ref'[r] = Cardinality(Users(r)')
    <3>1. CASE stat[r] = "SENDING"
      <4>1. Users(r)' = Users(r) /\ ref'[r] = ref[r]
        BY <2>0, <2>1, <3>1 DEF SendDoneEffect, Worker, Users, LifeOne, Listed, Unknown, TypeOK, Idle
      <4> QED BY <4>1 DEF RefsAreUsers
    <3>2. CASE stat[r] # "SENDING"
      <4>1. Users(r)' = Users(r) \ {Worker(r)}
        <5>0. Worker(r) \in {"cm", "ch"}
          BY DEF Worker
        <5>1. \A u \in Threads : thr'[u][1] = r /\ thr'[u][2] # "free"
                                  <=> thr[u][1] = r /\ thr[u][2] # "free" /\ u # Worker(r)
          BY <2>0, <3>2, <5>0 DEF SendDoneEffect, TypeOK, Idle
        <5> QED BY <2>0, <5>1, <5>0, ThreadLeaves DEF SendDoneEffect
      <4>2. Worker(r) \in Users(r)
        BY <2>0, <2>1, <3>2 DEF SendDoneEffect, Worker, Users, LifeOne, Listed, Unknown, TypeOK, Idle
      <4>3. ref' = [ref EXCEPT ![r] = @ - 1]
        BY <2>0, <3>2 DEF SendDoneEffect, Worker, TypeOK
      <4> QED BY <4>1, <4>2, <4>3, UserGoes
    <3> QED BY <3>1, <3>2
  <2> QED BY <2>2, <2>3 DEF RefsAreUsers
<1>6. ASSUME NEW r \in Req, Transmit(r) PROVE RefsAreUsers'
  <2>1. LifeOne(r)
    BY DEF LifeInv
  <2>2. ASSUME NEW q \in Req, q # r PROVE ref'[q] = Cardinality(Users(q)')
    BY <1>6, <2>2, UsersFrame DEF Transmit, Ref, Rest, TypeOK, Idle
  <2>3. ref'[r] = Cardinality(Users(r)')
    <3>1. Users(r)' = Users(r) \ {"cm"}
      BY <1>6, <2>1 DEF Transmit, Ref, Rest, Users, LifeOne, Listed, Unknown, TypeOK, Idle
    <3>2. "cm" \in Users(r)
      BY <1>6, <2>1 DEF Transmit, Ref, Rest, Users, LifeOne, Listed, Unknown, TypeOK, Idle
    <3>3. ref' = [ref EXCEPT ![r] = @ - 1]
      BY <1>6 DEF Transmit, Ref, Rest
    <3> QED BY <3>1, <3>2, <3>3, UserGoes
  <2> QED BY <2>2, <2>3 DEF RefsAreUsers
<1>7. ASSUME NEW r \in Req, CacheHit(r) PROVE RefsAreUsers'
  <2>0. CacheHitEffect(r)
    BY <1>7, CacheHitStep
  <2>1. LifeOne(r)
    BY DEF LifeInv
  <2>2. ASSUME NEW q \in Req, q # r PROVE ref'[q] = Cardinality(Users(q)')
    BY <2>0, <2>2, UsersFrame DEF CacheHitEffect, TypeOK, Idle
  <2>3. ref'[r] = Cardinality(Users(r)')
    <3>1. CASE stat[r] = "WAIT_RESP"
      <4>1. Users(r)' = Users(r) /\ ref'[r] = ref[r]
        BY <2>0, <2>1, <3>1 DEF CacheHitEffect, Users, LifeOne, Listed, Unknown, TypeOK, Idle
      <4> QED BY <4>1 DEF RefsAreUsers
    <3>2. CASE stat[r] # "WAIT_RESP"
      <4>1. Users(r)' = Users(r) \ {"ch"}
        <5>1. \A u \in Threads : thr'[u][1] = r /\ thr'[u][2] # "free"
                                  <=> thr[u][1] = r /\ thr[u][2] # "free" /\ u # "ch"
          BY <2>0, <3>2 DEF CacheHitEffect, TypeOK, Idle
        <5> QED BY <2>0, <5>1, ThreadLeaves DEF CacheHitEffect
      <4>2. "ch" \in Users(r)
        BY <2>0, <2>1, <3>2 DEF CacheHitEffect, Users, LifeOne, Listed, Unknown, TypeOK, Idle
      <4>3. ref' = [ref EXCEPT ![r] = @ - 1]
        BY <2>0, <3>2 DEF CacheHitEffect, TypeOK
      <4> QED BY <4>1, <4>2, <4>3, UserGoes
    <3> QED BY <3>1, <3>2
  <2> QED BY <2>2, <2>3 DEF RefsAreUsers
<1>8. ASSUME NEW r \in Req, Answer(r) PROVE RefsAreUsers'
  <2>0. AnswerEffect(r)
    BY <1>8, AnswerStep
  <2>1. LifeOne(r)
    BY DEF LifeInv
  <2>2. ASSUME NEW q \in Req, q # r PROVE ref'[q] = Cardinality(Users(q)')
    BY <2>0, <2>2, UsersFrame DEF AnswerEffect, TypeOK, Idle
  <2>3. ref'[r] = Cardinality(Users(r)')
    <3>1. CASE stat[r] = "WAIT_RESP"
      <4>1. Users(r)' = Users(r) \cup {"rx"}
        BY <2>0, <2>1, <3>1 DEF AnswerEffect, Users, LifeOne, Listed, Unknown, TypeOK, Idle
      <4>2. "rx" \notin Users(r)
        BY <2>0, <2>1, <3>1 DEF AnswerEffect, Users, LifeOne, Listed, Unknown, TypeOK, Idle
      <4>3. ref' = [ref EXCEPT ![r] = @ + 1]
        BY <2>0, <3>1 DEF AnswerEffect, TypeOK
      <4> QED BY <4>1, <4>2, <4>3, UserComes
    <3>2. CASE stat[r] # "WAIT_RESP"
      <4>1. Users(r)' = Users(r) /\ ref'[r] = ref[r]
        BY <2>0, <2>1, <3>2 DEF AnswerEffect, Users, LifeOne, Listed, Unknown, TypeOK, Idle
      <4> QED BY <4>1 DEF RefsAreUsers
    <3> QED BY <3>1, <3>2
  <2> QED BY <2>2, <2>3 DEF RefsAreUsers
<1>9. ASSUME NEW r \in Req, TimeoutFire(r) PROVE RefsAreUsers'
  <2>0. TimeoutFireEffect(r)
    BY <1>9, TimeoutFireStep
  <2>1. LifeOne(r)
    BY DEF LifeInv
  <2>2. ASSUME NEW q \in Req, q # r PROVE ref'[q] = Cardinality(Users(q)')
    BY <2>0, <2>2, UsersFrame DEF TimeoutFireEffect, TypeOK, Idle
  <2>3. ref'[r] = Cardinality(Users(r)')
    <3>1. CASE timer'[r] = "run"
      <4>1. Users(r)' = Users(r) \cup {"timer"}
        BY <2>0, <2>1, <3>1 DEF TimeoutFireEffect, Users, LifeOne, Listed, Unknown, TypeOK, Idle
      <4>2. "timer" \notin Users(r)
        BY <2>0, <2>1, <3>1 DEF TimeoutFireEffect, Users, LifeOne, Listed, Unknown, TypeOK, Idle
      <4>3. ref' = [ref EXCEPT ![r] = @ + 1]
        BY <2>0, <3>1 DEF TimeoutFireEffect, TypeOK
      <4> QED BY <4>1, <4>2, <4>3, UserComes
    <3>2. CASE timer'[r] # "run"
      <4>1. Users(r)' = Users(r) /\ ref'[r] = ref[r]
        BY <2>0, <2>1, <3>2 DEF TimeoutFireEffect, Users, LifeOne, Listed, Unknown, TypeOK, Idle
      <4> QED BY <4>1 DEF RefsAreUsers
    <3> QED BY <3>1, <3>2
  <2> QED BY <2>2, <2>3 DEF RefsAreUsers
<1>10. ASSUME NEW r \in Req, TimeoutEnd(r) PROVE RefsAreUsers'
  <2>1. LifeOne(r)
    BY DEF LifeInv
  <2>2. ASSUME NEW q \in Req, q # r PROVE ref'[q] = Cardinality(Users(q)')
    BY <1>10, <2>2, UsersFrame DEF TimeoutEnd, CallEndfn, Ref, SetTimer, TypeOK, Idle
  <2>3. ref'[r] = Cardinality(Users(r)')
    <3>1. Users(r)' = Users(r) \ {"timer"}
      BY <1>10, <2>1 DEF TimeoutEnd, CallEndfn, Ref, SetTimer, Users, LifeOne, Listed, Unknown, TypeOK, Idle
    <3>2. "timer" \in Users(r)
      BY <1>10, <2>1 DEF TimeoutEnd, CallEndfn, Ref, SetTimer, Users, LifeOne, Listed, Unknown, TypeOK, Idle
    <3>3. ref' = [ref EXCEPT ![r] = @ - 1]
      BY <1>10 DEF TimeoutEnd, CallEndfn, Ref, SetTimer
    <3> QED BY <3>1, <3>2, <3>3, UserGoes
  <2> QED BY <2>2, <2>3 DEF RefsAreUsers
<1>11. ASSUME NEW r \in Req, TimeoutFree(r) PROVE RefsAreUsers'
  <2>1. LifeOne(r)
    BY DEF LifeInv
  <2>2. ASSUME NEW q \in Req, q # r PROVE ref'[q] = Cardinality(Users(q)')
    BY <1>11, <2>2, UsersFrame DEF TimeoutFree, SetStat, SetTimer, TypeOK, Idle
  <2>3. ref'[r] = Cardinality(Users(r)')
    <3>1. Users(r)' = Users(r) /\ ref'[r] = ref[r]
      BY <1>11, <2>1 DEF TimeoutFree, SetStat, SetTimer, Users, LifeOne, Listed, Unknown, TypeOK, Idle
    <3> QED BY <3>1 DEF RefsAreUsers
  <2> QED BY <2>2, <2>3 DEF RefsAreUsers
<1>12. ASSUME NEW r \in Req, RetryScan(r) PROVE RefsAreUsers'
  <2>0. RetryScanEffect(r)
    BY <1>12, RetryScanStep
  <2>1. LifeOne(r)
    BY DEF LifeInv
  <2>2. ASSUME NEW q \in Req, q # r PROVE ref'[q] = Cardinality(Users(q)')
    BY <2>0, <2>2, UsersFrame DEF RetryScanEffect, TypeOK, Idle
  <2>3. ref'[r] = Cardinality(Users(r)')
    <3>1. CASE stat[r] = "WAIT_RESP"
      <4>1. Users(r)' = Users(r) \cup {"retry list"}
        BY <2>0, <2>1, <3>1 DEF RetryScanEffect, Users, LifeOne, Listed, Unknown, TypeOK, Idle
      <4>2. "retry list" \notin Users(r)
        BY <2>0, <2>1, <3>1 DEF RetryScanEffect, Users, LifeOne, Listed, Unknown, TypeOK, Idle
      <4>3. ref' = [ref EXCEPT ![r] = @ + 1]
        BY <2>0, <3>1 DEF RetryScanEffect, TypeOK
      <4> QED BY <4>1, <4>2, <4>3, UserComes
    <3>2. CASE stat[r] # "WAIT_RESP"
      <4>1. Users(r)' = Users(r) /\ ref'[r] = ref[r]
        BY <2>0, <2>1, <3>2 DEF RetryScanEffect, Users, LifeOne, Listed, Unknown, TypeOK, Idle
      <4> QED BY <4>1 DEF RefsAreUsers
    <3> QED BY <3>1, <3>2
  <2> QED BY <2>2, <2>3 DEF RefsAreUsers
<1>13. ASSUME NEW r \in Req, RetryReq(r) PROVE RefsAreUsers'
  <2>0. RetryReqEffect(r)
    BY <1>13, RetryReqStep
  <2>1. LifeOne(r)
    BY DEF LifeInv
  <2>2. ASSUME NEW q \in Req, q # r PROVE ref'[q] = Cardinality(Users(q)')
    BY <2>0, <2>2, UsersFrame DEF RetryReqEffect, TypeOK, Idle
  <2>3. ref'[r] = Cardinality(Users(r)')
    <3>1. Users(r)' = (Users(r) \ {"retry list"}) \cup {"hk"}
      BY <2>0, <2>1 DEF RetryReqEffect, Users, LifeOne, Listed, Unknown, TypeOK, Idle
    <3>2. "retry list" \in Users(r) /\ "hk" \notin Users(r)
      BY <2>0, <2>1 DEF RetryReqEffect, Users, LifeOne, Listed, Unknown, TypeOK, Idle
    <3>3. ref'[r] = ref[r] /\ ref[r] = Cardinality(Users(r))
      BY <2>0 DEF RefsAreUsers, RetryReqEffect
    <3> QED BY <3>1, <3>2, <3>3, UsersFinite, CardSwap
  <2> QED BY <2>2, <2>3 DEF RefsAreUsers
<1>14. ASSUME NEW t \in Threads, EndReq(t) PROVE RefsAreUsers'
  <2>0. PICK r \in Req : thr[t] = <<r, "end">>
    <3>1. thr[t] \in Req \X {"send", "tx", "end", "free", "add"}
      BY <1>14 DEF EndReq, Idle, TypeOK
    <3> QED BY <1>14, <3>1 DEF EndReq
  <2>1. LifeOne(r)
    BY DEF LifeInv
  <2>2. ASSUME NEW q \in Req, q # r PROVE ref'[q] = Cardinality(Users(q)')
    BY <1>14, <2>0, <2>2, UsersFrame DEF EndReq, SetTimer, CallEndfn, Ref, Thread, TypeOK, Idle
  <2>3. ref'[r] = Cardinality(Users(r)')
    <3>1. Users(r)' = Users(r) \ {t}
      <4>1. \A u \in Threads : thr'[u][1] = r /\ thr'[u][2] # "free"
                                <=> thr[u][1] = r /\ thr[u][2] # "free" /\ u # t
        BY <1>14, <2>0 DEF EndReq, Thread, TypeOK
      <4>2. timer'[r] = "run" <=> timer[r] = "run"
        BY <1>14, <2>0 DEF EndReq, SetTimer, TypeOK
      <4> QED BY <1>14, <4>1, <4>2, ThreadLeaves DEF EndReq
    <3>2. thr[t][1] = r /\ thr[t][2] = "end"
      BY <2>0
    <3>3. t \in Users(r)
      BY <3>2 DEF Users
    <3>4. ref' = [ref EXCEPT ![r] = @ - 1]
      BY <1>14, <3>2 DEF EndReq, Ref
    <3> QED BY <3>1, <3>3, <3>4, UserGoes
  <2> QED BY <2>2, <2>3 DEF RefsAreUsers
<1>15. ASSUME NEW t \in Threads, FreeReq(t) PROVE RefsAreUsers'
  <2>0. PICK r \in Req : thr[t] = <<r, "free">>
    <3>1. thr[t] \in Req \X {"send", "tx", "end", "free", "add"}
      BY <1>15 DEF FreeReq, Idle, TypeOK
    <3> QED BY <1>15, <3>1 DEF FreeReq
  <2>1. LifeOne(r)
    BY DEF LifeInv
  <2>2. ASSUME NEW q \in Req, q # r PROVE ref'[q] = Cardinality(Users(q)')
    BY <1>15, <2>0, <2>2, UsersFrame DEF FreeReq, SetStat, Rest, TypeOK, Idle
  <2>3. ref'[r] = Cardinality(Users(r)')
    <3>1. Users(r)' = Users(r) /\ ref'[r] = ref[r]
      <4>1. \A u \in Threads : thr'[u][1] = r /\ thr'[u][2] # "free"
                                <=> thr[u][1] = r /\ thr[u][2] # "free"
        BY <1>15, <2>0 DEF FreeReq, Rest, TypeOK, Idle
      <4> QED BY <1>15, <4>1 DEF FreeReq, Users
    <3> QED BY <3>1 DEF RefsAreUsers
  <2> QED BY <2>2, <2>3 DEF RefsAreUsers
<1>16. CASE ConnLost \/ ConnBack \/ RetryStart \/ UNCHANGED vars
  <2>1. UNCHANGED <<ref, timer, sub, thr, rlist>>
    BY <1>16 DEF ConnLost, ConnBack, RetryStart
  <2> QED BY <2>1, UsersFrame DEF RefsAreUsers
<1> QED
  BY NextCases, <1>1, <1>2, <1>3, <1>4, <1>5, <1>6, <1>7, <1>8, <1>9, <1>10, <1>11, <1>12, <1>13,
     <1>14, <1>15, <1>16

-----------------------------------------------------------------------------
(* The invariant holds before the first request.                            *)
LEMMA InitInv == Init => IInv
<1> SUFFICES ASSUME Init PROVE IInv
  OBVIOUS
<1>1. TypeOK
  BY DEF Init, TypeOK, Idle
<1>2. ThreadInv
  BY DEF Init, ThreadInv, Threads
<1>3. LifeInv
  BY DEF Init, LifeInv, LifeOne, Listed, Ending, Unknown, Ends, Idle, Threads, Worker
<1>4. RefsAreUsers
  <2>1. ASSUME NEW r \in Req PROVE Users(r) = {}
    BY DEF Init, Users, Idle, Threads
  <2> QED BY <2>1, FS_EmptySet DEF RefsAreUsers, Init
<1> QED BY <1>1, <1>2, <1>3, <1>4 DEF IInv

(* IInv is inductive.                                                       *)
LEMMA IInvStep ==
  ASSUME IInv, ~FlowControl, ~RunOut, [Next]_vars
  PROVE  IInv'
<1>1. TypeOK'
  BY TypeStep DEF IInv
<1> QED BY <1>1, ThreadStep, LifeStep, RefsStep DEF IInv

(* LifeInv leaves a freed request unreachable and an open one attended.     *)
LEMMA IInvFacts == ASSUME IInv PROVE RequestIsSafe /\ Attended
<1>1. FreedIsDone
  <2> SUFFICES ASSUME NEW r \in Req
               PROVE  /\ ended[r] <= 1
                      /\ stat[r] = "Freed" =>
                           /\ ended[r] = 1 /\ timer[r] = "off"
                           /\ r \notin inPool \cup workQ \cup sub \cup rlist
                           /\ \A t \in Threads : thr[t][1] # r
    BY DEF FreedIsDone
  <2>1. LifeOne(r)
    BY DEF IInv, LifeInv
  <2> QED BY <2>1 DEF LifeOne, Listed, Ending, Unknown
<1>2. Attended
  <2> SUFFICES ASSUME NEW r \in Req
               PROVE  /\ stat[r] = "WAIT_SEND" => r \in workQ \cup sub \/ thr["hk"] = <<r, "add">>
                      /\ stat[r] = "SENDING"   => thr[Worker(r)] = <<r, "send">>
                      /\ stat[r] = "WAIT_RESP" => r \in inPool
                      /\ stat[r] = "PROCESS_RESP" => \E t \in {"ch", "rx"} : thr[t][1] = r
                      /\ stat[r] = "RETRY_REQ" => r \in rlist
                      /\ stat[r] = "TIMEOUT_FIRE" => timer[r] \in {"run", "free"}
    BY DEF Attended
  <2>1. LifeOne(r)
    BY DEF IInv, LifeInv
  <2>2. stat[r] = "PROCESS_RESP" => \E t \in {"ch", "rx"} : thr[t][1] = r
    BY <2>1 DEF LifeOne, Ending, Ends, Threads, IInv, ThreadInv, Idle
  <2> QED BY <2>1, <2>2 DEF LifeOne, Listed, Ending
<1> QED BY <1>1, <1>2 DEF IInv, RequestIsSafe

(***************************************************************************)
(* The reference count of every metadata request is the number of its users,*)
(* and a freed request was answered once and is reached by no pool, queue,  *)
(* timer or thread (NNMDReq_free_Req), whatever the order of answers, timers*)
(* and retries.                                                             *)
(***************************************************************************)
THEOREM RequestSafety == ~FlowControl /\ ~RunOut => (Spec => []RequestIsSafe)
<1> SUFFICES ASSUME ~FlowControl, ~RunOut PROVE Spec => []RequestIsSafe
  OBVIOUS
<1>1. Init => IInv
  BY InitInv
<1>2. IInv /\ [Next]_vars => IInv'
  BY IInvStep
<1>3. IInv => RequestIsSafe
  BY IInvFacts
<1> QED BY <1>1, <1>2, <1>3, PTL DEF Spec

(***************************************************************************)
(* In every state of a metadata request some thread, queue, list or timer   *)
(* holds it that will move it on, as the comments on the states promise.    *)
(***************************************************************************)
THEOREM RequestAttended == ~FlowControl /\ ~RunOut => (Spec => []Attended)
<1> SUFFICES ASSUME ~FlowControl, ~RunOut PROVE Spec => []Attended
  OBVIOUS
<1>1. Init => IInv
  BY InitInv
<1>2. IInv /\ [Next]_vars => IInv'
  BY IInvStep
<1>3. IInv => Attended
  BY IInvFacts
<1> QED BY <1>1, <1>2, <1>3, PTL DEF Spec
=============================================================================
