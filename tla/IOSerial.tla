------------------------------- MODULE IOSerial -------------------------------
(***************************************************************************)
(* What the overlap control of io_manager promises, whatever its lists,     *)
(* counters and threads: an IO runs exactly when no older live IO conflicts *)
(* with it.  It starts in the very step that removes its last obstacle.     *)
(***************************************************************************)
EXTENDS IOOverlap

CONSTANTS
  Req,       \* the io_request_t objects
  UserIO     \* the IOs users submit, a subset of IO

VARIABLES
  io,       \* io[r]: direction and LB range of a live request
  live,     \* requests accepted and not yet ended
  running,  \* live requests whose data IO has been let through
  older     \* pairs <<p, r>> of live requests, p accepted before r

svars == <<io, live, running, older>>

Obstacles(r, ios, old) == {p \in Req : <<p, r>> \in old /\ Conflict(ios[p], ios[r])}

SInit == /\ live = {} /\ running = {} /\ older = {}
         /\ io \in [Req -> UserIO]

(* A new IO is accepted; it runs at once unless it conflicts with a live one. *)
Accept(r, x) ==
  /\ r \notin live
  /\ io' = [io EXCEPT ![r] = x]
  /\ live' = live \cup {r}
  /\ older' = older \cup (live \X {r})
  /\ running' = running \cup
        (IF \E p \in live : Conflict(io[p], x) THEN {} ELSE {r})

(* A running IO ends and lets every IO through that waited only for it.     *)
End(p) ==
  /\ p \in running
  /\ live' = live \ {p}
  /\ older' = {e \in older : e[1] # p /\ e[2] # p}
  /\ running' = {r \in live \ {p} : Obstacles(r, io, older) \subseteq {p}}
  /\ UNCHANGED io

SNext == \/ \E r \in Req, x \in UserIO : Accept(r, x)
         \/ \E p \in Req : End(p)

SSpec == SInit /\ [][SNext]_svars

=============================================================================
