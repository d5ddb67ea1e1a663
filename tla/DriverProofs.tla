---------------------------- MODULE DriverProofs ----------------------------
(***************************************************************************)
(* Proofs about Driver, for any sets of volumes, structures and threads,    *)
(* when the commands do not overlap in the ways that Races names.           *)
(*                                                                          *)
(* Neither the count of the table nor the safety of a volume is inductive.  *)
(* An attach and a detach work on a volume without its lock, so the         *)
(* invariant says who owns a structure: a thread that attaches or detaches  *)
(* it is the only one (OwnInv), and its pc tells the state of the volume,   *)
(* of its queue and of its requests (ThInv).  The waits that keep the       *)
(* bucket lock protect a structure against being freed.  The table, the     *)
(* minor numbers and the count belong together (TabInv), and the driver's   *)
(* state says which ioctls can be running (PhaseInv).                       *)
(***************************************************************************)
EXTENDS Driver, FiniteSetTheorems, TLAPS

Live == {"Attaching", "Ready", "IO_Blocking", "Detaching", "Detached"}

VolRec == [st : Live, id : VolID \cup {0}, stop : BOOLEAN, perm : BOOLEAN,
           queue : {"none", "run", "stop", "dead"}, minor : Minors \cup {0},
           open : Nat, lgr : Nat, linger : Nat, freed : Nat, used : BOOLEAN,
           late : BOOLEAN]

Attaching == {"initdev", "undo"}
Detaching == {"flush", "iowait", "del", "rm", "free"}
Waiting   == {"blockwait", "stopwait"}
Stopping  == {"detachall", "linger"}
PCs == {"idle", "start", "end", "add"} \cup Attaching \cup Detaching \cup Waiting \cup Stopping

ThRec == [pc : PCs, op : Ops \cup {"none"}, id : VolID \cup {0}, obj : Obj \cup {NoObj}]

TypeInv == /\ drv_state \in DrvStates /\ busy \subseteq Thread /\ rd \subseteq Thread
           /\ vol \in [Obj -> VolRec] /\ table \in [VolID -> Obj \cup {NoObj}]
           /\ minor_free \subseteq Minors /\ th \in [Thread -> ThRec]

(* A structure that has not been freed: which queue goes with which state.  *)
ObjOne(o) ==
  /\ vol[o].linger <= vol[o].lgr
  /\ vol[o].freed <= 1
  /\ vol[o].freed = 0 => vol[o].st # "Detached"
  /\ vol[o].used /\ vol[o].freed = 0 =>
       /\ vol[o].st \in {"Ready", "IO_Blocking"} => vol[o].queue = "run"
       /\ vol[o].st = "Attaching" => vol[o].queue \in {"none", "run"}
       /\ vol[o].st = "Detaching" /\ ~vol[o].late => vol[o].open = 0 /\ o \notin opener

ObjInv == \A o \in Obj : ObjOne(o)

(* The entry of a volume names a live structure with its id and a minor     *)
(* number of its own.                                                       *)
TabOne(i) ==
  table[i] # NoObj => /\ vol[table[i]].used /\ vol[table[i]].freed = 0
                      /\ vol[table[i]].id = i
                      /\ vol[table[i]].minor \in Minors /\ vol[table[i]].minor \notin minor_free

TabInv == /\ \A i \in VolID : TabOne(i)
          /\ \A i, j \in VolID : table[i] # NoObj /\ table[j] # NoObj
                                   /\ vol[table[i]].minor = vol[table[j]].minor => i = j
          /\ attached = Cardinality(InTable)
          /\ drv_state # "init" =>
               \A m \in Minors : \/ m \in minor_free
                                 \/ \E i \in VolID : table[i] # NoObj /\ vol[table[i]].minor = m

(* Which ioctls can be running in which state of the driver.                *)
PhaseInv == /\ \A t \in Thread : t \in busy <=> th[t].pc # "idle"
            /\ \A t \in Thread : th[t].pc \notin {"idle", "end"} \cup Stopping => drv_state = "running"
            /\ \A t \in Thread : th[t].pc \in Stopping =>
                 drv_state = "shuting_down" /\ \A u \in Thread \ {t} : th[u].pc = "idle"
            /\ drv_state = "init" => /\ \A t \in Thread : th[t].pc = "idle"
                                     /\ \A i \in VolID : table[i] = NoObj
            /\ drv_state = "shutdown" => \A i \in VolID : table[i] = NoObj

Holds(t) == th[t].pc \in Attaching \cup Detaching \cup Waiting
Owner(t) == th[t].pc \in Attaching \cup Detaching

(* What a thread may rely on at each of its steps.                          *)
ThOne(t) ==
  LET o == th[t].obj
  IN /\ th[t].pc # "idle" => th[t].id \in VolID
     /\ ~Holds(t) => o = NoObj
     /\ Holds(t) => o \in Obj /\ vol[o].used /\ vol[o].freed = 0
     /\ Holds(t) /\ th[t].pc # "free" => table[th[t].id] = o
     /\ th[t].pc = "free" => \A i \in VolID : table[i] # o
     /\ th[t].pc \in Waiting => t \in rd
     /\ th[t].pc \in Attaching => vol[o].st = "Attaching" /\ vol[o].queue = "none"
     /\ th[t].pc \in Detaching => vol[o].st = "Detaching"
     /\ th[t].pc \in {"iowait", "del"} => vol[o].queue = "stop"
     /\ th[t].pc \in {"rm", "free"} => vol[o].queue = "dead"
     /\ th[t].pc \in {"del", "rm", "free"} => vol[o].lgr = 0

ThInv == \A t \in Thread : ThOne(t)

OwnInv == \A t, u \in Thread : Owner(t) /\ Owner(u) /\ th[t].obj = th[u].obj => t = u

DriverInv == TypeInv /\ ObjInv /\ TabInv /\ PhaseInv /\ ThInv /\ OwnInv

-----------------------------------------------------------------------------
(* NoObj names no structure, and 0 is no minor number.                      *)
LEMMA Constants ==
  /\ NoObj \notin Obj /\ 0 \notin Minors /\ IsFiniteSet(VolID) /\ IsFiniteSet(Thread)
  /\ \A t \in Thread : Cmds[t] \subseteq Ops \X VolID
BY SetAssumption, BoundAssumption DEF Minors

(* A thread moves on and the others stay.                                   *)
LEMMA GotoEffect ==
  ASSUME TypeInv, NEW t \in Thread, NEW p \in PCs, NEW o \in Obj \cup {NoObj}, Goto(t, p, o)
  PROVE  /\ th' \in [Thread -> ThRec]
         /\ th'[t].pc = p /\ th'[t].obj = o /\ th'[t].id = th[t].id
         /\ \A u \in Thread \ {t} : th'[u] = th[u]
BY DEF Goto, TypeInv, ThRec

(* A structure is replaced and the others stay.                             *)
LEMMA VolEffect ==
  ASSUME TypeInv, NEW o \in Obj, NEW r \in VolRec, vol' = [vol EXCEPT ![o] = r]
  PROVE  /\ vol' \in [Obj -> VolRec] /\ vol'[o] = r
         /\ \A p \in Obj \ {o} : vol'[p] = vol[p]
BY DEF TypeInv

(* The fields of a structure have their types.                              *)
LEMMA VolFields ==
  ASSUME NEW v \in VolRec
  PROVE  /\ v.st \in Live /\ v.id \in VolID \cup {0} /\ v.queue \in {"none", "run", "stop", "dead"}
         /\ v.minor \in Minors \cup {0} /\ v.open \in Nat /\ v.lgr \in Nat /\ v.linger \in Nat
         /\ v.freed \in Nat
BY DEF VolRec

(* Two structures that differ at most in state, permissions, queue, opens,  *)
(* requests and the count of frees (and, if Moved, in what a detach met).   *)
SameId(v, w) == w.id = v.id /\ w.minor = v.minor /\ (w.used <=> v.used) /\ (w.late <=> v.late)
Moved(v, w) == w.id = v.id /\ w.minor = v.minor /\ (w.used <=> v.used)

(* Each update of one or two fields keeps the record and the other fields.  *)
LEMMA SetSt ==
  ASSUME NEW v \in VolRec, NEW s \in Live
  PROVE  LET w == [v EXCEPT !.st = s]
         IN /\ w \in VolRec /\ SameId(v, w) /\ w.st = s /\ w.queue = v.queue
            /\ w.open = v.open /\ w.lgr = v.lgr /\ w.linger = v.linger /\ w.freed = v.freed
BY DEF VolRec, SameId

LEMMA SetQueue ==
  ASSUME NEW v \in VolRec, NEW q \in {"none", "run", "stop", "dead"}
  PROVE  LET w == [v EXCEPT !.queue = q]
         IN /\ w \in VolRec /\ SameId(v, w) /\ w.st = v.st /\ w.queue = q
            /\ w.open = v.open /\ w.lgr = v.lgr /\ w.linger = v.linger /\ w.freed = v.freed
BY DEF VolRec, SameId

LEMMA SetStop ==
  ASSUME NEW v \in VolRec, NEW a \in BOOLEAN, NEW b \in BOOLEAN
  PROVE  LET w == [v EXCEPT !.stop = a, !.perm = b]
         IN /\ w \in VolRec /\ SameId(v, w) /\ w.st = v.st /\ w.queue = v.queue
            /\ w.open = v.open /\ w.lgr = v.lgr /\ w.linger = v.linger /\ w.freed = v.freed
BY DEF VolRec, SameId

LEMMA SetPerm ==
  ASSUME NEW v \in VolRec, NEW b \in BOOLEAN
  PROVE  LET w == [v EXCEPT !.perm = b]
         IN /\ w \in VolRec /\ SameId(v, w) /\ w.st = v.st /\ w.queue = v.queue
            /\ w.open = v.open /\ w.lgr = v.lgr /\ w.linger = v.linger /\ w.freed = v.freed
BY DEF VolRec, SameId

LEMMA SetOpen ==
  ASSUME NEW v \in VolRec, NEW n \in Nat
  PROVE  LET w == [v EXCEPT !.open = n]
         IN /\ w \in VolRec /\ SameId(v, w) /\ w.st = v.st /\ w.queue = v.queue
            /\ w.open = n /\ w.lgr = v.lgr /\ w.linger = v.linger /\ w.freed = v.freed
BY DEF VolRec, SameId

LEMMA SetTimeout ==
  ASSUME NEW v \in VolRec
  PROVE  LET w == WaitTimeout(v)
         IN /\ w \in VolRec /\ Moved(v, w) /\ w.st = "Ready" /\ w.queue = "run"
            /\ w.open = v.open /\ w.lgr = v.lgr /\ w.linger = v.linger /\ w.freed = v.freed
BY DEF VolRec, Moved, WaitTimeout, Live

LEMMA SetFreed ==
  ASSUME NEW v \in VolRec
  PROVE  LET w == free_volume(v)
         IN /\ w \in VolRec /\ (w.used <=> v.used) /\ w.id = v.id /\ w.st = v.st /\ w.queue = "dead"
            /\ w.open = v.open /\ w.lgr = v.lgr /\ w.linger = v.linger /\ w.freed = v.freed + 1
<1> DEFINE w == free_volume(v)
<1>1. 0 \in Minors \cup {0} /\ v.freed + 1 \in Nat
  BY VolFields
<1>2. w = [[[[v EXCEPT !.freed = v.freed + 1] EXCEPT !.minor = 0] EXCEPT !.queue = "dead"]
            EXCEPT !.late = FALSE]
  BY DEF free_volume
<1>3. w \in VolRec
  BY <1>1, <1>2 DEF VolRec
<1> QED
  BY <1>2, <1>3 DEF VolRec

(* A fresh structure.                                                       *)
LEMMA FreshVol ==
  ASSUME NEW i \in VolID, NEW n \in Minors
  PROVE  LET w == [NewVol EXCEPT !.id = i, !.minor = n, !.used = TRUE]
         IN /\ w \in VolRec /\ w.used /\ w.id = i /\ w.minor = n /\ w.st = "Attaching"
            /\ w.queue = "none" /\ w.open = 0 /\ w.lgr = 0 /\ w.linger = 0 /\ w.freed = 0
BY DEF VolRec, NewVol, Live

-----------------------------------------------------------------------------
(* An ioctl that is under way finds the driver running, and no reset.       *)
LEMMA Running ==
  ASSUME PhaseInv, NEW t \in Thread, th[t].pc \notin {"idle", "end"} \cup Stopping
  PROVE  drv_state = "running" /\ \A u \in Thread : th[u].pc \notin Stopping
BY DEF PhaseInv

(* Such an ioctl moves on without leaving.                                  *)
LEMMA PhaseMove ==
  ASSUME PhaseInv, NEW t \in Thread, th[t].pc \notin {"idle", "end"} \cup Stopping,
         UNCHANGED <<drv_state, busy>>, \A u \in Thread \ {t} : th'[u] = th[u],
         th'[t].pc \notin {"idle"} \cup Stopping
  PROVE  PhaseInv'
<1>1. drv_state = "running" /\ \A u \in Thread : th[u].pc \notin Stopping
  BY Running
<1>2. \A u \in Thread : th'[u].pc = "idle" <=> th[u].pc = "idle"
  OBVIOUS
<1>3. \A u \in Thread : th'[u].pc \notin Stopping
  BY <1>1
<1> QED BY <1>1, <1>2, <1>3 DEF PhaseInv

(* The table is not touched, nor what it says of the structures in it.      *)
LEMMA TabKept ==
  ASSUME TypeInv, TabInv, UNCHANGED <<table, attached, minor_free>>,
         drv_state' # "init" => drv_state # "init",
         \A i \in VolID : table[i] # NoObj =>
           /\ Moved(vol[table[i]], vol'[table[i]])
           /\ vol'[table[i]].freed = vol[table[i]].freed
  PROVE  TabInv'
<1>1. InTable' = InTable
  BY DEF InTable
<1>2. ASSUME NEW i \in VolID PROVE TabOne(i)'
  BY DEF TabInv, TabOne, Moved
<1>3. ASSUME NEW i \in VolID, NEW j \in VolID, table'[i] # NoObj, table'[j] # NoObj,
             vol'[table'[i]].minor = vol'[table'[j]].minor
      PROVE  i = j
  BY <1>3 DEF TabInv, Moved
<1>4. ASSUME drv_state' # "init", NEW m \in Minors, m \notin minor_free'
      PROVE  \E i \in VolID : table'[i] # NoObj /\ vol'[table'[i]].minor = m
  BY <1>4 DEF TabInv, Moved
<1> QED BY <1>1, <1>2, <1>3, <1>4 DEF TabInv

(* What another thread relies on is not touched.                            *)
LEMMA OtherKept ==
  ASSUME ThInv, NEW u \in Thread, th'[u] = th[u], u \in rd => u \in rd',
         Holds(u) /\ th[u].pc # "free" => table'[th[u].id] = table[th[u].id],
         th[u].pc = "free" => \A i \in VolID : table'[i] # th[u].obj,
         Holds(u) => /\ vol'[th[u].obj].used <=> vol[th[u].obj].used
                     /\ vol'[th[u].obj].freed = vol[th[u].obj].freed,
         Owner(u) => /\ vol'[th[u].obj].st = vol[th[u].obj].st
                     /\ vol'[th[u].obj].queue = vol[th[u].obj].queue,
         th[u].pc \in {"del", "rm", "free"} => vol'[th[u].obj].lgr = 0
  PROVE  ThOne(u)'
<1>1. ThOne(u)
  BY DEF ThInv
<1> QED BY <1>1 DEF ThOne, Holds, Owner, Attaching, Detaching, Waiting

(* Owners stay apart when a thread becomes the owner only of a structure    *)
(* that it owns already or nobody owns.                                     *)
LEMMA OwnMove ==
  ASSUME OwnInv, NEW t \in Thread, \A u \in Thread \ {t} : th'[u] = th[u],
         Owner(t)' => \A u \in Thread \ {t} : Owner(u) => th[u].obj # th'[t].obj
  PROVE  OwnInv'
<1>1. \A u \in Thread \ {t} : Owner(u)' = Owner(u)
  BY DEF Owner
<1> QED BY <1>1 DEF OwnInv, Owner

(* The owner of a structure finds it in the state of its step.              *)
LEMMA OwnerState ==
  ASSUME ThInv, NEW u \in Thread, Owner(u)
  PROVE  /\ th[u].obj \in Obj /\ vol[th[u].obj].used /\ vol[th[u].obj].freed = 0
         /\ \/ vol[th[u].obj].st = "Attaching" /\ vol[th[u].obj].queue = "none"
            \/ vol[th[u].obj].st = "Detaching"
BY DEF ThInv, ThOne, Owner, Holds

-----------------------------------------------------------------------------
(* A command under the bucket lock: it changes the state of a volume only   *)
(* when the volume is reachable for users.                                  *)
Gentle(o) ==
  /\ SameId(vol[o], vol'[o]) /\ vol'[o].freed = vol[o].freed /\ vol'[o].queue = vol[o].queue
  /\ vol'[o].open = vol[o].open /\ vol'[o].lgr = vol[o].lgr /\ vol'[o].linger = vol[o].linger
  /\ \/ vol'[o].st = vol[o].st
     \/ /\ \/ vol[o].st \in {"Ready", "IO_Blocking"}
           \/ vol[o].st = "Attaching" /\ vol[o].queue # "none"
        /\ vol'[o].st \in {"Ready", "IO_Blocking"}

LEMMA GentleObj ==
  ASSUME TypeInv, ObjInv, \A o \in Obj : Gentle(o), UNCHANGED opener
  PROVE  ObjInv'
<1> SUFFICES ASSUME NEW o \in Obj PROVE ObjOne(o)'
  BY DEF ObjInv
<1>1. ObjOne(o) /\ Gentle(o)
  BY DEF ObjInv
<1> QED BY <1>1 DEF ObjOne, Gentle, SameId

(* A thread that holds a structure holds it in the table, except just       *)
(* before it frees it.                                                      *)
LEMMA GentleOthers ==
  ASSUME TypeInv, ThInv, \A o \in Obj : Gentle(o), UNCHANGED table,
         NEW u \in Thread, th'[u] = th[u], u \in rd => u \in rd'
  PROVE  ThOne(u)'
<1>1. ThOne(u)
  BY DEF ThInv
<1>2. CASE ~Holds(u)
  <2>1. ~Owner(u) /\ th[u].pc # "free" /\ th[u].pc \notin {"del", "rm", "free"}
    BY <1>2 DEF Holds, Owner, Detaching
  <2> QED BY <1>2, <2>1, OtherKept
<1>3. CASE Holds(u)
  <2>1. th[u].obj \in Obj
    BY <1>1, <1>3 DEF ThOne
  <2>2. Gentle(th[u].obj)
    BY <2>1
  <2>3. Owner(u) => /\ vol'[th[u].obj].st = vol[th[u].obj].st
                    /\ vol'[th[u].obj].queue = vol[th[u].obj].queue
    BY <2>2, OwnerState DEF Gentle
  <2>4. th[u].pc \in {"del", "rm", "free"} => vol'[th[u].obj].lgr = 0
    BY <1>1, <2>2 DEF ThOne, Gentle
  <2>5. th[u].pc = "free" => \A i \in VolID : table'[i] # th[u].obj
    BY <1>1 DEF ThOne
  <2> QED BY <2>2, <2>3, <2>4, <2>5, OtherKept DEF Gentle, SameId
<1> QED BY <1>2, <1>3

(* Commands that end, go on without a volume, or begin to wait.             *)
LEMMA GentleStep ==
  ASSUME DriverInv, NEW t \in Thread, th[t].pc \notin {"idle", "end"} \cup Stopping,
         vol' \in [Obj -> VolRec], \A o \in Obj : Gentle(o),
         UNCHANGED <<drv_state, busy, table, attached, minor_free, opener>>,
         rd' \in SUBSET Thread, \A u \in Thread \ {t} : u \in rd => u \in rd',
         th' \in [Thread -> ThRec], \A u \in Thread \ {t} : th'[u] = th[u],
         th'[t].id = th[t].id,
         \/ th'[t].pc \in {"end", "add"} /\ th'[t].obj = NoObj
         \/ /\ th'[t].pc \in Waiting /\ t \in rd'
            /\ th'[t].obj = table[th[t].id] /\ table[th[t].id] # NoObj
  PROVE  DriverInv'
<1>1. TypeInv'
  BY DEF DriverInv, TypeInv
<1>2. ObjInv'
  BY GentleObj DEF DriverInv
<1>3. TabInv'
  <2>1. \A i \in VolID : table[i] # NoObj => Gentle(table[i])
    BY DEF DriverInv, TypeInv
  <2> QED BY <2>1, TabKept DEF DriverInv, Gentle, SameId, Moved
<1>4. PhaseInv'
  BY PhaseMove DEF DriverInv, Waiting, Stopping
<1>5. OwnInv'
  BY OwnMove DEF DriverInv, Owner, Waiting, Attaching, Detaching
<1>6. ASSUME NEW u \in Thread \ {t} PROVE ThOne(u)'
  BY GentleOthers DEF DriverInv
<1>7. ThOne(t)'
  <2>1. th[t].id \in VolID
    BY DEF DriverInv, ThInv, ThOne
  <2>2. CASE th'[t].pc \in {"end", "add"} /\ th'[t].obj = NoObj
    BY <2>1, <2>2 DEF ThOne, Holds, Attaching, Detaching, Waiting
  <2>3. CASE /\ th'[t].pc \in Waiting /\ t \in rd'
             /\ th'[t].obj = table[th[t].id] /\ table[th[t].id] # NoObj
    <3>1. LET o == table[th[t].id] IN o \in Obj /\ vol[o].used /\ vol[o].freed = 0
      BY <2>1, <2>3 DEF DriverInv, TypeInv, TabInv, TabOne
    <3>2. LET o == table[th[t].id] IN Gentle(o)
      BY <3>1
    <3>3. LET o == table[th[t].id] IN vol'[o].used /\ vol'[o].freed = 0
      BY <3>1, <3>2 DEF Gentle, SameId
    <3> QED BY <2>1, <2>3, <3>1, <3>3 DEF ThOne, Holds, Attaching, Detaching, Waiting
  <2> QED BY <2>2, <2>3
<1>8. ThInv'
  BY <1>6, <1>7 DEF ThInv
<1> QED BY <1>1, <1>2, <1>3, <1>4, <1>5, <1>8 DEF DriverInv

(* Opens and requests of users: they count, and do not change the states.   *)
LEMMA UserStep ==
  ASSUME DriverInv, vol' \in [Obj -> VolRec],
         UNCHANGED <<drv_state, busy, table, attached, minor_free, rd, th>>,
         NEW o \in Obj, \A p \in Obj \ {o} : vol'[p] = vol[p] /\ (p \in opener' <=> p \in opener),
         SameId(vol[o], vol'[o]), vol'[o].freed = vol[o].freed, vol'[o].st = vol[o].st,
         vol'[o].queue = vol[o].queue, vol'[o].linger <= vol'[o].lgr,
         vol[o].queue # "run" /\ vol[o].lgr = 0 => vol'[o].lgr = 0,
         vol[o].used /\ vol[o].freed = 0 /\ vol[o].st = "Detaching" /\ ~vol[o].late =>
           vol'[o].open = 0 /\ o \notin opener'
  PROVE  DriverInv'
<1>1. TypeInv'
  BY DEF DriverInv, TypeInv
<1>2. ObjInv'
  <2> SUFFICES ASSUME NEW p \in Obj PROVE ObjOne(p)'
    BY DEF ObjInv
  <2>1. ObjOne(p)
    BY DEF DriverInv, ObjInv
  <2>2. CASE p = o
    BY <2>1, <2>2 DEF ObjOne, SameId
  <2>3. CASE p # o
    BY <2>1, <2>3 DEF ObjOne
  <2> QED BY <2>2, <2>3
<1>3. \A p \in Obj : /\ SameId(vol[p], vol'[p]) /\ vol'[p].freed = vol[p].freed
                     /\ vol'[p].st = vol[p].st /\ vol'[p].queue = vol[p].queue
  BY DEF SameId
<1>4. TabInv'
  <2>1. \A i \in VolID : table[i] # NoObj => table[i] \in Obj
    BY DEF DriverInv, TypeInv
  <2> QED BY <1>3, <2>1, TabKept DEF DriverInv, SameId, Moved
<1>5. PhaseInv'
  BY DEF DriverInv, PhaseInv
<1>6. OwnInv'
  BY DEF DriverInv, OwnInv, Owner
<1>7. ASSUME NEW u \in Thread PROVE ThOne(u)'
  <2>1. ThOne(u)
    BY DEF DriverInv, ThInv
  <2>2. Holds(u) => th[u].obj \in Obj
    BY <2>1 DEF ThOne
  <2>3. Owner(u) => Holds(u)
    BY DEF Owner, Holds
  <2>4. th[u].pc = "free" => \A i \in VolID : table'[i] # th[u].obj
    BY <2>1 DEF ThOne
  <2>5. th[u].pc \in {"del", "rm", "free"} => vol'[th[u].obj].lgr = 0
    <3> SUFFICES ASSUME th[u].pc \in {"del", "rm", "free"} PROVE vol'[th[u].obj].lgr = 0
      OBVIOUS
    <3>1. th[u].obj \in Obj /\ vol[th[u].obj].lgr = 0 /\ vol[th[u].obj].queue # "run"
      BY <2>1 DEF ThOne, Holds, Detaching
    <3> QED BY <3>1
  <2> QED BY <1>3, <2>2, <2>3, <2>4, <2>5, OtherKept DEF DriverInv, SameId
<1>8. ThInv'
  BY <1>7 DEF ThInv
<1> QED BY <1>1, <1>2, <1>4, <1>5, <1>6, <1>8 DEF DriverInv

(* A step of the thread that owns a structure, or becomes its owner.        *)
LEMMA OwnerStep ==
  ASSUME DriverInv, NEW t \in Thread, th[t].pc \notin {"idle", "end"} \cup Stopping,
         vol' \in [Obj -> VolRec], NEW o \in Obj, \A p \in Obj \ {o} : vol'[p] = vol[p],
         vol'[o].id = vol[o].id, vol'[o].used <=> vol[o].used,
         \/ vol'[o].freed = vol[o].freed /\ vol'[o].minor = vol[o].minor
         \/ /\ \A i \in VolID : table[i] # o
            /\ \A u \in Thread \ {t} : th[u].obj # o,
         UNCHANGED <<drv_state, busy, table, attached, minor_free, rd, opener>>,
         th' \in [Thread -> ThRec], \A u \in Thread \ {t} : th'[u] = th[u],
         th'[t].pc \notin {"idle"} \cup Stopping,
         \A u \in Thread \ {t} : Owner(u) => th[u].obj # o,
         Owner(t)' => th'[t].obj = o, ObjOne(o)', ThOne(t)'
  PROVE  DriverInv'
<1>1. TypeInv'
  BY DEF DriverInv, TypeInv
<1>2. ObjInv'
  <2> SUFFICES ASSUME NEW p \in Obj \ {o} PROVE ObjOne(p)'
    BY DEF ObjInv
  <2> QED BY DEF DriverInv, ObjInv, ObjOne
<1>3. TabInv'
  <2>1. \A i \in VolID : table[i] # NoObj =>
           /\ Moved(vol[table[i]], vol'[table[i]])
           /\ vol'[table[i]].freed = vol[table[i]].freed
    <3> SUFFICES ASSUME NEW i \in VolID, table[i] # NoObj
                 PROVE  /\ Moved(vol[table[i]], vol'[table[i]])
                        /\ vol'[table[i]].freed = vol[table[i]].freed
      OBVIOUS
    <3>1. table[i] \in Obj
      BY DEF DriverInv, TypeInv
    <3> QED BY <3>1 DEF Moved
  <2> QED BY <2>1, TabKept DEF DriverInv
<1>4. PhaseInv'
  BY PhaseMove DEF DriverInv
<1>5. OwnInv'
  BY OwnMove DEF DriverInv
<1>6. ASSUME NEW u \in Thread \ {t} PROVE ThOne(u)'
  <2>1. ThOne(u)
    BY DEF DriverInv, ThInv
  <2>2. Holds(u) => th[u].obj \in Obj
    BY <2>1 DEF ThOne
  <2>3. /\ Owner(u) => Holds(u) /\ th[u].obj # o
        /\ th[u].pc \in {"del", "rm", "free"} => Owner(u) /\ vol[th[u].obj].lgr = 0
        /\ th[u].pc = "free" => \A i \in VolID : table'[i] # th[u].obj
    BY <2>1 DEF Owner, Holds, Detaching, ThOne
  <2>4. Holds(u) => /\ vol'[th[u].obj].used <=> vol[th[u].obj].used
                    /\ vol'[th[u].obj].freed = vol[th[u].obj].freed
    BY <2>2
  <2>5. Owner(u) => vol'[th[u].obj] = vol[th[u].obj]
    BY <2>2, <2>3
  <2> QED BY <2>3, <2>4, <2>5, OtherKept DEF DriverInv
<1>7. ThInv'
  BY <1>6 DEF ThInv
<1> QED BY <1>1, <1>2, <1>3, <1>4, <1>5, <1>7 DEF DriverInv

-----------------------------------------------------------------------------
(* The transitions that the commands use stay within the reachable states.  *)
LEMMA Transitions ==
  ASSUME NEW s \in Live
  PROVE  /\ vol_state_transition(s, "Attach_Finish") = IF s = "Attaching" THEN "Ready" ELSE s
         /\ vol_state_transition(s, "UnBlock_IO") = IF s = "IO_Blocking" THEN "Ready" ELSE s
         /\ vol_state_transition(s, "Block_IO") = IF s = "Ready" THEN "IO_Blocking" ELSE s
         /\ s # "IO_Blocking" => vol_state_transition(s, "Detach") = IF s = "Ready" THEN "Detaching" ELSE s
         /\ vol_state_transition(s, "No_Ligner_IO") = IF s = "Detaching" THEN "Detached" ELSE s
BY DEF vol_state_transition, Live

(* Nothing is changed, or the state of one reachable volume.                *)
LEMMA GentleSame ==
  ASSUME TypeInv, vol' = vol
  PROVE  vol' \in [Obj -> VolRec] /\ \A o \in Obj : Gentle(o)
BY DEF TypeInv, Gentle, SameId

LEMMA GentleOne ==
  ASSUME TypeInv, NEW o \in Obj, NEW w \in VolRec, vol' = [vol EXCEPT ![o] = w],
         SameId(vol[o], w), w.freed = vol[o].freed, w.queue = vol[o].queue,
         w.open = vol[o].open, w.lgr = vol[o].lgr, w.linger = vol[o].linger,
         \/ w.st = vol[o].st
         \/ /\ \/ vol[o].st \in {"Ready", "IO_Blocking"}
               \/ vol[o].st = "Attaching" /\ vol[o].queue # "none"
            /\ w.st \in {"Ready", "IO_Blocking"}
  PROVE  vol' \in [Obj -> VolRec] /\ \A p \in Obj : Gentle(p)
<1>1. /\ vol' \in [Obj -> VolRec] /\ vol'[o] = w
      /\ \A p \in Obj \ {o} : vol'[p] = vol[p]
  BY VolEffect
<1>2. Gentle(o)
  BY <1>1 DEF Gentle
<1>3. ASSUME NEW p \in Obj \ {o} PROVE Gentle(p)
  BY <1>1 DEF Gentle, SameId
<1> QED BY <1>1, <1>2, <1>3

(* Setting the state by an operation that only reachable volumes know.      *)
LEMMA GentleState ==
  ASSUME TypeInv, NEW o \in Obj, NEW op, SetState(o, op),
         \/ op \in {"UnBlock_IO", "Block_IO"}
         \/ op = "Attach_Finish" /\ vol[o].queue # "none"
  PROVE  vol' \in [Obj -> VolRec] /\ \A p \in Obj : Gentle(p)
<1> DEFINE s == vol_state_transition(vol[o].st, op)
           w == [vol[o] EXCEPT !.st = s]
<1>1. vol[o] \in VolRec /\ vol[o].st \in Live
  BY VolFields DEF TypeInv
<1>2. /\ s \in Live
      /\ \/ s = vol[o].st
         \/ /\ \/ vol[o].st \in {"Ready", "IO_Blocking"}
               \/ vol[o].st = "Attaching" /\ vol[o].queue # "none"
            /\ s \in {"Ready", "IO_Blocking"}
  BY <1>1, Transitions DEF Live
<1>3. vol' = [vol EXCEPT ![o] = w]
  BY DEF SetState
<1> HIDE DEF s
<1>4. /\ w \in VolRec /\ SameId(vol[o], w) /\ w.st = s /\ w.queue = vol[o].queue
      /\ w.open = vol[o].open /\ w.lgr = vol[o].lgr /\ w.linger = vol[o].linger
      /\ w.freed = vol[o].freed
  BY <1>1, <1>2, SetSt
<1> HIDE DEF w
<1> QED BY <1>2, <1>3, <1>4, GentleOne

-----------------------------------------------------------------------------
(* A command that ends.                                                     *)
LEMMA CommandEnds ==
  ASSUME DriverInv, NEW t \in Thread, th[t].pc \notin {"idle", "end"} \cup Stopping,
         vol' \in [Obj -> VolRec], \A o \in Obj : Gentle(o),
         UNCHANGED <<drv_state, busy, table, attached, minor_free, opener>>,
         rd' = rd \/ rd' = rd \ {t}, End(t)
  PROVE  DriverInv'
<1>1. "end" \in PCs /\ NoObj \in Obj \cup {NoObj}
  BY DEF PCs
<1>2. /\ th' \in [Thread -> ThRec] /\ th'[t].pc = "end" /\ th'[t].obj = NoObj
      /\ th'[t].id = th[t].id /\ \A u \in Thread \ {t} : th'[u] = th[u]
  BY <1>1, GotoEffect DEF End, DriverInv
<1>3. rd' \in SUBSET Thread /\ \A u \in Thread \ {t} : u \in rd => u \in rd'
  BY DEF DriverInv, TypeInv
<1> QED BY <1>2, <1>3, GentleStep

(* A command that begins to wait with the bucket lock.                      *)
LEMMA CommandWaits ==
  ASSUME DriverInv, NEW t \in Thread, th[t].pc \notin {"idle", "end"} \cup Stopping,
         vol' \in [Obj -> VolRec], \A o \in Obj : Gentle(o),
         UNCHANGED <<drv_state, busy, table, attached, minor_free, opener>>,
         rd' = rd \cup {t}, NEW p \in Waiting, Goto(t, p, table[th[t].id]),
         table[th[t].id] \in Obj
  PROVE  DriverInv'
<1>1. p \in PCs /\ table[th[t].id] # NoObj
  BY Constants DEF PCs
<1>2. /\ th' \in [Thread -> ThRec] /\ th'[t].pc = p /\ th'[t].obj = table[th[t].id]
      /\ th'[t].id = th[t].id /\ \A u \in Thread \ {t} : th'[u] = th[u]
  BY <1>1, GotoEffect DEF DriverInv
<1>3. rd' \in SUBSET Thread /\ t \in rd' /\ \A u \in Thread \ {t} : u \in rd => u \in rd'
  BY DEF DriverInv, TypeInv
<1> QED BY <1>1, <1>2, <1>3, GentleStep

(* A command looks its volume up.                                           *)
LEMMA Lookup ==
  ASSUME DriverInv, NEW t \in Thread, th[t].pc \notin {"idle", "end"} \cup Stopping
  PROVE  /\ th[t].id \in VolID /\ table[th[t].id] \in Obj \cup {NoObj}
         /\ table[th[t].id] # NoObj =>
              LET o == table[th[t].id]
              IN  o \in Obj /\ vol[o] \in VolRec /\ vol[o].used /\ vol[o].freed = 0
BY DEF DriverInv, TypeInv, ThInv, ThOne, TabInv, TabOne

LEMMA ChkMaxVolsStep ==
  ASSUME DriverInv, NEW t \in Thread, ChkMaxVols(t) PROVE DriverInv'
<1>1. /\ th[t].pc \notin {"idle", "end"} \cup Stopping
      /\ UNCHANGED <<drv_state, busy, vol, table, attached, minor_free, rd, opener>>
  BY DEF ChkMaxVols, Start, Stopping
<1>2. vol' \in [Obj -> VolRec] /\ \A o \in Obj : Gentle(o)
  BY <1>1, GentleSame DEF DriverInv
<1>3. CASE End(t)
  BY <1>1, <1>2, <1>3, CommandEnds
<1>4. CASE Goto(t, "add", NoObj)
  <2>1. "add" \in PCs /\ NoObj \in Obj \cup {NoObj}
    BY DEF PCs
  <2>2. /\ th' \in [Thread -> ThRec] /\ th'[t].pc = "add" /\ th'[t].obj = NoObj
        /\ th'[t].id = th[t].id /\ \A u \in Thread \ {t} : th'[u] = th[u]
    BY <1>4, <2>1, GotoEffect DEF DriverInv
  <2>3. rd' \in SUBSET Thread /\ \A u \in Thread \ {t} : u \in rd => u \in rd'
    BY <1>1 DEF DriverInv, TypeInv
  <2> QED BY <1>1, <1>2, <2>2, <2>3, GentleStep
<1> QED BY <1>3, <1>4 DEF ChkMaxVols

LEMMA StateCommandStep ==
  ASSUME DriverInv, Races = {}, NEW t \in Thread,
         \/ set_volume_state_attach_done(t) \/ set_volume_state_unblock_io(t)
         \/ set_volume_rw_permission(t)
  PROVE  DriverInv'
<1>1. /\ th[t].pc \notin {"idle", "end"} \cup Stopping /\ End(t)
      /\ UNCHANGED <<drv_state, busy, table, attached, minor_free, rd, opener>>
  BY DEF set_volume_state_attach_done, set_volume_state_unblock_io, set_volume_rw_permission,
         Start, Stopping
<1> DEFINE o == table[th[t].id]
<1>2. o \in Obj \cup {NoObj} /\ (o \in Obj => vol[o] \in VolRec) /\ NoObj \notin Obj
  BY <1>1, Lookup, Constants
<1> HIDE DEF o
<1>3. vol' \in [Obj -> VolRec] /\ \A p \in Obj : Gentle(p)
  <2>1. CASE vol' = vol
    BY <2>1, GentleSame DEF DriverInv
  <2>2. CASE o \in Obj /\ SetState(o, "Attach_Finish") /\ vol[o].queue # "none"
    BY <2>2, GentleState DEF DriverInv
  <2>3. CASE o \in Obj /\ SetState(o, "UnBlock_IO")
    BY <2>3, GentleState DEF DriverInv
  <2>4. CASE o \in Obj /\ vol' = [vol EXCEPT ![o].perm = FALSE]
    <3> DEFINE w == [vol[o] EXCEPT !.perm = FALSE]
    <3>1. vol' = [vol EXCEPT ![o] = w]
      BY <2>4
    <3>2. /\ w \in VolRec /\ SameId(vol[o], w) /\ w.st = vol[o].st /\ w.queue = vol[o].queue
          /\ w.open = vol[o].open /\ w.lgr = vol[o].lgr /\ w.linger = vol[o].linger
          /\ w.freed = vol[o].freed
      BY <1>2, <2>4, SetPerm
    <3> HIDE DEF w
    <3> QED BY <2>4, <3>1, <3>2, GentleOne DEF DriverInv
  <2> QED
    BY <1>2, <2>1, <2>2, <2>3, <2>4
       DEF o, set_volume_state_attach_done, set_volume_state_unblock_io,
           set_volume_rw_permission, OnVolume, MayFinish
<1> QED BY <1>1, <1>3, CommandEnds

LEMMA BlockStep ==
  ASSUME DriverInv, NEW t \in Thread, set_volume_state_block_io(t) PROVE DriverInv'
<1>1. /\ th[t].pc \notin {"idle", "end"} \cup Stopping
      /\ UNCHANGED <<drv_state, busy, table, attached, minor_free, opener>>
  BY DEF set_volume_state_block_io, Start, Stopping
<1> DEFINE o == table[th[t].id]
<1>2. o \in Obj \cup {NoObj} /\ NoObj \notin Obj
  BY <1>1, Lookup, Constants
<1>3. vol' \in [Obj -> VolRec] /\ \A p \in Obj : Gentle(p)
  <2>1. CASE vol' = vol
    BY <2>1, GentleSame DEF DriverInv
  <2>2. CASE o \in Obj /\ SetState(o, "Block_IO")
    BY <2>2, GentleState DEF DriverInv
  <2> QED BY <1>2, <2>1, <2>2 DEF set_volume_state_block_io
<1>4. CASE End(t) /\ rd' = rd
  BY <1>1, <1>3, <1>4, CommandEnds
<1>5. CASE o \in Obj /\ Goto(t, "blockwait", o) /\ rd' = rd \cup {t}
  BY <1>1, <1>3, <1>5, CommandWaits DEF Waiting
<1> QED BY <1>2, <1>4, <1>5 DEF set_volume_state_block_io

LEMMA StopStep ==
  ASSUME DriverInv, NEW t \in Thread, stop_volume(t) PROVE DriverInv'
<1>1. /\ th[t].pc \notin {"idle", "end"} \cup Stopping
      /\ UNCHANGED <<drv_state, busy, table, attached, minor_free, opener>>
  BY DEF stop_volume, Start, Stopping
<1> DEFINE o == table[th[t].id]
<1>2. o \in Obj \cup {NoObj} /\ NoObj \notin Obj /\ (o \in Obj => vol[o] \in VolRec)
  BY <1>1, Lookup, Constants
<1>3. CASE End(t) /\ UNCHANGED <<vol, rd>>
  <2>1. vol' \in [Obj -> VolRec] /\ \A p \in Obj : Gentle(p)
    BY <1>3, GentleSame DEF DriverInv
  <2> QED BY <1>1, <1>3, <2>1, CommandEnds
<1>4. CASE /\ o \in Obj /\ vol' = [vol EXCEPT ![o].stop = TRUE, ![o].perm = FALSE]
           /\ Goto(t, "stopwait", o) /\ rd' = rd \cup {t}
  <2> DEFINE w == [vol[o] EXCEPT !.stop = TRUE, !.perm = FALSE]
  <2>1. vol' = [vol EXCEPT ![o] = w]
    BY <1>2, <1>4 DEF DriverInv, TypeInv
  <2>2. /\ w \in VolRec /\ SameId(vol[o], w) /\ w.st = vol[o].st /\ w.queue = vol[o].queue
        /\ w.open = vol[o].open /\ w.lgr = vol[o].lgr /\ w.linger = vol[o].linger
        /\ w.freed = vol[o].freed
    BY <1>2, <1>4, SetStop
  <2> HIDE DEF w
  <2>3. vol' \in [Obj -> VolRec] /\ \A p \in Obj : Gentle(p)
    BY <1>4, <2>1, <2>2, GentleOne DEF DriverInv
  <2> QED BY <1>1, <1>4, <2>3, CommandWaits DEF Waiting
<1> QED BY <1>2, <1>3, <1>4 DEF stop_volume

LEMMA RestartStep ==
  ASSUME DriverInv, NEW t \in Thread, NEW ok \in BOOLEAN, restart_volume(t, ok) PROVE DriverInv'
<1>1. /\ th[t].pc \notin {"idle", "end"} \cup Stopping /\ End(t)
      /\ UNCHANGED <<drv_state, busy, table, attached, minor_free, rd, opener>>
  BY DEF restart_volume, Start, Stopping
<1> DEFINE o == table[th[t].id]
<1>2. o \in Obj \cup {NoObj} /\ NoObj \notin Obj /\ (o \in Obj => vol[o] \in VolRec)
  BY <1>1, Lookup, Constants
<1>3. CASE vol' = vol
  <2>1. vol' \in [Obj -> VolRec] /\ \A p \in Obj : Gentle(p)
    BY <1>3, GentleSame DEF DriverInv
  <2> QED BY <1>1, <2>1, CommandEnds
<1>4. CASE o \in Obj /\ vol' = [vol EXCEPT ![o].stop = FALSE, ![o].perm = TRUE]
  <2> DEFINE w == [vol[o] EXCEPT !.stop = FALSE, !.perm = TRUE]
  <2>1. vol' = [vol EXCEPT ![o] = w]
    BY <1>2, <1>4 DEF DriverInv, TypeInv
  <2>2. /\ w \in VolRec /\ SameId(vol[o], w) /\ w.st = vol[o].st /\ w.queue = vol[o].queue
        /\ w.open = vol[o].open /\ w.lgr = vol[o].lgr /\ w.linger = vol[o].linger
        /\ w.freed = vol[o].freed
    BY <1>2, <1>4, SetStop
  <2> HIDE DEF w
  <2>3. vol' \in [Obj -> VolRec] /\ \A p \in Obj : Gentle(p)
    BY <1>4, <2>1, <2>2, GentleOne DEF DriverInv
  <2> QED BY <1>1, <2>3, CommandEnds
<1> QED BY <1>2, <1>3, <1>4 DEF restart_volume

LEMMA WaitEndStep ==
  ASSUME DriverInv, NEW t \in Thread, EndBlockWait(t) \/ EndStopWait(t) PROVE DriverInv'
<1>1. /\ th[t].pc \notin {"idle", "end"} \cup Stopping /\ End(t) /\ rd' = rd \ {t}
      /\ UNCHANGED <<drv_state, busy, table, attached, minor_free, opener>>
  BY DEF EndBlockWait, EndStopWait, Stopping
<1>2. CASE vol' = vol
  <2>1. vol' \in [Obj -> VolRec] /\ \A p \in Obj : Gentle(p)
    BY <1>2, GentleSame DEF DriverInv
  <2> QED BY <1>1, <2>1, CommandEnds
<1>3. CASE th[t].pc = "blockwait" /\ SetState(th[t].obj, "UnBlock_IO")
  <2>1. th[t].obj \in Obj
    BY <1>3 DEF DriverInv, ThInv, ThOne, Holds, Waiting
  <2>2. vol' \in [Obj -> VolRec] /\ \A p \in Obj : Gentle(p)
    BY <1>3, <2>1, GentleState DEF DriverInv
  <2> QED BY <1>1, <2>2, CommandEnds
<1> QED BY <1>2, <1>3 DEF EndBlockWait, EndStopWait

-----------------------------------------------------------------------------
(* The thread that owns a structure, what it knows of it, and that it is    *)
(* the only one.                                                            *)
LEMMA OwnerKnows ==
  ASSUME DriverInv, NEW t \in Thread, Owner(t)
  PROVE  LET o == th[t].obj
         IN /\ th[t].pc \notin {"idle", "end"} \cup Stopping /\ th[t].id \in VolID
            /\ o \in Obj /\ o # NoObj /\ vol[o] \in VolRec /\ vol[o].used /\ vol[o].freed = 0
            /\ ObjOne(o) /\ ThOne(t)
            /\ \A u \in Thread \ {t} : Owner(u) => th[u].obj # o
<1>1. ThOne(t) /\ th[t].pc \notin {"idle", "end"} \cup Stopping /\ Holds(t)
  BY DEF DriverInv, ThInv, Owner, Holds, Attaching, Detaching, Stopping
<1>2. th[t].id \in VolID /\ th[t].obj \in Obj /\ vol[th[t].obj].used /\ vol[th[t].obj].freed = 0
  BY <1>1 DEF ThOne
<1>3. vol[th[t].obj] \in VolRec /\ ObjOne(th[t].obj) /\ th[t].obj # NoObj
  BY <1>2, Constants DEF DriverInv, TypeInv, ObjInv
<1>4. \A u \in Thread \ {t} : Owner(u) => th[u].obj # th[t].obj
  BY DEF DriverInv, OwnInv
<1> QED BY <1>1, <1>2, <1>3, <1>4

LEMMA InitDeviceStep ==
  ASSUME DriverInv, NEW t \in Thread, NEW upto, init_volume_device(t, upto)
  PROVE  DriverInv'
<1> SUFFICES ASSUME NEW o, o = th[t].obj PROVE DriverInv'
  OBVIOUS
<1>1. /\ th[t].pc = "initdev"
      /\ UNCHANGED <<drv_state, busy, table, attached, minor_free, rd, opener>>
  BY DEF init_volume_device
<1>2. Owner(t)
  BY <1>1 DEF Owner, Attaching
<1>3. /\ th[t].pc \notin {"idle", "end"} \cup Stopping /\ th[t].id \in VolID
      /\ o \in Obj /\ o # NoObj /\ vol[o] \in VolRec /\ vol[o].used /\ vol[o].freed = 0
      /\ ObjOne(o) /\ ThOne(t)
      /\ \A u \in Thread \ {t} : Owner(u) => th[u].obj # o
  BY <1>2, OwnerKnows
<1>4. vol[o].st = "Attaching" /\ vol[o].queue = "none" /\ table[th[t].id] = o
  BY <1>1, <1>3 DEF ThOne, Attaching, Holds
<1>5. CASE vol' = [vol EXCEPT ![o].queue = "run"] /\ End(t)
  <2> DEFINE w == [vol[o] EXCEPT !.queue = "run"]
  <2>1. vol' = [vol EXCEPT ![o] = w]
    BY <1>5
  <2>2. /\ w \in VolRec /\ SameId(vol[o], w) /\ w.st = vol[o].st /\ w.queue = "run"
        /\ w.open = vol[o].open /\ w.lgr = vol[o].lgr /\ w.linger = vol[o].linger
        /\ w.freed = vol[o].freed
    BY <1>3, SetQueue
  <2> HIDE DEF w
  <2>3. vol' \in [Obj -> VolRec] /\ vol'[o] = w /\ \A p \in Obj \ {o} : vol'[p] = vol[p]
    BY <1>3, <2>1, <2>2, VolEffect DEF DriverInv
  <2>4. /\ th' \in [Thread -> ThRec] /\ th'[t].pc = "end" /\ th'[t].obj = NoObj
        /\ th'[t].id = th[t].id /\ \A u \in Thread \ {t} : th'[u] = th[u]
    <3>1. "end" \in PCs /\ NoObj \in Obj \cup {NoObj}
      BY DEF PCs
    <3> QED BY <1>5, <3>1, GotoEffect DEF DriverInv, End
  <2>5. ObjOne(o)'
    BY <1>1, <1>3, <1>4, <2>2, <2>3 DEF ObjOne, SameId
  <2>6. ThOne(t)' /\ ~Owner(t)'
    BY <1>3, <2>4 DEF ThOne, Owner, Holds, Attaching, Detaching, Waiting
  <2>7. th'[t].pc \notin {"idle"} \cup Stopping
    BY <2>4 DEF Stopping
  <2> QED BY <1>1, <1>3, <2>2, <2>3, <2>4, <2>5, <2>6, <2>7, OwnerStep DEF SameId
<1>6. CASE Goto(t, "undo", o) /\ vol' = vol
  <2>1. /\ th' \in [Thread -> ThRec] /\ th'[t].pc = "undo" /\ th'[t].obj = o
        /\ th'[t].id = th[t].id /\ \A u \in Thread \ {t} : th'[u] = th[u]
    <3>1. "undo" \in PCs /\ o \in Obj \cup {NoObj}
      BY <1>3 DEF PCs, Attaching
    <3> QED BY <1>6, <3>1, GotoEffect DEF DriverInv
  <2>2. ObjOne(o)'
    BY <1>1, <1>3, <1>6 DEF ObjOne
  <2>3. ThOne(t)'
    BY <1>1, <1>3, <1>4, <1>6, <2>1 DEF ThOne, Holds, Attaching, Detaching, Waiting
  <2>4. vol' \in [Obj -> VolRec] /\ th'[t].pc \notin {"idle"} \cup Stopping
    BY <1>6, <2>1 DEF DriverInv, TypeInv, Stopping
  <2> QED BY <1>1, <1>3, <1>6, <2>1, <2>2, <2>3, <2>4, OwnerStep
<1> QED BY <1>5, <1>6 DEF init_volume_device

(* A detach takes a volume that is Ready and not open.                      *)
LEMMA FindDetachStep ==
  ASSUME DriverInv, Races = {}, NEW t \in Thread, find_volume_for_detach(t)
  PROVE  DriverInv'
<1> SUFFICES ASSUME NEW o, o = table[th[t].id] PROVE DriverInv'
  OBVIOUS
<1>1. /\ th[t].pc = "start" /\ th[t].pc \notin {"idle", "end"} \cup Stopping
      /\ UNCHANGED <<drv_state, busy, table, attached, minor_free, rd, opener>>
  BY DEF find_volume_for_detach, Start, Stopping
<1>2. /\ th[t].id \in VolID /\ o \in Obj \cup {NoObj} /\ NoObj \notin Obj
      /\ o # NoObj => o \in Obj /\ vol[o] \in VolRec /\ vol[o].used /\ vol[o].freed = 0
  BY <1>1, Lookup, Constants
<1>3. CASE End(t) /\ vol' = vol
  <2>1. vol' \in [Obj -> VolRec] /\ \A p \in Obj : Gentle(p)
    BY <1>3, GentleSame DEF DriverInv
  <2> QED BY <1>1, <1>3, <2>1, CommandEnds
<1>4. CASE /\ o # NoObj /\ MayDetach(o) /\ ~(vol[o].open > 0) /\ vol[o].st # "IO_Blocking"
           /\ vol' = [vol EXCEPT ![o].st = vol_state_transition(@, "Detach"),
                                 ![o].late = @ \/ o \in opener]
           /\ IF vol[o].st \in {"Detaching", "Block_Detach"}
              THEN End(t) ELSE Goto(t, "flush", o)
  <2> DEFINE s == vol_state_transition(vol[o].st, "Detach")
             l == vol[o].late \/ o \in opener
             w == [vol[o] EXCEPT !.st = s, !.late = l]
  <2>1. /\ vol[o].st \in Live /\ vol[o].st \notin {"Attaching", "IO_Blocking", "Detached"}
        /\ vol[o].open = 0
    <3>1. ObjOne(o) /\ vol[o].st \in Live /\ vol[o].open \in Nat
      BY <1>2, <1>4, VolFields DEF DriverInv, ObjInv
    <3>2. vol[o].st # "Detached"
      BY <1>2, <1>4, <3>1 DEF ObjOne
    <3> QED BY <1>4, <3>1, <3>2 DEF MayDetach
  <2>2. s = "Detaching"
    BY <2>1, Transitions DEF Live
  <2>3. vol' = [vol EXCEPT ![o] = w]
    BY <1>2, <1>4 DEF DriverInv, TypeInv
  <2>4. /\ w \in VolRec /\ Moved(vol[o], w) /\ w.st = "Detaching" /\ w.queue = vol[o].queue
        /\ (w.late <=> l) /\ w.open = vol[o].open /\ w.lgr = vol[o].lgr /\ w.linger = vol[o].linger
        /\ w.freed = vol[o].freed
    <3> HIDE DEF s, l
    <3>1. s \in Live
      BY <2>2 DEF Live
    <3>2. PICK b \in BOOLEAN : b = l
      BY DEF l
    <3>3. w = [vol[o] EXCEPT !.st = s, !.late = b]
      BY <3>2
    <3> HIDE DEF w
    <3>4. o \in Obj /\ vol[o] \in VolRec
      BY <1>2, <1>4
    <3>5. /\ w \in VolRec /\ Moved(vol[o], w) /\ w.st = s /\ w.queue = vol[o].queue
          /\ w.late = b /\ w.open = vol[o].open /\ w.lgr = vol[o].lgr
          /\ w.linger = vol[o].linger /\ w.freed = vol[o].freed
      BY <3>1, <3>2, <3>3, <3>4 DEF VolRec, Moved
    <3> QED BY <2>2, <3>2, <3>5
  <2> HIDE DEF w, s
  <2>5. vol' \in [Obj -> VolRec] /\ vol'[o] = w /\ \A p \in Obj \ {o} : vol'[p] = vol[p]
    BY <1>2, <1>4, <2>3, <2>4, VolEffect DEF DriverInv
  <2>6. CASE vol[o].st = "Detaching" /\ End(t)
    <3>1. ObjOne(o)
      BY <1>2, <1>4 DEF DriverInv, ObjInv
    <3>2. w.late <=> vol[o].late
      BY <1>2, <1>4, <2>4, <2>6, <3>1 DEF ObjOne
    <3>3. SameId(vol[o], w)
      BY <2>4, <3>2 DEF SameId, Moved
    <3>4. \A p \in Obj : Gentle(p)
      BY <2>4, <2>5, <2>6, <3>3 DEF Gentle, SameId
    <3> QED BY <1>1, <2>5, <2>6, <3>4, CommandEnds
  <2>7. CASE vol[o].st # "Detaching" /\ Goto(t, "flush", o)
    <3>1. /\ th' \in [Thread -> ThRec] /\ th'[t].pc = "flush" /\ th'[t].obj = o
          /\ th'[t].id = th[t].id /\ \A u \in Thread \ {t} : th'[u] = th[u]
      <4>1. "flush" \in PCs
        BY DEF PCs, Detaching
      <4> QED BY <1>2, <2>7, <4>1, GotoEffect DEF DriverInv
    <3>2. ObjOne(o)'
      <4>1. ObjOne(o)
        BY <1>2, <1>4 DEF DriverInv, ObjInv
      <4> QED BY <1>1, <1>2, <1>4, <2>1, <2>4, <2>5, <4>1 DEF ObjOne, Moved
    <3>3. ThOne(t)'
      BY <1>1, <1>2, <1>4, <2>4, <2>5, <3>1
         DEF ThOne, Holds, Attaching, Detaching, Waiting, Moved
    <3>4. \A u \in Thread \ {t} : Owner(u) => th[u].obj # o
      BY <2>1, <2>7, OwnerState DEF DriverInv
    <3>5. th'[t].pc \notin {"idle"} \cup Stopping
      BY <3>1 DEF Stopping
    <3> QED BY <1>1, <1>2, <1>4, <2>4, <2>5, <3>1, <3>2, <3>3, <3>4, <3>5, OwnerStep DEF Moved
  <2> QED BY <1>4, <2>1, <2>6, <2>7 DEF Live
<1> QED BY <1>3, <1>4 DEF find_volume_for_detach

(* The steps of a detach that stop and delete the queue.                    *)
LEMMA QueueStep ==
  ASSUME DriverInv, NEW t \in Thread,
         \/ flush_gendisk_queue(t) \/ del_gendisk(t)
  PROVE  DriverInv'
<1> SUFFICES ASSUME NEW o, o = th[t].obj PROVE DriverInv'
  OBVIOUS
<1> DEFINE q == IF th[t].pc = "flush" THEN "stop" ELSE "dead"
           p == IF th[t].pc = "flush" THEN "iowait" ELSE "rm"
           w == [vol[o] EXCEPT !.queue = q]
<1>1. /\ th[t].pc \in {"flush", "del"} /\ Goto(t, p, o) /\ vol' = [vol EXCEPT ![o] = w]
      /\ UNCHANGED <<drv_state, busy, table, attached, minor_free, rd, opener>>
  BY DEF flush_gendisk_queue, del_gendisk
<1>2. Owner(t)
  BY <1>1 DEF Owner, Detaching
<1>3. /\ th[t].pc \notin {"idle", "end"} \cup Stopping /\ th[t].id \in VolID
      /\ o \in Obj /\ o # NoObj /\ vol[o] \in VolRec /\ vol[o].used /\ vol[o].freed = 0
      /\ ObjOne(o) /\ ThOne(t)
      /\ \A u \in Thread \ {t} : Owner(u) => th[u].obj # o
  BY <1>2, OwnerKnows
<1>4. /\ vol[o].st = "Detaching" /\ table[th[t].id] = o
      /\ th[t].pc = "del" => vol[o].lgr = 0
  BY <1>1, <1>3 DEF ThOne, Detaching, Holds
<1>5. /\ w \in VolRec /\ SameId(vol[o], w) /\ w.st = vol[o].st /\ w.queue = q
      /\ w.open = vol[o].open /\ w.lgr = vol[o].lgr /\ w.linger = vol[o].linger
      /\ w.freed = vol[o].freed
  <2> HIDE DEF q
  <2>1. q \in {"none", "run", "stop", "dead"}
    BY DEF q
  <2> QED BY <1>3, <2>1, SetQueue
<1> HIDE DEF w
<1>6. vol' \in [Obj -> VolRec] /\ vol'[o] = w /\ \A k \in Obj \ {o} : vol'[k] = vol[k]
  BY <1>1, <1>3, <1>5, VolEffect DEF DriverInv
<1>7. /\ th' \in [Thread -> ThRec] /\ th'[t].pc = p /\ th'[t].obj = o
      /\ th'[t].id = th[t].id /\ \A u \in Thread \ {t} : th'[u] = th[u]
  <2>1. p \in PCs /\ o \in Obj \cup {NoObj}
    BY <1>3 DEF PCs, Detaching
  <2> HIDE DEF p
  <2> QED BY <1>1, <2>1, GotoEffect DEF DriverInv
<1>8. ObjOne(o)'
  BY <1>1, <1>3, <1>4, <1>5, <1>6 DEF ObjOne, SameId
<1>9. ThOne(t)'
  BY <1>1, <1>3, <1>4, <1>5, <1>6, <1>7
     DEF ThOne, Holds, Attaching, Detaching, Waiting, SameId
<1>10. th'[t].pc \notin {"idle"} \cup Stopping
  BY <1>7 DEF Stopping
<1> HIDE DEF p, q
<1> QED BY <1>1, <1>3, <1>5, <1>6, <1>7, <1>8, <1>9, <1>10, OwnerStep DEF SameId

(* The wait of a detach ends: the volume is idle, or it goes back.          *)
LEMMA EndDetachWaitStep ==
  ASSUME DriverInv, NEW t \in Thread, EndDetachWait(t) PROVE DriverInv'
<1> SUFFICES ASSUME NEW o, o = th[t].obj PROVE DriverInv'
  OBVIOUS
<1>1. /\ th[t].pc = "iowait"
      /\ UNCHANGED <<drv_state, busy, table, attached, minor_free, rd, opener>>
  BY DEF EndDetachWait
<1>2. Owner(t)
  BY <1>1 DEF Owner, Detaching
<1>3. /\ th[t].pc \notin {"idle", "end"} \cup Stopping /\ th[t].id \in VolID
      /\ o \in Obj /\ o # NoObj /\ vol[o] \in VolRec /\ vol[o].used /\ vol[o].freed = 0
      /\ ObjOne(o) /\ ThOne(t)
      /\ \A u \in Thread \ {t} : Owner(u) => th[u].obj # o
  BY <1>2, OwnerKnows
<1>4. vol[o].st = "Detaching" /\ vol[o].queue = "stop" /\ table[th[t].id] = o
  BY <1>1, <1>3 DEF ThOne, Detaching, Holds
<1>5. CASE IODone(o) /\ Goto(t, "del", o) /\ vol' = vol
  <2>1. /\ th' \in [Thread -> ThRec] /\ th'[t].pc = "del" /\ th'[t].obj = o
        /\ th'[t].id = th[t].id /\ \A u \in Thread \ {t} : th'[u] = th[u]
    <3>1. "del" \in PCs /\ o \in Obj \cup {NoObj}
      BY <1>3 DEF PCs, Detaching
    <3> QED BY <1>5, <3>1, GotoEffect DEF DriverInv
  <2>2. ObjOne(o)'
    BY <1>1, <1>3, <1>5 DEF ObjOne
  <2>3. ThOne(t)'
    BY <1>1, <1>3, <1>4, <1>5, <2>1 DEF ThOne, Holds, Attaching, Detaching, Waiting, IODone
  <2>4. vol' \in [Obj -> VolRec] /\ th'[t].pc \notin {"idle"} \cup Stopping
    BY <1>5, <2>1 DEF DriverInv, TypeInv, Stopping
  <2> QED BY <1>1, <1>3, <1>5, <2>1, <2>2, <2>3, <2>4, OwnerStep
<1>6. CASE vol' = [vol EXCEPT ![o] = WaitTimeout(@)] /\ End(t)
  <2> DEFINE w == WaitTimeout(vol[o])
  <2>1. vol' = [vol EXCEPT ![o] = w]
    BY <1>6
  <2>2. /\ w \in VolRec /\ Moved(vol[o], w) /\ w.st = "Ready" /\ w.queue = "run"
        /\ w.open = vol[o].open /\ w.lgr = vol[o].lgr /\ w.linger = vol[o].linger
        /\ w.freed = vol[o].freed
    BY <1>3, SetTimeout
  <2> HIDE DEF w
  <2>3. vol' \in [Obj -> VolRec] /\ vol'[o] = w /\ \A p \in Obj \ {o} : vol'[p] = vol[p]
    BY <1>3, <2>1, <2>2, VolEffect DEF DriverInv
  <2>4. /\ th' \in [Thread -> ThRec] /\ th'[t].pc = "end" /\ th'[t].obj = NoObj
        /\ th'[t].id = th[t].id /\ \A u \in Thread \ {t} : th'[u] = th[u]
    <3>1. "end" \in PCs /\ NoObj \in Obj \cup {NoObj}
      BY DEF PCs
    <3> QED BY <1>6, <3>1, GotoEffect DEF DriverInv, End
  <2>5. ObjOne(o)'
    BY <1>1, <1>3, <1>4, <2>2, <2>3 DEF ObjOne, Moved
  <2>6. ThOne(t)' /\ ~Owner(t)'
    BY <1>3, <2>4 DEF ThOne, Owner, Holds, Attaching, Detaching, Waiting
  <2>7. th'[t].pc \notin {"idle"} \cup Stopping
    BY <2>4 DEF Stopping
  <2> QED BY <1>1, <1>3, <2>2, <2>3, <2>4, <2>5, <2>6, <2>7, OwnerStep DEF Moved
<1> QED BY <1>5, <1>6 DEF EndDetachWait

(* A structure that has left the table is held by nobody but its owner.     *)
LEMMA FreeVolumeStep ==
  ASSUME DriverInv, NEW t \in Thread, FreeVolume(t) PROVE DriverInv'
<1> SUFFICES ASSUME NEW o, o = th[t].obj PROVE DriverInv'
  OBVIOUS
<1> DEFINE v == [vol[o] EXCEPT !.st = vol_state_transition(vol[o].st, "No_Ligner_IO")]
           w == free_volume(v)
<1>1. /\ th[t].pc = "free" /\ End(t) /\ vol' = [vol EXCEPT ![o] = w]
      /\ UNCHANGED <<drv_state, busy, table, attached, minor_free, rd, opener>>
  BY DEF FreeVolume
<1>2. Owner(t)
  BY <1>1 DEF Owner, Detaching
<1>3. /\ th[t].pc \notin {"idle", "end"} \cup Stopping /\ th[t].id \in VolID
      /\ o \in Obj /\ o # NoObj /\ vol[o] \in VolRec /\ vol[o].used /\ vol[o].freed = 0
      /\ ObjOne(o) /\ ThOne(t)
      /\ \A u \in Thread \ {t} : Owner(u) => th[u].obj # o
  BY <1>2, OwnerKnows
<1>4. vol[o].st = "Detaching" /\ \A i \in VolID : table[i] # o
  BY <1>1, <1>3 DEF ThOne, Detaching
<1>5. /\ v \in VolRec /\ SameId(vol[o], v) /\ v.st = "Detached" /\ v.lgr = vol[o].lgr
      /\ v.linger = vol[o].linger /\ v.freed = vol[o].freed
  <2>1. vol_state_transition(vol[o].st, "No_Ligner_IO") = "Detached" /\ "Detached" \in Live
    BY <1>4, Transitions DEF Live
  <2> QED BY <1>3, <2>1, SetSt
<1> HIDE DEF v
<1>6. /\ w \in VolRec /\ (w.used <=> v.used) /\ w.id = v.id /\ w.st = v.st /\ w.queue = "dead"
      /\ w.lgr = v.lgr /\ w.linger = v.linger /\ w.freed = v.freed + 1
  BY <1>5, SetFreed
<1> HIDE DEF w
<1>7. vol' \in [Obj -> VolRec] /\ vol'[o] = w /\ \A p \in Obj \ {o} : vol'[p] = vol[p]
  BY <1>1, <1>3, <1>6, VolEffect DEF DriverInv
<1>8. /\ th' \in [Thread -> ThRec] /\ th'[t].pc = "end" /\ th'[t].obj = NoObj
      /\ th'[t].id = th[t].id /\ \A u \in Thread \ {t} : th'[u] = th[u]
  <2>1. "end" \in PCs /\ NoObj \in Obj \cup {NoObj}
    BY DEF PCs
  <2> QED BY <1>1, <2>1, GotoEffect DEF DriverInv, End
<1>9. ObjOne(o)'
  BY <1>3, <1>5, <1>6, <1>7 DEF ObjOne, SameId
<1>10. ThOne(t)' /\ ~Owner(t)'
  BY <1>3, <1>8 DEF ThOne, Owner, Holds, Attaching, Detaching, Waiting
<1>11. \A u \in Thread \ {t} : th[u].obj # o
  <2> SUFFICES ASSUME NEW u \in Thread \ {t}, th[u].obj = o PROVE FALSE
    OBVIOUS
  <2>1. ThOne(u) /\ ~Owner(u)
    BY <1>3 DEF DriverInv, ThInv
  <2>2. th[u].pc \in Waiting /\ th[u].pc # "free" /\ th[u].pc # "idle"
    BY <1>3, <2>1 DEF ThOne, Holds, Owner, Waiting
  <2>3. th[u].id \in VolID /\ table[th[u].id] = o
    BY <2>1, <2>2 DEF ThOne, Holds
  <2> QED BY <1>4, <2>3
<1>12. th'[t].pc \notin {"idle"} \cup Stopping
  BY <1>8 DEF Stopping
<1>13. vol'[o].id = vol[o].id /\ (vol'[o].used <=> vol[o].used)
  BY <1>5, <1>6, <1>7 DEF SameId
<1> QED
  BY <1>1, <1>3, <1>4, <1>7, <1>8, <1>9, <1>10, <1>11, <1>12, <1>13, OwnerStep

-----------------------------------------------------------------------------
(* The users' side.                                                         *)
LEMMA OpenStep ==
  ASSUME DriverInv, NEW o \in Obj, OpenChecks(o) \/ OpenCounts(o) \/ Release(o)
  PROVE  DriverInv'
<1>1. UNCHANGED <<drv_state, busy, table, attached, minor_free, rd, th>>
  BY DEF OpenChecks, OpenCounts, Release
<1>2. vol[o] \in VolRec /\ vol[o].open \in Nat /\ ObjOne(o)
  BY VolFields DEF DriverInv, TypeInv, ObjInv
<1>3. CASE OpenChecks(o)
  <2>1. /\ vol' = vol /\ vol' \in [Obj -> VolRec] /\ vol[o].st # "Detaching"
        /\ opener' = opener \cup {o}
    BY <1>3 DEF OpenChecks, DriverInv, TypeInv, is_vol_detaching
  <2>2. SameId(vol[o], vol'[o]) /\ vol[o].linger <= vol[o].lgr
    BY <1>2, <2>1 DEF SameId, ObjOne
  <2> QED BY <1>1, <2>1, <2>2, UserStep
<1>4. CASE OpenCounts(o) \/ Release(o)
  <2> DEFINE n == IF OpenCounts(o) THEN vol[o].open + 1 ELSE vol[o].open - 1
             w == [vol[o] EXCEPT !.open = n]
  <2>1. vol' = [vol EXCEPT ![o] = w] /\ n \in Nat
    BY <1>2, <1>4 DEF OpenCounts, Release
  <2>2. /\ w \in VolRec /\ SameId(vol[o], w) /\ w.st = vol[o].st /\ w.queue = vol[o].queue
        /\ w.open = n /\ w.lgr = vol[o].lgr /\ w.linger = vol[o].linger
        /\ w.freed = vol[o].freed
    <3> HIDE DEF n
    <3> QED BY <1>2, <2>1, SetOpen
  <2>3. \A p \in Obj \ {o} : p \in opener' <=> p \in opener
    BY <1>4 DEF OpenCounts, Release
  <2>4. ~(vol[o].used /\ vol[o].freed = 0 /\ vol[o].st = "Detaching" /\ ~vol[o].late)
    BY <1>2, <1>4 DEF ObjOne, OpenCounts, Release
  <2> HIDE DEF w, n
  <2>5. vol' \in [Obj -> VolRec] /\ vol'[o] = w /\ \A p \in Obj \ {o} : vol'[p] = vol[p]
    BY <2>1, <2>2, VolEffect DEF DriverInv
  <2>6. w.linger <= w.lgr
    BY <1>2, <2>2 DEF ObjOne
  <2> QED BY <1>1, <2>2, <2>3, <2>4, <2>5, <2>6, UserStep
<1> QED BY <1>3, <1>4

LEMMA RequestStep ==
  ASSUME DriverInv, NEW o \in Obj, Request(o) PROVE DriverInv'
<1>1. UNCHANGED <<drv_state, busy, table, attached, minor_free, rd, th, opener>>
  BY DEF Request, FetchRequest, AdmitRequest, EndRequest
<1>2. /\ vol[o] \in VolRec /\ vol[o].lgr \in Nat /\ vol[o].linger \in Nat
      /\ vol[o].linger <= vol[o].lgr /\ ObjOne(o)
  BY VolFields DEF DriverInv, TypeInv, ObjInv, ObjOne
<1>3. PICK m \in Nat, n \in Nat :
        /\ vol' = [vol EXCEPT ![o] = [vol[o] EXCEPT !.linger = m, !.lgr = n]] /\ m <= n
        /\ vol[o].queue # "run" /\ vol[o].lgr = 0 => n = 0
  <2>1. CASE FetchRequest(o)
    <3>1. vol' = [vol EXCEPT ![o] = [vol[o] EXCEPT !.linger = vol[o].linger, !.lgr = vol[o].lgr + 1]]
      <4>1. [vol[o] EXCEPT !.lgr = vol[o].lgr + 1]
            = [vol[o] EXCEPT !.linger = vol[o].linger, !.lgr = vol[o].lgr + 1]
        BY <1>2 DEF VolRec
      <4>2. vol' = [vol EXCEPT ![o] = [vol[o] EXCEPT !.lgr = vol[o].lgr + 1]]
        BY <2>1 DEF FetchRequest
      <4> QED BY <4>1, <4>2
    <3>2. vol[o].linger <= vol[o].lgr + 1 /\ vol[o].queue = "run" /\ vol[o].lgr + 1 \in Nat
      BY <1>2, <2>1 DEF FetchRequest
    <3> QED BY <1>2, <3>1, <3>2
  <2>2. CASE AdmitRequest(o)
    <3>1. vol' = [vol EXCEPT ![o] = [vol[o] EXCEPT !.linger = vol[o].linger + 1, !.lgr = vol[o].lgr]]
      <4>1. [vol[o] EXCEPT !.linger = vol[o].linger + 1]
            = [vol[o] EXCEPT !.linger = vol[o].linger + 1, !.lgr = vol[o].lgr]
        BY <1>2 DEF VolRec
      <4>2. vol' = [vol EXCEPT ![o] = [vol[o] EXCEPT !.linger = vol[o].linger + 1]]
        BY <2>2 DEF AdmitRequest
      <4> QED BY <4>1, <4>2
    <3>2. vol[o].linger + 1 <= vol[o].lgr /\ vol[o].linger + 1 \in Nat
      BY <1>2, <2>2 DEF AdmitRequest
    <3> QED BY <1>2, <3>1, <3>2
  <2>3. CASE EndRequest(o)
    <3>1. vol' = [vol EXCEPT ![o] = [vol[o] EXCEPT !.linger = vol[o].linger - 1, !.lgr = vol[o].lgr - 1]]
      BY <1>2, <2>3 DEF EndRequest, DriverInv, TypeInv
    <3>2. /\ vol[o].linger - 1 <= vol[o].lgr - 1 /\ vol[o].linger - 1 \in Nat
          /\ vol[o].lgr - 1 \in Nat /\ vol[o].lgr # 0
      BY <1>2, <2>3 DEF EndRequest
    <3> QED BY <3>1, <3>2
  <2> QED BY <2>1, <2>2, <2>3 DEF Request
<1> DEFINE w == [vol[o] EXCEPT !.linger = m, !.lgr = n]
<1>4. /\ w \in VolRec /\ SameId(vol[o], w) /\ w.st = vol[o].st /\ w.queue = vol[o].queue
      /\ w.open = vol[o].open /\ w.lgr = n /\ w.linger = m /\ w.freed = vol[o].freed
  <2>1. m \in Nat /\ n \in Nat
    BY <1>3
  <2>2. vol[o] \in VolRec
    BY <1>2
  <2> QED BY <2>1, <2>2 DEF w, VolRec, SameId
<1>5. vol' = [vol EXCEPT ![o] = w]
  BY <1>3
<1> HIDE DEF w
<1>6. vol' \in [Obj -> VolRec] /\ vol'[o] = w /\ \A p \in Obj \ {o} : vol'[p] = vol[p]
  BY <1>4, <1>5, VolEffect DEF DriverInv
<1>7. vol[o].used /\ vol[o].freed = 0 /\ vol[o].st = "Detaching" /\ ~vol[o].late => w.open = 0 /\ o \notin opener'
  BY <1>1, <1>2, <1>4 DEF ObjOne
<1> QED BY <1>1, <1>3, <1>4, <1>6, <1>7, UserStep

-----------------------------------------------------------------------------
(* Ioctls begin and end, and the driver starts.                             *)
LEMMA IoctlStep ==
  ASSUME DriverInv, NEW t \in Thread,
         \/ \E c \in Cmds[t] : do_normal_ioctl(t, c[1], c[2])
         \/ EndIoctl(t)
  PROVE  DriverInv'
<1>1. UNCHANGED <<drv_state, vol, table, attached, minor_free, rd, opener>>
  BY DEF do_normal_ioctl, EndIoctl
<1>2. /\ th' \in [Thread -> ThRec] /\ \A u \in Thread \ {t} : th'[u] = th[u]
      /\ th'[t].pc # "idle" => th'[t].id \in VolID
      /\ th'[t].obj = NoObj
      /\ \/ /\ th[t].pc = "idle" /\ th'[t].pc = "start" /\ drv_state = "running"
            /\ busy' = busy \cup {t}
         \/ th[t].pc = "end" /\ th'[t].pc = "idle" /\ busy' = busy \ {t}
  <2>1. CASE \E c \in Cmds[t] : do_normal_ioctl(t, c[1], c[2])
    <3>1. PICK c \in Cmds[t] : do_normal_ioctl(t, c[1], c[2])
      BY <2>1
    <3>2. c[1] \in Ops /\ c[2] \in VolID
      BY Constants
    <3> DEFINE r == [pc |-> "start", op |-> c[1], id |-> c[2], obj |-> NoObj]
    <3>3. r \in ThRec /\ r.pc = "start" /\ r.id = c[2] /\ r.obj = NoObj
      BY <3>2 DEF ThRec, PCs
    <3>4. th' = [th EXCEPT ![t] = r]
      BY <3>1 DEF do_normal_ioctl
    <3> HIDE DEF r
    <3>5. th' \in [Thread -> ThRec] /\ th'[t] = r /\ \A u \in Thread \ {t} : th'[u] = th[u]
      BY <3>3, <3>4 DEF DriverInv, TypeInv
    <3>6. th[t].pc = "idle" /\ drv_state = "running" /\ busy' = busy \cup {t}
      BY <3>1 DEF do_normal_ioctl, is_drv_running
    <3> QED BY <3>2, <3>3, <3>5, <3>6
  <2>2. CASE EndIoctl(t)
    <3>1. Idle \in ThRec /\ Idle.pc = "idle" /\ Idle.obj = NoObj
      BY DEF Idle, ThRec, PCs
    <3>2. th' = [th EXCEPT ![t] = Idle] /\ th[t].pc = "end" /\ busy' = busy \ {t}
      BY <2>2 DEF EndIoctl
    <3>3. th' \in [Thread -> ThRec] /\ th'[t] = Idle /\ \A u \in Thread \ {t} : th'[u] = th[u]
      BY <3>1, <3>2 DEF DriverInv, TypeInv
    <3> QED BY <3>1, <3>2, <3>3
  <2> QED BY <2>1, <2>2
<1>3. TypeInv'
  BY <1>1, <1>2 DEF DriverInv, TypeInv
<1>4. ObjInv'
  BY <1>1 DEF DriverInv, ObjInv, ObjOne
<1>5. TabInv'
  BY <1>1 DEF DriverInv, TabInv, TabOne, InTable
<1>6. PhaseInv'
  <2>1. th'[t].pc \notin Stopping /\ th[t].pc \notin Stopping
    BY <1>2 DEF Stopping
  <2>2. \A u \in Thread : u \in busy' <=> th'[u].pc # "idle"
    BY <1>2 DEF DriverInv, PhaseInv
  <2>3. CASE th[t].pc = "idle" /\ th'[t].pc = "start" /\ drv_state = "running"
    <3>1. \A u \in Thread : th[u].pc \notin Stopping
      BY <2>3 DEF DriverInv, PhaseInv
    <3> QED BY <1>1, <1>2, <2>1, <2>2, <2>3, <3>1 DEF PhaseInv
  <2>4. CASE th[t].pc = "end" /\ th'[t].pc = "idle"
    BY <1>1, <1>2, <2>1, <2>2, <2>4 DEF DriverInv, PhaseInv
  <2> QED BY <1>2, <2>3, <2>4
<1>7. ~Owner(t)'
  BY <1>2 DEF Owner, Attaching, Detaching
<1>8. OwnInv'
  BY <1>2, <1>7, OwnMove DEF DriverInv
<1>9. ASSUME NEW u \in Thread \ {t} PROVE ThOne(u)'
  BY <1>1, <1>2 DEF DriverInv, ThInv, ThOne, Holds
<1>10. ThOne(t)'
  BY <1>2 DEF ThOne, Holds, Attaching, Detaching, Waiting
<1>11. ThInv'
  BY <1>9, <1>10 DEF ThInv
<1> QED BY <1>3, <1>4, <1>5, <1>6, <1>8, <1>11 DEF DriverInv

LEMMA InitDrvStep == ASSUME DriverInv, init_drv_component PROVE DriverInv'
<1>1. /\ drv_state = "init" /\ drv_state' = "running" /\ minor_free' = Minors /\ attached' = 0
      /\ UNCHANGED <<busy, vol, table, rd, opener, th>>
  BY DEF init_drv_component, drv_state_transition
<1>2. /\ \A t \in Thread : th[t].pc = "idle"
      /\ \A i \in VolID : table[i] = NoObj
  BY <1>1 DEF DriverInv, PhaseInv
<1>3. TypeInv'
  BY <1>1 DEF DriverInv, TypeInv, DrvStates
<1>4. ObjInv' /\ OwnInv'
  BY <1>1 DEF DriverInv, ObjInv, ObjOne, OwnInv, Owner
<1>5. InTable' = {}
  BY <1>1, <1>2 DEF InTable
<1>6. TabInv'
  BY <1>1, <1>2, <1>5, FS_EmptySet DEF TabInv, TabOne
<1>7. PhaseInv'
  BY <1>1, <1>2 DEF DriverInv, PhaseInv, Stopping
<1>8. ThInv'
  BY <1>1 DEF DriverInv, ThInv, ThOne, Holds
<1> QED BY <1>3, <1>4, <1>6, <1>7, <1>8 DEF DriverInv

-----------------------------------------------------------------------------
(* The table grows and shrinks.                                             *)
LEMMA TableFinite == ASSUME TypeInv PROVE IsFiniteSet(InTable)
<1> DEFINE R == {table[i] : i \in VolID}
<1>1. table \in [VolID -> R] /\ \A x \in R : \E i \in VolID : table[i] = x
  BY DEF TypeInv
<1>2. table \in Surjection(VolID, R)
  BY <1>1 DEF Surjection
<1>3. IsFiniteSet(R)
  BY <1>2, Constants, FS_Surjection
<1>4. InTable \subseteq R
  BY DEF InTable
<1> QED BY <1>3, <1>4, FS_Subset

(* A structure that was never used is in nobody's hands.                    *)
LEMMA Unused ==
  ASSUME DriverInv, NEW o \in Obj, ~vol[o].used
  PROVE  /\ \A i \in VolID : table[i] # o
         /\ \A u \in Thread : th[u].obj # o
<1>1. o # NoObj
  BY Constants
<1>2. \A i \in VolID : table[i] # o
  BY <1>1 DEF DriverInv, TabInv, TabOne
<1>3. \A u \in Thread : th[u].obj # o
  BY <1>1 DEF DriverInv, ThInv, ThOne
<1> QED BY <1>2, <1>3

LEMMA TabAdd ==
  ASSUME TypeInv, TabInv, NEW id \in VolID, table[id] = NoObj, NEW o \in Obj,
         \A i \in VolID : table[i] # o, NEW n \in minor_free,
         table' = [table EXCEPT ![id] = o], minor_free' = minor_free \ {n},
         attached' = attached + 1, UNCHANGED drv_state,
         \A p \in Obj \ {o} : vol'[p] = vol[p],
         vol'[o].used, vol'[o].freed = 0, vol'[o].id = id, vol'[o].minor = n
  PROVE  TabInv' /\ table' \in [VolID -> Obj \cup {NoObj}] /\ minor_free' \subseteq Minors
<1>1. /\ table' \in [VolID -> Obj \cup {NoObj}] /\ minor_free' \subseteq Minors
      /\ table'[id] = o /\ \A i \in VolID \ {id} : table'[i] = table[i]
      /\ n \in Minors /\ NoObj \notin Obj
  BY Constants DEF TypeInv
<1>2. \A i \in VolID \ {id} : table[i] # NoObj => table[i] \in Obj \ {o}
  BY DEF TypeInv
<1>3. ASSUME NEW i \in VolID PROVE TabOne(i)'
  <2>1. CASE i = id
    BY <1>1, <2>1 DEF TabOne
  <2>2. CASE i # id
    BY <1>1, <1>2, <2>2 DEF TabOne, TabInv
  <2> QED BY <2>1, <2>2
<1>4. ASSUME NEW i \in VolID, NEW j \in VolID, table'[i] # NoObj, table'[j] # NoObj,
             vol'[table'[i]].minor = vol'[table'[j]].minor
      PROVE  i = j
  <2>1. \A k \in VolID \ {id} : table'[k] # NoObj =>
          vol'[table'[k]].minor = vol[table[k]].minor /\ vol[table[k]].minor # n
    BY <1>1, <1>2 DEF TabInv, TabOne
  <2> QED BY <1>1, <1>4, <2>1 DEF TabInv
<1>5. ASSUME drv_state' # "init", NEW m \in Minors, m \notin minor_free'
      PROVE  \E i \in VolID : table'[i] # NoObj /\ vol'[table'[i]].minor = m
  <2>1. CASE m = n
    BY <1>1, <2>1
  <2>2. CASE m # n
    <3>1. PICK i \in VolID : table[i] # NoObj /\ vol[table[i]].minor = m
      BY <1>5, <2>2 DEF TabInv
    <3> QED BY <1>1, <1>2, <3>1
  <2> QED BY <2>1, <2>2
<1>6. attached' = Cardinality(InTable')
  <2>1. InTable' = InTable \cup {o} /\ o \notin InTable
    BY <1>1 DEF InTable
  <2> QED BY <2>1, TableFinite, FS_AddElement DEF TabInv
<1> QED BY <1>1, <1>3, <1>4, <1>5, <1>6 DEF TabInv

LEMMA TabRemove ==
  ASSUME TypeInv, TabInv, NEW id \in VolID, NEW o \in Obj, table[id] = o, RmFromTable(id),
         UNCHANGED drv_state, \A p \in Obj \ {o} : vol'[p] = vol[p]
  PROVE  /\ TabInv' /\ table' \in [VolID -> Obj \cup {NoObj}] /\ minor_free' \subseteq Minors
         /\ table'[id] = NoObj /\ \A i \in VolID \ {id} : table'[i] = table[i] /\ table[i] # o
<1>1. TabOne(id) /\ o # NoObj
  BY Constants DEF TabInv
<1>2. /\ table' \in [VolID -> Obj \cup {NoObj}] /\ minor_free' \subseteq Minors
      /\ minor_free' = minor_free \cup {vol[o].minor} /\ attached' = attached - 1
      /\ table'[id] = NoObj /\ \A i \in VolID \ {id} : table'[i] = table[i]
  BY <1>1 DEF TypeInv, RmFromTable, TabOne
<1>3. \A i \in VolID \ {id} : table[i] # o
  BY <1>1 DEF TabInv, TabOne
<1>4. \A i \in VolID : table'[i] # NoObj =>
        i # id /\ table'[i] = table[i] /\ vol'[table[i]] = vol[table[i]]
  BY <1>2, <1>3 DEF TypeInv
<1>5. ASSUME NEW i \in VolID PROVE TabOne(i)'
  <2> SUFFICES ASSUME table'[i] # NoObj PROVE TabOne(i)'
    BY DEF TabOne
  <2>1. vol[table[i]].minor # vol[o].minor /\ TabOne(i)
    BY <1>1, <1>4 DEF TabInv
  <2> QED BY <1>2, <1>4, <2>1 DEF TabOne
<1>6. ASSUME NEW i \in VolID, NEW j \in VolID, table'[i] # NoObj, table'[j] # NoObj,
             vol'[table'[i]].minor = vol'[table'[j]].minor
      PROVE  i = j
  BY <1>4, <1>6 DEF TabInv
<1>7. ASSUME drv_state' # "init", NEW m \in Minors, m \notin minor_free'
      PROVE  \E i \in VolID : table'[i] # NoObj /\ vol'[table'[i]].minor = m
  <2>1. PICK i \in VolID : table[i] # NoObj /\ vol[table[i]].minor = m
    BY <1>2, <1>7 DEF TabInv
  <2>2. i # id /\ table'[i] # NoObj
    BY <1>2, <1>7, <2>1
  <2> QED BY <1>4, <2>1, <2>2
<1>8. attached' = Cardinality(InTable')
  <2>1. InTable' = InTable \ {o} /\ o \in InTable
    BY <1>1, <1>2, <1>3 DEF InTable
  <2> QED BY <1>2, <2>1, TableFinite, FS_RemoveElement DEF TabInv
<1> QED BY <1>2, <1>3, <1>5, <1>6, <1>7, <1>8 DEF TabInv

(* An attach takes a structure and a minor number that nobody has.          *)
LEMMA AddStep ==
  ASSUME DriverInv, NEW t \in Thread, NEW o \in Allocated, NEW n \in alloc_dev_minor_number,
         add_vol_to_table(t, o, n)
  PROVE  DriverInv'
<1>1. /\ th[t].pc = "add" /\ th[t].pc \notin {"idle", "end"} \cup Stopping
      /\ UNCHANGED <<drv_state, busy, rd, opener>> /\ th[t].id \in VolID
  <2>1. th[t].pc = "add" /\ UNCHANGED <<drv_state, busy, rd, opener>>
    BY DEF add_vol_to_table
  <2> QED BY <2>1 DEF DriverInv, ThInv, ThOne, Stopping
<1>2. CASE End(t) /\ UNCHANGED <<vol, table, attached, minor_free>>
  <2>1. vol' \in [Obj -> VolRec] /\ \A p \in Obj : Gentle(p)
    BY <1>2, GentleSame DEF DriverInv
  <2> QED BY <1>1, <1>2, <2>1, CommandEnds
<1>3. CASE ~(table[th[t].id] # NoObj \/ n = 0 \/ o = NoObj)
  <2> SUFFICES ASSUME NEW id \in VolID, id = th[t].id PROVE DriverInv'
    BY <1>1
  <2> DEFINE w == [NewVol EXCEPT !.id = id, !.minor = n, !.used = TRUE]
  <2>1. /\ vol' = [vol EXCEPT ![o] = w] /\ table' = [table EXCEPT ![id] = o]
        /\ minor_free' = minor_free \ {n} /\ attached' = attached + 1
        /\ Goto(t, "initdev", o)
    BY <1>3 DEF add_vol_to_table
  <2>2. /\ o \in Obj /\ ~vol[o].used /\ n \in minor_free /\ n \in Minors /\ table[id] = NoObj
        /\ o # NoObj
    BY <1>3 DEF Allocated, alloc_dev_minor_number, OrElse, DriverInv, TypeInv
  <2>3. /\ w \in VolRec /\ w.used /\ w.id = id /\ w.minor = n /\ w.st = "Attaching"
        /\ w.queue = "none" /\ w.open = 0 /\ w.lgr = 0 /\ w.linger = 0 /\ w.freed = 0
    BY <2>2, FreshVol
  <2> HIDE DEF w
  <2>4. vol' \in [Obj -> VolRec] /\ vol'[o] = w /\ \A p \in Obj \ {o} : vol'[p] = vol[p]
    BY <2>1, <2>2, <2>3, VolEffect DEF DriverInv
  <2>5. /\ th' \in [Thread -> ThRec] /\ th'[t].pc = "initdev" /\ th'[t].obj = o
        /\ th'[t].id = id /\ \A u \in Thread \ {t} : th'[u] = th[u]
    <3>1. "initdev" \in PCs /\ o \in Obj \cup {NoObj}
      BY <2>2 DEF PCs, Attaching
    <3> QED BY <2>1, <3>1, GotoEffect DEF DriverInv
  <2>6. (\A i \in VolID : table[i] # o) /\ \A u \in Thread : th[u].obj # o
    BY <2>2, Unused
  <2>7. TabInv' /\ table' \in [VolID -> Obj \cup {NoObj}] /\ minor_free' \subseteq Minors
    BY <1>1, <2>1, <2>2, <2>3, <2>4, <2>6, TabAdd DEF DriverInv
  <2>8. TypeInv'
    BY <1>1, <2>4, <2>5, <2>7 DEF DriverInv, TypeInv
  <2>9. ObjInv'
    <3>1. ObjOne(o)'
      BY <2>3, <2>4 DEF ObjOne
    <3>2. ASSUME NEW p \in Obj \ {o} PROVE ObjOne(p)'
      BY <1>1, <2>4 DEF DriverInv, ObjInv, ObjOne
    <3> QED BY <3>1, <3>2 DEF ObjInv
  <2>10. PhaseInv'
    BY <1>1, <2>5, PhaseMove DEF DriverInv, Stopping
  <2>11. OwnInv'
    BY <2>5, <2>6, OwnMove DEF DriverInv
  <2>12. table'[id] = o /\ \A i \in VolID \ {id} : table'[i] = table[i]
    BY <2>1 DEF DriverInv, TypeInv
  <2>13. ASSUME NEW u \in Thread \ {t} PROVE ThOne(u)'
    <3>1. ThOne(u) /\ th[u].obj # o
      BY <2>6 DEF DriverInv, ThInv
    <3>2. Holds(u) => th[u].obj \in Obj \ {o} /\ th[u].pc # "idle" /\ th[u].obj # NoObj
      BY <3>1, Constants DEF ThOne, Holds, Attaching, Detaching, Waiting
    <3>3. Holds(u) => vol'[th[u].obj] = vol[th[u].obj]
      BY <2>4, <3>2
    <3>4. Holds(u) /\ th[u].pc # "free" => table'[th[u].id] = table[th[u].id]
      BY <2>2, <2>12, <3>1, <3>2 DEF ThOne
    <3>5. /\ Owner(u) => Holds(u)
          /\ th[u].pc \in {"del", "rm", "free"} => Holds(u) /\ vol[th[u].obj].lgr = 0
          /\ th[u].pc = "free" => \A i \in VolID : table'[i] # th[u].obj
      BY <2>12, <3>1 DEF Owner, Holds, Detaching, ThOne
    <3> QED BY <1>1, <2>5, <3>3, <3>4, <3>5, OtherKept DEF DriverInv
  <2>14. ThOne(t)'
    BY <2>2, <2>3, <2>4, <2>5, <2>12 DEF ThOne, Holds, Attaching, Detaching, Waiting
  <2>15. ThInv'
    BY <2>13, <2>14 DEF ThInv
  <2> QED BY <2>7, <2>8, <2>9, <2>10, <2>11, <2>15 DEF DriverInv
<1> QED BY <1>2, <1>3 DEF add_vol_to_table

(* The owner of a structure takes it out of the table: nobody waits with    *)
(* the bucket lock, so nobody else holds it.                                *)
LEMMA OwnerRemoves ==
  ASSUME DriverInv, NEW t \in Thread, Owner(t), th[t].pc # "free", rd = {},
         NEW o \in Obj, o = th[t].obj, RmFromTable(th[t].id),
         UNCHANGED <<drv_state, busy, rd, opener>>,
         vol' \in [Obj -> VolRec], \A p \in Obj \ {o} : vol'[p] = vol[p],
         th' \in [Thread -> ThRec], \A u \in Thread \ {t} : th'[u] = th[u],
         th'[t].pc \notin {"idle"} \cup Stopping, th'[t].id = th[t].id,
         Owner(t)' => th'[t].obj = o, ObjOne(o)',
         table'[th[t].id] = NoObj /\ (\A i \in VolID : table'[i] # o) => ThOne(t)'
  PROVE  DriverInv'
<1> SUFFICES ASSUME NEW id \in VolID, id = th[t].id PROVE DriverInv'
  BY OwnerKnows
<1>1. /\ th[t].pc \notin {"idle", "end"} \cup Stopping /\ ThOne(t) /\ o # NoObj
      /\ \A u \in Thread \ {t} : Owner(u) => th[u].obj # o
  BY OwnerKnows
<1>2. table[id] = o
  BY <1>1 DEF ThOne, Holds, Owner
<1>3. /\ TabInv' /\ table' \in [VolID -> Obj \cup {NoObj}] /\ minor_free' \subseteq Minors
      /\ table'[id] = NoObj /\ \A i \in VolID \ {id} : table'[i] = table[i] /\ table[i] # o
  BY <1>2, TabRemove DEF DriverInv
<1>4. TypeInv'
  BY <1>3 DEF DriverInv, TypeInv
<1>5. ObjInv'
  <2> SUFFICES ASSUME NEW p \in Obj \ {o} PROVE ObjOne(p)'
    BY DEF ObjInv
  <2> QED BY DEF DriverInv, ObjInv, ObjOne
<1>6. PhaseInv'
  BY <1>1, PhaseMove DEF DriverInv
<1>7. OwnInv'
  BY <1>1, OwnMove DEF DriverInv
<1>8. ASSUME NEW u \in Thread \ {t} PROVE ThOne(u)'
  <2>1. ThOne(u)
    BY DEF DriverInv, ThInv
  <2>2. Holds(u) => Owner(u) /\ th[u].obj \in Obj \ {o} /\ th[u].pc # "idle" /\ th[u].obj # NoObj
    BY <1>1, <2>1, Constants DEF ThOne, Holds, Owner, Attaching, Detaching, Waiting
  <2>3. Holds(u) => vol'[th[u].obj] = vol[th[u].obj]
    BY <2>2
  <2>4. Holds(u) /\ th[u].pc # "free" => table'[th[u].id] = table[th[u].id]
    BY <1>2, <1>3, <2>1, <2>2 DEF ThOne
  <2>5. /\ Owner(u) => Holds(u)
        /\ th[u].pc \in {"del", "rm", "free"} => Holds(u) /\ vol[th[u].obj].lgr = 0
        /\ th[u].pc = "free" => \A i \in VolID : table'[i] # th[u].obj
    BY <1>3, <2>1, <2>2 DEF Owner, Holds, Detaching, ThOne
  <2> QED BY <2>3, <2>4, <2>5, OtherKept DEF DriverInv
<1>9. \A i \in VolID : table'[i] # o
  BY <1>1, <1>3
<1>10. ThInv'
  BY <1>3, <1>8, <1>9 DEF ThInv
<1> QED BY <1>3, <1>4, <1>5, <1>6, <1>7, <1>10 DEF DriverInv

(* An attach that failed takes its volume back.                             *)
LEMMA UndoAttachStep ==
  ASSUME DriverInv, NEW t \in Thread, UndoAttach(t) PROVE DriverInv'
<1> SUFFICES ASSUME NEW o, o = th[t].obj PROVE DriverInv'
  OBVIOUS
<1> DEFINE w == free_volume(vol[o])
<1>1. /\ th[t].pc = "undo" /\ rd = {} /\ End(t) /\ vol' = [vol EXCEPT ![o] = w]
      /\ UNCHANGED <<drv_state, busy, rd, opener>>
  BY DEF UndoAttach
<1>2. Owner(t)
  BY <1>1 DEF Owner, Attaching
<1>3. /\ th[t].id \in VolID /\ o \in Obj /\ o # NoObj /\ vol[o] \in VolRec
      /\ vol[o].freed = 0 /\ ObjOne(o) /\ ThOne(t)
  BY <1>2, OwnerKnows
<1>4. table[th[t].id] = o
  BY <1>1, <1>3 DEF ThOne, Holds, Attaching
<1>5. RmFromTable(th[t].id)
  BY <1>3, <1>4 DEF UndoAttach
<1>6. w \in VolRec /\ w.lgr = vol[o].lgr /\ w.linger = vol[o].linger /\ w.freed = 1
  BY <1>3, SetFreed
<1> HIDE DEF w
<1>7. vol' \in [Obj -> VolRec] /\ vol'[o] = w /\ \A p \in Obj \ {o} : vol'[p] = vol[p]
  BY <1>1, <1>3, <1>6, VolEffect DEF DriverInv
<1>8. /\ th' \in [Thread -> ThRec] /\ th'[t].pc = "end" /\ th'[t].obj = NoObj
      /\ th'[t].id = th[t].id /\ \A u \in Thread \ {t} : th'[u] = th[u]
  <2>1. "end" \in PCs /\ NoObj \in Obj \cup {NoObj}
    BY DEF PCs
  <2> QED BY <1>1, <2>1, GotoEffect DEF DriverInv, End
<1>9. ObjOne(o)'
  BY <1>3, <1>6, <1>7 DEF ObjOne
<1>10. ThOne(t)' /\ ~Owner(t)' /\ th'[t].pc \notin {"idle"} \cup Stopping
  BY <1>3, <1>8 DEF ThOne, Owner, Holds, Attaching, Detaching, Waiting, Stopping
<1>11. th[t].pc # "free"
  BY <1>1
<1> QED BY <1>1, <1>2, <1>3, <1>5, <1>7, <1>8, <1>9, <1>10, <1>11, OwnerRemoves

(* A detach that is done takes its volume out.                              *)
LEMMA RmStep ==
  ASSUME DriverInv, NEW t \in Thread, rm_vol_from_table(t) PROVE DriverInv'
<1> SUFFICES ASSUME NEW o, o = th[t].obj PROVE DriverInv'
  OBVIOUS
<1>1. /\ th[t].pc = "rm" /\ rd = {} /\ vol' = vol
      /\ UNCHANGED <<drv_state, busy, rd, opener>>
  BY DEF rm_vol_from_table
<1>2. Owner(t)
  BY <1>1 DEF Owner, Detaching
<1>3. /\ th[t].id \in VolID /\ o \in Obj /\ o # NoObj /\ vol[o] \in VolRec
      /\ vol[o].used /\ vol[o].freed = 0 /\ ObjOne(o) /\ ThOne(t)
  BY <1>2, OwnerKnows
<1>4. /\ table[th[t].id] = o /\ vol[o].st = "Detaching" /\ vol[o].queue = "dead"
      /\ vol[o].lgr = 0
  BY <1>1, <1>3 DEF ThOne, Holds, Detaching
<1>5. RmFromTable(th[t].id) /\ Goto(t, "free", o)
  BY <1>3, <1>4 DEF rm_vol_from_table
<1>6. vol' \in [Obj -> VolRec]
  BY <1>1 DEF DriverInv, TypeInv
<1>7. /\ th' \in [Thread -> ThRec] /\ th'[t].pc = "free" /\ th'[t].obj = o
      /\ th'[t].id = th[t].id /\ \A u \in Thread \ {t} : th'[u] = th[u]
  <2>1. "free" \in PCs /\ o \in Obj \cup {NoObj}
    BY <1>3 DEF PCs, Detaching
  <2> QED BY <1>5, <2>1, GotoEffect DEF DriverInv
<1>8. ObjOne(o)'
  BY <1>1, <1>3 DEF ObjOne
<1>9. (\A i \in VolID : table'[i] # o) => ThOne(t)'
  BY <1>1, <1>3, <1>4, <1>7 DEF ThOne, Holds, Attaching, Detaching, Waiting
<1>10. th'[t].pc \notin {"idle"} \cup Stopping /\ th[t].pc # "free"
  BY <1>1, <1>7 DEF Stopping
<1> QED BY <1>1, <1>2, <1>3, <1>5, <1>6, <1>7, <1>8, <1>9, <1>10, OwnerRemoves

-----------------------------------------------------------------------------
(* A reset that goes on is the only ioctl.                                  *)
LEMMA AloneInBusy ==
  ASSUME DriverInv, NEW t \in Thread, th[t].pc # "idle", Cardinality(busy) <= 1
  PROVE  \A u \in Thread \ {t} : th[u].pc = "idle"
<1>1. t \in busy /\ IsFiniteSet(busy)
  BY Constants, FS_Subset DEF DriverInv, TypeInv, PhaseInv
<1>2. IsFiniteSet(busy \ {t}) /\ Cardinality(busy \ {t}) = Cardinality(busy) - 1
  BY <1>1, FS_RemoveElement
<1>3. Cardinality(busy \ {t}) \in Nat /\ Cardinality(busy) \in Nat
  BY <1>1, <1>2, FS_CardinalityType
<1>4. Cardinality(busy \ {t}) = 0
  BY <1>2, <1>3
<1>5. busy \ {t} = {}
  BY <1>2, <1>4, FS_EmptySet
<1> QED BY <1>5 DEF DriverInv, PhaseInv

(* A step of the only ioctl, between those that hold no volume.             *)
LEMMA AloneStep ==
  ASSUME DriverInv, NEW t \in Thread, th[t].pc # "idle",
         \A u \in Thread \ {t} : th[u].pc = "idle",
         th' \in [Thread -> ThRec], \A u \in Thread \ {t} : th'[u] = th[u],
         th'[t].pc \in {"end"} \cup Stopping, th'[t].obj = NoObj, th'[t].id = th[t].id,
         UNCHANGED busy, TypeInv', ObjInv', TabInv',
         th'[t].pc \in Stopping => drv_state' = "shuting_down",
         drv_state' # "init", drv_state' = "shutdown" => \A i \in VolID : table'[i] = NoObj
  PROVE  DriverInv'
<1>1. th[t].id \in VolID /\ \A u \in Thread \ {t} : ThOne(u)
  BY DEF DriverInv, ThInv, ThOne
<1>2. ThOne(t)'
  BY <1>1 DEF ThOne, Holds, Attaching, Detaching, Waiting, Stopping
<1>3. ASSUME NEW u \in Thread \ {t} PROVE ThOne(u)'
  BY <1>1 DEF ThOne, Holds, Attaching, Detaching, Waiting
<1>4. ThInv'
  BY <1>2, <1>3 DEF ThInv
<1>5. \A u \in Thread : ~Owner(u)'
  BY DEF Owner, Attaching, Detaching, Stopping
<1>6. OwnInv'
  BY <1>5 DEF OwnInv
<1>7. PhaseInv'
  BY DEF DriverInv, PhaseInv, Stopping
<1> QED BY <1>4, <1>6, <1>7 DEF DriverInv

LEMMA ShutdownStep ==
  ASSUME DriverInv, NEW t \in Thread, do_ioctl_shutdown(t) PROVE DriverInv'
<1>1. /\ th[t].pc = "start" /\ th[t].pc \notin {"idle", "end"} \cup Stopping
      /\ UNCHANGED <<busy, vol, table, attached, minor_free, rd, opener>>
  BY DEF do_ioctl_shutdown, Start, Stopping
<1>2. drv_state = "running"
  BY <1>1, Running DEF DriverInv
<1>3. CASE UNCHANGED drv_state /\ End(t)
  <2>1. vol' \in [Obj -> VolRec] /\ \A p \in Obj : Gentle(p)
    BY <1>1, GentleSame DEF DriverInv
  <2> QED BY <1>1, <1>3, <2>1, CommandEnds
<1>4. CASE /\ Cardinality(busy) <= 1 /\ Goto(t, "detachall", NoObj)
           /\ drv_state' = drv_state_transition(drv_state, "turn_off")
  <2>1. \A u \in Thread \ {t} : th[u].pc = "idle"
    BY <1>1, <1>4, AloneInBusy
  <2>2. drv_state' = "shuting_down"
    BY <1>2, <1>4 DEF drv_state_transition
  <2>3. /\ th' \in [Thread -> ThRec] /\ th'[t].pc = "detachall" /\ th'[t].obj = NoObj
        /\ th'[t].id = th[t].id /\ \A u \in Thread \ {t} : th'[u] = th[u]
    <3>1. "detachall" \in PCs /\ NoObj \in Obj \cup {NoObj}
      BY DEF PCs, Stopping
    <3> QED BY <1>4, <3>1, GotoEffect DEF DriverInv
  <2>4. TypeInv'
    BY <1>1, <2>2, <2>3 DEF DriverInv, TypeInv, DrvStates
  <2>5. ObjInv'
    BY <1>1 DEF DriverInv, ObjInv, ObjOne
  <2>6. TabInv'
    BY <1>1, <1>2, TabKept DEF DriverInv, Moved
  <2> QED BY <1>1, <2>1, <2>2, <2>3, <2>4, <2>5, <2>6, AloneStep DEF Stopping
<1> QED BY <1>3, <1>4 DEF do_ioctl_shutdown, try_stop_drv

(* The table loses the entries in D, with their structures and their minor  *)
(* numbers.                                                                 *)
LEMMA TabRemoveAll ==
  ASSUME TypeInv, TabInv, NEW D \in SUBSET VolID, \A i \in D : table[i] # NoObj,
         NEW S, S = {table[i] : i \in D},
         table' = [i \in VolID |-> IF i \in D THEN NoObj ELSE table[i]],
         attached' = attached - Cardinality(S),
         minor_free' = minor_free \cup {vol[o].minor : o \in S},
         UNCHANGED drv_state, \A p \in Obj \ S : vol'[p] = vol[p]
  PROVE  TabInv' /\ table' \in [VolID -> Obj \cup {NoObj}] /\ minor_free' \subseteq Minors
<1>1. \A i, j \in VolID : table[i] # NoObj /\ table[i] = table[j] => i = j
  BY DEF TabInv, TabOne
<1>2. \A i \in VolID : table'[i] # NoObj =>
        i \notin D /\ table'[i] = table[i] /\ vol'[table[i]] = vol[table[i]]
  BY <1>1 DEF TypeInv
<1>3. \A m : m \in minor_free' <=> m \in minor_free \/ \E i \in D : m = vol[table[i]].minor
  OBVIOUS
<1>4. ASSUME NEW i \in VolID PROVE TabOne(i)'
  <2> SUFFICES ASSUME table'[i] # NoObj PROVE TabOne(i)'
    BY DEF TabOne
  <2>1. \A j \in D : vol[table[i]].minor # vol[table[j]].minor
    BY <1>2 DEF TabInv
  <2>2. TabOne(i)
    BY DEF TabInv
  <2> QED BY <1>2, <1>3, <2>1, <2>2 DEF TabOne
<1>5. ASSUME NEW i \in VolID, NEW j \in VolID, table'[i] # NoObj, table'[j] # NoObj,
             vol'[table'[i]].minor = vol'[table'[j]].minor
      PROVE  i = j
  BY <1>2, <1>5 DEF TabInv
<1>6. ASSUME drv_state' # "init", NEW m \in Minors, m \notin minor_free'
      PROVE  \E i \in VolID : table'[i] # NoObj /\ vol'[table'[i]].minor = m
  <2>1. PICK i \in VolID : table[i] # NoObj /\ vol[table[i]].minor = m
    BY <1>3, <1>6 DEF TabInv
  <2>2. i \notin D /\ table'[i] = table[i]
    BY <1>3, <1>6, <2>1
  <2> QED BY <1>2, <2>1, <2>2
<1>7. attached' = Cardinality(InTable')
  <2>1. InTable' = InTable \ S /\ S \subseteq InTable
    BY <1>1 DEF InTable
  <2>2. IsFiniteSet(S) /\ InTable \cap S = S
    BY <2>1, TableFinite, FS_Subset
  <2>3. Cardinality(InTable \ S) = Cardinality(InTable) - Cardinality(InTable \cap S)
    BY TableFinite, FS_Difference
  <2> QED BY <2>1, <2>2, <2>3 DEF TabInv
<1>8. table' \in [VolID -> Obj \cup {NoObj}]
  BY DEF TypeInv
<1>9. minor_free' \subseteq Minors
  BY <1>3 DEF TypeInv, TabInv, TabOne
<1> QED BY <1>4, <1>5, <1>6, <1>7, <1>8, <1>9 DEF TabInv

LEMMA DetachAllStep ==
  ASSUME DriverInv, NEW t \in Thread, detach_all_volumes(t) PROVE DriverInv'
<1> SUFFICES ASSUME NEW D, NEW S, S = {table[i] : i \in D},
                    D = {i \in VolID : table[i] # NoObj /\ is_vol_detachable(vol[table[i]])}
             PROVE  DriverInv'
  OBVIOUS
<1>1. /\ th[t].pc = "detachall" /\ Goto(t, "linger", NoObj)
      /\ table' = [i \in VolID |-> IF i \in D THEN NoObj ELSE table[i]]
      /\ attached' = attached - Cardinality(S)
      /\ minor_free' = minor_free \cup {vol[o].minor : o \in S}
      /\ vol' = [o \in Obj |-> IF o \in S THEN free_volume(vol[o]) ELSE vol[o]]
      /\ UNCHANGED <<drv_state, busy, rd, opener>>
  BY DEF detach_all_volumes
<1>2. D \in SUBSET VolID /\ \A i \in D : table[i] # NoObj
  OBVIOUS
<1>3. drv_state = "shuting_down" /\ \A u \in Thread \ {t} : th[u].pc = "idle"
  BY <1>1 DEF DriverInv, PhaseInv, Stopping
<1>4. \A p \in Obj \ S : vol'[p] = vol[p]
  BY <1>1
<1>5. TabInv' /\ table' \in [VolID -> Obj \cup {NoObj}] /\ minor_free' \subseteq Minors
  BY <1>1, <1>2, <1>4, TabRemoveAll DEF DriverInv
<1>6. ASSUME NEW o \in Obj PROVE vol'[o] \in VolRec /\ ObjOne(o)'
  <2>1. vol[o] \in VolRec /\ ObjOne(o)
    BY DEF DriverInv, TypeInv, ObjInv
  <2>2. CASE o \in S
    <3> DEFINE w == free_volume(vol[o])
    <3>1. vol[o].freed = 0
      BY <1>2, <2>2 DEF DriverInv, TabInv, TabOne
    <3>2. w \in VolRec /\ w.lgr = vol[o].lgr /\ w.linger = vol[o].linger /\ w.freed = 1
      BY <2>1, <3>1, SetFreed
    <3>3. vol'[o] = w
      BY <1>1, <2>2
    <3> HIDE DEF w
    <3> QED BY <2>1, <3>2, <3>3 DEF ObjOne
  <2>3. CASE o \notin S
    BY <1>1, <2>1, <2>3 DEF ObjOne
  <2> QED BY <2>2, <2>3
<1>7. ObjInv' /\ vol' \in [Obj -> VolRec]
  BY <1>1, <1>6 DEF ObjInv
<1>8. /\ th' \in [Thread -> ThRec] /\ th'[t].pc = "linger" /\ th'[t].obj = NoObj
      /\ th'[t].id = th[t].id /\ \A u \in Thread \ {t} : th'[u] = th[u]
  <2>1. "linger" \in PCs /\ NoObj \in Obj \cup {NoObj}
    BY DEF PCs, Stopping
  <2> QED BY <1>1, <2>1, GotoEffect DEF DriverInv
<1>9. TypeInv'
  BY <1>1, <1>5, <1>7, <1>8 DEF DriverInv, TypeInv
<1> QED BY <1>1, <1>3, <1>5, <1>7, <1>8, <1>9, AloneStep DEF Stopping

LEMMA EndShutdownStep ==
  ASSUME DriverInv, NEW t \in Thread, EndShutdown(t) PROVE DriverInv'
<1>1. /\ th[t].pc = "linger" /\ End(t)
      /\ drv_state' = drv_state_transition(drv_state, IF attached = 0 THEN "all_stop" ELSE "off_fail")
      /\ UNCHANGED <<busy, vol, table, attached, minor_free, rd, opener>>
  BY DEF EndShutdown
<1>2. drv_state = "shuting_down" /\ \A u \in Thread \ {t} : th[u].pc = "idle"
  BY <1>1 DEF DriverInv, PhaseInv, Stopping
<1>3. drv_state' = IF attached = 0 THEN "shutdown" ELSE "running"
  BY <1>1, <1>2 DEF drv_state_transition
<1>4. attached = 0 => \A i \in VolID : table[i] = NoObj
  <2>1. attached = 0 => InTable = {}
    BY TableFinite, FS_EmptySet DEF DriverInv, TabInv
  <2> QED BY <2>1 DEF InTable
<1>5. /\ th' \in [Thread -> ThRec] /\ th'[t].pc = "end" /\ th'[t].obj = NoObj
      /\ th'[t].id = th[t].id /\ \A u \in Thread \ {t} : th'[u] = th[u]
  <2>1. "end" \in PCs /\ NoObj \in Obj \cup {NoObj}
    BY DEF PCs
  <2> QED BY <1>1, <2>1, GotoEffect DEF DriverInv, End
<1>6. TypeInv'
  BY <1>1, <1>3, <1>5 DEF DriverInv, TypeInv, DrvStates
<1>7. ObjInv'
  BY <1>1 DEF DriverInv, ObjInv, ObjOne
<1>8. TabInv'
  BY <1>1, <1>2, TabKept DEF DriverInv, Moved
<1> QED BY <1>1, <1>2, <1>3, <1>4, <1>5, <1>6, <1>7, <1>8, AloneStep DEF Stopping

-----------------------------------------------------------------------------
(* Every state has the invariant.                                           *)
LEMMA InitOK == Init => DriverInv
<1> SUFFICES ASSUME Init PROVE DriverInv
  OBVIOUS
<1>1. /\ drv_state = "init" /\ busy = {} /\ rd = {} /\ minor_free = {} /\ attached = 0
      /\ vol = [o \in Obj |-> NewVol] /\ table = [i \in VolID |-> NoObj]
      /\ th = [t \in Thread |-> Idle]
  BY DEF Init
<1>2. /\ NewVol \in VolRec /\ NewVol.linger = 0 /\ NewVol.lgr = 0 /\ NewVol.freed = 0
      /\ NewVol.st = "Attaching" /\ ~NewVol.used
  BY DEF NewVol, VolRec, Live
<1>3. Idle \in ThRec /\ Idle.pc = "idle" /\ Idle.obj = NoObj
  BY DEF Idle, ThRec, PCs
<1>4. TypeInv
  BY <1>1, <1>2, <1>3 DEF TypeInv, DrvStates
<1>5. ObjInv
  BY <1>1, <1>2 DEF ObjInv, ObjOne
<1>6. \A t \in Thread : th[t].pc = "idle" /\ th[t].obj = NoObj
  BY <1>1, <1>3
<1>7. \A i \in VolID : table[i] = NoObj
  BY <1>1
<1>8. TabInv
  <2>1. InTable = {}
    BY <1>7 DEF InTable
  <2> QED BY <1>1, <1>7, <2>1, FS_EmptySet DEF TabInv, TabOne
<1>9. PhaseInv
  BY <1>1, <1>6, <1>7 DEF PhaseInv, Stopping
<1>10. ThInv /\ OwnInv
  BY <1>6 DEF ThInv, ThOne, OwnInv, Owner, Holds, Attaching, Detaching, Waiting
<1> QED BY <1>4, <1>5, <1>8, <1>9, <1>10 DEF DriverInv

LEMMA ThreadStep ==
  ASSUME DriverInv, Races = {}, NEW t \in Thread, Step(t) PROVE DriverInv'
<1>1. CASE EndIoctl(t)
  BY <1>1, IoctlStep
<1>2. CASE ChkMaxVols(t)
  BY <1>2, ChkMaxVolsStep
<1>3. CASE UndoAttach(t)
  BY <1>3, UndoAttachStep
<1>4. CASE \E o \in Allocated, n \in alloc_dev_minor_number : add_vol_to_table(t, o, n)
  BY <1>4, AddStep
<1>5. CASE \E upto \in AttachSteps : init_volume_device(t, upto)
  BY <1>5, InitDeviceStep
<1>6. CASE \/ set_volume_state_attach_done(t) \/ set_volume_state_unblock_io(t)
           \/ set_volume_rw_permission(t)
  BY <1>6, StateCommandStep
<1>7. CASE set_volume_state_block_io(t)
  BY <1>7, BlockStep
<1>8. CASE EndBlockWait(t) \/ EndStopWait(t)
  BY <1>8, WaitEndStep
<1>9. CASE stop_volume(t)
  BY <1>9, StopStep
<1>10. CASE \E ok \in BOOLEAN : restart_volume(t, ok)
  BY <1>10, RestartStep
<1>11. CASE find_volume_for_detach(t)
  BY <1>11, FindDetachStep
<1>12. CASE flush_gendisk_queue(t) \/ del_gendisk(t)
  BY <1>12, QueueStep
<1>13. CASE EndDetachWait(t)
  BY <1>13, EndDetachWaitStep
<1>14. CASE rm_vol_from_table(t)
  BY <1>14, RmStep
<1>15. CASE FreeVolume(t)
  BY <1>15, FreeVolumeStep
<1>16. CASE do_ioctl_shutdown(t)
  BY <1>16, ShutdownStep
<1>17. CASE detach_all_volumes(t)
  BY <1>17, DetachAllStep
<1>18. CASE EndShutdown(t)
  BY <1>18, EndShutdownStep
<1> QED
  BY <1>1, <1>2, <1>3, <1>4, <1>5, <1>6, <1>7, <1>8, <1>9, <1>10, <1>11, <1>12, <1>13, <1>14,
     <1>15, <1>16, <1>17, <1>18 DEF Step

LEMMA NextOK == ASSUME DriverInv, Races = {}, [Next]_vars PROVE DriverInv'
<1>1. CASE init_drv_component
  BY <1>1, InitDrvStep
<1>2. ASSUME NEW t \in Thread, \E c \in Cmds[t] : do_normal_ioctl(t, c[1], c[2]) PROVE DriverInv'
  BY <1>2, IoctlStep
<1>3. ASSUME NEW t \in Thread, Step(t) PROVE DriverInv'
  BY <1>3, ThreadStep
<1>4. ASSUME NEW o \in Obj, OpenChecks(o) \/ OpenCounts(o) \/ Release(o) PROVE DriverInv'
  BY <1>4, OpenStep
<1>5. ASSUME NEW o \in Obj, Request(o) PROVE DriverInv'
  BY <1>5, RequestStep
<1>6. CASE UNCHANGED vars
  BY <1>6 DEF vars, DriverInv, TypeInv, ObjInv, ObjOne, TabInv, TabOne, InTable, PhaseInv, ThInv,
              ThOne, OwnInv, Owner, Holds
<1> QED BY <1>1, <1>2, <1>3, <1>4, <1>5, <1>6 DEF Next

(* The driver's invariant holds of every reachable state when the commands  *)
(* overlap in none of the ways that Races names.                            *)
THEOREM DriverInvariant == ASSUME Races = {} PROVE Spec => []DriverInv
<1>1. Init => DriverInv
  BY InitOK
<1>2. DriverInv /\ [Next]_vars => DriverInv'
  BY NextOK
<1> QED BY <1>1, <1>2, PTL DEF Spec

-----------------------------------------------------------------------------
(* A structure in the table has the entry of its own id.                    *)
LEMMA Entry ==
  ASSUME TypeInv, NEW o \in InTable
  PROVE  \E i \in VolID : o = table[i] /\ table[i] # NoObj /\ o \in Obj
BY DEF InTable, TypeInv

(* The minor numbers of the table are all different, so there are no more   *)
(* volumes than numbers.                                                    *)
LEMMA AttachBound == ASSUME DriverInv PROVE attached \in 0 .. MaxAttach
<1> DEFINE f == [o \in InTable |-> vol[o].minor]
<1>1. \A o \in InTable : f[o] \in Minors
  BY Entry DEF DriverInv, TabInv, TabOne
<1>2. \A o, p \in InTable : f[o] = f[p] => o = p
  BY Entry DEF DriverInv, TabInv
<1>3. f \in Injection(InTable, Minors)
  BY <1>1, <1>2 DEF Injection, IsInjective
<1>4. MaxAttach \in Nat \ {0}
  BY BoundAssumption
<1>5. IsFiniteSet(Minors) /\ Cardinality(Minors) = MaxAttach
  BY <1>4, FS_Interval DEF Minors
<1> HIDE DEF f
<1>6. IsFiniteSet(InTable) /\ Cardinality(InTable) <= MaxAttach
  BY <1>3, <1>5, FS_Injection
<1>7. Cardinality(InTable) \in Nat
  BY <1>6, FS_CardinalityType
<1> QED BY <1>4, <1>6, <1>7 DEF DriverInv, TabInv

(* The count of volumes, the table and the minor numbers agree in every     *)
(* reachable state (add_vol_to_table, rm_vol_from_table,                    *)
(* detach_all_volumes).                                                     *)
THEOREM TableCounted == ASSUME Races = {} PROVE Spec => []TableIsCounted
<1>1. DriverInv => TableIsCounted
  <2> SUFFICES ASSUME DriverInv PROVE TableIsCounted
    OBVIOUS
  <2>1. attached = Cardinality(InTable)
    BY DEF DriverInv, TabInv
  <2>2. \A o \in InTable : vol[o].minor \in Minors \ minor_free
    BY Entry DEF DriverInv, TabInv, TabOne
  <2>3. \A o, p \in InTable : vol[o].minor = vol[p].minor => o = p
    BY Entry DEF DriverInv, TabInv
  <2>4. ASSUME drv_state # "init"
        PROVE  minor_free \cup {vol[o].minor : o \in InTable} = Minors
    <3>1. ASSUME NEW m \in Minors, m \notin minor_free
          PROVE  \E o \in InTable : vol[o].minor = m
      BY <2>4, <3>1 DEF DriverInv, TabInv, InTable
    <3>2. minor_free \subseteq Minors
      BY DEF DriverInv, TypeInv
    <3> QED BY <2>2, <3>1, <3>2
  <2> QED BY <2>1, <2>2, <2>3, <2>4 DEF TableIsCounted
<1> QED BY <1>1, DriverInvariant, PTL

(* A volume is freed once and idle, is never left with a stopped queue, and *)
(* outlives neither its users nor the driver's components, in every         *)
(* reachable state (detach_volume, free_all_vols, try_stop_drv).            *)
THEOREM VolumeSafety == ASSUME Races = {} PROVE Spec => []VolumeIsSafe
<1>1. DriverInv => VolumeIsSafe
  <2> SUFFICES ASSUME DriverInv PROVE VolumeIsSafe
    OBVIOUS
  <2>1. TypeOK
    <3>1. ASSUME NEW o \in Obj
          PROVE  vol[o].st \in VolStates /\ vol[o].linger \in 0 .. vol[o].lgr
      <4>1. vol[o] \in VolRec /\ ObjOne(o)
        BY DEF DriverInv, TypeInv, ObjInv
      <4>2. vol[o].st \in Live /\ vol[o].linger \in Nat /\ vol[o].lgr \in Nat
        BY <4>1, VolFields
      <4> QED BY <4>1, <4>2 DEF ObjOne, Live, VolStates
    <3> QED BY <3>1, AttachBound DEF TypeOK, DriverInv, TypeInv
  <2>2. FreedOnce
    <3> SUFFICES ASSUME NEW o \in Obj
                 PROVE  /\ vol[o].freed <= 1
                        /\ o \in Freed => o \notin InTable /\ \A t \in Thread : th[t].obj # o
      BY DEF FreedOnce
    <3>1. vol[o].freed <= 1 /\ (o \in Freed => vol[o].freed # 0) /\ o # NoObj
      BY Constants DEF DriverInv, ObjInv, ObjOne, Freed
    <3>2. o \in InTable => vol[o].freed = 0
      BY Entry DEF DriverInv, TabInv, TabOne
    <3>3. \A t \in Thread : th[t].obj = o => vol[o].freed = 0
      BY <3>1 DEF DriverInv, ThInv, ThOne
    <3> QED BY <3>1, <3>2, <3>3
  <2>3. DetachedIsIdle
    <3> SUFFICES ASSUME NEW t \in Thread, th[t].pc \in {"del", "rm", "free"}
                 PROVE  /\ vol[th[t].obj].lgr = 0
                        /\ ~vol[th[t].obj].late =>
                             vol[th[t].obj].open = 0 /\ th[t].obj \notin opener
      BY DEF DetachedIsIdle
    <3>1. Owner(t) /\ th[t].pc \in Detaching
      BY DEF Owner, Detaching
    <3>2. LET o == th[t].obj IN ThOne(t) /\ ObjOne(o) /\ vol[o].used /\ vol[o].freed = 0
      BY <3>1, OwnerKnows
    <3> QED BY <3>1, <3>2 DEF ThOne, ObjOne
  <2>4. ReadyIsRunning
    BY Entry DEF ReadyIsRunning, DriverInv, TabInv, TabOne, ObjInv, ObjOne
  <2>5. ReleasedAlone
    <3> DEFINE R == {t \in Thread : th[t].pc \notin {"idle", "end"}}
    <3> SUFFICES ASSUME drv_state \in {"shuting_down", "shutdown"}
                 PROVE  Cardinality(R) <= 1 /\ (drv_state = "shutdown" => InTable = {})
      BY DEF ReleasedAlone
    <3>1. \A t \in R : th[t].pc \in Stopping /\ \A u \in Thread \ {t} : u \notin R
      BY DEF DriverInv, PhaseInv
    <3>2. Cardinality(R) <= 1
      <4>1. CASE R = {}
        BY <4>1, FS_EmptySet
      <4>2. ASSUME NEW t \in R PROVE Cardinality(R) <= 1
        <5>1. R = {t}
          BY <3>1
        <5>2. Cardinality({t}) = 1
          BY FS_Singleton
        <5> QED BY <5>1, <5>2
      <4> QED BY <4>1, <4>2
    <3>3. drv_state = "shutdown" => InTable = {}
      BY DEF DriverInv, PhaseInv, InTable
    <3> QED BY <3>2, <3>3
  <2> QED BY <2>1, <2>2, <2>3, <2>4, <2>5 DEF VolumeIsSafe
<1> QED BY <1>1, DriverInvariant, PTL
=============================================================================
