------------------------------- MODULE Driver -------------------------------
(***************************************************************************)
(* The volumes of the node and the ioctls that manage them: the volume      *)
(* table, the minor numbers and the states of a volume (volume_manager.c),  *)
(* the driver's own state and its reference count (drv_chrdev.c,            *)
(* drv_main.c, drv_fsm.c), with the opens of the block devices and the      *)
(* requests in flight next to them.                                         *)
(*                                                                          *)
(* All volumes share one bucket of the table and its rw_semaphore (the      *)
(* worst case): rd is the set of threads that hold it for reading across a  *)
(* wait; a step that only takes it for writing needs rd to be empty.        *)
(***************************************************************************)
EXTENDS Integers, FiniteSets

CONSTANTS
  Obj,            \* volume_device_t structures; a freed one is not reused
  VolID,          \* volume ids
  Thread,         \* threads that issue ioctls
  MaxAttach,      \* max_attach_volumes
  MaxRq,          \* bound on the requests in flight of a volume
  MaxOpen,        \* bound on the open handles of a volume
  Cmds,           \* Cmds[t]: the commands, <<ioctl, volume id>>, that t issues
  AttachSteps,    \* how far an attach gets: "ovw", "nnclient", "gendisk", "disk"
  Races           \* overlaps of commands: "attaching" (see MayDetach)

NoObj == "none"
Ops == {"attach", "done", "detach", "block", "unblock", "stop", "restart", "reset", "norw"}
ASSUME BoundAssumption == /\ MaxAttach \in Nat \ {0} /\ MaxRq \in Nat /\ MaxOpen \in Nat
                          /\ Races \subseteq {"attaching"}
ASSUME SetAssumption == /\ NoObj \notin Obj /\ IsFiniteSet(VolID) /\ IsFiniteSet(Thread)
                        /\ \A t \in Thread : Cmds[t] \subseteq Ops \X VolID

VARIABLES
  drv_state,   \* discoC_drv.drv_state
  busy,        \* threads counted in drv_busy_cnt
  vol,         \* vol[o]: the volume structure
  table,       \* table[id]: the structure in vol_table, or NoObj
  attached,    \* num_of_vol_attached
  minor_free,  \* mnum_free_list
  nnref,       \* references on the namenode client
  rd,          \* threads that hold the bucket lock for reading
  opener,      \* structures an open call has checked and not counted yet
  th           \* th[t]: [pc, op, id, obj]

vars == <<drv_state, busy, vol, table, attached, minor_free, nnref, rd, opener, th>>

Minors == 1 .. MaxAttach
NewVol == [st |-> "Attaching", id |-> 0, stop |-> FALSE, perm |-> TRUE, queue |-> "none",
           minor |-> 0, open |-> 0, lgr |-> 0, linger |-> 0, freed |-> 0, used |-> FALSE,
           late |-> FALSE]   \* late (history): an open had passed its check when a detach came
Idle == [pc |-> "idle", op |-> "none", id |-> 0, obj |-> NoObj]

Init ==
  /\ drv_state = "init" /\ busy = {}
  /\ vol = [o \in Obj |-> NewVol] /\ table = [i \in VolID |-> NoObj]
  /\ attached = 0 /\ minor_free = {} /\ nnref = 0
  /\ rd = {} /\ opener = {} /\ th = [t \in Thread |-> Idle]

InTable == {table[i] : i \in VolID} \ {NoObj}
Freed == {o \in Obj : vol[o].freed > 0}

-----------------------------------------------------------------------------
(***************************************************************************)
(* The state machines of a volume (vol_state_transition) and of the driver  *)
(* (drv_state_transition).  An operation that a state does not know leaves  *)
(* it; the old state is what the caller is given.                           *)
(***************************************************************************)
VolStates == {"Attaching", "Ready", "IO_Blocking", "IO_Yielding", "Block_Yield",
              "Block_Detach", "Detaching", "Detached"}

DrvStates == {"init", "running", "shuting_down", "shutdown"}

(* Mutant: a volume that is being detached may be detached again.           *)
vol_state_transition_Redetach(st, op) ==
  CASE st = "Attaching" /\ op = "Attach_Finish" -> "Ready"
    [] st = "Ready" /\ op = "Block_IO"          -> "IO_Blocking"
    [] st = "IO_Blocking" /\ op = "UnBlock_IO"  -> "Ready"
    [] OTHER                                    -> st

vol_state_transition(st, op) ==
  CASE st = "Attaching" /\ op = "Attach_Finish"   -> "Ready"
    [] st = "Ready" /\ op = "Block_IO"            -> "IO_Blocking"
    [] st = "Ready" /\ op = "Yield_IO"            -> "IO_Yielding"
    [] st = "Ready" /\ op = "Detach"              -> "Detaching"
    [] st = "IO_Blocking" /\ op = "UnBlock_IO"    -> "Ready"
    [] st = "IO_Blocking" /\ op = "Yield_IO"      -> "Block_Yield"
    [] st = "IO_Blocking" /\ op = "Detach"        -> "Block_Detach"
    [] st = "IO_Yielding" /\ op = "Block_IO"      -> "Block_Yield"
    [] st = "IO_Yielding" /\ op \in {"NoYield_IO", "Yield_IO_Timeout"} -> "Ready"
    [] st = "IO_Yielding" /\ op = "Detach"        -> "Detaching"
    [] st = "Block_Yield" /\ op = "UnBlock_IO"    -> "IO_Yielding"
    [] st = "Block_Yield" /\ op \in {"NoYield_IO", "Yield_IO_Timeout"} -> "IO_Blocking"
    [] st = "Block_Yield" /\ op = "Detach"        -> "Block_Detach"
    [] st = "Block_Detach" /\ op = "UnBlock_IO"   -> "Detaching"
    [] st = "Detaching" /\ op = "No_Ligner_IO"    -> "Detached"
    [] OTHER                                      -> st

drv_state_transition(st, op) ==
  CASE st = "init" /\ op = "init_done"           -> "running"
    [] st = "running" /\ op = "turn_off"         -> "shuting_down"
    [] st = "shuting_down" /\ op = "off_fail"    -> "running"
    [] st = "shuting_down" /\ op = "all_stop"    -> "shutdown"
    [] OTHER                                     -> st

is_vol_detaching(st) == st \in {"Detached", "Detaching", "Block_Detach"}
is_vol_block_io(st)  == st \in {"IO_Blocking", "Block_Yield", "Block_Detach"}

-----------------------------------------------------------------------------
(* IOCTL_INIT_DRV: init_drv_component brings the components up.             *)
init_drv_component ==
  /\ drv_state = "init"
  /\ drv_state' = drv_state_transition(drv_state, "init_done")
  /\ minor_free' = Minors /\ attached' = 0
  /\ UNCHANGED <<busy, vol, table, nnref, rd, opener, th>>

(* is_drv_running(true): a normal ioctl takes a reference on the driver.    *)
is_drv_running_Always(t) == busy' = busy \cup {t}   \* mutant: no state check

is_drv_running(t) == drv_state = "running" /\ busy' = busy \cup {t}

(* _do_normal_ioctl: the call is dispatched...                              *)
do_normal_ioctl(t, op, id) ==
  /\ th[t].pc = "idle"
  /\ is_drv_running(t)
  /\ th' = [th EXCEPT ![t] = [pc |-> "start", op |-> op, id |-> id, obj |-> NoObj]]
  /\ UNCHANGED <<drv_state, vol, table, attached, minor_free, nnref, rd, opener>>

(* ... and its reference given up when it is done.                          *)
EndIoctl(t) ==
  /\ th[t].pc = "end"
  /\ busy' = busy \ {t}
  /\ th' = [th EXCEPT ![t] = Idle]
  /\ UNCHANGED <<drv_state, vol, table, attached, minor_free, nnref, rd, opener>>

Start(t, op) == th[t].pc = "start" /\ th[t].op = op
Goto(t, pc, o) == th' = [th EXCEPT ![t].pc = pc, ![t].obj = o]
End(t) == Goto(t, "end", NoObj)

-----------------------------------------------------------------------------
(***************************************************************************)
(* attach_volume.                                                           *)
(***************************************************************************)
(* The number of volumes is looked at before anything is locked.            *)
ChkMaxVols(t) ==
  /\ Start(t, "attach")
  /\ IF attached = MaxAttach THEN End(t) ELSE Goto(t, "add", NoObj)
  /\ UNCHANGED <<drv_state, busy, vol, table, attached, minor_free, nnref, rd, opener>>

(* The structure and the minor number a volume is given; NoObj and 0 when   *)
(* there are none left.                                                     *)
OrElse(S, none) == IF S = {} THEN {none} ELSE S

Allocated == OrElse({o \in Obj : ~vol[o].used}, NoObj)

alloc_dev_minor_number_Shared == Minors   \* mutant: a used number is given out

alloc_dev_minor_number == OrElse(minor_free, 0)

add_vol_to_table(t, o, n) ==
  LET id == th[t].id
  IN /\ th[t].pc = "add" /\ rd = {}
     /\ IF table[id] # NoObj \/ n = 0 \/ o = NoObj
        THEN End(t) /\ UNCHANGED <<vol, table, attached, minor_free>>
        ELSE /\ vol' = [vol EXCEPT ![o] = [NewVol EXCEPT !.id = id, !.minor = n, !.used = TRUE]]
             /\ table' = [table EXCEPT ![id] = o]
             /\ minor_free' = minor_free \ {n} /\ attached' = attached + 1
             /\ Goto(t, "initdev", o)
     /\ UNCHANGED <<drv_state, busy, nnref, rd, opener>>

(* init_volume_device: the namenode client is referenced half-way; then     *)
(* create_vol_gendisk and add_disk.                                         *)
init_volume_device(t, upto) ==
  LET o == th[t].obj
  IN /\ th[t].pc = "initdev"
     /\ nnref' = nnref + (IF upto = "ovw" THEN 0 ELSE 1)
     /\ IF upto = "disk"
        THEN vol' = [vol EXCEPT ![o].queue = "run"] /\ End(t)
        ELSE Goto(t, "undo", o) /\ UNCHANGED vol
     /\ UNCHANGED <<drv_state, busy, table, attached, minor_free, rd, opener>>

(* rm_vol_from_table: the minor number goes back with the table entry.      *)
RmFromTable(id) ==
  LET o == table[id]
  IN /\ table' = [table EXCEPT ![id] = NoObj]
     /\ attached' = attached - 1
     /\ minor_free' = minor_free \cup {vol[o].minor}

(* free_volume: gives up the client, which it does not know to be           *)
(* referenced, and what is left of the volume.                              *)
free_volume(v) == [v EXCEPT !.freed = @ + 1, !.minor = 0, !.queue = "dead", !.late = FALSE]

UndoAttach(t) ==
  LET o == th[t].obj
  IN /\ th[t].pc = "undo" /\ rd = {}
     /\ IF table[th[t].id] # NoObj
        THEN RmFromTable(th[t].id) ELSE UNCHANGED <<table, attached, minor_free>>
     /\ vol' = [vol EXCEPT ![o] = free_volume(@)]
     /\ nnref' = nnref - 1
     /\ End(t)
     /\ UNCHANGED <<drv_state, busy, rd, opener>>

-----------------------------------------------------------------------------
(***************************************************************************)
(* Commands under the read lock of the bucket.                              *)
(***************************************************************************)
SetState(o, op) == vol' = [vol EXCEPT ![o].st = vol_state_transition(@, op)]

OnVolume(t, Act) == IF table[th[t].id] = NoObj THEN UNCHANGED vol ELSE Act

(* IOCTL_ATTACH_VOL_FINISH follows the answer to IOCTL_ATTACH_VOL.          *)
MayFinish(o) == "attaching" \in Races \/ vol[o].queue # "none"

set_volume_state_attach_done(t) ==
  /\ Start(t, "done")
  /\ OnVolume(t, IF MayFinish(table[th[t].id])
                 THEN SetState(table[th[t].id], "Attach_Finish") ELSE UNCHANGED vol)
  /\ End(t)
  /\ UNCHANGED <<drv_state, busy, table, attached, minor_free, nnref, rd, opener>>

set_volume_state_unblock_io(t) ==
  /\ Start(t, "unblock")
  /\ OnVolume(t, SetState(table[th[t].id], "UnBlock_IO"))
  /\ End(t)
  /\ UNCHANGED <<drv_state, busy, table, attached, minor_free, nnref, rd, opener>>

set_volume_rw_permission(t) ==
  /\ Start(t, "norw")
  /\ OnVolume(t, vol' = [vol EXCEPT ![table[th[t].id]].perm = FALSE])
  /\ End(t)
  /\ UNCHANGED <<drv_state, busy, table, attached, minor_free, nnref, rd, opener>>

(* set_volume_state_block_io keeps the lock while it waits for the          *)
(* requests that are already io_request_t.                                  *)
set_volume_state_block_io(t) ==
  LET o == table[th[t].id]
  IN /\ Start(t, "block")
     /\ IF o = NoObj
        THEN End(t) /\ UNCHANGED <<vol, rd>>
        ELSE /\ SetState(o, "Block_IO")
             /\ IF vol[o].st \in {"Detaching", "Detached", "Attaching"}
                THEN End(t) /\ UNCHANGED rd
                ELSE Goto(t, "blockwait", o) /\ rd' = rd \cup {t}
     /\ UNCHANGED <<drv_state, busy, table, attached, minor_free, nnref, opener>>

(* Mutant: the way out of the wait forgets the bucket lock.                 *)
EndBlockWait_KeepsLock(t) ==
  /\ th[t].pc = "blockwait"
  /\ End(t)
  /\ UNCHANGED <<drv_state, busy, vol, table, attached, minor_free, nnref, rd, opener>>

(* Done, or max_io_flush_wait_time has passed.                              *)
EndBlockWait(t) ==
  LET o == th[t].obj
  IN /\ th[t].pc = "blockwait"
     /\ IF vol[o].linger = 0 THEN UNCHANGED vol ELSE SetState(o, "UnBlock_IO")
     /\ rd' = rd \ {t} /\ End(t)
     /\ UNCHANGED <<drv_state, busy, table, attached, minor_free, nnref, opener>>

stop_volume(t) ==
  LET o == table[th[t].id]
  IN /\ Start(t, "stop")
     /\ IF o # NoObj /\ vol[o].st = "Ready" /\ ~vol[o].stop
        THEN /\ vol' = [vol EXCEPT ![o].stop = TRUE, ![o].perm = FALSE]
             /\ Goto(t, "stopwait", o) /\ rd' = rd \cup {t}
        ELSE End(t) /\ UNCHANGED <<vol, rd>>
     /\ UNCHANGED <<drv_state, busy, table, attached, minor_free, nnref, opener>>

(* The end of the wait, whatever it found, and the release of the caches.   *)
EndStopWait(t) ==
  /\ th[t].pc = "stopwait"
  /\ rd' = rd \ {t} /\ End(t)
  /\ UNCHANGED <<drv_state, busy, vol, table, attached, minor_free, nnref, opener>>

(* ok: init_ovw finds the memory it needs.                                  *)
restart_volume(t, ok) ==
  LET o == table[th[t].id]
  IN /\ Start(t, "restart")
     /\ vol' = IF o # NoObj /\ vol[o].st = "Ready" /\ vol[o].stop /\ ok
               THEN [vol EXCEPT ![o].stop = FALSE, ![o].perm = TRUE] ELSE vol
     /\ End(t)
     /\ UNCHANGED <<drv_state, busy, table, attached, minor_free, nnref, rd, opener>>

-----------------------------------------------------------------------------
(***************************************************************************)
(* detach_volume.                                                           *)
(***************************************************************************)
(* The overlap left to Races, which is not commanded otherwise: a detach of *)
(* a volume whose attach is not finished.                                   *)
MayDetach(o) == "attaching" \in Races \/ vol[o].st # "Attaching"

find_volume_for_detach(t) ==
  LET o == table[th[t].id]
  IN /\ Start(t, "detach") /\ rd = {}
     /\ IF \/ o = NoObj \/ ~MayDetach(o)
           \/ vol[o].open > 0 \/ vol[o].st = "IO_Blocking"
        THEN End(t) /\ UNCHANGED vol
        ELSE /\ vol' = [vol EXCEPT ![o].st = vol_state_transition(@, "Detach"),
                                   ![o].late = @ \/ o \in opener]
             /\ IF vol[o].st \in {"Detaching", "Block_Detach"}
                THEN End(t) ELSE Goto(t, "flush", o)
     /\ UNCHANGED <<drv_state, busy, table, attached, minor_free, nnref, rd, opener>>

flush_gendisk_queue(t) ==
  /\ th[t].pc = "flush"
  /\ vol' = [vol EXCEPT ![th[t].obj].queue = "stop"]
  /\ Goto(t, "iowait", th[t].obj)
  /\ UNCHANGED <<drv_state, busy, table, attached, minor_free, nnref, rd, opener>>

(* The queue is idle, or the wait is over and the volume goes back.         *)
IODone(o) == vol[o].linger = 0 /\ vol[o].lgr = 0

WaitTimeout(v) == [v EXCEPT !.st = "Ready", !.queue = "run", !.late = FALSE]

EndDetachWait(t) ==
  LET o == th[t].obj
  IN /\ th[t].pc = "iowait"
     /\ IF IODone(o) THEN Goto(t, "del", o) /\ UNCHANGED vol
        ELSE vol' = [vol EXCEPT ![o] = WaitTimeout(@)] /\ End(t)
     /\ UNCHANGED <<drv_state, busy, table, attached, minor_free, nnref, rd, opener>>

del_gendisk(t) ==
  /\ th[t].pc = "del"
  /\ vol' = [vol EXCEPT ![th[t].obj].queue = "dead"]
  /\ Goto(t, "rm", th[t].obj)
  /\ UNCHANGED <<drv_state, busy, table, attached, minor_free, nnref, rd, opener>>

rm_vol_from_table(t) ==
  /\ th[t].pc = "rm" /\ rd = {}
  /\ IF table[th[t].id] = NoObj
     THEN End(t) /\ UNCHANGED <<table, attached, minor_free>>
     ELSE RmFromTable(th[t].id) /\ Goto(t, "free", th[t].obj)
  /\ UNCHANGED <<drv_state, busy, vol, nnref, rd, opener>>

FreeVolume(t) ==
  LET o == th[t].obj
  IN /\ th[t].pc = "free"
     /\ vol' = [vol EXCEPT ![o] = free_volume([vol[o] EXCEPT !.st = vol_state_transition(@, "No_Ligner_IO")])]
     /\ nnref' = nnref - 1
     /\ End(t)
     /\ UNCHANGED <<drv_state, busy, table, attached, minor_free, rd, opener>>

-----------------------------------------------------------------------------
(***************************************************************************)
(* IOCTL_RESET_DRIVER: try_stop_drv refuses while another ioctl is running, *)
(* detach_all_volumes takes every volume that is not open out of the table, *)
(* and the components are released when none is left.                       *)
(***************************************************************************)
try_stop_drv(t) == Cardinality(busy) <= 1

do_ioctl_shutdown(t) ==
  /\ Start(t, "reset")
  /\ IF try_stop_drv(t)
     THEN drv_state' = drv_state_transition(drv_state, "turn_off") /\ Goto(t, "detachall", NoObj)
     ELSE UNCHANGED drv_state /\ End(t)
  /\ UNCHANGED <<busy, vol, table, attached, minor_free, nnref, rd, opener>>

is_vol_detachable(v) == v.open = 0 /\ v.st \notin {"Detaching", "Block_Detach"}

(* The queues are stopped and the waits of free_all_vols end, done or not:  *)
(* no other ioctl is running by then, and a volume is freed whatever the    *)
(* wait for its requests found.                                             *)
detach_all_volumes(t) ==
  LET D == {i \in VolID : table[i] # NoObj /\ is_vol_detachable(vol[table[i]])}
      S == {table[i] : i \in D}
  IN /\ th[t].pc = "detachall" /\ rd = {}
     /\ table' = [i \in VolID |-> IF i \in D THEN NoObj ELSE table[i]]
     /\ attached' = attached - Cardinality(S)
     /\ minor_free' = minor_free \cup {vol[o].minor : o \in S}
     /\ vol' = [o \in Obj |-> IF o \in S THEN free_volume(vol[o]) ELSE vol[o]]
     /\ nnref' = nnref - Cardinality(S)
     /\ Goto(t, "linger", NoObj)
     /\ UNCHANGED <<drv_state, busy, rd, opener>>

(* Volumes left: Drv_off_fail; none left: rel_drv_component.                *)
EndShutdown(t) ==
  /\ th[t].pc = "linger"
  /\ drv_state' = drv_state_transition(drv_state, IF attached = 0 THEN "all_stop" ELSE "off_fail")
  /\ End(t)
  /\ UNCHANGED <<busy, vol, table, attached, minor_free, nnref, rd, opener>>

-----------------------------------------------------------------------------
(***************************************************************************)
(* The block device: open, release, and requests (IOWorker has the rest).   *)
(***************************************************************************)
HasDisk(o) == vol[o].queue \in {"run", "stop"} /\ vol[o].freed = 0

OpenChecks(o) ==
  /\ HasDisk(o) /\ o \notin opener /\ vol[o].open < MaxOpen
  /\ ~is_vol_detaching(vol[o].st)
  /\ opener' = opener \cup {o}
  /\ UNCHANGED <<drv_state, busy, vol, table, attached, minor_free, nnref, rd, th>>

OpenCounts(o) ==
  /\ o \in opener /\ opener' = opener \ {o}
  /\ vol' = [vol EXCEPT ![o].open = @ + 1]
  /\ UNCHANGED <<drv_state, busy, table, attached, minor_free, nnref, rd, th>>

Release(o) ==
  /\ vol[o].open > 0
  /\ vol' = [vol EXCEPT ![o].open = @ - 1]
  /\ UNCHANGED <<drv_state, busy, table, attached, minor_free, nnref, rd, opener, th>>

FetchRequest(o) ==
  /\ vol[o].queue = "run" /\ vol[o].lgr < MaxRq /\ vol[o].perm
  /\ vol' = [vol EXCEPT ![o].lgr = @ + 1]
  /\ UNCHANGED <<drv_state, busy, table, attached, minor_free, nnref, rd, opener, th>>

(* The request becomes an io_request_t unless the volume's IO is blocked.   *)
AdmitRequest(o) ==
  /\ vol[o].linger < vol[o].lgr /\ ~is_vol_block_io(vol[o].st)
  /\ vol' = [vol EXCEPT ![o].linger = @ + 1]
  /\ UNCHANGED <<drv_state, busy, table, attached, minor_free, nnref, rd, opener, th>>

EndRequest(o) ==
  /\ vol[o].linger > 0
  /\ vol' = [vol EXCEPT ![o].linger = @ - 1, ![o].lgr = @ - 1]
  /\ UNCHANGED <<drv_state, busy, table, attached, minor_free, nnref, rd, opener, th>>

Step(t) ==
  \/ EndIoctl(t) \/ ChkMaxVols(t) \/ UndoAttach(t)
  \/ \E o \in Allocated, n \in alloc_dev_minor_number : add_vol_to_table(t, o, n)
  \/ \E upto \in AttachSteps : init_volume_device(t, upto)
  \/ set_volume_state_attach_done(t) \/ set_volume_state_unblock_io(t)
  \/ set_volume_rw_permission(t) \/ set_volume_state_block_io(t) \/ EndBlockWait(t)
  \/ stop_volume(t) \/ EndStopWait(t) \/ \E ok \in BOOLEAN : restart_volume(t, ok)
  \/ find_volume_for_detach(t) \/ flush_gendisk_queue(t) \/ EndDetachWait(t)
  \/ del_gendisk(t) \/ rm_vol_from_table(t) \/ FreeVolume(t)
  \/ do_ioctl_shutdown(t) \/ detach_all_volumes(t) \/ EndShutdown(t)

Request(o) == \/ FetchRequest(o) \/ AdmitRequest(o) \/ EndRequest(o)

Next ==
  \/ init_drv_component
  \/ \E t \in Thread : \E c \in Cmds[t] : do_normal_ioctl(t, c[1], c[2])
  \/ \E t \in Thread : Step(t)
  \/ \E o \in Obj : OpenChecks(o) \/ OpenCounts(o) \/ Release(o) \/ Request(o)

Spec == Init /\ [][Next]_vars

(* The bucket's rw_semaphore is served in the order of arrival, so a writer *)
(* is not passed over for ever; every wait of an ioctl has a time limit.    *)
FairSpec == Spec /\ \A t \in Thread : SF_vars(Step(t))

-----------------------------------------------------------------------------
TypeOK ==
  /\ drv_state \in DrvStates /\ busy \subseteq Thread /\ rd \subseteq Thread
  /\ \A o \in Obj : vol[o].st \in VolStates /\ vol[o].linger \in 0..vol[o].lgr
  /\ \A i \in VolID : table[i] \in Obj \cup {NoObj}
  /\ attached \in 0..MaxAttach /\ minor_free \subseteq Minors

(* However attaches, detaches and a reset overlap: the count of volumes is  *)
(* the number of table entries, and every minor number is either free or    *)
(* used by exactly one volume of the table (add_vol_to_table checks the     *)
(* count before it locks, and relies on the minor numbers running out).     *)
TableIsCounted ==
  /\ attached = Cardinality(InTable)
  /\ \A o \in InTable : vol[o].minor \in Minors \ minor_free
  /\ \A o, p \in InTable : vol[o].minor = vol[p].minor => o = p
  /\ drv_state # "init" => minor_free \cup {vol[o].minor : o \in InTable} = Minors

(* A volume structure is freed once, is then out of the table, and no       *)
(* ioctl still works on it (detach_volume, free_all_vols).                  *)
FreedOnce ==
  \A o \in Obj : /\ vol[o].freed <= 1
                 /\ o \in Freed => o \notin InTable /\ \A t \in Thread : th[t].obj # o

(* A detach deletes the disk only when every request of the volume has      *)
(* been answered, and no handle is open or being opened then, unless an     *)
(* open had passed the check of the state before the detach changed it      *)
(* (open_common: neither takes a lock against the other).                   *)
DetachedIsIdle ==
  \A t \in Thread : th[t].pc \in {"del", "rm", "free"} =>
    /\ vol[th[t].obj].lgr = 0
    /\ ~vol[th[t].obj].late => vol[th[t].obj].open = 0 /\ th[t].obj \notin opener

(* Not so in the code: a structure that was freed is not used by an open    *)
(* call, an open handle or a request.                                       *)
FreedIsIdle ==
  \A o \in Freed : vol[o].lgr = 0 /\ vol[o].open = 0 /\ o \notin opener

(* A volume that users can reach has a running queue, unless a detach is    *)
(* working on it: a detach that gives up starts the queue again.            *)
ReadyIsRunning ==
  \A o \in InTable : vol[o].st \in {"Ready", "IO_Blocking"} =>
    vol[o].queue = "run" \/ \E t \in Thread : th[t].obj = o

(* The components are only released when no other ioctl is running and no   *)
(* volume is left (try_stop_drv, drv_busy_cnt).                             *)
ReleasedAlone ==
  drv_state \in {"shuting_down", "shutdown"} =>
    /\ Cardinality({t \in Thread : th[t].pc \notin {"idle", "end"}}) <= 1
    /\ drv_state = "shutdown" => InTable = {}

(* A volume is safe against overlapping ioctls: freed once and idle, never  *)
(* left stopped, and its components outlive it.                             *)
VolumeIsSafe == TypeOK /\ FreedOnce /\ DetachedIsIdle /\ ReadyIsRunning /\ ReleasedAlone

(* Every ioctl returns, although the bucket lock is held across waits.      *)
EveryIoctlEnds == \A t \in Thread : th[t].pc # "idle" ~> th[t].pc = "idle"
=============================================================================
