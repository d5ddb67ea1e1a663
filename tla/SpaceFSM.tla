------------------------------ MODULE SpaceFSM ------------------------------
(***************************************************************************)
(* The states of a chunk of preallocated space (space_chunk_fsm.c).  A free  *)
(* space chunk is a run of blocks the namenode gave to a volume in advance;  *)
(* an allocated chunk is the part of one that a first write was given, until *)
(* the namenode has been told.  Every transition is made under the chunk's   *)
(* lock.                                                                     *)
(***************************************************************************)
EXTENDS Integers

FsStates == {"Free", "Allocating", "Invalidated", "Reporting", "Removable"}

FsEvents == {"AllocSpace", "AllocDONE", "InvalidateSpace", "ReportFree", "CleanSpace"}

(* A chunk starts Free: INIT lasts no longer than init_fschunk_state_fsm.    *)
init_fschunk_state_fsm == [st |-> "Free", n |-> 0]

To(c, s, a) == [c |-> [c EXCEPT !.st = s], act |-> a]

_update_fschunkFree(c, e) ==
  CASE e = "AllocSpace"      -> To([c EXCEPT !.n = @ + 1], "Allocating", "DO_Alloc")
    [] e = "InvalidateSpace" -> To(c, "Invalidated", "DO_Inval")
    [] OTHER                 -> To(c, c.st, "NoAction")

_update_fschunkAllocating(c, e) ==
  CASE e = "AllocSpace"      -> To([c EXCEPT !.n = @ + 1], c.st, "DO_Alloc")
    [] e = "AllocDONE"       -> To([c EXCEPT !.n = @ - 1], IF c.n = 1 THEN "Free" ELSE c.st,
                                   "NoAction")
    [] e = "InvalidateSpace" -> To(c, c.st, "DO_Retry")
    [] OTHER                 -> To(c, c.st, "NoAction")

_update_fschunkInval(c, e) ==
  IF e = "ReportFree" THEN To(c, "Reporting", "DO_Report") ELSE To(c, c.st, "NoAction")

_update_fschunkReport(c, e) ==
  IF e = "CleanSpace" THEN To(c, "Removable", "DO_Clean") ELSE To(c, c.st, "NoAction")

_update_fschunkRemovable(c, e) == To(c, c.st, "NoAction")

update_fschunk_state(c, e) ==
  CASE c.st = "Free"        -> _update_fschunkFree(c, e)
    [] c.st = "Allocating"  -> _update_fschunkAllocating(c, e)
    [] c.st = "Invalidated" -> _update_fschunkInval(c, e)
    [] c.st = "Reporting"   -> _update_fschunkReport(c, e)
    [] c.st = "Removable"   -> _update_fschunkRemovable(c, e)

AsStates == {"Allocated", "Committed", "Flushing", "Removable"}

init_aschunk_state_fsm == "Allocated"

(* The state after an event; an event a state does not know leaves it.       *)
update_aschunk_state(s, e) ==
  CASE s = "Allocated" /\ e = "Commit"     -> "Committed"
    [] s = "Committed" /\ e = "FlushSpace" -> "Flushing"
    [] s = "Flushing"  /\ e = "CleanSpace" -> "Removable"
    [] OTHER                               -> s
=============================================================================
