---------------------------- MODULE GumDisposable ----------------------------
(***************************************************************************)
(* Objects that dispose themselves when nobody has used them for a while   *)
(* (src/src/common/gum-disposable.c): the service and object adapters.     *)
(*                                                                         *)
(* A disposable is a record: keep_obj_counter, the number of users that    *)
(* asked to keep it; timeout, whether a timeout is set; timer_id, what the *)
(* stored source id names; delete_later; and forgotten, whether the main   *)
(* loop still has a source of this object that timer_id no longer names.   *)
(* The code does not store the last one: it is what g_source_remove can no *)
(* longer reach.                                                           *)
(***************************************************************************)
EXTENDS Naturals

Disposable ==
    [keep_obj_counter : Nat, timeout : BOOLEAN,
     timer_id : {"none", "timer", "idle"}, delete_later : BOOLEAN,
     forgotten : BOOLEAN]

\* g_timeout_add_seconds or g_idle_add, with the id stored in timer_id.
AddSource(d, kind) ==
    [d EXCEPT !.timer_id = kind, !.forgotten = @ \/ d.timer_id # "none"]

RemoveSource(d) == [d EXCEPT !.timer_id = "none"]

\* Mutant of UpdateTimer: no source is removed while the object is kept.
MutKeepTimer(d) ==
    IF ~d.delete_later /\ d.keep_obj_counter = 0 /\ d.timeout
    THEN AddSource(d, "timer") ELSE d

UpdateTimer(d) ==
    CASE d.delete_later -> d
      [] ~d.delete_later /\ d.keep_obj_counter > 0 -> RemoveSource(d)
      [] ~d.delete_later /\ d.keep_obj_counter = 0 /\ d.timeout ->
            AddSource(d, "timer")
      [] OTHER -> d

\* Mutant of SetAutoDispose: a release that nothing was kept for is counted.
MutSetAutoDispose(d, dispose) ==
    UpdateTimer([d EXCEPT !.keep_obj_counter = IF dispose THEN @ - 1 ELSE @ + 1])

\* A release that nothing was kept for is ignored: it happens when a peer
\* leaves the bus whose adapters had gone before.
SetAutoDispose(d, dispose) ==
    IF dispose /\ d.keep_obj_counter = 0
    THEN d
    ELSE UpdateTimer([d EXCEPT !.keep_obj_counter =
                                  IF dispose THEN @ - 1 ELSE @ + 1])

SetTimeout(d, timeout) ==
    IF d.timeout = timeout THEN d
    ELSE UpdateTimer([d EXCEPT !.timeout = timeout])

DeleteLater(d) ==
    [AddSource(RemoveSource(d), "idle") EXCEPT !.delete_later = TRUE]

\* gum_disposable_init, and the timeout its creator sets.
NewDisposable(timeout) ==
    SetTimeout([keep_obj_counter |-> 0, timeout |-> FALSE, timer_id |-> "none",
                delete_later |-> FALSE, forgotten |-> FALSE], timeout)

Keep(d) == SetAutoDispose(d, FALSE)
Release(d) == SetAutoDispose(d, TRUE)

\* A request that a handler serves between a Keep and a Release.
Served(d) == Release(Keep(d))

\* The main loop has a source that disposes the object.
Due(d) == d.timer_id # "none" \/ d.forgotten

\* What the timers are for: exactly one source waits for an object that has a
\* timeout and is not kept, one for an object that is to be deleted, and none
\* for any other.
TimersRight(d) ==
    /\ ~d.forgotten
    /\ d.timer_id = "idle" <=> d.delete_later
    /\ d.timer_id = "timer" <=>
          d.timeout /\ d.keep_obj_counter = 0 /\ ~d.delete_later
=============================================================================
