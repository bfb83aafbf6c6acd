------------------------------- MODULE GumLock -------------------------------
(***************************************************************************)
(* The lock of the user/group database, src/common/gum-lock.c.  Every      *)
(* process that links the code - the daemon, and each client in offline    *)
(* mode - counts the nested calls of gum_lock_pwdf_lock in a static        *)
(* lock_count; only the first one takes the system-wide lock (lckpwdf) and *)
(* raises the effective uid, only the last gum_lock_pwdf_unlock gives both *)
(* back.  lckpwdf is external: a write lock on /etc/.pwd.lock for which it *)
(* waits at most fifteen seconds; the kernel drops it when its holder dies.*)
(***************************************************************************)
EXTENDS Integers

CONSTANTS Proc,      \* the processes that use the database
          NoProc,    \* nobody holds the lock
          MaxDepth   \* bound: how deep the callers of lock nest

ASSUME LockAssumption ==
    /\ NoProc \notin Proc
    /\ MaxDepth \in Nat \ {0}

VARIABLES
    holder,      \* the process that has the lock file locked, or NoProc
    lock_count,  \* the static counter of each process
    privileged,  \* is the effective uid of the process 0?
    waiting,     \* is the process inside lckpwdf?
    frames       \* callers whose lock returned TRUE and that did not unlock yet

lockVars == <<holder, lock_count, privileged, waiting, frames>>

LockTypeOK ==
    /\ holder \in Proc \cup {NoProc}
    /\ lock_count \in [Proc -> Nat]
    /\ privileged \in [Proc -> BOOLEAN]
    /\ waiting \in [Proc -> BOOLEAN]
    /\ frames \in [Proc -> Nat]

LockInit ==
    /\ holder = NoProc
    /\ lock_count = [p \in Proc |-> 0]
    /\ privileged = [p \in Proc |-> FALSE]
    /\ waiting = [p \in Proc |-> FALSE]
    /\ frames = [p \in Proc |-> 0]

-----------------------------------------------------------------------------
(***************************************************************************)
(* gum_lock_pwdf_lock                                                      *)
(***************************************************************************)

\* The first lock of a process: privileges are gained and lckpwdf is entered.
LockBegin(p) ==
    /\ ~waiting[p]
    /\ lock_count[p] = 0
    /\ privileged' = [privileged EXCEPT ![p] = TRUE]
    /\ waiting' = [waiting EXCEPT ![p] = TRUE]
    /\ UNCHANGED <<holder, lock_count, frames>>

\* lckpwdf got the lock: the counter goes to 1 and the caller sees TRUE.
LockAcquire(p) ==
    /\ waiting[p]
    /\ holder = NoProc
    /\ holder' = p
    /\ waiting' = [waiting EXCEPT ![p] = FALSE]
    /\ lock_count' = [lock_count EXCEPT ![p] = @ + 1]
    /\ frames' = [frames EXCEPT ![p] = @ + 1]
    /\ UNCHANGED privileged

\* Mutant of LockGiveUp: the counter is incremented although lckpwdf failed.
MutGiveUpCounts(p) ==
    /\ waiting[p]
    /\ waiting' = [waiting EXCEPT ![p] = FALSE]
    /\ lock_count' = [lock_count EXCEPT ![p] = @ + 1]
    /\ frames' = [frames EXCEPT ![p] = @ + 1]
    /\ UNCHANGED <<holder, privileged>>

\* lckpwdf failed, after its fifteen seconds or at once: the caller sees FALSE
\* and the effective uid stays raised.
LockGiveUp(p) ==
    /\ waiting[p]
    /\ waiting' = [waiting EXCEPT ![p] = FALSE]
    /\ UNCHANGED <<holder, lock_count, privileged, frames>>

\* Mutant of LockAgain: a nested lock returns TRUE without counting.
MutAgainUncounted(p) ==
    /\ ~waiting[p]
    /\ frames[p] \in 1 .. MaxDepth - 1
    /\ frames' = [frames EXCEPT ![p] = @ + 1]
    /\ UNCHANGED <<holder, lock_count, privileged, waiting>>

\* A nested lock only counts.
LockAgain(p) ==
    /\ ~waiting[p]
    /\ lock_count[p] \in 1 .. MaxDepth - 1
    /\ lock_count' = [lock_count EXCEPT ![p] = @ + 1]
    /\ frames' = [frames EXCEPT ![p] = @ + 1]
    /\ UNCHANGED <<holder, privileged, waiting>>

-----------------------------------------------------------------------------
(***************************************************************************)
(* gum_lock_pwdf_unlock.  Its callers ignore the result, so a caller is    *)
(* done with the lock whatever it returns.                                 *)
(***************************************************************************)

\* Mutant of UnlockNested: every unlock drops the privileges.
MutNestedDrops(p) ==
    /\ ~waiting[p]
    /\ frames[p] > 0
    /\ lock_count[p] > 1
    /\ lock_count' = [lock_count EXCEPT ![p] = @ - 1]
    /\ frames' = [frames EXCEPT ![p] = @ - 1]
    /\ privileged' = [privileged EXCEPT ![p] = FALSE]
    /\ UNCHANGED <<holder, waiting>>

\* An inner caller only counts down.
UnlockNested(p) ==
    /\ ~waiting[p]
    /\ frames[p] > 0
    /\ lock_count[p] > 1
    /\ lock_count' = [lock_count EXCEPT ![p] = @ - 1]
    /\ frames' = [frames EXCEPT ![p] = @ - 1]
    /\ UNCHANGED <<holder, privileged, waiting>>

\* Mutant of UnlockLast: the counter reaches 0 without ulckpwdf.
MutLastKeepsFile(p) ==
    /\ ~waiting[p]
    /\ frames[p] > 0
    /\ lock_count[p] = 1
    /\ lock_count' = [lock_count EXCEPT ![p] = 0]
    /\ frames' = [frames EXCEPT ![p] = @ - 1]
    /\ privileged' = [privileged EXCEPT ![p] = FALSE]
    /\ UNCHANGED <<holder, waiting>>

\* Mutant of UnlockLast: the counter is not compared with 0 first.
MutUnlockUnchecked(p) ==
    /\ ~waiting[p]
    /\ lock_count[p] <= 1
    /\ lock_count' = [lock_count EXCEPT ![p] = @ - 1]
    /\ frames' = [frames EXCEPT ![p] = @ - 1]
    /\ holder' = NoProc
    /\ privileged' = [privileged EXCEPT ![p] = FALSE]
    /\ UNCHANGED waiting

\* The last unlock.  ulckpwdf closes the lock file, which frees the lock even
\* when close reports an error; privileges are dropped only without an error.
UnlockLast(p) ==
    /\ ~waiting[p]
    /\ frames[p] > 0
    /\ lock_count[p] = 1
    /\ lock_count' = [lock_count EXCEPT ![p] = 0]
    /\ frames' = [frames EXCEPT ![p] = @ - 1]
    /\ holder' = NoProc
    /\ \E failed \in BOOLEAN :
          privileged' = [privileged EXCEPT ![p] = failed /\ @]
    /\ UNCHANGED waiting

\* The process dies (or is restarted): the kernel frees what it held.
Die(p) ==
    /\ lock_count[p] > 0 \/ waiting[p] \/ privileged[p]
    /\ holder' = IF holder = p THEN NoProc ELSE holder
    /\ lock_count' = [lock_count EXCEPT ![p] = 0]
    /\ privileged' = [privileged EXCEPT ![p] = FALSE]
    /\ waiting' = [waiting EXCEPT ![p] = FALSE]
    /\ frames' = [frames EXCEPT ![p] = 0]

Lock(p) == LockBegin(p) \/ LockAcquire(p) \/ LockGiveUp(p) \/ LockAgain(p)

Unlock(p) == UnlockNested(p) \/ UnlockLast(p)

LockNext == \E p \in Proc : Lock(p) \/ Unlock(p) \/ Die(p)

LockSpec == LockInit /\ [][LockNext]_lockVars

-----------------------------------------------------------------------------
(***************************************************************************)
(* Properties                                                              *)
(***************************************************************************)

\* Two processes never believe at once that they have the database: the
\* counters of gum-lock.c exclude each other although each process counts on
\* its own.
MutualExclusion ==
    \A p, q \in Proc : lock_count[p] > 0 /\ lock_count[q] > 0 => p = q

\* The counter of a process says the truth about the system-wide lock: it is
\* positive exactly while the process has the lock file locked, so no early
\* return of lock or unlock leaves the database locked behind.
CounterIsHolder ==
    \A p \in Proc : lock_count[p] > 0 <=> holder = p

\* Nested callers: the lock is held exactly as long as some caller that was
\* told TRUE has not unlocked yet ("unlock needs to be called the same number
\* of times as that of lock").
HeldWhileNeeded ==
    \A p \in Proc : frames[p] = lock_count[p]

\* The database files are only written by root: whoever has the lock has the
\* privileges that come with it, at every nesting depth.
LockedIsPrivileged ==
    \A p \in Proc : lock_count[p] > 0 => privileged[p]
=============================================================================
