----------------------------- MODULE GumDbProofs -----------------------------
(***************************************************************************)
(* Proofs about GumLock and GumDb, for any number of processes, entries    *)
(* and any nesting: the lock excludes, the database file is whole at every *)
(* instant, no update is lost and no copy left behind, and the system-call *)
(* level implements AtomicFile.                                            *)
(***************************************************************************)
EXTENDS GumDb, TLAPS

-----------------------------------------------------------------------------
(***************************************************************************)
(* The lock alone.                                                         *)
(***************************************************************************)
\* A process that waits in lckpwdf has its privileges and has not counted yet.
Waiting ==
    \A p \in Proc : waiting[p] => lock_count[p] = 0 /\ privileged[p]

\* The inductive invariant: mutual exclusion follows from what the counter of
\* each process says about the one holder.
LockInv ==
    /\ LockTypeOK
    /\ CounterIsHolder
    /\ HeldWhileNeeded
    /\ LockedIsPrivileged
    /\ Waiting

LEMMA LockInvInit == LockInit => LockInv
  BY LockAssumption DEF LockInit, LockInv, LockTypeOK, CounterIsHolder,
     HeldWhileNeeded, LockedIsPrivileged, Waiting

LEMMA LockInvNext == LockInv /\ [LockNext]_lockVars => LockInv'
<1> SUFFICES ASSUME LockInv, [LockNext]_lockVars
             PROVE  LockInv'
    OBVIOUS
<1> USE LockAssumption DEF LockInv, LockTypeOK, CounterIsHolder,
        HeldWhileNeeded, LockedIsPrivileged, Waiting
<1>1. ASSUME NEW p \in Proc, LockBegin(p) PROVE LockInv'
    BY <1>1 DEF LockBegin
<1>2. ASSUME NEW p \in Proc, LockAcquire(p) PROVE LockInv'
    BY <1>2 DEF LockAcquire
<1>3. ASSUME NEW p \in Proc, LockGiveUp(p) PROVE LockInv'
    BY <1>3 DEF LockGiveUp
<1>4. ASSUME NEW p \in Proc, LockAgain(p) PROVE LockInv'
    BY <1>4 DEF LockAgain
<1>5. ASSUME NEW p \in Proc, UnlockNested(p) PROVE LockInv'
    BY <1>5 DEF UnlockNested
<1>6. ASSUME NEW p \in Proc, UnlockLast(p) PROVE LockInv'
    BY <1>6 DEF UnlockLast
<1>7. ASSUME NEW p \in Proc, Die(p) PROVE LockInv'
    BY <1>7 DEF Die
<1>8. CASE UNCHANGED lockVars
    BY <1>8 DEF lockVars
<1>9. QED
    BY <1>1, <1>2, <1>3, <1>4, <1>5, <1>6, <1>7, <1>8
    DEF LockNext, Lock, Unlock

\* The invariant holds throughout, whatever the processes do and wherever
\* they die.
THEOREM LockInvariant == LockSpec => []LockInv
<1>1. QED
    BY LockInvInit, LockInvNext, PTL DEF LockSpec

\* Two processes never hold the database at once (gum_lock_pwdf_lock).
THEOREM LockMutualExclusion == LockSpec => []MutualExclusion
<1>1. LockInv => MutualExclusion
    BY DEF LockInv, CounterIsHolder, MutualExclusion
<1>2. QED
    BY <1>1, LockInvariant, PTL

\* The lock file is locked exactly while the counter of its holder is positive
\* (gum_lock_pwdf_lock, gum_lock_pwdf_unlock).
THEOREM LockCounterCorrect == LockSpec => []CounterIsHolder
<1>1. LockInv => CounterIsHolder
    BY DEF LockInv
<1>2. QED
    BY <1>1, LockInvariant, PTL

\* The lock is held as long as some caller needs it: a nested unlock does not
\* give it up (gum_lock_pwdf_unlock).
THEOREM LockHeldWhileNeeded == LockSpec => []HeldWhileNeeded
<1>1. LockInv => HeldWhileNeeded
    BY DEF LockInv
<1>2. QED
    BY <1>1, LockInvariant, PTL

\* Who holds the lock has the privileges it was taken for
\* (gum_utils_gain_privileges, gum_utils_drop_privileges).
THEOREM LockedAlwaysPrivileged == LockSpec => []LockedIsPrivileged
<1>1. LockInv => LockedIsPrivileged
    BY DEF LockInv
<1>2. QED
    BY <1>1, LockInvariant, PTL

-----------------------------------------------------------------------------
(***************************************************************************)
(* The lock and the file.                                                  *)
(***************************************************************************)
\* Only a process that has counted its lock is inside gum_file_update.
UpdaterLocked == \A p \in Proc : fpc[p] # "idle" => lock_count[p] > 0

SourceGood == source.whole /\ source.synced

BackupGood ==
    old # NoFile => /\ old.whole
                    /\ old.synced
                    /\ old.data \subseteq source.data

\* What the copy of a process inside gum_file_update is, step by step.
CopyGood ==
    \A p \in Proc :
       /\ fpc[p] \in {"write", "sync", "unlink_old", "link_old", "rename"}
             => tmp[p] \in File
       /\ fpc[p] \in {"sync", "unlink_old", "link_old", "rename"}
             => tmp[p].whole /\ tmp[p].data = source.data \cup {entry[p]}
       /\ fpc[p] \in {"unlink_old", "link_old", "rename"} => tmp[p].synced
       /\ fpc[p] = "renamed" => tmp[p] = NoFile

\* The update of a process that has renamed its copy is in the file.
RenamedStored == \A p \in Proc : fpc[p] = "renamed" => entry[p] \in source.data

\* The inductive invariant.  The copy equals the file plus one entry up to the
\* rename only because nobody else renames meanwhile: mutual exclusion.
DbInv ==
    /\ LockInv
    /\ FileTypeOK
    /\ UpdaterLocked
    /\ SourceGood
    /\ BackupGood
    /\ CopyGood
    /\ RenamedStored
    /\ NoLostUpdate

LEMMA DbLockStep == [DbNext]_dbVars => [LockNext]_lockVars
  BY DEF DbNext, dbVars, LockNext, lockVars, DbLocking, DbUpdating, DbDie,
     DbPowerLoss

\* What is proved of the lock holds of it in GumDb: inside the updates nothing
\* else happens to it.
THEOREM DbLocksTheSame == DbSpec => LockSpec
<1>1. QED
    BY DbLockStep, PTL DEF DbSpec, DbInit, LockSpec

LEMMA DbInvInit == DbInit => DbInv
<1> SUFFICES ASSUME DbInit PROVE DbInv
    OBVIOUS
<1>1. LockInv
    BY LockInvInit DEF DbInit
<1>2. FileTypeOK
    BY DEF DbInit, FileInit, FileTypeOK, File, Steps
<1>3. QED
    BY <1>1, <1>2 DEF DbInit, FileInit, DbInv, UpdaterLocked, SourceGood,
       BackupGood, CopyGood, RenamedStored, NoLostUpdate

\* A step of gum_file_update by the one process that has the lock.
LEMMA UpdateKeepsDbInv ==
    ASSUME DbInv, NEW p \in Proc, lock_count[p] > 0, Update(p),
           UNCHANGED lockVars
    PROVE  DbInv'
<1> USE FileAssumption DEF DbInv
<1>1. LockInv'
    BY LockInvNext
<1>2. UpdaterLocked'
    BY DEF UpdaterLocked, lockVars, FileTypeOK, Steps, Update, Open, Write,
       WriteFails, Sync, SyncFails, UnlinkOld, LinkOld, Rename, RenameFails,
       Return, GoTo, Abandon
<1>3. \A q \in Proc : q # p => fpc[q] = "idle"
    BY DEF UpdaterLocked, LockInv, CounterIsHolder
<1> USE DEF FileTypeOK, SourceGood, BackupGood, CopyGood, RenamedStored,
        NoLostUpdate, Steps, File, GoTo, Abandon
<1>4. CASE Open(p)
    BY <1>3, <1>4, <1>1, <1>2 DEF Open
<1>5. CASE Write(p)
    BY <1>3, <1>5, <1>1, <1>2 DEF Write
<1>6. CASE WriteFails(p)
    BY <1>3, <1>6, <1>1, <1>2 DEF WriteFails
<1>7. CASE Sync(p)
    <2>1. PICK copy : copy = [tmp[p] EXCEPT !.synced = TRUE]
        OBVIOUS
    <2>2. tmp[p] \in File /\ fpc[p] = "sync"
        BY <1>7 DEF Sync
    <2>3. /\ copy \in File /\ copy.data = tmp[p].data
          /\ copy.whole = tmp[p].whole /\ copy.synced
        BY <2>1, <2>2
    <2>4. tmp' = [tmp EXCEPT ![p] = copy]
        BY <1>7, <2>1 DEF Sync
    <2>5. fpc' = [fpc EXCEPT ![p] = "unlink_old"] /\ fpc[p] = "sync"
        BY <1>7 DEF Sync
    <2>6. UNCHANGED <<source, old, entry, committed>>
        BY <1>7 DEF Sync
    <2>7. FileTypeOK'
        BY <2>3, <2>4, <2>5, <2>6
    <2>8. CopyGood'
        BY <1>3, <2>3, <2>4, <2>5, <2>6
    <2> QED BY <1>1, <1>2, <2>5, <2>6, <2>7, <2>8
<1>8. CASE SyncFails(p)
    BY <1>3, <1>8, <1>1, <1>2 DEF SyncFails
<1>9. CASE UnlinkOld(p)
    BY <1>3, <1>9, <1>1, <1>2 DEF UnlinkOld
<1>10. CASE LinkOld(p)
    BY <1>3, <1>10, <1>1, <1>2 DEF LinkOld
<1>11. CASE Rename(p)
    BY <1>3, <1>11, <1>1, <1>2 DEF Rename
<1>12. CASE RenameFails(p)
    BY <1>3, <1>12, <1>1, <1>2 DEF RenameFails
<1>13. CASE Return(p)
    BY <1>3, <1>13, <1>1, <1>2 DEF Return
<1>14. QED
    BY <1>4, <1>5, <1>6, <1>7, <1>8, <1>9, <1>10, <1>11, <1>12, <1>13
    DEF Update

LEMMA DbInvNext == DbInv /\ [DbNext]_dbVars => DbInv'
<1> SUFFICES ASSUME DbInv, [DbNext]_dbVars
             PROVE  DbInv'
    OBVIOUS
<1> USE FileAssumption DEF DbInv
<1>1. LockInv'
    BY LockInvNext, DbLockStep
<1>2. ASSUME NEW p \in Proc, DbLocking(p) PROVE DbInv'
    <2>1. UpdaterLocked'
        <3>1. \A q \in Proc : fpc[q] # "idle" => q # p /\ holder = q
            BY <1>2 DEF DbLocking, UpdaterLocked, LockInv, CounterIsHolder
        <3>2. \A q \in Proc : q # p => lock_count'[q] = lock_count[q]
            BY <1>2 DEF DbLocking, Lock, Unlock, LockBegin, LockAcquire,
               LockGiveUp, LockAgain, UnlockNested, UnlockLast, LockInv,
               LockTypeOK
        <3>3. QED
            BY <1>2, <3>1, <3>2 DEF DbLocking, fileVars, UpdaterLocked
    <2>2. QED
        BY <1>1, <1>2, <2>1 DEF DbLocking, fileVars, FileTypeOK, SourceGood,
           BackupGood, CopyGood, RenamedStored, NoLostUpdate
<1>3. ASSUME NEW p \in Proc, DbUpdating(p) PROVE DbInv'
    BY <1>3, UpdateKeepsDbInv DEF DbUpdating
<1>4. ASSUME NEW p \in Proc, DbDie(p) PROVE DbInv'
    <2>1. UpdaterLocked'
        BY <1>4 DEF DbDie, Killed, Die, UpdaterLocked, FileTypeOK, LockInv,
           LockTypeOK
    <2>2. QED
        BY <1>1, <1>4, <2>1 DEF DbDie, Killed, FileTypeOK, Steps, SourceGood,
           BackupGood, CopyGood, RenamedStored, NoLostUpdate
<1>5. CASE DbPowerLoss
    <2>1. UpdaterLocked'
        BY <1>5 DEF DbPowerLoss, PowerLoss, lockVars, UpdaterLocked
    <2>2. FileTypeOK'
        BY <1>5 DEF DbPowerLoss, PowerLoss, Torn, FileTypeOK, File
    <2>3. source' = source /\ old' = old
        BY <1>5 DEF DbPowerLoss, PowerLoss, Torn, FileTypeOK, File, SourceGood,
           BackupGood
    <2>4. QED
        BY <1>1, <1>5, <2>1, <2>2, <2>3 DEF DbPowerLoss, PowerLoss, SourceGood,
           BackupGood, CopyGood, RenamedStored, NoLostUpdate
<1>6. CASE UNCHANGED dbVars
    BY <1>1, <1>6 DEF dbVars, UpdaterLocked, FileTypeOK, SourceGood,
       BackupGood, CopyGood, RenamedStored, NoLostUpdate
<1>7. QED
    BY <1>2, <1>3, <1>4, <1>5, <1>6 DEF DbNext

\* The inductive invariant holds in every reachable state of GumDb.
THEOREM DbInvariant == DbSpec => []DbInv
<1>1. QED
    BY DbInvInit, DbInvNext, PTL DEF DbSpec

\* Types, for every set of processes and entries.
THEOREM DbTypeCorrect == DbSpec => []DbTypeOK
<1>1. DbInv => DbTypeOK
    BY DEF DbInv, LockInv, DbTypeOK
<1>2. QED
    BY <1>1, DbInvariant, PTL

\* gum_file_update never leaves a torn database file, whichever of its system
\* calls fails and wherever the process or the machine dies.
THEOREM FileAlwaysWhole == DbSpec => []SourceIntact
<1>1. DbInv => SourceIntact
    BY DEF DbInv, SourceGood, SourceIntact
<1>2. QED
    BY <1>1, DbInvariant, PTL

\* The backup <file>.old is always a whole earlier version.
THEOREM BackupAlwaysOlder == DbSpec => []BackupIsOlder
<1>1. DbInv => BackupIsOlder
    BY DEF DbInv, BackupGood, BackupIsOlder
<1>2. QED
    BY <1>1, DbInvariant, PTL

\* No update that returned TRUE is lost, however many processes update.
THEOREM UpdatesNotLost == DbSpec => []NoLostUpdate
<1>1. DbInv => NoLostUpdate
    BY DEF DbInv
<1>2. QED
    BY <1>1, DbInvariant, PTL

\* gum_file_update takes its copy away, whichever of its steps fails: only a
\* process that dies leaves one behind.
THEOREM CopiesTakenAway == DbSpec => NoCopyLeft
<1> DEFINE Leaves(p) == fpc[p] # "idle" /\ fpc'[p] = "idle" /\ lock_count'[p] > 0
<1>1. DbInv /\ [DbNext]_dbVars =>
         [\A p \in Proc : Leaves(p) => tmp'[p] = NoFile]_dbVars
    <2> SUFFICES ASSUME DbInv, [DbNext]_dbVars, NEW p \in Proc, Leaves(p)
                 PROVE  tmp'[p] = NoFile
        OBVIOUS
    <2>1. tmp \in [Proc -> File \cup {NoFile}] /\ fpc \in [Proc -> Steps]
        BY DEF DbInv, FileTypeOK
    <2>2. CASE DbUpdating(p)
        BY <2>1, <2>2 DEF DbUpdating, Update, Open, Write, WriteFails, Sync, SyncFails,
           UnlinkOld, LinkOld, Rename, RenameFails, Return, GoTo, Abandon,
           DbInv, CopyGood
    <2>3. ASSUME NEW q \in Proc, DbUpdating(q), q # p
          PROVE  FALSE
        BY <2>1, <2>3 DEF DbUpdating, DbInv, UpdaterLocked, LockInv, CounterIsHolder
    <2>4. ASSUME NEW q \in Proc, DbDie(q)
          PROVE  FALSE
        BY <2>1, <2>4 DEF DbDie, Die, Killed, DbInv, LockInv, LockTypeOK
    <2>5. ASSUME NEW q \in Proc, DbLocking(q)
          PROVE  FALSE
        BY <2>5 DEF DbLocking, fileVars
    <2>6. ~ DbPowerLoss /\ ~ UNCHANGED dbVars
        BY DEF DbPowerLoss, PowerLoss, dbVars
    <2>7. QED
        BY <2>2, <2>3, <2>4, <2>5, <2>6 DEF DbNext
<1>2. QED
    BY <1>1, DbInvariant, PTL DEF DbSpec, NoCopyLeft

-----------------------------------------------------------------------------
(***************************************************************************)
(* Refinement: each step of GumDb applies an entry, acknowledges one or    *)
(* leaves the atomic file alone.                                           *)
(***************************************************************************)
LEMMA DbRefinesInit == DbInit => Atomic!Init
  BY DEF DbInit, FileInit, Atomic!Init

LEMMA DbRefinesNext ==
    DbInv /\ [DbNext]_dbVars => [Atomic!Next]_<<source.data, committed>>
<1> SUFFICES ASSUME DbInv, [DbNext]_dbVars
             PROVE  [Atomic!Next]_<<source.data, committed>>
    OBVIOUS
<1>1. ASSUME NEW p \in Proc, DbUpdating(p)
      PROVE  [Atomic!Next]_<<source.data, committed>>
    <2>1. entry[p] \in Entry
        BY DEF DbInv, FileTypeOK
    <2>2. CASE Rename(p)
        <3>1. source'.data = source.data \cup {entry[p]} /\ committed' = committed
            BY <2>2 DEF Rename, GoTo, DbInv, CopyGood
        <3>2. QED
            BY <2>1, <3>1 DEF Atomic!Next, Atomic!Apply
    <2>3. CASE Return(p)
        <3>1. /\ entry[p] \in source.data
              /\ source' = source
              /\ committed' = committed \cup {entry[p]}
            BY <2>3 DEF Return, GoTo, DbInv, RenamedStored
        <3>2. QED
            BY <2>1, <3>1 DEF Atomic!Next, Atomic!Acknowledge
    <2>4. CASE ~Rename(p) /\ ~Return(p)
        BY <1>1, <2>4 DEF DbUpdating, Update, Open, Write, WriteFails, Sync,
           SyncFails, UnlinkOld, LinkOld, RenameFails
    <2>5. QED
        BY <2>2, <2>3, <2>4
<1>2. CASE DbPowerLoss
    BY <1>2 DEF DbPowerLoss, PowerLoss, Torn, DbInv, FileTypeOK, File, SourceGood
<1>3. CASE (\E p \in Proc : DbLocking(p) \/ DbDie(p)) \/ UNCHANGED dbVars
    BY <1>3 DEF DbLocking, fileVars, DbDie, Killed, dbVars
<1>4. QED
    BY <1>1, <1>2, <1>3 DEF DbNext

\* gum_file_update under the lock implements an atomic file.
THEOREM DbImplementsAtomicFile == DbSpec => AtomicSpec
<1>1. QED
    BY DbRefinesInit, DbRefinesNext, DbInvariant, PTL
    DEF DbSpec, AtomicSpec, Atomic!Spec
=============================================================================
