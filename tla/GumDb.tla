-------------------------------- MODULE GumDb --------------------------------
(***************************************************************************)
(* GumLock and GumFile together: processes that update a database file     *)
(* under the lock, as every caller of gum_file_update does, and that may   *)
(* be killed anywhere.  A power loss is the death of every process         *)
(* followed by the loss of the data that was not synced.                   *)
(***************************************************************************)
EXTENDS GumFile

dbVars == <<holder, lock_count, privileged, waiting, frames,
            source, old, tmp, fpc, entry, committed>>

DbTypeOK == LockTypeOK /\ FileTypeOK

DbInit == LockInit /\ FileInit

\* A thread is in one call at a time: no lock or unlock inside gum_file_update.
DbLocking(p) ==
    /\ fpc[p] = "idle"
    /\ Lock(p) \/ Unlock(p)
    /\ UNCHANGED fileVars

\* Mutant of DbUpdating: gum_file_update without the lock.
MutUpdateUnlocked(p) ==
    /\ Update(p)
    /\ UNCHANGED lockVars

\* Every caller of gum_file_update is between its lock and its unlock.
DbUpdating(p) ==
    /\ lock_count[p] > 0
    /\ Update(p)
    /\ UNCHANGED lockVars

DbDie(p) == Die(p) /\ Killed(p)

DbPowerLoss ==
    /\ holder = NoProc
    /\ PowerLoss
    /\ UNCHANGED lockVars

DbNext ==
    \/ \E p \in Proc : DbLocking(p) \/ DbUpdating(p) \/ DbDie(p)
    \/ DbPowerLoss

DbSpec == DbInit /\ [][DbNext]_dbVars

-----------------------------------------------------------------------------
(***************************************************************************)
(* Properties                                                              *)
(***************************************************************************)

\* At every instant, a power loss included, the database file is one whole
\* version: readers never see a part of an update, and no kill or failure of
\* any step of gum_file_close_db_files destroys the file.
SourceIntact == source.whole

\* No update that was reported as done is lost: neither a concurrent update of
\* another process nor a later failure or crash removes it again.
NoLostUpdate == committed \subseteq source.data

\* The backup, when there is one, is a whole earlier version of the file; it
\* never runs ahead of the file and never is the half-written copy.
BackupIsOlder ==
    old # NoFile => old.whole /\ old.data \subseteq source.data

\* An update that returns, whatever it returns, takes its copy away; only a
\* process that died leaves one behind (or an unlink that fails unnoticed, which
\* GumFile leaves out).
NoCopyLeft ==
    [][\A p \in Proc :
          fpc[p] # "idle" /\ fpc'[p] = "idle" /\ lock_count'[p] > 0
              => tmp'[p] = NoFile]_dbVars

\* The file is an atomic file: AtomicFile with the database file as content.
Atomic == INSTANCE AtomicFile WITH content <- source.data, acked <- committed

AtomicSpec == Atomic!Spec
=============================================================================
