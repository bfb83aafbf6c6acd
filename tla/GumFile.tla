------------------------------- MODULE GumFile -------------------------------
(***************************************************************************)
(* Replacing a database file, gum_file_update and its two helpers in       *)
(* src/common/gum-file.c.  A process copies the file, entry by entry and   *)
(* with its change, into <file>-tmp.<pid>, syncs the copy, keeps the old   *)
(* file as <file>.old through a hard link and renames the copy over the    *)
(* file.  Each system call is a step.  Those whose failure the code        *)
(* handles may fail; g_unlink, whose result it ignores, is taken to        *)
(* succeed.  The process may be killed between any two steps and the       *)
(* machine may lose its power.                                             *)
(*                                                                         *)
(* External: link, unlink and rename are atomic and survive a power loss   *)
(* in their order; data that was not synced does not.                      *)
(***************************************************************************)
EXTENDS GumLock   \* for Proc: each process has its own pid, hence its own copy

CONSTANTS Entry,   \* the entries that updates write
          NoFile   \* the name is not in the directory

VARIABLES
    source,     \* the database file
    old,        \* its backup, <file>.old
    tmp,        \* the copy of each process, <file>-tmp.<pid>
    fpc,        \* where each process is in gum_file_update
    entry,      \* the entry each process writes
    committed   \* the entries whose gum_file_update returned TRUE

fileVars == <<source, old, tmp, fpc, entry, committed>>

\* A file: its entries, whether all of them were written, whether it is synced.
File == [data : SUBSET Entry, whole : BOOLEAN, synced : BOOLEAN]

Steps == {"idle", "write", "sync", "unlink_old", "link_old", "rename", "renamed"}

ASSUME FileAssumption == NoFile \notin File

FileTypeOK ==
    /\ source \in File
    /\ old \in File \cup {NoFile}
    /\ tmp \in [Proc -> File \cup {NoFile}]
    /\ fpc \in [Proc -> Steps]
    /\ entry \in [Proc -> Entry]
    /\ committed \in SUBSET Entry

FileInit ==
    /\ source = [data |-> {}, whole |-> TRUE, synced |-> TRUE]
    /\ old = NoFile
    /\ tmp = [p \in Proc |-> NoFile]
    /\ fpc = [p \in Proc |-> "idle"]
    /\ entry \in [Proc -> Entry]
    /\ committed = {}

GoTo(p, from, to) ==
    /\ fpc[p] = from
    /\ fpc' = [fpc EXCEPT ![p] = to]

\* The failure paths: the copy is unlinked and FALSE returned.
Abandon(p) ==
    /\ fpc' = [fpc EXCEPT ![p] = "idle"]
    /\ tmp' = [tmp EXCEPT ![p] = NoFile]

-----------------------------------------------------------------------------
\* gum_file_open_db_files: the copy is created empty (a copy that a killed
\* process with the same pid left behind is truncated).
Open(p) ==
    /\ GoTo(p, "idle", "write")
    /\ tmp' = [tmp EXCEPT ![p] = [data |-> {}, whole |-> FALSE, synced |-> FALSE]]
    /\ \E e \in Entry : entry' = [entry EXCEPT ![p] = e]
    /\ UNCHANGED <<source, old, committed>>

\* The callback: the entries of the file and the new one go to the copy...
Write(p) ==
    /\ GoTo(p, "write", "sync")
    /\ tmp' = [tmp EXCEPT ![p] = [data |-> source.data \cup {entry[p]},
                                  whole |-> TRUE, synced |-> FALSE]]
    /\ UNCHANGED <<source, old, entry, committed>>

\* Mutant of WriteFails: the copy of a failed callback is left behind.
MutWriteFailsNoUnlink(p) ==
    /\ GoTo(p, "write", "idle")
    /\ UNCHANGED <<source, old, tmp, entry, committed>>

\* ...or a write fails or the entry is not as expected.  The attributes of the
\* copy that cannot be set end in the same way.
WriteFails(p) ==
    /\ fpc[p] = "write"
    /\ Abandon(p)
    /\ UNCHANGED <<source, old, entry, committed>>

\* Mutant of Sync: fclose without fflush and fsync.
MutNoSync(p) ==
    /\ GoTo(p, "sync", "unlink_old")
    /\ UNCHANGED <<source, old, tmp, entry, committed>>

\* gum_file_close_db_files: fflush, fsync and fclose of the copy.
Sync(p) ==
    /\ GoTo(p, "sync", "unlink_old")
    /\ tmp' = [tmp EXCEPT ![p].synced = TRUE]
    /\ UNCHANGED <<source, old, entry, committed>>

SyncFails(p) ==
    /\ fpc[p] = "sync"
    /\ Abandon(p)
    /\ UNCHANGED <<source, old, entry, committed>>

\* "delete obsolote backup file if any"
UnlinkOld(p) ==
    /\ GoTo(p, "unlink_old", "link_old")
    /\ old' = NoFile
    /\ UNCHANGED <<source, tmp, entry, committed>>

\* Mutant of LinkOld: the copy, not the file, becomes the backup.
MutLinkCopy(p) ==
    /\ GoTo(p, "link_old", "rename")
    /\ old' \in {tmp[p], old}
    /\ UNCHANGED <<source, tmp, entry, committed>>

\* The backup is a hard link to the file; a failure is only logged.
LinkOld(p) ==
    /\ GoTo(p, "link_old", "rename")
    /\ old' \in {source, old}
    /\ UNCHANGED <<source, tmp, entry, committed>>

\* The copy becomes the file.
Rename(p) ==
    /\ GoTo(p, "rename", "renamed")
    /\ source' = tmp[p]
    /\ tmp' = [tmp EXCEPT ![p] = NoFile]
    /\ UNCHANGED <<old, entry, committed>>

\* Mutant of RenameFails: the failure is not put into the result.
MutRenameFailsUnreported(p) ==
    /\ fpc[p] = "rename"
    /\ old' = NoFile
    /\ Abandon(p)
    /\ committed' = committed \cup {entry[p]}
    /\ UNCHANGED <<source, entry>>

\* A rename that fails takes the new backup away as well.
RenameFails(p) ==
    /\ fpc[p] = "rename"
    /\ old' = NoFile
    /\ Abandon(p)
    /\ UNCHANGED <<source, entry, committed>>

\* gum_file_update returns TRUE.
Return(p) ==
    /\ GoTo(p, "renamed", "idle")
    /\ committed' = committed \cup {entry[p]}
    /\ UNCHANGED <<source, old, tmp, entry>>

Update(p) ==
    \/ Open(p)
    \/ Write(p) \/ WriteFails(p)
    \/ Sync(p) \/ SyncFails(p)
    \/ UnlinkOld(p)
    \/ LinkOld(p)
    \/ Rename(p) \/ RenameFails(p)
    \/ Return(p)

-----------------------------------------------------------------------------
\* The process is killed; its copy stays where it is.
Killed(p) ==
    /\ fpc' = [fpc EXCEPT ![p] = "idle"]
    /\ UNCHANGED <<source, old, tmp, entry, committed>>

\* What was not synced is torn after a power loss.
Torn(f) == IF f = NoFile THEN f ELSE [f EXCEPT !.whole = @ /\ f.synced]

PowerLoss ==
    /\ \A p \in Proc : fpc[p] = "idle"
    /\ source' = Torn(source)
    /\ old' = Torn(old)
    /\ tmp' = [p \in Proc |-> Torn(tmp[p])]
    /\ UNCHANGED <<fpc, entry, committed>>
=============================================================================
