# gumd: the user and group manager, in TLA+

gumd adds, deletes and updates the users and groups of a Tizen device. A daemon
offers this on D-Bus; a client library calls the daemon or, in offline mode,
links the same core and works on the files itself. This directory holds TLA+
modules of that code, TLC configurations that check them on small instances,
and TLAPS proofs for every value of the constants. Paths below are relative to
the repository; `core/` is `src/daemon/core/`, `common/` is `src/common/`.

## The system

| Part | State | Operations | Who calls it |
| --- | --- | --- | --- |
| Lock (`common/gum-lock.c`) | a static counter per process, the system-wide lock file, the effective uid | lock, unlock; nested | every core operation |
| File replacement (`common/gum-file.c`) | database file, `.old` backup, `-tmp.<pid>` copy | open, write through a callback, sync, link, rename | every core operation |
| Users (`core/gumd-daemon-user.c`) | one object per handle: passwd entry, shadow entry, secret, type, icon | new, new_by_uid/name, add, delete, update, list | daemon, offline clients |
| Groups (`core/gumd-daemon-group.c`) | one object per handle: group entry, gshadow entry, secret, type | new, new_by_gid/name, add, delete, update, add/delete member, delete_user_membership | daemon, offline clients, user operations |
| Daemon (`core/gumd-daemon.c`) | caches of user and group objects with weak references | get, add, delete, update; signals | service adapters |
| Disposables (`common/gum-disposable.c`) | keep-alive counter, one timer, delete-later flag | set_auto_dispose, set_timeout, delete_later | adapters |
| Service and object adapters (`src/daemon/dbus/*adapter.c`) | adapters per peer and object, peer watches | D-Bus handlers, property synchronisation, disposal | D-Bus |
| Servers and main (`src/daemon/dbus/*server*.c`, `src/daemon/main.c`) | bus name, peer connections | start, stop, exit when idle | GLib main loop |
| Client library (`src/lib/*.c`) | proxy, cached properties, one pending operation per object | create, get, add, delete, update, with and without callback | applications, `src/utils/gumd-utils.c` |
| Helpers (`common/gum-string-utils.c`, `-validate.c`, `-crypt.c`, `-user-types.c`, `-config.c`, `-dictionary.c`, `-error.c`, `-utils.c`) | none, or key-value storage | pure functions, scripts | everybody |

The daemon is single-threaded. What makes it hard is elsewhere: several
processes write the same files (the daemon and offline clients); an operation
updates up to four files one after the other, each of which may fail or be the
last one before a crash, and nothing is rolled back; objects live longer than
the lock under which they were filled; ids are allocated first-free, so a
deleted user's uid comes back at once; and callbacks, timers and vanishing
peers touch shared objects. `PROJECT.json` lists each of these as a hazard at
its line.

What makes each part correct:

- Lock: a process counts the lock as its own exactly while it holds the lock
  file; nesting is balanced; privileges are there when needed and gone when not.
- File replacement: an update is applied as a whole or not at all, through any
  failure, kill or power loss; nothing acknowledged is lost; no copy is left.
- Users and groups: unique names and ids; a primary group that outlives its
  users; agreement of passwd with shadow and of group with gshadow; no trace of
  a deleted user that the next one inherits; TRUE only for finished work; an
  object that never turns into another user.
- Daemon: the cache, which holds no references, has only live objects; signals
  tell exactly what happened.
- Disposables and adapters: nothing in use is disposed, nothing unused stays;
  counters, timers, references and lists agree in whatever order clients come,
  go and time out.
- Server: the process ends when nobody is left, and not before.
- Client: every callback is called once, for its own operation.

## Modules

| Module | Models | Built on |
| --- | --- | --- |
| `GumLock` | `gum_lock_pwdf_lock` and `_unlock` | |
| `GumFile` | `gum_file_update`, `gum_file_open_db_files`, `gum_file_close_db_files` | `GumLock` |
| `GumDb` | updates under the lock, kills, power loss | `GumFile` |
| `AtomicFile` | abstract: what a database file promises | |
| `AccountFiles` | the four files, their entries, lookups, id allocation | |
| `GumdDaemonGroup` | every operation of `core/gumd-daemon-group.c` | `AccountFiles` |
| `GumdDaemonUser` | every changing operation of `core/gumd-daemon-user.c`, home directories, userinfo | `GumdDaemonGroup` |
| `GumdAccounts` | processes that call these operations, and crashes; the properties | `GumdDaemonUser` |
| `Accounts` | abstract: the users and groups of a system | |
| `MCGumdAccounts` | values of the constants for TLC | `GumdAccounts` |
| `GumDisposable` | `common/gum-disposable.c`, as operators on a record | |
| `GumdDaemon` | `core/gumd-daemon.c`: the user cache, references, signals | |
| `GumdDbusUserService` | `gumd-dbus-user-service-adapter.c`, `gumd-dbus-user-adapter.c` | `GumdDaemon`, `GumDisposable` |
| `GumdDbusGroupService` | `gumd-dbus-group-service-adapter.c`, `gumd-dbus-group-adapter.c`, the groups of `core/gumd-daemon.c` | an instance of `GumdDbusUserService` |
| `GumdServerP2P` | `gumd-dbus-server-p2p.c`: connections with services of their own | an instance of `GumdDbusUserService` |
| `MCGumdDbusUserService` | a behaviour of one of these three, and symmetry, for TLC | `GumdDbusUserService`, `GumdDbusGroupService`, `GumdServerP2P` |
| `GumdServer` | `main.c`, `gumd-dbus-server-msg-bus.c`, the group service as in use or not | `GumdDbusUserService` |
| `GumCalls` | the operation of a client object, its idle source; GDBus and the daemon as a client sees them | |
| `GumUserService` | `src/lib/gum-user-service.c` | `GumCalls` |
| `GumUser`, `GumGroup` | `src/lib/gum-user.c`, `src/lib/gum-group.c` | `GumUserService`, `GumCalls` |
| `GumClient` | a program that uses the library, and its main loop; the properties | `GumUser`, `GumGroup` |
| `AsyncCalls` | abstract: what the library promises of an asynchronous call | |
| `GumDbProofs`, `GumdAccountsProofs`, `GumDisposableProofs`, `GumClientProofs` | theorems | the modules they name, `GumDbProofs` also `GumLock` |
| `GumdFilesProofs` | theorems about the four files | `GumdAccountsProofs` |
| `GumdDaemonProofs` | lemmas about adapters and the objects they share, for every service | `GumdDbusUserService`, `GumDisposableProofs` |
| `GumdServicesProofs` | theorems about the user service, the group service, the peer-to-peer server | `GumdDaemonProofs`, instances of `GumdDbusGroupService` and `GumdServerP2P` |
| `GumdServerProofs` | theorems about the whole daemon | `GumdServer`, `GumdServicesProofs` |

### GumLock, GumFile, GumDb

`lock_count[p]` is the static counter, `holder` the process that has
`/etc/.pwd.lock` locked, `privileged[p]` whether the effective uid is 0,
`waiting[p]` that the process is inside `lckpwdf`, and `frames[p]` the callers
that were told TRUE and have not unlocked: the code does not store that, it is
what its callers believe. `LockBegin`, `LockAcquire`, `LockGiveUp` and
`LockAgain` are the outcomes of a lock call, `UnlockNested` and `UnlockLast`
those of an unlock. `lckpwdf` is external: a write lock for which it waits at
most fifteen seconds and which the kernel drops with its holder. Raising the
effective uid is taken to succeed; the code only logs when it does not.

`GumFile` has one action per system call of `gum_file_update`: `Open`, `Write`,
`Sync`, `UnlinkOld`, `LinkOld`, `Rename`, `Return` and a failure for each that
the code handles (`g_unlink`, whose result it ignores, is taken to succeed; a copy
that cannot be unlinked stays, which `NoCopyLeft` does not see). A file is a set of entries with two flags, whether it was
written to its end and whether it was synced; a power loss tears what was not
synced (external: `link`, `unlink` and `rename` are atomic and ordered).
`GumDb` lets processes do this only under the lock, as every caller in `core/`
does, kills them anywhere and switches the machine off.

### AccountFiles, GumdDaemonGroup, GumdDaemonUser, GumdAccounts

`GumDb` is what justifies the grain here: one `gum_file_update` is one step, it
replaces its file or leaves it, and between `Begin` and `End` of an operation
no other process writes. So a file is a set of entries, `holder` is the lock,
and `pc[p]` the next update of the operation process p is in. Readers take the
lock too (`new_by_uid`, `new_by_name` and the others), so `LoadUser` and
`LoadGroup` need `holder = NoProc`.

A process has one user object `usr[p]` and one group object `grp[p]` of its own,
which it keeps across operations: that is where stale data comes from. `obj[p]`
is the group object at work, the caller's or one that a user operation made for
itself (`_set_group`, `_set_default_groups`, `_delete_group`); `ret[p]` says
which step of the user operation goes on when that group operation is done.

| Code | Actions |
| --- | --- |
| `gumd_daemon_user_add` | `CallUserAdd` (`_set_uid`), `SetGroup`, `SetGroupReturns`, `SetShadow`, `PasswdAdd`, `ShadowAdd`, `UserinfoAdd`, `DefaultGroup` and its return, `HomeAdd`, `UserReturns` |
| `gumd_daemon_user_delete` | `CallUserDelete`, `LockPassword`, `TerminateUser`, `UserinfoDel`, `PasswdDel`, `ShadowDel`, `DelGroup`, `StripGroup`, `StripGshadow`, `HomeDel`; `UnlockPassword` after a failure |
| `gumd_daemon_user_update` | `CallUserUpdate`, `PasswdMod`, `ShadowMod` |
| `gumd_daemon_group_add` | `StartAdd`, `AddToGroup`, `AddToGshadow` |
| `gumd_daemon_group_delete` | `StartDelete`, `DeleteFromGroup`, `DeleteFromGshadow` |
| `gumd_daemon_group_update` | `StartUpdate`, `ModifyGroup`, `ModifyGshadow` |
| `..._add_member`, `..._delete_member` | `StartAddMember`, `StartDeleteMember`, then the same two |
| a failed update | `GroupUpdateFails`, `UserUpdateFails`, `DeleteUpdateFails` |
| the death of a process | `Die` |

Data is abstracted to what the properties tell apart. A password is a body
behind an optional `!`; the body is empty, `*`, or the hash of a secret. The
gecos fields and the shell are one value. A home directory is its owner, or
missing. The script hooks, the aging fields of shadow and the file order of the
entries are left out. The test for self-destruction refuses nobody in the
model, because under the lock `geteuid` is 0 and root is not among its users.
Nor does that of `gumd_daemon_group_delete`: `getegid` is the gid of the group
`gumd` in the daemon (`main.c`) and root's in the tools, and neither group is
among those of the model.

What can fail is named one by one (`FaultKind`): the update of one of the four
files (`io`), encryption, home directories, the sessions of a user, and a userinfo
file that is not written or not removed (`userinfo`). The last is a kind of its
own because no operation looks at the result: `_delete_userinfo` ignores
`g_remove`, `gumd_daemon_user_add` and `_update` ignore a file that is not
written, and each goes on to the next step as if it had worked. Lookups are taken
to find what is in the files (the hazard at `gumd-daemon-user.c:842`).

### GumDisposable, GumdDaemon, GumdDbusUserService, GumdServer

The daemon is one thread with a main loop, and no D-Bus handler returns to that
loop before it is done. So a request, a timer that fires, the news that a peer
left the bus, and a signal are one step each, and an account operation, which
`GumdAccounts` takes apart, is one step on `database`, with the two outcomes of
a failure that leave something behind: the object has taken a uid, or passwd is
written and the rest is not.

A disposable is a record. `timer_id` is what the stored source id names: no
source, the timeout, or the idle source of `delete_later`. `forgotten` is not in
the code: it says that the main loop still has a source that `timer_id` no
longer names, which would dispose the object under its users.

`object` holds the `GumdDaemonUser` objects with their reference counts, `users`
the hash table from uids to objects, without references, and `known` what a
listener to user-added and user-deleted believes. An adapter belongs to a peer,
owns one reference to a user object, and is itself owned by the list
`peer_users`; two peers that ask for the same uid get two adapters of one
object. The list is a set here: nothing that is modelled depends on its order.

| Code | Actions |
| --- | --- |
| `_handle_create_new_user`, `_handle_get_user`, `_handle_get_user_by_name` | `CreateNewUser`, `GetUser`, `GetUserByName` when they make an adapter, else `AnswerUser` |
| `_handle_get_user_list` | `AnswerUser` |
| `_handle_add_user`, `_handle_delete_user`, `_handle_update_user` | `HandleAddUser`, `HandleDeleteUser`, `HandleUpdateUser` |
| `_on_dbus_property_changed` | `WriteUsername` |
| `_auto_dispose` of an adapter, `_on_dbus_user_adapter_disposed` | `AdapterDue` |
| `_on_bus_name_lost` | `PeerLost`; `PeerVanishes` is the bus |
| `_dispose` of the service | `UserServiceEnds` |
| `_on_bus_acquired`, `_on_name_lost`, `_close_server` | `BusAcquired`, `NameLost`, `CloseServer`, `StaleClose` |
| `_on_user_interface_dispose`, `_on_group_interface_dispose` | `UserServiceDue`, `GroupServiceDue` |
| SIGTERM and SIGINT, SIGHUP | `QuitSignal`, `Reload` |

The group service does the same things line for line, so `GumdDbusGroupService`
takes them from an instance of `GumdDbusUserService` and defines what differs:
adding a group is announced to nobody (`AddGroup`), deleting one that is a
primary group keeps it and announces it as deleted (`DeleteGroup`), an adapter
has requests for members (`HandleGroupMember`), and there is no list.

On a peer-to-peer connection (`GumdServerP2P`) each peer has a user service and
a group service of its own; all of them share the objects of one daemon. These
services have no timeout, so nobody keeps or releases them; they go with their
connection (`ConnectionClosed`) or with the server (`ServerEnds`), adapters
first. `user_service_adapters` is the table of connections that have a service,
which takes the place of the watched peers. The groups of such a connection are
other objects of other tables, written and cleared in the same places.

Both services dispose the connection by closing its stream, and they share it:
in `GumdServer` the end of one service makes every peer vanish. `stale_closing`
is the idle source of a server that a reload has freed in between.

### GumCalls, GumUserService, GumUser, GumGroup, GumClient

A client is one thread as well. A call without callback sends its request and
blocks; a call with one leaves an operation in the object, GDBus queues the
reply (`inbox`), the handler of the reply stores the error and schedules an idle
source, and that source runs the callback. An object that is dropped cancels its
call and removes its source. `call` has, of every asynchronous call, what GDBus
has for the client and whether the daemon is done with it: GDBus gives a call up
after 25 seconds, and the daemon may still carry it out. `remote` is the D-Bus
object, and of an offline object the account itself. `sources` counts the idle
sources of an object that the main loop has, which the code does not know
except through `cb_id`.

| Code | Actions |
| --- | --- |
| `gum_user_create`, `_get`, `_get_by_name` | of the same names; `OnMakeUserCb` is the handler of the reply |
| `gum_user_add`, `_delete`, `_update` | of the same names; `OnUserRequestCb` |
| the `_sync` calls | of the same names, online and offline |
| `_trigger_callback`, `_dispose` | `UserTriggerCallback`, `UserDispose` |
| `gum-group.c` | likewise, and the two calls for members |
| `gum_user_service_create`, `_get_user_list` and their `_sync` | of the same names; `OnGetUserListCb` |
| `_service_dbus_proxy_callback`, `_trigger_callback`, `_trigger_user_list_callback` | `ServiceDbusProxyCallback`, `ServiceTriggerCallback`, `TriggerUserListCallback` |
| `_constructor`, `_dispose` of the service | `Constructor`, `ServiceDispose` |
| the signals of a proxy | `DeliverSignal` |

The daemon and GDBus are external: a call succeeds or fails as its kind and the
state of the D-Bus object allow, replies and signals keep their order, and a
blocking call does not look at the queue. The data of an object is one bit: is
its id known. `get` stands for both ways to get an object, `update` for the two
calls for members in what they do to `remote`. The program keeps to what the
tests of the library do: no call on an object before the callback of the last
one has run (`Quiet`), and no object is dropped by its own callback.

Every online user object also makes, or refers to, the one user service of the
process, and runs the callback of its proxy, whatever the service is doing. So
that callback may schedule the callback of a call that was told already or of a
list, and forget the id of a source that is still queued. The model has this:
`told` can be `again`, and `service_sources["freed"]` counts the sources that
outlive their service. The properties are those that hold beside it;
`CallsAreTold` is about calls on users and groups.

## Runs

| Run | Instance | Checks |
| --- | --- | --- |
| `db` | 2 processes, nesting 2, 2 entries | the lock properties; the file properties; refines `AtomicFile` |
| `faults` | 1 process, 2 users, any update of the four files and any home directory fails, death anywhere | `TypeOK`, `NamesAndIdsUnique`, `UserinfoHasUser`, `TrueMeansDone`; refines `Accounts` |
| `shared` | 2 processes, 2 users, a shared primary group that the first user makes | `PrimaryGroupExists`, `NoDanglingMember`, `ObjectKeepsItsUser` |
| `quiet` | 1 process, 2 users, all user operations, failures outside the four files (userinfo, encryption, sessions), fairness | `FilesAgree`, `FailedDeleteRestores`, `OperationsReturn` |
| `groups` | 2 processes, one with every group operation | `PrimaryGroupExists`, `FilesAgree`, `TrueMeansDone` |
| `service` | the user service, the group service or peer-to-peer; 2 peers, 2 ids, 2 names, 2 objects, 3 adapters, failures, all timeouts set | `ServiceTypeOK`, `KeptWhileUsed`, `TimersAreRight`, `ReferencesExact`, `CacheIsLive`, `AdaptersAreListed` |
| `server` | 2 peers, 1 uid, 2 adapters, 1 reload, adapters without timeout | `TypeOK`, `PeersAreForgotten`, `IdleDaemonExits` |
| `client` | 1 user or group object and the user service, 2 asynchronous calls, any blocking ones | `ClientTypeOK`, `SourcesAreKnown`, `AddedIsKnown`, `ServiceIsReferredTo`, `CallsAreAnswered`; refines `AsyncCalls` |
| `update`, `locked`, `strip`, `signals` | see below | what a document or comment says and the code does not do |

Bounds. Two processes are enough to interleave a reader or writer with another,
and for one to wait for the other's lock. Two names and two uids are enough for
reuse in both ways (same uid, other name; same name, other uid) and for a full
range: the second user takes the last id, and the range of gids overlaps the
preferred gids. Nesting goes to two in the code (a user operation calls a group
operation). Faults and a second process are in different runs, as each alone
already reaches every step of every operation and together they exceed what TLC
explores in minutes; a fault only ends an operation earlier, and the objects
that are stale after it are those of `shared` and `groups`. The kinds of failure
are split between `faults` and `quiet` by what the properties there depend on:
`FilesAgree` and `FailedDeleteRestores` do not survive `io`, `UserinfoHasUser`
does not survive `userinfo`, and `home`, which comes after the last write of the
four files, is in one of the two only because owners of directories multiply the
states. `Calls` bounds which
operations a process makes in a run. In `service`, three adapters for two peers
and two objects give a peer with two adapters, an object with two owners, and a
list that shrinks to one before it is empty; the places for objects and adapters
bound how many live at once, not how many there ever are. Peers, names, objects
and adapters are symmetric there (`Symmetry`); no liveness is checked in that
run. `MaxReloads` bounds SIGHUP: one reload reaches the stale idle source. In
`client`, an object with two calls has an operation that replaces another one,
and a call on the object beside one on the service; users and groups share no
state but the main loop, so one object is enough (`MaxMade`), made as a user or
as a group, and a program with groups does not use the service (`Mixed` is
FALSE). `MaxCalls` counts the asynchronous calls on users and groups and on the
service together; `ServiceCall` has two numbers, for a list beside a create.
`MaxInbox` and `MaxSources` keep blocking calls from filling the queue of a
program that never runs its main loop; a list has at most one user, and the
application at most one reference to the service.

Fairness. Nothing is assumed of the lock: that a wait for it ends is the alarm of
`lckpwdf`, which is external, and not a property of this code. `Fairness` of `GumdAccounts` says that an operation that has begun
goes on; every step is a system call or a blocking call to logind, which the
code waits for without any condition of its own. Starting an operation is never
fair. `Fairness` of `GumdServer` is the main loop: a queued source runs, the bus
answers the request for the name, and GDBus reports a peer that is gone.
`Fairness` of `GumClient` is the main loop of the program, which comes to every
source that is ready, and GDBus, which ends every call, with a timeout if need
be; the program itself is not fair. Timers of the daemon are fair only when
every client has left (`Deserted`): a client that keeps asking sets them back
for ever. That GDBus also reports the daemon's own name as lost when its
connection was closed is not assumed; the server has to end without that.

What the failing runs show (each is a finding in `PROJECT.json`):

- `update`: a group update writes the members back that the object was loaded
  with.
- `locked`: locking an entry that is already locked empties its password.
- `strip`: a failure in the group file is forgotten, and delete returns TRUE.
- `signals`: a user whose uid still is in the cache, from a deleted user whose
  object is in use, is added without a signal, and the cache keeps the old
  object. Operations do not fail in this run, so nothing else is at fault.

Each property of a passing run has a mutant of the code that breaks it (the
`Mut...` operators), so that none holds by the shape of the model.

## Proofs

All theorems hold for every value of the constants that the named assumptions
allow (`LockAssumption`, `FileAssumption`, `AccountAssumption`,
`DaemonAssumption`, `ServiceAssumption`, `CallsAssumption`,
`UserServiceAssumption`: the NULL value and the missing process are none of the
real ones, ids are numbers, a user name can name a group, the installed groups
have different gids, a NULL object is no object, the places for adapters are
finitely many, the objects of a client are users or groups and not both, its
calls are numbers, and those of the service are others than those of objects;
`NoneIsNoList`: a NULL list is not a list of users; `ServerAssumption`: the number
of reloads is one). TLC evaluates the assumptions in every run.

`GumDbProofs`, the lock. Mutual exclusion is not inductive: it follows from what each
counter says about the one holder (`CounterIsHolder`), and that needs to know
that a process that waits has not counted and has its privileges (`Waiting`).
`LockInv` joins them; proved are `LockMutualExclusion`, `LockCounterCorrect`,
`LockHeldWhileNeeded` (who was told TRUE and has not unlocked is in a process
that has the lock) and `LockedAlwaysPrivileged`. They are about `LockSpec`;
`DbLocksTheSame` carries them over to the database, whose every step is a step of
the lock or does not touch it.

`GumDbProofs`, the file. The file and its backup are whole and no update is lost
(`FileAlwaysWhole`, `BackupAlwaysOlder`, `UpdatesNotLost`, `DbTypeCorrect`). The
invariant `DbInv` adds what the copy of an updating process is at each system
call; that the copy equals the file plus one entry up to the rename holds only
because nobody else renames meanwhile, so `LockInv` is part of it.
`DbImplementsAtomicFile` maps the rename to the abstract update, the return to
its acknowledgement, and every other system call, kill or power loss to nothing.
`CopiesTakenAway` is an action property of the same invariant.

`GumdAccountsProofs`. An operation looks up a name and an id when it gets the
lock and writes several steps later, so uniqueness is not inductive either.
`AccountsInv` adds, for each process and step (`Ready`): only the holder of the
lock is in an operation (`OneAtWork`), so the others are idle and their claims
empty; the user object of `set_group`, `set_shadow` and `passwd_add` has a name
and a uid that passwd lacks, from `set_shadow` on its primary group exists; the
group object of `group_add` has a new name and gid, that of `group_del` is
nobody's primary group, that of `group_mod` is an entry of the file; a group
operation that was called by a user operation comes back to it (`Control`).
The proof has one lemma per action; the starts of the group operations
(`StartAddReady` and the others) and the frame (`OthersStayReady`) are shared.
From it: `AccountsTypeCorrect`, `NamesAndIdsAlwaysUnique`,
`PrimaryGroupAlwaysExists`, `ObjectAlwaysKeepsItsUser` (every call fills the
object only from entries that agree with its uid and name) and
`ImplementsAccounts`: an update of passwd or group is one step of `Accounts`, or
none when it changes only members and properties (that it removes one entry and
not two is where uniqueness is needed), and no other step is seen. `AccountsInv`
was also checked as an invariant in the instances of the four account runs, and
so were the four invariants of the next paragraphs, where their conditions hold.

`GumdFilesProofs`, whichever of the `Faults` occur. What TRUE means at the end of an operation is
what its steps have written, each in its own file, several steps and possibly two
operations (a user operation and the group operation it called) before. `DoneInv`
says it at each step: which operation a step belongs to (`Belongs`), what of the
user and of the group it has written or erased by then (`UserWritten`,
`UserErased`, `GroupWritten`, `GroupErased`). It needs `AccountsInv` for the
claims (an entry that is erased is the only one of its name) and because the
others are idle, so nobody undoes what was done. Proved from it, with any update
failing and any process dying anywhere: `TrueAlwaysMeansDone`. TRUE says nothing
of the userinfo file. `UserinfoAlwaysHasUser` has a condition for that reason,
`"userinfo" \notin Faults`: the order of the steps keeps a free uid without a
userinfo file through failed updates of the database and through deaths, but when
`g_remove` fails the delete goes on, and the file stays without its user (TLC shows
it within a few steps). `DoneInv` has the condition in it (`UserinfoKept`).

`GumdFilesProofs`, a delete that fails. `PasswordInv` says that between locking
the password and passwd_del the entry in shadow is the object's own, locked, and
that the object still has the password of before. `FailedDeleteAlwaysRestores`
then holds where updates do not fail (`"io" \notin Faults`): if the update that
gives the password back fails, it is not given back. Deaths and other failures
(a session that does not end, a missing home directory) are allowed.

`GumdFilesProofs`, the files agree. A pair of files is written one after the
other and nothing is rolled back, so after a failed update or a death in between
they differ: `FilesAlwaysAgree` and `NoMemberDangles` are about runs without
those (`Faults \cap {"io", "crash"} = {}`), with every other failure and any
number of processes. `AgreeInv` says of each step which entry one of the files is
ahead (`HalfDone`), and that a group object has the same members for both files
(`SameMembers`), which every write of members needs. `NoMemberDangles` has one
more condition: no process calls `gumd_daemon_group_add` or `_update`. An object
of a group keeps the list of members it was read with, and these two write that
list back, however old: a user that was deleted since returns as a member. That
is what the code does (the finding of the run `update` and the hazards at
`gumd-daemon-group.c:844` and `:1003`), so the theorem is false without the
condition. All other operations, which add or take one member of the file's list,
are covered: `MemberInv` says that a member of a group is a user, or the one
that the delete at work takes out of the groups in a later step, and that what a
group object is about to write names users only.

`GumDisposableProofs`. A disposable is `Orderly` when it has its type and the
timers it should have. Each operation of `gum-disposable.c` keeps that and says
what it does to the counter, so a request served between a keep and a release
(`ServedIsOrderly`) leaves both as they were.

`GumdDaemonProofs`, adapters and their objects. Every service makes adapters, has
them handle requests, and disposes some or all of them; what differs is who is
kept and who is watched. `SharedInv` is what all have in common: types, timers of
adapters in order, the agreement of list, adapters and watches
(`AdaptersAreListed`), `ReferencesExact` and `CacheIsLive`. The cache needs exact
references, since a reference taken on a cached object must be on a live one, and
the references need the cache for the same reason. The proof follows the owners
of each object (`Owners`): a new adapter adds one (`CreateOwners`,
`CreatedExact`), a request to an adapter edits its object and keeps the owners
(`Edits`, `EditedExact`), and when adapters are disposed an object loses as many
references as owners, so it goes exactly with its last one (`DroppedOwners`,
`DisposedExact`). `MadeShared`, `HandledShared`, `DisposedShared`,
`AllDisposedShared` and `UntouchedShared` say that each keeps `SharedInv`.

`GumdServicesProofs`, the user service. `KeptWhileUsed` is not inductive: who
releases the service looks at the list, and a timer looks at its adapter, so
`ServiceInv` joins `SharedInv` with the order of the disposable of the service,
whose counter is one exactly while there are adapters (`ServiceInOrder`). From it:
`TimersAlwaysRight`, `ServiceAlwaysKept`, `AdaptersAlwaysListed`,
`ReferencesAlwaysExact`, `CacheAlwaysLive` and `ServiceTypeCorrect`.

`GumdServicesProofs`, groups and peer-to-peer. `GumdDbusGroupService` and
`GumdServerP2P` are proved as instances over the variables of the user service
(`Group`, `P2P`), as the run `service` checks them. The lemmas `Same...` show that
what they take over is, definition by definition, what the user service does, so
only what differs is proved anew: that adding and deleting a group are requests
to an adapter (`GroupHandlersAreRequests`), and for peer-to-peer, where the
connections that have a service stand in the place of the watched peers and
nobody keeps a service, the ends of a connection and of the server (`P2PEnds`).
`ServiceInv` is then an invariant of the group service
(`GroupServiceKeepsBooks`), and `SharedInv` with the types one of the
peer-to-peer server (`P2PKeepsBooks`: in particular no adapter is left when its
connection is closed).

`GumdServerProofs`. The same of the whole daemon, where a service ends by its
timer, with its server, or for a reload, and starts again (`DaemonReferencesExact`,
`DaemonKeepsBooks`, `ServerTypeCorrect`). `ServerInv` joins `ServiceInv` with the
group service and the server; the steps of the user service are those proved
before, which also say that at work it neither starts nor ends. A safety
fact behind `IdleDaemonExits` is proved too: a server that was on the bus and has
neither service any more has its close queued (`ServerAlwaysCloses`), whichever
of the two ended first; were it lost, the process would stay.

`GumClientProofs`. That a callback is told the answer of its own call, once, is
not inductive: it needs to know where each call is. `ClientInv` joins `CallsInv`
(a call that is answered has its reply in the inbox or its source in the main
loop, `CallIsSomewhere`; an operation has the call it was begun for,
`OperationsAreOfCalls`) and `ServiceInv` (the references to the service are
counted, its sources and the call of a list are known as far as the shared proxy
callback lets them be). The proof has one lemma per action, over lemmas about
taking a message, answering a call and dropping an object. From it:
`ClientTypeCorrect`, `SourcesAlwaysKnown`, `ServiceAlwaysReferredTo` and
`ClientImplementsAsyncCalls`. `AddedAlwaysKnown` needs `AddInv` besides: an add
that was answered has the change of the id in the inbox before its reply, or in
the object already. The theorems are about any number of objects and calls, and
about programs that use users, groups and the service together; the run has one
object.

Left to TLC: liveness (`OperationsReturn`, `PeersAreForgotten`,
`IdleDaemonExits`, `CallsAreAnswered`), because fairness and ENABLED are out of
the prover's reach. Every safety and action property of the passing runs is
proved.

## Not modelled, and why

`PROJECT.json` lists every component. `get_user_list` and the user types only
read and compare; a request for the list is `AnswerUser` in the daemon. The
string vector helpers handle lists of names that are sets here: nothing that is
stated depends on the order of members. The script hooks run other programs, and
the code only logs what they return. The command line tool makes one blocking
call of the library after another. Configuration, dictionary and error helpers
hold no state that several actors share. Of the peer-to-peer server the socket
and the pid of the peer are left out, of the client library the proxies of other
threads. The handler that an adapter leaves connected to a shared user object is
a hazard in `PROJECT.json`: what it does to freed memory is outside a model of
this kind.

## Plan

1. Lock and file replacement: done and proved.
2. Users and groups on the four files, crashes and failures: done; types, unique
   names and ids, primary groups, the identity of objects, the refinement of
   `Accounts`, what TRUE promises and the agreement of the files proved.
3. `GumdDaemon`: the caches and their signals: done for users and groups,
   references and cache proved.
4. `GumDisposable`: done and proved.
5. The user and the group service and their adapters: done; timers, keep-alive,
   lists, references and caches of both proved.
6. The message-bus server, `main` and the peer-to-peer server: done; the books of
   the daemon on the message bus and of peer-to-peer connections proved.
7. Client library: done; types, sources, service, the new id and the refinement
   of `AsyncCalls` proved.
8. Left: `gum-string-utils` as functions against a reference; user types as bit
   sets.
