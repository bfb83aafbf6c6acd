------------------------------ MODULE GumdDaemon ------------------------------
(***************************************************************************)
(* The daemon object (src/src/daemon/core/gumd-daemon.c): it hands out one *)
(* user object per uid to everybody who asks, without owning it, and tells *)
(* who listens which users came and went.                                  *)
(*                                                                         *)
(* The user operations are one step each here; GumdAccounts has what       *)
(* happens inside them.  The daemon is single-threaded and no operation    *)
(* returns to the main loop, so no other request is served meanwhile.      *)
(***************************************************************************)
EXTENDS FiniteSets, Naturals

CONSTANTS
    Uid,        \* the ids of the configured range
    Name,       \* user names
    Object,     \* bound: places for user objects
    None,       \* NULL, and the invalid uid
    Failures    \* whether add and delete may fail after their first file

UserObjectFields ==
    [uid : Uid \cup {None}, name : Name \cup {None}, ref_count : Nat \ {0}]

ASSUME DaemonAssumption ==
    /\ Uid \in SUBSET Nat
    /\ None \notin Uid
    /\ None \notin Name
    /\ None \notin Object
    /\ None \notin UserObjectFields
    /\ Failures \in BOOLEAN

VARIABLES
    database,   \* the name of the user with a uid: /etc/passwd
    object,     \* the GumdDaemonUser objects: uid, name, ref_count
    users,      \* the hash table from uid to object, without references
    known       \* the uids a listener to the signals believes in use

daemonVars == <<database, object, users, known>>

DaemonTypeOK ==
    /\ database \in [Uid -> Name \cup {None}]
    /\ object \in [Object -> UserObjectFields \cup {None}]
    /\ users \in [Uid -> Object \cup {None}]
    /\ known \in SUBSET Uid

DaemonInit ==
    /\ database = [u \in Uid |-> None]
    /\ object = [o \in Object |-> None]
    /\ users = [u \in Uid |-> None]
    /\ known = {}

LiveObjects == {o \in Object : object[o] # None}

UserOf(u) == [uid |-> u, name |-> database[u], ref_count |-> 1]

\* Mutant of GetCached: the object of the cache without a reference.
MutGetCached(u) == UNCHANGED daemonVars

\* gumd_daemon_get_user with a uid that is cached: the caller gets a reference.
GetCached(u) ==
    /\ object' = [object EXCEPT ![users[u]].ref_count = @ + 1]
    /\ UNCHANGED <<database, users, known>>

\* ... and with one that is not: the object is made from the files and cached.
\* (It fails for a user whose addition stopped after passwd; then the request
\* makes no adapter, as AnswerUser does.)
GetLoaded(u, o) ==
    /\ database[u] # None
    /\ object[o] = None
    /\ object' = [object EXCEPT ![o] = UserOf(u)]
    /\ users' = [users EXCEPT ![u] = o]
    /\ UNCHANGED <<database, known>>

\* gumd_daemon_user_new.
NewObject(o) ==
    /\ object[o] = None
    /\ object' = [object EXCEPT ![o] = [uid |-> None, name |-> None,
                                        ref_count |-> 1]]
    /\ UNCHANGED <<database, users, known>>

FreeUids == {u \in Uid : database[u] = None}

\* _set_uid: the object takes the first free uid before any file is written.
Addable(o, u) ==
    /\ object[o].name # None
    /\ \A v \in Uid : database[v] # object[o].name
    /\ u \in FreeUids
    /\ \A v \in FreeUids : u <= v

\* gumd_daemon_add_user.
AddUser(o, u) ==
    /\ Addable(o, u)
    /\ object' = [object EXCEPT ![o].uid = u]
    /\ database' = [database EXCEPT ![u] = object[o].name]
    /\ \/ /\ users[u] = None
          /\ users' = [users EXCEPT ![u] = o]
          /\ known' = known \cup {u}
       \/ /\ users[u] # None
          /\ UNCHANGED <<users, known>>

\* gumd_daemon_user_add fails after _set_uid, before or after it wrote passwd.
AddUserFails(o, u) ==
    /\ Failures
    /\ Addable(o, u)
    /\ object' = [object EXCEPT ![o].uid = u]
    /\ \/ database' = [database EXCEPT ![u] = object[o].name]
       \/ UNCHANGED database
    /\ UNCHANGED <<users, known>>

\* The object means a user that exists: its uid and name are an entry.
Exists(o) == object[o].uid # None /\ database[object[o].uid] = object[o].name

\* gumd_daemon_delete_user: the object stays in the cache until it is disposed.
DeleteUser(o) ==
    LET u == object[o].uid IN
    /\ Exists(o)
    /\ database' = [database EXCEPT ![u] = None]
    /\ known' = known \ {u}
    /\ UNCHANGED <<object, users>>

\* gumd_daemon_user_delete fails after it wrote passwd.
DeleteUserFails(o) ==
    /\ Failures
    /\ Exists(o)
    /\ database' = [database EXCEPT ![object[o].uid] = None]
    /\ UNCHANGED <<object, users, known>>

\* The property "username" of an object is writable.
SetUsername(o, name) ==
    /\ object' = [object EXCEPT ![o].name = name]
    /\ UNCHANGED <<database, users, known>>

\* Mutant of DropReferences: the entry of the object's own uid is taken out.
MutDropReferences(drops) ==
    LET Dead == {o \in LiveObjects : object[o].ref_count = drops[o]} IN
    /\ object' = [o \in Object |->
                     IF object[o] = None \/ o \in Dead THEN None
                     ELSE [object[o] EXCEPT !.ref_count = @ - drops[o]]]
    /\ users' = [u \in Uid |-> IF \E o \in Dead : object[o].uid = u THEN None
                               ELSE users[u]]
    /\ UNCHANGED <<database, known>>

\* References are given back, drops[o] of object o.  An object without any is
\* disposed, and _on_user_disposed takes every entry of it out of the cache.
DropReferences(drops) ==
    LET Dead == {o \in LiveObjects : object[o].ref_count = drops[o]} IN
    /\ object' = [o \in Object |->
                     IF object[o] = None \/ o \in Dead THEN None
                     ELSE [object[o] EXCEPT !.ref_count = @ - drops[o]]]
    /\ users' = [u \in Uid |-> IF users[u] \in Dead THEN None ELSE users[u]]
    /\ UNCHANGED <<database, known>>
=============================================================================
