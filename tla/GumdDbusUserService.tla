------------------------- MODULE GumdDbusUserService -------------------------
(***************************************************************************)
(* The user service on the message bus and its user adapters               *)
(* (src/src/daemon/dbus/gumd-dbus-user-service-adapter.c and               *)
(* gumd-dbus-user-adapter.c): every peer that asks for a user gets an      *)
(* adapter of its own, a D-Bus object, for a user object of the daemon     *)
(* that it may share with others.                                          *)
(*                                                                         *)
(* Everything runs in the main loop of one thread: a request, a timer, or  *)
(* the news that a name left the bus is one step.                          *)
(***************************************************************************)
EXTENDS GumdDaemon, GumDisposable

CONSTANTS
    Peer,           \* clients; a unique bus name is never used again
    Adapter,        \* bound: places for adapters
    DaemonTimeout,  \* whether DAEMON_TIMEOUT is set
    UserTimeout     \* whether USER_TIMEOUT is set

UserAdapter == [peer : Peer, user : Object, disp : Disposable]

ASSUME ServiceAssumption ==
    /\ IsFiniteSet(Adapter)
    /\ None \notin Disposable
    /\ None \notin UserAdapter
    /\ DaemonTimeout \in BOOLEAN
    /\ UserTimeout \in BOOLEAN

VARIABLES
    bus,             \* what is known of a peer: connected, vanished (queued
                     \* requests may still come), lost (this was reported)
    adapter,         \* the user adapters: peer, user object, disposable
    peer_users,      \* the adapters in the list of the service (nothing that is
                     \* modelled depends on its order)
    caller_watchers, \* the peers whose bus names are watched
    user_service     \* the disposable of the service; None after its end

serviceVars == <<adapter, peer_users, caller_watchers, user_service>>
userServiceVars == <<daemonVars, bus, serviceVars>>

ServiceTypeOK ==
    /\ DaemonTypeOK
    /\ bus \in [Peer -> {"connected", "vanished", "lost"}]
    /\ adapter \in [Adapter -> UserAdapter \cup {None}]
    /\ peer_users \in SUBSET Adapter
    /\ caller_watchers \in SUBSET Peer
    /\ user_service \in Disposable \cup {None}

NewService == NewDisposable(DaemonTimeout)

ServiceInit ==
    /\ DaemonInit
    /\ bus = [p \in Peer |-> "connected"]
    /\ adapter = [a \in Adapter |-> None]
    /\ peer_users = {}
    /\ caller_watchers = {}
    /\ user_service = NewService

LiveAdapters == {a \in Adapter : adapter[a] # None}
Of(p) == {a \in LiveAdapters : adapter[a].peer = p}
UserObject(a) == adapter[a].user

\* Requests are served while the service and the peer's connection exist.
Asks(p) == user_service # None /\ bus[p] # "lost"

-----------------------------------------------------------------------------
(***************************************************************************)
(* The service object                                                      *)
(***************************************************************************)

\* Mutant of KeepForFirst: every adapter keeps the service.
MutKeepForEach(s) == Keep(s)

\* The first adapter of the list keeps the service alive.
KeepForFirst(s) == IF peer_users = {} THEN Keep(s) ELSE s

\* Mutant of WatchPeer: one watched peer is enough.
MutWatchPeer(p) ==
    caller_watchers' = IF caller_watchers = {} THEN {p} ELSE caller_watchers

WatchPeer(p) == caller_watchers' = caller_watchers \cup {p}

\* _create_and_cache_user_adapter, within the Keep and Release of a handler.
CreateAdapter(p, o) ==
    /\ \E a \in Adapter \ LiveAdapters :
          /\ adapter' = [adapter EXCEPT ![a] =
                [peer |-> p, user |-> o, disp |-> NewDisposable(UserTimeout)]]
          /\ peer_users' = peer_users \cup {a}
    /\ WatchPeer(p)
    /\ user_service' = Release(KeepForFirst(Keep(user_service)))
    /\ UNCHANGED bus

\* A handler that finds an adapter, returns a list, or fails.
AnswerOnly ==
    /\ user_service' = Served(user_service)
    /\ UNCHANGED <<daemonVars, bus, adapter, peer_users, caller_watchers>>

\* The first place of the peer and uid that is not about to be deleted.
Cached(p, u) ==
    {a \in Of(p) : object[UserObject(a)].uid = u
                      /\ ~adapter[a].disp.delete_later}

CreateNewUser(p) ==
    /\ Asks(p)
    /\ \E o \in Object : NewObject(o) /\ CreateAdapter(p, o)

\* _handle_get_user makes an adapter.
GetUser(p, u) ==
    /\ Asks(p)
    /\ Cached(p, u) = {}
    /\ \/ users[u] # None /\ GetCached(u) /\ CreateAdapter(p, users[u])
       \/ /\ users[u] = None
          /\ \E o \in Object : GetLoaded(u, o) /\ CreateAdapter(p, o)

\* _handle_get_user_by_name looks the uid up in the files.
GetUserByName(p, n) == \E u \in Uid : database[u] = n /\ GetUser(p, u)

\* The other answers of these two, and _handle_get_user_list.
AnswerUser(p) == Asks(p) /\ AnswerOnly

-----------------------------------------------------------------------------
(***************************************************************************)
(* The end of adapters                                                     *)
(***************************************************************************)

\* The adapters of S are disposed: each gives its reference to its user back.
DisposeAdapters(S) ==
    /\ adapter' = [a \in Adapter |-> IF a \in S THEN None ELSE adapter[a]]
    /\ peer_users' = peer_users \ S
    /\ DropReferences([o \in Object |->
                          Cardinality({a \in S : UserObject(a) = o})])

\* The last adapter of the list has gone.
ReleaseAfterLast ==
    user_service' = IF peer_users' = {} THEN Release(user_service)
                    ELSE user_service

\* The timer or the idle source of an adapter: _auto_dispose, then
\* _on_dbus_user_adapter_disposed.
AdapterDue(a) ==
    /\ a \in LiveAdapters
    /\ Due(adapter[a].disp)
    /\ DisposeAdapters({a})
    /\ ReleaseAfterLast
    /\ UNCHANGED <<bus, caller_watchers>>

\* _on_bus_name_lost.
PeerLost(p) ==
    /\ user_service # None
    /\ bus[p] = "vanished"
    /\ p \in caller_watchers
    /\ bus' = [bus EXCEPT ![p] = "lost"]
    /\ DisposeAdapters(Of(p))
    /\ caller_watchers' = caller_watchers \ {p}
    /\ ReleaseAfterLast

PeerVanishes(p) ==
    /\ bus[p] = "connected"
    /\ bus' = [bus EXCEPT ![p] = "vanished"]
    /\ UNCHANGED <<daemonVars, serviceVars>>

-----------------------------------------------------------------------------
(***************************************************************************)
(* Requests to an adapter                                                  *)
(***************************************************************************)

SetDisp(a, d) == adapter' = [adapter EXCEPT ![a].disp = d]

AsksAdapter(p, a) == Asks(p) /\ a \in Of(p)

\* _handle_add_user.
HandleAddUser(p, a) ==
    /\ AsksAdapter(p, a)
    /\ \E u \in Uid : AddUser(UserObject(a), u) \/ AddUserFails(UserObject(a), u)
    /\ SetDisp(a, Served(adapter[a].disp))
    /\ UNCHANGED <<bus, peer_users, caller_watchers, user_service>>

\* _handle_delete_user: after a success the adapter deletes itself later.
HandleDeleteUser(p, a) ==
    /\ AsksAdapter(p, a)
    /\ \/ /\ DeleteUser(UserObject(a))
          /\ SetDisp(a, DeleteLater(Served(adapter[a].disp)))
       \/ /\ DeleteUserFails(UserObject(a))
          /\ SetDisp(a, Served(adapter[a].disp))
    /\ UNCHANGED <<bus, peer_users, caller_watchers, user_service>>

\* _handle_update_user, and the others when they fail early.
HandleUpdateUser(p, a) ==
    /\ AsksAdapter(p, a)
    /\ SetDisp(a, Served(adapter[a].disp))
    /\ UNCHANGED <<daemonVars, bus, peer_users, caller_watchers, user_service>>

\* A peer writes the property "username": _on_dbus_property_changed.
WriteUsername(p, a, n) ==
    /\ AsksAdapter(p, a)
    /\ SetUsername(UserObject(a), n)
    /\ UNCHANGED <<bus, serviceVars>>

-----------------------------------------------------------------------------
Request(p) ==
    \/ CreateNewUser(p)
    \/ \E u \in Uid : GetUser(p, u)
    \/ \E n \in Name : GetUserByName(p, n)
    \/ AnswerUser(p)
    \/ \E a \in Adapter :
          \/ HandleAddUser(p, a) \/ HandleDeleteUser(p, a)
          \/ HandleUpdateUser(p, a)
          \/ \E n \in Name : WriteUsername(p, a, n)

\* The service is disposed with all it has: _dispose.
UserServiceEnds ==
    /\ user_service' = None
    /\ DisposeAdapters(LiveAdapters)
    /\ caller_watchers' = {}

\* Its timer has come, or its server gives it up.
UserServiceTimeout == Due(user_service) /\ UserServiceEnds

UserServiceNext ==
    \/ \E p \in Peer : Request(p) \/ PeerLost(p) \/ PeerVanishes(p)
    \/ \E a \in Adapter : AdapterDue(a)
    \/ user_service # None /\ UserServiceTimeout /\ UNCHANGED bus
    \/ user_service # None /\ UserServiceEnds /\ UNCHANGED bus

UserServiceSpec == ServiceInit /\ [][UserServiceNext]_userServiceVars

-----------------------------------------------------------------------------
(***************************************************************************)
(* Properties                                                              *)
(***************************************************************************)

\* The service is kept as long as it has an adapter, and once when it has
\* several ("keep alive till this user object gets disposed",
\* gumd-dbus-user-service-adapter.c:492); without adapters nothing keeps it
\* from its timeout.  Adapters go by timeout, deletion and lost names, in any
\* order, so the two places that let the service go must agree.
KeptWhileUsed ==
    user_service # None =>
        (user_service.keep_obj_counter = IF peer_users = {} THEN 0 ELSE 1)

\* No timer fires for an object in use, none is missing for one that is not,
\* and no source stays behind that can no longer be removed.
TimersAreRight ==
    /\ user_service # None => TimersRight(user_service)
    /\ \A a \in LiveAdapters : TimersRight(adapter[a].disp)

\* The reference count of a user object is the number of adapters that use it:
\* it is not freed under one of them, and not kept without any.
ReferencesExact ==
    /\ \A a \in LiveAdapters : object[UserObject(a)] # None
    /\ \A o \in LiveObjects :
          object[o].ref_count = Cardinality({a \in LiveAdapters : UserObject(a) = o})

\* The cache, which holds no references, has no entry of a disposed object,
\* under whatever uids the object was cached.
CacheIsLive == \A u \in Uid : users[u] # None => users[u] \in LiveObjects

\* The list has the adapters that exist and no other, and the name of the peer
\* of each is watched, so that somebody takes it away when the peer goes.
AdaptersAreListed ==
    /\ peer_users = LiveAdapters
    /\ \A a \in LiveAdapters : adapter[a].peer \in caller_watchers

\* The adapters of a peer that left the bus are taken away.
PeersAreForgotten ==
    \A p \in Peer : bus[p] = "vanished" /\ Of(p) # {} ~> Of(p) = {}

\* "Signal is emitted when user info is added to the user's account database"
\* (org.O1.SecurityAccounts.gUserManagement.UserService.xml:37), and likewise
\* when it is deleted: where no operation fails half-way, who listens to the
\* signals from the start knows which uids are in use.
SignalsTell == known = {u \in Uid : database[u] # None}
=============================================================================
