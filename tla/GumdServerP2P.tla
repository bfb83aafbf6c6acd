---------------------------- MODULE GumdServerP2P ----------------------------
(***************************************************************************)
(* The peer-to-peer server (src/src/daemon/dbus/gumd-dbus-server-p2p.c):   *)
(* every connection has a user service and a group service of its own,     *)
(* which all share the objects of one daemon.  The services have no        *)
(* timeout here, so nothing depends on who keeps them: they go with their  *)
(* connection, or all of them with the server.                             *)
(*                                                                         *)
(* This is the side of the users; the table of the group services is       *)
(* written and cleared in the same places, and groups are other objects.   *)
(***************************************************************************)
EXTENDS FiniteSets, Naturals

CONSTANTS Uid, Name, Object, None, Failures, Peer, Adapter, DaemonTimeout, UserTimeout

VARIABLES
    database, object, users, known,     \* the daemon
    bus,                                \* what is known of a connection
    adapter,
    peer_users,                         \* the lists of all services
    user_service_adapters               \* the connections that have a service

Disposable == INSTANCE GumDisposable

\* What the services share with the one on the message bus: the adapters.
Same == INSTANCE GumdDbusUserService
           WITH caller_watchers <- user_service_adapters,
                user_service <- Disposable!NewDisposable(FALSE)

p2pVars == <<database, object, users, known, bus, adapter, peer_users,
             user_service_adapters>>

P2PInit ==
    /\ Same!DaemonInit
    /\ bus = [p \in Peer |-> "connected"]
    /\ adapter = [a \in Adapter |-> None]
    /\ peer_users = {}
    /\ user_service_adapters = {}

-----------------------------------------------------------------------------
(***************************************************************************)
(* Connections                                                             *)
(***************************************************************************)

\* _on_client_request: both services are exported on the new connection.
ClientRequest(p) ==
    /\ p \notin user_service_adapters
    /\ bus[p] # "lost"
    /\ user_service_adapters' = user_service_adapters \cup {p}
    /\ UNCHANGED <<database, object, users, known, bus, adapter, peer_users>>

\* _on_connection_closed: the services of the connection go, and with them
\* their adapters.
ConnectionClosed(p) ==
    /\ p \in user_service_adapters
    /\ bus[p] = "vanished"
    /\ bus' = [bus EXCEPT ![p] = "lost"]
    /\ user_service_adapters' = user_service_adapters \ {p}
    /\ Same!DisposeAdapters(Same!Of(p))

\* _dispose of the server, after which its connections are closed.
ServerEnds ==
    /\ user_service_adapters' = {}
    /\ bus' = [p \in Peer |-> "lost"]
    /\ Same!DisposeAdapters(Same!LiveAdapters)

-----------------------------------------------------------------------------
(***************************************************************************)
(* Requests                                                                *)
(***************************************************************************)

\* A connection reaches the service that is exported on it, and only that.
AsksService(p) == p \in user_service_adapters

\* _create_and_cache_user_adapter: nothing is watched.
CreateAdapter(p, o) ==
    /\ \E a \in Adapter \ Same!LiveAdapters :
          /\ adapter' = [adapter EXCEPT ![a] =
                [peer |-> p, user |-> o, disp |-> Disposable!NewDisposable(UserTimeout)]]
          /\ peer_users' = peer_users \cup {a}
    /\ UNCHANGED <<bus, user_service_adapters>>

CreateNewUser(p) ==
    /\ AsksService(p)
    /\ \E o \in Object : Same!NewObject(o) /\ CreateAdapter(p, o)

\* _handle_get_user and _handle_get_user_by_name, when they make an adapter.
GetUser(p, u) ==
    /\ AsksService(p)
    /\ Same!Cached(p, u) = {}
    /\ \/ users[u] # None /\ Same!GetCached(u) /\ CreateAdapter(p, users[u])
       \/ /\ users[u] = None
          /\ \E o \in Object : Same!GetLoaded(u, o) /\ CreateAdapter(p, o)

AdapterRequest(p, a) ==
    /\ AsksService(p)
    /\ \/ Same!HandleAddUser(p, a)
       \/ Same!HandleDeleteUser(p, a)
       \/ Same!HandleUpdateUser(p, a)
       \/ \E n \in Name : Same!WriteUsername(p, a, n)

\* The timer or the idle source of an adapter.
AdapterDue(a) ==
    /\ a \in Same!LiveAdapters
    /\ Disposable!Due(adapter[a].disp)
    /\ Same!DisposeAdapters({a})
    /\ UNCHANGED <<bus, user_service_adapters>>

PeerVanishes(p) == Same!PeerVanishes(p)

P2PNext ==
    \/ \E p \in Peer :
          \/ ClientRequest(p) \/ ConnectionClosed(p) \/ PeerVanishes(p)
          \/ CreateNewUser(p)
          \/ \E u \in Uid : GetUser(p, u)
          \/ \E a \in Adapter : AdapterRequest(p, a)
    \/ \E a \in Adapter : AdapterDue(a)
    \/ ServerEnds

P2PSpec == P2PInit /\ [][P2PNext]_p2pVars
=============================================================================
