------------------------------ MODULE GumdServer ------------------------------
(***************************************************************************)
(* The daemon on the message bus: main (src/src/daemon/main.c), the server *)
(* (src/src/daemon/dbus/gumd-dbus-server-msg-bus.c), and its two services, *)
(* the user service in full and the group service as far as the server     *)
(* sees it, in use or not.  Both services use one connection.              *)
(***************************************************************************)
EXTENDS GumdDbusUserService

CONSTANT MaxReloads     \* bound: how often SIGHUP arrives

ASSUME ServerAssumption == MaxReloads \in Nat

VARIABLES
    group_service,  \* the disposable of the group service, or None
    group_used,     \* whether the group service has adapters
    stream,         \* the connection: none yet, open, closed
    closing,        \* whether _close_server is queued for this server
    stale_closing,  \* ... or for one that a reload has freed
    main_loop,      \* running, or quit
    reloads

serverVars == <<group_service, group_used, stream, closing, stale_closing,
                main_loop, reloads>>
vars == <<userServiceVars, serverVars>>

TypeOK ==
    /\ ServiceTypeOK
    /\ group_service \in Disposable \cup {None}
    /\ group_used \in BOOLEAN
    /\ stream \in {"none", "open", "closed"}
    /\ closing \in BOOLEAN
    /\ stale_closing \in BOOLEAN
    /\ main_loop \in {"running", "quit"}
    /\ reloads \in 0..MaxReloads

\* main has started a server, which has asked for its name.
Init ==
    /\ DaemonInit
    /\ bus = [p \in Peer |-> "connected"]
    /\ adapter = [a \in Adapter |-> None]
    /\ peer_users = {}
    /\ caller_watchers = {}
    /\ user_service = None
    /\ group_service = None
    /\ group_used = FALSE
    /\ stream = "none"
    /\ closing = FALSE
    /\ stale_closing = FALSE
    /\ main_loop = "running"
    /\ reloads = 0

\* _on_bus_acquired: both services are exported.
BusAcquired ==
    /\ stream = "none"
    /\ stream' = "open"
    /\ user_service' = NewService
    /\ group_service' = NewService
    /\ UNCHANGED <<daemonVars, bus, adapter, peer_users, caller_watchers,
                   group_used, closing, stale_closing, main_loop, reloads>>

\* The user service at work.  A request needs the connection.
UserServiceStep ==
    /\ \/ \E p \in Peer : (Request(p) /\ stream = "open") \/ PeerVanishes(p)
       \/ \E p \in Peer : PeerLost(p)
       \/ \E a \in Adapter : AdapterDue(a)
    /\ UNCHANGED serverVars

-----------------------------------------------------------------------------
(***************************************************************************)
(* The group service                                                       *)
(***************************************************************************)

\* A handler of the group service makes the first adapter, or none.
GroupRequest ==
    /\ stream = "open"
    /\ group_service # None
    /\ \E p \in Peer : bus[p] # "lost"
    /\ \/ /\ group_used' = TRUE
          /\ group_service' = Release(IF group_used THEN Keep(group_service)
                                      ELSE Keep(Keep(group_service)))
       \/ /\ group_service' = Served(group_service)
          /\ UNCHANGED group_used
    /\ UNCHANGED <<userServiceVars, stream, closing, stale_closing, main_loop,
                   reloads>>

\* The last adapter of a group goes: it was disposed, or its peer is lost.
GroupUnused ==
    /\ group_used
    /\ group_used' = FALSE
    /\ group_service' = Release(group_service)
    /\ UNCHANGED <<userServiceVars, stream, closing, stale_closing, main_loop,
                   reloads>>

-----------------------------------------------------------------------------
(***************************************************************************)
(* The end of a service, of the server, of the process                     *)
(***************************************************************************)

\* _dispose of a service closes the stream of its connection, and with it the
\* daemon sees every peer vanish (external: GDBus).
Unwatched == [p \in Peer |-> IF bus[p] = "lost" THEN "lost" ELSE "vanished"]

\* Mutant of CloseWhenAllDown: the other service is not looked at.
MutNeverClose(other) == UNCHANGED closing

\* _on_user_interface_dispose and _on_group_interface_dispose.
CloseWhenAllDown(other) == closing' = (closing \/ other = None)

UserServiceDue ==
    /\ user_service # None
    /\ UserServiceTimeout
    /\ stream' = "closed"
    /\ bus' = Unwatched
    /\ CloseWhenAllDown(group_service)
    /\ UNCHANGED <<group_service, group_used, stale_closing, main_loop, reloads>>

GroupServiceDue ==
    /\ group_service # None
    /\ Due(group_service)
    /\ group_service' = None
    /\ group_used' = FALSE
    /\ stream' = "closed"
    /\ bus' = Unwatched
    /\ CloseWhenAllDown(user_service)
    /\ UNCHANGED <<daemonVars, adapter, peer_users, caller_watchers,
                   user_service, stale_closing, main_loop, reloads>>

\* The server is freed: _gumd_dbus_server_msg_bus_stop takes both services down.
StopServer ==
    /\ UserServiceEnds
    /\ group_service' = None
    /\ group_used' = FALSE

\* ... and _on_server_closed ends the main loop.
Quit ==
    /\ StopServer
    /\ main_loop' = "quit"
    /\ closing' = FALSE
    /\ UNCHANGED <<bus, stream, stale_closing, reloads>>

\* _close_server, from its idle source.
CloseServer == closing /\ Quit

\* _on_name_lost: there is no bus, another process has the name, or the
\* connection was closed.
NameLost == Quit

\* SIGTERM or SIGINT.
QuitSignal == Quit

\* The idle source of a server that a reload has freed: g_object_unref of what
\* is no object any more warns, or takes the process down.
StaleClose ==
    /\ stale_closing
    /\ \/ stale_closing' = FALSE /\ UNCHANGED <<userServiceVars, group_service,
             group_used, stream, closing, main_loop, reloads>>
       \/ Quit

\* SIGHUP: _handle_reload_signal frees the server and starts another one, to
\* which clients connect anew.
Reload ==
    /\ reloads < MaxReloads
    /\ reloads' = reloads + 1
    /\ StopServer
    /\ stream' = "none"
    /\ bus' = [p \in Peer |-> "connected"]
    /\ closing' = FALSE
    /\ stale_closing' = (stale_closing \/ closing)
    /\ UNCHANGED main_loop

Next ==
    /\ main_loop = "running"
    /\ \/ BusAcquired
       \/ UserServiceStep
       \/ GroupRequest \/ GroupUnused
       \/ UserServiceDue \/ GroupServiceDue
       \/ CloseServer \/ NameLost \/ QuitSignal \/ StaleClose \/ Reload

Spec == Init /\ [][Next]_vars

(***************************************************************************)
(* The main loop comes to every source that is ready.  A timer is ready    *)
(* only when it was not set back for a while, so nothing is assumed of it  *)
(* as long as clients may make requests.  The bus answers the request for  *)
(* a name, and GDBus reports the peers that are gone, which with a closed  *)
(* connection are all.  That it also reports the name as lost then is not  *)
(* assumed: the server must end without that.                              *)
(***************************************************************************)
Deserted == \A p \in Peer : bus[p] # "connected"

Running(A) == main_loop = "running" /\ A

Fairness ==
    /\ \A p \in Peer : WF_vars(Running(PeerLost(p) /\ UNCHANGED serverVars))
    /\ WF_vars(Running(stream = "none" /\ (BusAcquired \/ NameLost)))
    /\ WF_vars(Running(CloseServer))
    /\ WF_vars(Running(Deserted /\ GroupUnused))
    /\ WF_vars(Running(Deserted /\ UserServiceDue))
    /\ WF_vars(Running(Deserted /\ GroupServiceDue))

FairSpec == Spec /\ Fairness

-----------------------------------------------------------------------------
(***************************************************************************)
(* Properties                                                              *)
(***************************************************************************)

\* "Daemon will exit after specified idle time" (src/data/gumd.conf.in:122):
\* when the last client has gone the process ends, whatever the clients left
\* behind, or is reloaded for others.
IdleDaemonExits == Deserted ~> main_loop = "quit" \/ ~Deserted
=============================================================================
