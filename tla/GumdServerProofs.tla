--------------------------- MODULE GumdServerProofs ---------------------------
(***************************************************************************)
(* The daemon on the message bus: types, and that the books of its user    *)
(* service stay right in the whole of it, through the ends of the services *)
(* and reloads, for any number of clients and of reloads.  And a server    *)
(* that has no service left is about to be closed, the step on which its   *)
(* exit depends.                                                           *)
(***************************************************************************)
EXTENDS GumdServer, GumdServicesProofs

\* The group service is kept while it is used, and has no users after its end.
GroupServiceInOrder ==
    /\ group_used \in BOOLEAN
    /\ group_service = None => ~group_used
    /\ group_service # None =>
          /\ Orderly(group_service)
          /\ group_service.keep_obj_counter = IF group_used THEN 1 ELSE 0

ServerTyped ==
    /\ stream \in {"none", "open", "closed"}
    /\ closing \in BOOLEAN
    /\ stale_closing \in BOOLEAN
    /\ main_loop \in {"running", "quit"}
    /\ reloads \in 0..MaxReloads

\* A server that was on the bus and has neither service any more is going to
\* be closed, or the process has ended: _on_user_interface_dispose and
\* _on_group_interface_dispose, each looking at the other's service, queue
\* _close_server between them, whichever comes first.
ServerCloses ==
    stream # "none" /\ user_service = None /\ group_service = None
        => closing \/ main_loop = "quit"

\* The services are there once the bus is, and not before.
ServerInv ==
    /\ ServiceInv
    /\ GroupServiceInOrder
    /\ ServerTyped
    /\ stream = "none" => user_service = None /\ group_service = None
    /\ ServerCloses

\* _on_bus_acquired: a user service starts where there was none.
LEMMA BusAcquiredExact ==
    ASSUME ServerInv, BusAcquired
    PROVE  ServerInv'
<1>1. /\ stream = "none" /\ stream' = "open"
      /\ user_service = None /\ group_service = None /\ ~group_used
      /\ UNCHANGED <<database, object, users, known, bus, adapter, peer_users,
                     caller_watchers, group_used, closing, stale_closing,
                     main_loop, reloads>>
      /\ user_service' = NewService /\ group_service' = NewService
    BY DEF BusAcquired, ServerInv, GroupServiceInOrder, daemonVars
<1>2. Orderly(NewService) /\ NewService.keep_obj_counter = 0 /\ NewService # None
    BY ServiceAssumption, NewIsOrderly DEF NewService, Orderly
<1>3. peer_users = {}
    BY <1>1 DEF ServerInv, ServiceInv, ServiceInOrder
<1>4. ServiceInOrder'
    BY <1>1, <1>2, <1>3 DEF ServiceInOrder
<1>5. SharedInv'
    BY <1>1, UntouchedShared DEF ServerInv, ServiceInv
<1>6. ServiceInv'
    BY <1>1, <1>4, <1>5 DEF ServerInv, ServiceInv, OthersTyped
<1>7. GroupServiceInOrder' /\ ServerTyped' /\ ServerCloses'
    BY <1>1, <1>2 DEF ServerInv, GroupServiceInOrder, ServerTyped, ServerCloses
<1> QED BY <1>1, <1>6, <1>7 DEF ServerInv

\* The user service at work, which neither ends by itself nor starts.
LEMMA UserServiceStepExact ==
    ASSUME ServerInv, UserServiceStep
    PROVE  ServerInv'
<1>1. ServiceInv' /\ (user_service = None <=> user_service' = None)
    <2> USE DEF ServerInv
    <2>1. CASE \E p \in Peer : Request(p) \/ PeerLost(p)
        BY <2>1, RequestInOrder, PeerLostInOrder
    <2>2. CASE \E p \in Peer : PeerVanishes(p)
        BY <2>2, PeerVanishesInOrder
    <2>3. CASE \E a \in Adapter : AdapterDue(a)
        BY <2>3, AdapterDueInOrder
    <2> QED BY <2>1, <2>2, <2>3 DEF UserServiceStep
<1>2. UNCHANGED <<group_service, group_used, stream, closing, stale_closing,
                  main_loop, reloads>>
    BY DEF UserServiceStep, serverVars
<1>3. GroupServiceInOrder' /\ ServerTyped'
    BY <1>2 DEF ServerInv, GroupServiceInOrder, ServerTyped
<1> QED BY <1>1, <1>2, <1>3 DEF ServerInv, ServerCloses

\* The group service at work.
LEMMA GroupServiceStepExact ==
    ASSUME ServerInv, GroupRequest \/ GroupUnused
    PROVE  ServerInv'
<1>1. /\ UNCHANGED <<daemonVars, serviceVars, bus, user_service, stream, closing,
                     stale_closing, main_loop, reloads>>
      /\ group_service # None
    BY DEF GroupRequest, GroupUnused, userServiceVars, serviceVars, ServerInv,
       GroupServiceInOrder
<1>2. ServiceInv'
    BY <1>1, OthersInOrder DEF ServerInv, ServiceInv, OthersTyped
<1> DEFINE d == group_service
<1>3. Orderly(d) /\ d.keep_obj_counter = IF group_used THEN 1 ELSE 0
    BY <1>1 DEF ServerInv, GroupServiceInOrder
<1>4. GroupServiceInOrder' /\ group_service' # None
    <2>1. /\ Orderly(group_service')
          /\ group_used' \in BOOLEAN
          /\ group_service'.keep_obj_counter = IF group_used' THEN 1 ELSE 0
        <3>1. CASE GroupUnused
            <4>1. group_used /\ ~group_used' /\ group_service' = Release(d)
                BY <3>1 DEF GroupUnused
            <4>2. d.keep_obj_counter = 1
                BY <1>3, <4>1
            <4>3. Orderly(Release(d)) /\ Release(d).keep_obj_counter = 0
                BY <1>3, <4>2, ReleaseIsOrderly
            <4>4. group_used' \in BOOLEAN /\ ~group_used'
                BY <3>1 DEF GroupUnused
            <4> QED BY <4>1, <4>3, <4>4
        <3>2. CASE GroupRequest /\ group_service' = Served(d) /\ group_used' = group_used
            BY <1>3, <3>2, ServedIsOrderly DEF ServerInv, GroupServiceInOrder
        <3>3. CASE /\ GroupRequest /\ group_used'
                   /\ group_service' = Release(IF group_used THEN Keep(d)
                                               ELSE Keep(Keep(d)))
            <4>1. /\ Orderly(Keep(d))
                  /\ Keep(d).keep_obj_counter = IF group_used THEN 2 ELSE 1
                BY <1>3, KeepIsOrderly
            <4>2. /\ Orderly(Keep(Keep(d)))
                  /\ Keep(Keep(d)).keep_obj_counter = IF group_used THEN 3 ELSE 2
                BY <4>1, KeepIsOrderly
            <4>3. CASE group_used
                BY <3>3, <4>1, <4>3, ReleaseIsOrderly
            <4>4. CASE ~group_used
                BY <3>3, <4>2, <4>4, ReleaseIsOrderly
            <4> QED BY <4>3, <4>4
        <3> QED BY <3>1, <3>2, <3>3 DEF GroupRequest
    <2>2. group_service' # None
        BY <2>1, ServiceAssumption DEF Orderly
    <2> QED BY <2>1, <2>2 DEF GroupServiceInOrder
<1> HIDE DEF d
<1>5. ServerTyped' /\ ServerCloses'
    BY <1>1, <1>4 DEF ServerInv, ServerTyped, ServerCloses
<1> QED BY <1>1, <1>2, <1>4, <1>5 DEF ServerInv

\* The services end by their timers: the last one queues the close.
LEMMA ServiceDueExact ==
    ASSUME ServerInv, UserServiceDue \/ GroupServiceDue
    PROVE  ServerInv'
<1>1. bus' \in [Peer -> {"connected", "vanished", "lost"}]
    BY DEF UserServiceDue, GroupServiceDue, Unwatched
<1>2. CASE UserServiceDue
    <2>1. ServiceInv' /\ user_service' = None
        BY <1>1, <1>2, EndInOrder DEF UserServiceDue, UserServiceTimeout, ServerInv
    <2>2. /\ stream' = "closed" /\ closing' = (closing \/ group_service = None)
          /\ UNCHANGED <<group_service, group_used, stale_closing, main_loop, reloads>>
        BY <1>2 DEF UserServiceDue, CloseWhenAllDown
    <2>3. GroupServiceInOrder' /\ ServerTyped' /\ ServerCloses'
        BY <2>2 DEF ServerInv, GroupServiceInOrder, ServerTyped, ServerCloses
    <2> QED BY <2>1, <2>2, <2>3 DEF ServerInv
<1>3. CASE GroupServiceDue
    <2>1. UNCHANGED <<daemonVars, serviceVars>>
        BY <1>3 DEF GroupServiceDue, serviceVars
    <2>2. ServiceInv'
        BY <1>1, <2>1, OthersInOrder DEF ServerInv
    <2>3. /\ stream' = "closed" /\ closing' = (closing \/ user_service = None)
          /\ group_service' = None /\ ~group_used' /\ group_used' \in BOOLEAN
          /\ UNCHANGED <<user_service, stale_closing, main_loop, reloads>>
        BY <1>3 DEF GroupServiceDue, CloseWhenAllDown
    <2>4. GroupServiceInOrder' /\ ServerTyped' /\ ServerCloses'
        BY <2>3 DEF ServerInv, GroupServiceInOrder, ServerTyped, ServerCloses
    <2> QED BY <2>2, <2>3, <2>4 DEF ServerInv
<1> QED BY <1>2, <1>3

\* The server goes, with the process or for another one.
LEMMA StopExact ==
    ASSUME ServerInv, Quit \/ Reload
    PROVE  ServerInv'
<1>1. bus' \in [Peer -> {"connected", "vanished", "lost"}]
    BY DEF Quit, Reload, ServerInv, ServiceInv, OthersTyped
<1>2. ServiceInv' /\ user_service' = None
    BY <1>1, EndInOrder DEF Quit, Reload, StopServer, ServerInv
<1>3. GroupServiceInOrder' /\ group_service' = None
    BY DEF Quit, Reload, StopServer, GroupServiceInOrder
<1>4. CASE Quit
    <2>1. /\ main_loop' = "quit" /\ closing' = FALSE
          /\ UNCHANGED <<stream, stale_closing, reloads>>
        BY <1>4 DEF Quit
    <2>2. ServerTyped' /\ ServerCloses'
        BY <2>1 DEF ServerInv, ServerTyped, ServerCloses
    <2> QED BY <1>2, <1>3, <2>2 DEF ServerInv
<1>5. CASE Reload
    <2>1. /\ stream' = "none" /\ closing' = FALSE
          /\ UNCHANGED main_loop
        BY <1>5 DEF Reload
    <2>2. stale_closing' \in BOOLEAN
        BY <1>5 DEF Reload, ServerInv, ServerTyped
    <2>3. reloads' \in 0..MaxReloads
        <3>1. reloads < MaxReloads /\ reloads' = reloads + 1
            BY <1>5 DEF Reload
        <3>2. reloads \in 0..MaxReloads
            BY DEF ServerInv, ServerTyped
        <3> QED BY <3>1, <3>2, ServerAssumption
    <2>4. ServerTyped' /\ ServerCloses'
        BY <2>1, <2>2, <2>3 DEF ServerInv, ServerTyped, ServerCloses
    <2> QED BY <1>2, <1>3, <2>4 DEF ServerInv
<1> QED BY <1>4, <1>5

LEMMA ServerInvNext == ServerInv /\ [Next]_vars => ServerInv'
<1> SUFFICES ASSUME ServerInv, [Next]_vars
             PROVE  ServerInv'
    OBVIOUS
<1>1. CASE CloseServer \/ NameLost \/ QuitSignal \/ Reload
    BY <1>1, StopExact DEF CloseServer, NameLost, QuitSignal
<1>2. CASE UNCHANGED vars \/ (StaleClose /\ ~Quit)
    <2>1. /\ UNCHANGED <<daemonVars, serviceVars, bus, group_service, group_used, stream,
                         closing, main_loop, reloads, user_service>>
          /\ stale_closing' \in BOOLEAN
        BY <1>2 DEF vars, userServiceVars, serviceVars, serverVars, StaleClose, ServerInv,
           ServerTyped
    <2>2. ServiceInv'
        BY <2>1, OthersInOrder DEF ServerInv, ServiceInv, OthersTyped
    <2>3. GroupServiceInOrder' /\ ServerTyped' /\ ServerCloses'
        BY <2>1 DEF ServerInv, GroupServiceInOrder, ServerTyped, ServerCloses
    <2> QED BY <2>1, <2>2, <2>3 DEF ServerInv
<1>3. CASE StaleClose /\ Quit
    BY <1>3, StopExact
<1> QED BY <1>1, <1>2, <1>3, BusAcquiredExact, UserServiceStepExact,
           GroupServiceStepExact, ServiceDueExact DEF Next

LEMMA ServerInvInit == Init => ServerInv
<1> SUFFICES ASSUME Init
             PROVE  ServerInv
    OBVIOUS
<1>1. SharedInv
    BY SharedInit DEF Init
<1>2. ServiceInv
    BY <1>1 DEF Init, DaemonInit, ServiceInv, ServiceInOrder, OthersTyped
<1>3. GroupServiceInOrder
    BY DEF Init, GroupServiceInOrder
<1>4. 0 \in 0..MaxReloads
    BY ServerAssumption
<1>5. ServerTyped /\ ServerCloses
    BY <1>4 DEF Init, ServerTyped, ServerCloses
<1> QED BY <1>2, <1>3, <1>5 DEF Init, ServerInv

\* The invariant of the daemon on the message bus: that of its user service, and
\* what ties both services to the server.
THEOREM ServerInvariant == Spec => []ServerInv
<1> QED BY ServerInvInit, ServerInvNext, PTL DEF Spec

\* Type correctness of the daemon on the message bus.
THEOREM ServerTypeCorrect == Spec => []TypeOK
<1>1. ServerInv => TypeOK
    <2> SUFFICES ASSUME ServerInv
                 PROVE  TypeOK
        OBVIOUS
    <2>1. ServiceTypeOK
        BY ServiceInvSays DEF ServerInv
    <2>2. group_service \in Disposable \cup {None}
        BY DEF ServerInv, GroupServiceInOrder, Orderly
    <2> QED BY <2>1, <2>2 DEF ServerInv, GroupServiceInOrder, ServerTyped, TypeOK
<1> QED BY <1>1, ServerInvariant, PTL

\* No user object is freed under an adapter that uses it, none is kept without
\* one, and the cache of the daemon has none that was freed: also while its
\* services end, and from one server to the next one after SIGHUP.
THEOREM DaemonReferencesExact == Spec => [](ReferencesExact /\ CacheIsLive)
<1>1. ServerInv => ReferencesExact /\ CacheIsLive
    BY ServiceInvSays DEF ServerInv
<1> QED BY <1>1, ServerInvariant, PTL

\* The timers of the service and of its adapters are right, it is kept exactly
\* while it has adapters, and the peer of every one of them is watched, in the
\* whole of the daemon.
THEOREM DaemonKeepsBooks == Spec => [](TimersAreRight /\ KeptWhileUsed /\ AdaptersAreListed)
<1>1. ServerInv => TimersAreRight /\ KeptWhileUsed /\ AdaptersAreListed
    BY ServiceInvSays DEF ServerInv
<1> QED BY <1>1, ServerInvariant, PTL

\* A server whose services have both ended does not stay behind: the close that
\* ends the process is queued, whichever service went first (the two handlers
\* _on_user_interface_dispose and _on_group_interface_dispose).
THEOREM ServerAlwaysCloses == Spec => []ServerCloses
<1>1. ServerInv => ServerCloses
    BY DEF ServerInv
<1> QED BY <1>1, ServerInvariant, PTL
=============================================================================
