-------------------------- MODULE GumdServicesProofs --------------------------
(***************************************************************************)
(* The user service, the group service and the services of peer-to-peer    *)
(* connections keep their books, for any number of clients, adapters, ids  *)
(* and objects: timers, keep-alive counter, list of adapters, references   *)
(* and cache.                                                              *)
(***************************************************************************)
EXTENDS GumdDaemonProofs

\* The service is in order and kept exactly while its list is not empty; a
\* service that has ended has no adapters.
ServiceInOrder ==
    /\ user_service = None => peer_users = {}
    /\ user_service # None =>
          /\ Orderly(user_service)
          /\ user_service.keep_obj_counter = IF peer_users = {} THEN 0 ELSE 1

\* The variables that nothing depends on.
OthersTyped ==
    /\ known \in SUBSET Uid
    /\ bus \in [Peer -> {"connected", "vanished", "lost"}]
    /\ caller_watchers \in SUBSET Peer

ServiceInv == SharedInv /\ ServiceInOrder /\ OthersTyped

-----------------------------------------------------------------------------
(***************************************************************************)
(* The user service                                                        *)
(***************************************************************************)

\* An adapter that is made keeps the service if it is the first.
LEMMA CreateKeepsService ==
    ASSUME ServiceInOrder, user_service # None,
           user_service' = Release(KeepForFirst(Keep(user_service))), peer_users' # {}
    PROVE  ServiceInOrder' /\ user_service' # None
<1> DEFINE k == Keep(user_service)
<1>1. /\ Orderly(user_service)
      /\ user_service.keep_obj_counter = IF peer_users = {} THEN 0 ELSE 1
    BY DEF ServiceInOrder
<1>2. Orderly(k) /\ k.keep_obj_counter = user_service.keep_obj_counter + 1
    BY <1>1, KeepIsOrderly
<1>3. Orderly(KeepForFirst(k)) /\ KeepForFirst(k).keep_obj_counter = 2
    <2>1. CASE peer_users = {}
        <3>1. KeepForFirst(k) = Keep(k)
            BY <2>1 DEF KeepForFirst
        <3>2. Orderly(Keep(k)) /\ Keep(k).keep_obj_counter = k.keep_obj_counter + 1
            BY <1>2, KeepIsOrderly
        <3> QED BY <1>1, <1>2, <2>1, <3>1, <3>2
    <2>2. CASE peer_users # {}
        BY <1>1, <1>2, <2>2 DEF KeepForFirst
    <2> QED BY <2>1, <2>2
<1> HIDE DEF k
<1>4. user_service' = Release(KeepForFirst(k))
    BY DEF k
<1>5. Orderly(user_service') /\ user_service'.keep_obj_counter = 1
    BY <1>3, <1>4, ReleaseIsOrderly
<1>6. user_service' # None
    BY <1>5, ServiceAssumption DEF Orderly
<1> QED BY <1>5, <1>6 DEF ServiceInOrder

\* When adapters have left the list, the service is let go with the last one.
LEMMA ReleaseAfterLastInOrder ==
    ASSUME ServiceInOrder, user_service # None, peer_users' \subseteq peer_users,
           ReleaseAfterLast
    PROVE  ServiceInOrder' /\ user_service' # None
<1> USE ServiceAssumption
<1>1. /\ Orderly(user_service)
      /\ user_service.keep_obj_counter = IF peer_users = {} THEN 0 ELSE 1
    BY DEF ServiceInOrder
<1>2. CASE peer_users' = {}
    <2>1. user_service' = Release(user_service)
        BY <1>2 DEF ReleaseAfterLast
    <2>2. Orderly(user_service') /\ user_service'.keep_obj_counter = 0
        BY <1>1, <2>1, ReleaseIsOrderly
    <2>3. user_service' # None
        BY <2>2 DEF Orderly
    <2> QED BY <1>2, <2>2, <2>3 DEF ServiceInOrder
<1>3. CASE peer_users' # {}
    <2>1. user_service' = user_service /\ peer_users # {}
        BY <1>3 DEF ReleaseAfterLast
    <2> QED BY <1>1, <1>3, <2>1 DEF ServiceInOrder
<1> QED BY <1>2, <1>3

\* A request that is answered at once leaves the counter as it was.
LEMMA ServedInOrder ==
    ASSUME ServiceInOrder, user_service # None, user_service' = Served(user_service),
           peer_users' = peer_users
    PROVE  ServiceInOrder' /\ user_service' # None
<1>1. Orderly(user_service)
    BY DEF ServiceInOrder
<1>2. /\ Orderly(user_service')
      /\ user_service'.keep_obj_counter = user_service.keep_obj_counter
    BY <1>1, ServedIsOrderly
<1>3. user_service' # None
    BY <1>2, ServiceAssumption DEF Orderly
<1> QED BY <1>2, <1>3 DEF ServiceInOrder

\* _create_and_cache_user_adapter.
LEMMA CreateInOrder ==
    ASSUME ServiceInv, user_service # None, NEW p \in Peer, NEW o \in Object, NEW u,
           \/ NewObject(o)
           \/ u \in Uid /\ GetLoaded(u, o)
           \/ u \in Uid /\ users[u] = o /\ GetCached(u),
           CreateAdapter(p, o)
    PROVE  ServiceInv' /\ user_service' # None
<1>1. MakesAdapter(p, o) /\ caller_watchers' = caller_watchers \cup {p}
    BY DEF CreateAdapter, MakesAdapter, WatchPeer
<1>2. SharedInv'
    BY <1>1, MadeShared DEF ServiceInv
<1>3. peer_users' # {}
    BY <1>1 DEF MakesAdapter
<1>4. ServiceInOrder' /\ user_service' # None
    BY <1>3, CreateKeepsService DEF CreateAdapter, ServiceInv
<1>5. OthersTyped'
    BY <1>1 DEF ServiceInv, OthersTyped, CreateAdapter, NewObject, GetLoaded, GetCached
<1> QED BY <1>2, <1>4, <1>5 DEF ServiceInv

\* A request to get a user, by its uid or by its name.
LEMMA GetUserInOrder ==
    ASSUME ServiceInv, NEW p \in Peer, NEW u \in Uid, GetUser(p, u)
    PROVE  ServiceInv' /\ user_service # None /\ user_service' # None
<1>1. user_service # None
    BY DEF GetUser, Asks
<1>2. CASE users[u] # None /\ GetCached(u) /\ CreateAdapter(p, users[u])
    <2>1. users[u] \in Object
        BY <1>2 DEF ServiceInv, SharedInv, UsersTyped
    <2> QED BY <1>1, <1>2, <2>1, CreateInOrder
<1>3. CASE \E o \in Object : GetLoaded(u, o) /\ CreateAdapter(p, o)
    BY <1>1, <1>3, CreateInOrder
<1> QED BY <1>1, <1>2, <1>3 DEF GetUser

\* A request to an adapter of a peer, of a user or of a group.
AdapterRequest(p, a) ==
    /\ AsksAdapter(p, a)
    /\ Edits(UserObject(a))
    /\ \/ adapter' = adapter
       \/ SetDisp(a, Served(adapter[a].disp))
       \/ SetDisp(a, DeleteLater(Served(adapter[a].disp)))
    /\ known' \in SUBSET Uid
    /\ UNCHANGED <<bus, peer_users, caller_watchers, user_service>>

LEMMA AdapterRequestInOrder ==
    ASSUME ServiceInv, NEW p \in Peer, NEW a \in Adapter, AdapterRequest(p, a)
    PROVE  ServiceInv' /\ user_service # None /\ user_service' # None
<1>1. a \in LiveAdapters /\ user_service # None
    BY DEF AdapterRequest, AsksAdapter, Asks, Of
<1>2. SharedInv'
    BY <1>1, HandledShared DEF ServiceInv, AdapterRequest
<1>3. ServiceInOrder' /\ OthersTyped'
    BY DEF ServiceInv, ServiceInOrder, OthersTyped, AdapterRequest
<1> QED BY <1>1, <1>2, <1>3 DEF ServiceInv, AdapterRequest

\* The operations of the daemon on the object of an adapter.
LEMMA OperationEdits ==
    ASSUME NEW o, known \in SUBSET Uid,
           \/ \E u \in Uid : AddUser(o, u) \/ AddUserFails(o, u)
           \/ DeleteUser(o) \/ DeleteUserFails(o)
           \/ \E n \in Name : SetUsername(o, n)
           \/ UNCHANGED daemonVars
    PROVE  Edits(o) /\ known' \in SUBSET Uid
<1>1. CASE \E u \in Uid : AddUser(o, u) \/ AddUserFails(o, u)
    BY <1>1 DEF AddUser, AddUserFails, Addable, Edits
<1>2. CASE DeleteUser(o) \/ DeleteUserFails(o) \/ UNCHANGED daemonVars
    BY <1>2 DEF DeleteUser, DeleteUserFails, daemonVars, Edits
<1>3. CASE \E n \in Name : SetUsername(o, n)
    BY <1>3 DEF SetUsername, Edits
<1> QED BY <1>1, <1>2, <1>3

LEMMA HandlersAreRequests ==
    ASSUME known \in SUBSET Uid, NEW p \in Peer, NEW a \in Adapter,
           \/ HandleAddUser(p, a) \/ HandleDeleteUser(p, a) \/ HandleUpdateUser(p, a)
           \/ \E n \in Name : WriteUsername(p, a, n)
    PROVE  AdapterRequest(p, a)
<1>1. CASE HandleAddUser(p, a)
    BY <1>1, OperationEdits DEF HandleAddUser, AdapterRequest
<1>2. CASE HandleDeleteUser(p, a)
    BY <1>2, OperationEdits DEF HandleDeleteUser, AdapterRequest
<1>3. CASE HandleUpdateUser(p, a)
    BY <1>3, OperationEdits DEF HandleUpdateUser, AdapterRequest
<1>4. CASE \E n \in Name : WriteUsername(p, a, n)
    BY <1>4, OperationEdits DEF WriteUsername, AdapterRequest, serviceVars
<1> QED BY <1>1, <1>2, <1>3, <1>4

\* Requests to the service and to an adapter.
LEMMA RequestInOrder ==
    ASSUME ServiceInv, NEW p \in Peer, Request(p)
    PROVE  ServiceInv' /\ user_service # None /\ user_service' # None
<1>1. CASE CreateNewUser(p)
    BY <1>1, CreateInOrder DEF CreateNewUser, Asks
<1>2. CASE (\E u \in Uid : GetUser(p, u)) \/ \E n \in Name : GetUserByName(p, n)
    BY <1>2, GetUserInOrder DEF GetUserByName
<1>3. CASE AnswerUser(p)
    <2>1. /\ user_service # None /\ user_service' = Served(user_service)
          /\ UNCHANGED <<daemonVars, bus, adapter, peer_users, caller_watchers>>
        BY <1>3 DEF AnswerUser, AnswerOnly, Asks
    <2>2. SharedInv'
        BY <2>1, UntouchedShared DEF daemonVars, ServiceInv
    <2>3. ServiceInOrder' /\ user_service' # None
        BY <2>1, ServedInOrder DEF ServiceInv
    <2> QED BY <2>1, <2>2, <2>3 DEF ServiceInv, OthersTyped, daemonVars
<1>4. CASE \E a \in Adapter :
             \/ HandleAddUser(p, a) \/ HandleDeleteUser(p, a) \/ HandleUpdateUser(p, a)
             \/ \E n \in Name : WriteUsername(p, a, n)
    BY <1>4, HandlersAreRequests, AdapterRequestInOrder DEF ServiceInv, OthersTyped
<1> QED BY <1>1, <1>2, <1>3, <1>4 DEF Request

\* Adapters are disposed by a timer or with their peer.
LEMMA SomeDisposedInOrder ==
    ASSUME ServiceInv, user_service # None, NEW S \in SUBSET LiveAdapters,
           DisposeAdapters(S), ReleaseAfterLast,
           \A a \in LiveAdapters \ S : adapter[a].peer \in caller_watchers',
           caller_watchers' \in SUBSET Peer,
           bus' \in [Peer -> {"connected", "vanished", "lost"}]
    PROVE  ServiceInv' /\ user_service' # None
<1>1. SharedInv' /\ peer_users' = peer_users \ S
    BY DisposedShared DEF ServiceInv
<1>2. ServiceInOrder' /\ user_service' # None
    BY <1>1, ReleaseAfterLastInOrder DEF ServiceInv
<1>3. OthersTyped'
    BY DEF ServiceInv, OthersTyped, DisposeAdapters, DropReferences
<1> QED BY <1>1, <1>2, <1>3 DEF ServiceInv

LEMMA PeerLostInOrder ==
    ASSUME ServiceInv, NEW p \in Peer, PeerLost(p)
    PROVE  ServiceInv' /\ user_service # None /\ user_service' # None
<1>1. /\ user_service # None
      /\ DisposeAdapters(Of(p)) /\ ReleaseAfterLast
      /\ caller_watchers' = caller_watchers \ {p}
      /\ bus' = [bus EXCEPT ![p] = "lost"]
    BY DEF PeerLost
<1>2. Of(p) \in SUBSET LiveAdapters
    BY DEF Of
<1>3. \A a \in LiveAdapters \ Of(p) : adapter[a].peer \in caller_watchers'
    BY <1>1 DEF ServiceInv, SharedInv, AdaptersAreListed, Of
<1>4. /\ caller_watchers' \in SUBSET Peer
      /\ bus' \in [Peer -> {"connected", "vanished", "lost"}]
    BY <1>1 DEF ServiceInv, OthersTyped
<1> QED BY <1>1, <1>2, <1>3, <1>4, SomeDisposedInOrder

LEMMA AdapterDueInOrder ==
    ASSUME ServiceInv, NEW a \in Adapter, AdapterDue(a)
    PROVE  ServiceInv' /\ user_service # None /\ user_service' # None
<1>1. /\ a \in LiveAdapters
      /\ DisposeAdapters({a}) /\ ReleaseAfterLast
      /\ UNCHANGED <<bus, caller_watchers>>
    BY DEF AdapterDue
<1>2. user_service # None
    BY <1>1 DEF ServiceInv, ServiceInOrder, SharedInv, AdaptersAreListed
<1>3. {a} \in SUBSET LiveAdapters
    BY <1>1
<1>4. \A b \in LiveAdapters \ {a} : adapter[b].peer \in caller_watchers'
    BY <1>1 DEF ServiceInv, SharedInv, AdaptersAreListed
<1>5. /\ caller_watchers' \in SUBSET Peer
      /\ bus' \in [Peer -> {"connected", "vanished", "lost"}]
    BY <1>1 DEF ServiceInv, OthersTyped
<1> QED BY <1>1, <1>2, <1>3, <1>4, <1>5, SomeDisposedInOrder

\* A service that ends takes its adapters with it.
LEMMA EndInOrder ==
    ASSUME ServiceInv, UserServiceEnds,
           bus' \in [Peer -> {"connected", "vanished", "lost"}]
    PROVE  ServiceInv' /\ user_service' = None
<1>1. SharedInv' /\ peer_users' = {}
    BY AllDisposedShared DEF UserServiceEnds, ServiceInv
<1>2. ServiceInOrder'
    BY <1>1 DEF UserServiceEnds, ServiceInOrder
<1>3. OthersTyped'
    BY DEF ServiceInv, OthersTyped, UserServiceEnds, DisposeAdapters, DropReferences
<1> QED BY <1>1, <1>2, <1>3 DEF ServiceInv, UserServiceEnds

\* Steps that do not concern the service.
LEMMA OthersInOrder ==
    ASSUME ServiceInv, UNCHANGED <<daemonVars, serviceVars>>,
           bus' \in [Peer -> {"connected", "vanished", "lost"}]
    PROVE  ServiceInv'
<1>1. SharedInv'
    BY UntouchedShared DEF ServiceInv, daemonVars, serviceVars
<1> QED BY <1>1 DEF ServiceInv, ServiceInOrder, OthersTyped, daemonVars, serviceVars

LEMMA PeerVanishesInOrder ==
    ASSUME ServiceInv, NEW p \in Peer, PeerVanishes(p)
    PROVE  ServiceInv' /\ user_service' = user_service
<1>1. /\ UNCHANGED <<daemonVars, serviceVars>>
      /\ bus' \in [Peer -> {"connected", "vanished", "lost"}]
    BY DEF PeerVanishes, ServiceInv, OthersTyped
<1> QED BY <1>1, OthersInOrder DEF serviceVars

\* Every step.
LEMMA StepInOrder ==
    ASSUME ServiceInv, [UserServiceNext]_userServiceVars
    PROVE  ServiceInv'
<1>1. CASE UserServiceEnds /\ UNCHANGED bus
    BY <1>1, EndInOrder DEF ServiceInv, OthersTyped
<1>2. CASE UNCHANGED userServiceVars
    BY <1>2, OthersInOrder DEF userServiceVars, ServiceInv, OthersTyped
<1> QED BY <1>1, <1>2, RequestInOrder, PeerLostInOrder, PeerVanishesInOrder,
           AdapterDueInOrder DEF UserServiceNext, UserServiceTimeout

\* The service starts in order, without adapters.
LEMMA InitInOrder ==
    ASSUME ServiceInit
    PROVE  ServiceInv
<1>1. Orderly(user_service) /\ user_service.keep_obj_counter = 0
    BY NewIsOrderly, ServiceAssumption DEF ServiceInit, NewService
<1>2. ServiceInOrder
    BY <1>1, ServiceAssumption DEF ServiceInit, ServiceInOrder, Orderly
<1>3. OthersTyped
    BY DEF ServiceInit, DaemonInit, OthersTyped
<1> QED BY <1>2, <1>3, SharedInit DEF ServiceInit, ServiceInv

\* The inductive invariant of the user service.
THEOREM ServiceInvariant == UserServiceSpec => []ServiceInv
<1>1. ServiceInit => ServiceInv
    BY InitInOrder
<1>2. ServiceInv /\ [UserServiceNext]_userServiceVars => ServiceInv'
    BY StepInOrder
<1> QED BY <1>1, <1>2, PTL DEF UserServiceSpec

\* What the invariant says, to those who ask.
LEMMA ServiceInvSays ==
    ASSUME ServiceInv
    PROVE  /\ TimersAreRight /\ KeptWhileUsed /\ AdaptersAreListed
           /\ ReferencesExact /\ CacheIsLive
           /\ ServiceTypeOK
<1> USE DEF ServiceInv, SharedInv, ServiceInOrder, AdaptersInOrder
<1>1. TimersAreRight
    BY DEF TimersAreRight, Orderly
<1>2. KeptWhileUsed
    BY DEF KeptWhileUsed
<1>3. DaemonTypeOK
    BY DEF UsersTyped, ObjectsTyped, OthersTyped, DaemonTypeOK
<1>4. user_service \in Disposable \cup {None}
    BY DEF Orderly
<1>5. adapter \in [Adapter -> UserAdapter \cup {None}] /\ peer_users \in SUBSET Adapter
    BY DEF AdaptersTyped, AdaptersAreListed, LiveAdapters
<1> QED BY <1>1, <1>2, <1>3, <1>4, <1>5 DEF OthersTyped, ServiceTypeOK

\* Type correctness of the user service and of the daemon under it.
THEOREM ServiceTypeCorrect == UserServiceSpec => []ServiceTypeOK
<1> QED BY ServiceInvariant, ServiceInvSays, PTL

\* No timer fires for a service or an adapter in use, none is missing for one
\* that is not, and no source is left behind: the way gum-disposable.c counts
\* keeps and releases and removes its source, for any number of clients.
THEOREM TimersAlwaysRight == UserServiceSpec => []TimersAreRight
<1> QED BY ServiceInvariant, ServiceInvSays, PTL

\* The service is kept, once, exactly while its list has an adapter, in
\* whatever order adapters are made, deleted, timed out and lost with a peer.
THEOREM ServiceAlwaysKept == UserServiceSpec => []KeptWhileUsed
<1> QED BY ServiceInvariant, ServiceInvSays, PTL

\* The list has the adapters that exist and no other, and the peer of each is
\* watched.
THEOREM AdaptersAlwaysListed == UserServiceSpec => []AdaptersAreListed
<1> QED BY ServiceInvariant, ServiceInvSays, PTL

\* No user object is freed under an adapter that uses it and none is kept
\* without one, in whatever order adapters come and go.
THEOREM ReferencesAlwaysExact == UserServiceSpec => []ReferencesExact
<1> QED BY ServiceInvariant, ServiceInvSays, PTL

\* The cache of the daemon, which holds no references, never has an entry of a
\* freed object, although objects are cached under one uid and may later have
\* another (_on_user_disposed takes out every entry of the object).
THEOREM CacheAlwaysLive == UserServiceSpec => []CacheIsLive
<1> QED BY ServiceInvariant, ServiceInvSays, PTL

-----------------------------------------------------------------------------
(***************************************************************************)
(* The group service                                                       *)
(*                                                                         *)
(* It is an instance of the user service, whose definitions it uses, with  *)
(* the group service in the place of the user service.  What differs are   *)
(* adding and deleting a group.                                            *)
(***************************************************************************)
Group == INSTANCE GumdDbusGroupService
            WITH Gid <- Uid, GroupTimeout <- UserTimeout, groups <- users,
                 peer_groups <- peer_users, group_service <- user_service

\* The definitions the instance has are those of the user service.
LEMMA SameDisposable ==
    ASSUME NEW d
    PROVE  /\ Group!Same!Keep(d) = Keep(d)
           /\ Group!Same!Release(d) = Release(d)
           /\ Group!Same!Served(d) = Served(d)
           /\ Group!Same!DeleteLater(d) = DeleteLater(d)
           /\ Group!Same!Due(d) = Due(d)
<1>1. ASSUME NEW c
      PROVE  Group!Same!UpdateTimer(c) = UpdateTimer(c)
    BY DEF Group!Same!UpdateTimer, UpdateTimer, Group!Same!AddSource, AddSource,
        Group!Same!RemoveSource, RemoveSource
<1>2. ASSUME NEW c, NEW b
      PROVE  Group!Same!SetAutoDispose(c, b) = SetAutoDispose(c, b)
    BY <1>1 DEF Group!Same!SetAutoDispose, SetAutoDispose
<1> QED BY <1>2
    DEF Group!Same!Keep, Keep, Group!Same!Release, Release, Group!Same!Served,
        Served, Group!Same!DeleteLater, DeleteLater, Group!Same!AddSource,
        AddSource, Group!Same!RemoveSource, RemoveSource, Group!Same!Due, Due

LEMMA SameNew ==
    ASSUME NEW timeout
    PROVE  Group!Same!NewDisposable(timeout) = NewDisposable(timeout)
<1>1. ASSUME NEW c
      PROVE  Group!Same!UpdateTimer(c) = UpdateTimer(c)
    BY DEF Group!Same!UpdateTimer, UpdateTimer, Group!Same!AddSource, AddSource,
        Group!Same!RemoveSource, RemoveSource
<1> QED BY <1>1
    DEF Group!Same!NewDisposable, NewDisposable, Group!Same!SetTimeout,
        SetTimeout

LEMMA SameCreate ==
    ASSUME NEW p, NEW o
    PROVE  Group!Same!CreateAdapter(p, o) <=> CreateAdapter(p, o)
BY SameDisposable, SameNew
    DEF Group!Same!CreateAdapter, CreateAdapter, Group!Same!LiveAdapters,
        LiveAdapters, Group!Same!WatchPeer, WatchPeer, Group!Same!KeepForFirst,
        KeepForFirst

LEMMA SameRequests ==
    ASSUME NEW p
    PROVE  /\ Group!Same!CreateNewUser(p) <=> CreateNewUser(p)
           /\ \A u : Group!Same!GetUser(p, u) <=> GetUser(p, u)
           /\ \A n : Group!Same!GetUserByName(p, n) <=> GetUserByName(p, n)
           /\ Group!Same!AnswerUser(p) <=> AnswerUser(p)
<1>1. Group!Same!CreateNewUser(p) <=> CreateNewUser(p)
    BY SameCreate
    DEF Group!Same!CreateNewUser, CreateNewUser, Group!Same!Asks, Asks,
        Group!Same!NewObject, NewObject
<1>2. ASSUME NEW u
      PROVE  Group!Same!GetUser(p, u) <=> GetUser(p, u)
    BY SameCreate
    DEF Group!Same!GetUser, GetUser, Group!Same!Asks, Asks, Group!Same!Cached,
        Cached, Group!Same!Of, Of, Group!Same!LiveAdapters, LiveAdapters,
        Group!Same!UserObject, UserObject, Group!Same!GetCached, GetCached,
        Group!Same!GetLoaded, GetLoaded, Group!Same!UserOf, UserOf
<1>3. ASSUME NEW n
      PROVE  Group!Same!GetUserByName(p, n) <=> GetUserByName(p, n)
    BY <1>2 DEF Group!Same!GetUserByName, GetUserByName
<1>4. Group!Same!AnswerUser(p) <=> AnswerUser(p)
    BY SameDisposable
    DEF Group!Same!AnswerUser, AnswerUser, Group!Same!AnswerOnly, AnswerOnly,
        Group!Same!Asks, Asks, Group!Same!daemonVars, daemonVars
<1> QED BY <1>1, <1>2, <1>3, <1>4

LEMMA SameHandlers ==
    ASSUME NEW p, NEW a
    PROVE  /\ Group!Same!HandleUpdateUser(p, a) <=> HandleUpdateUser(p, a)
           /\ \A n : Group!Same!WriteUsername(p, a, n) <=> WriteUsername(p, a, n)
BY SameDisposable
    DEF Group!Same!HandleUpdateUser, HandleUpdateUser, Group!Same!WriteUsername,
        WriteUsername, Group!Same!AsksAdapter, AsksAdapter, Group!Same!Asks,
        Asks, Group!Same!Of, Of, Group!Same!LiveAdapters, LiveAdapters,
        Group!Same!SetDisp, SetDisp, Group!Same!daemonVars, daemonVars,
        Group!Same!serviceVars, serviceVars, Group!Same!SetUsername,
        SetUsername, Group!Same!UserObject, UserObject

LEMMA SameEnds ==
    /\ \A S : Group!Same!DisposeAdapters(S) <=> DisposeAdapters(S)
    /\ \A p : Group!Same!PeerLost(p) <=> PeerLost(p)
    /\ \A p : Group!Same!PeerVanishes(p) <=> PeerVanishes(p)
    /\ \A a : Group!Same!AdapterDue(a) <=> AdapterDue(a)
    /\ Group!Same!UserServiceEnds <=> UserServiceEnds
    /\ Group!Same!ServiceInit <=> ServiceInit
<1>1. ASSUME NEW S
      PROVE  Group!Same!DisposeAdapters(S) <=> DisposeAdapters(S)
    <2>1. ASSUME NEW drops
          PROVE  Group!Same!DropReferences(drops) <=> DropReferences(drops)
        BY DEF Group!Same!DropReferences, DropReferences, Group!Same!LiveObjects, LiveObjects
    <2> DEFINE drops == [o \in Object |-> Cardinality({b \in S : UserObject(b) = o})]
    <2>2. \A T : Group!Same!Cardinality(T) = Cardinality(T)
        BY DEF Group!Same!Cardinality, Cardinality
    <2>3. Group!Same!DisposeAdapters(S) <=>
             /\ adapter' = [b \in Adapter |-> IF b \in S THEN None ELSE adapter[b]]
             /\ peer_users' = peer_users \ S
             /\ Group!Same!DropReferences(drops)
        BY <2>2 DEF Group!Same!DisposeAdapters, Group!Same!UserObject, UserObject
    <2> QED BY <2>1, <2>3 DEF DisposeAdapters
<1>2. Group!Same!ReleaseAfterLast <=> ReleaseAfterLast
    BY SameDisposable DEF Group!Same!ReleaseAfterLast, ReleaseAfterLast
<1>3. ASSUME NEW p
      PROVE  Group!Same!PeerLost(p) <=> PeerLost(p)
    BY <1>1, <1>2
    DEF Group!Same!PeerLost, PeerLost, Group!Same!Of, Of,
        Group!Same!LiveAdapters, LiveAdapters
<1>4. ASSUME NEW p
      PROVE  Group!Same!PeerVanishes(p) <=> PeerVanishes(p)
    BY DEF Group!Same!PeerVanishes, PeerVanishes, Group!Same!daemonVars,
        daemonVars, Group!Same!serviceVars, serviceVars
<1>5. ASSUME NEW a
      PROVE  Group!Same!AdapterDue(a) <=> AdapterDue(a)
    BY <1>1, <1>2, SameDisposable
    DEF Group!Same!AdapterDue, AdapterDue, Group!Same!LiveAdapters, LiveAdapters
<1>6. Group!Same!UserServiceEnds <=> UserServiceEnds
    BY <1>1 DEF Group!Same!UserServiceEnds, UserServiceEnds, Group!Same!LiveAdapters, LiveAdapters
<1>7. Group!Same!ServiceInit <=> ServiceInit
    BY SameNew
    DEF Group!Same!ServiceInit, ServiceInit, Group!Same!DaemonInit, DaemonInit,
        Group!Same!NewService, NewService
<1> QED BY <1>1, <1>3, <1>4, <1>5, <1>6, <1>7

\* The two requests that differ are requests to an adapter like the others.
LEMMA GroupHandlersAreRequests ==
    ASSUME known \in SUBSET Uid, NEW p \in Peer, NEW a \in Adapter,
           Group!HandleAddGroup(p, a) \/ Group!HandleDeleteGroup(p, a)
    PROVE  AdapterRequest(p, a)
<1>1. /\ Group!Same!AsksAdapter(p, a) <=> AsksAdapter(p, a)
      /\ \A d : Group!Same!SetDisp(a, d) <=> SetDisp(a, d)
      /\ Group!GroupObject(a) = UserObject(a)
    BY DEF Group!Same!AsksAdapter, AsksAdapter, Group!Same!Asks, Asks,
        Group!Same!Of, Of, Group!Same!LiveAdapters, LiveAdapters,
        Group!Same!SetDisp, SetDisp,
       Group!GroupObject, UserObject
<1>2. CASE Group!HandleAddGroup(p, a)
    <2>1. PICK g \in Uid : \/ Group!AddGroup(UserObject(a), g)
                          \/ Group!Same!AddUserFails(UserObject(a), g)
        BY <1>1, <1>2 DEF Group!HandleAddGroup
    <2>2. Edits(UserObject(a)) /\ known' = known
        BY <2>1 DEF Group!AddGroup, Group!Same!AddUserFails, Group!Same!Addable, Edits
    <2> QED BY <1>1, <1>2, <2>2, SameDisposable DEF Group!HandleAddGroup, AdapterRequest
<1>3. CASE Group!HandleDeleteGroup(p, a)
    <2>1. Group!DeleteGroup(UserObject(a)) \/ Group!Same!DeleteUserFails(UserObject(a))
        BY <1>1, <1>3 DEF Group!HandleDeleteGroup
    <2>2. Edits(UserObject(a)) /\ known' \in SUBSET Uid
        BY <2>1 DEF Group!DeleteGroup, Group!Same!DeleteUserFails, Edits
    <2> QED BY <1>1, <1>3, <2>2, SameDisposable DEF Group!HandleDeleteGroup, AdapterRequest
<1> QED BY <1>2, <1>3

LEMMA GroupStepInOrder ==
    ASSUME ServiceInv, [Group!GroupServiceNext]_userServiceVars
    PROVE  ServiceInv'
<1>1. CASE \E p \in Peer : Group!GroupRequest(p)
    <2>1. PICK p \in Peer : Group!GroupRequest(p)
        BY <1>1
    <2>2. CASE Request(p)
        BY <2>2, RequestInOrder
    <2>3. CASE \E a \in Adapter : Group!HandleAddGroup(p, a) \/ Group!HandleDeleteGroup(p, a)
        BY <2>3, GroupHandlersAreRequests, AdapterRequestInOrder DEF ServiceInv, OthersTyped
    <2> QED BY <2>1, <2>2, <2>3, SameRequests, SameHandlers
            DEF Group!GroupRequest, Request, Group!CreateNewGroup, Group!GetGroup,
                Group!GetGroupByName, Group!AnswerGroup, Group!HandleUpdateGroup,
                Group!HandleGroupMember, Group!WriteGroupname
<1>2. CASE [UserServiceNext]_userServiceVars
    BY <1>2, StepInOrder
<1>3. CASE \/ \E p \in Peer : Group!GroupPeerLost(p) \/ Group!Same!PeerVanishes(p)
           \/ \E a \in Adapter : Group!GroupAdapterDue(a)
           \/ user_service # None /\ Group!GroupServiceEnds /\ UNCHANGED bus
    BY <1>2, <1>3, SameEnds DEF UserServiceNext, Group!GroupPeerLost,
       Group!GroupAdapterDue, Group!GroupServiceEnds
<1> QED BY <1>1, <1>2, <1>3 DEF Group!GroupServiceNext

\* The invariant of the user service is one of the group service.
THEOREM GroupServiceInvariant == Group!GroupServiceSpec => []ServiceInv
<1>1. Group!GroupServiceInit => ServiceInv
    BY SameEnds, InitInOrder DEF Group!GroupServiceInit
<1>2. ServiceInv /\ [Group!GroupServiceNext]_(Group!groupServiceVars) => ServiceInv'
    BY GroupStepInOrder DEF userServiceVars, daemonVars, serviceVars, Group!groupServiceVars
<1> QED BY <1>1, <1>2, PTL DEF Group!GroupServiceSpec

\* The group service keeps its timers, counter and list right (which is said of
\* gumd-dbus-group-service-adapter.c), and the group objects their references.
THEOREM GroupServiceKeepsBooks ==
    Group!GroupServiceSpec =>
        [](/\ ServiceTypeOK /\ TimersAreRight /\ KeptWhileUsed
           /\ AdaptersAreListed /\ ReferencesExact /\ CacheIsLive)
<1> QED BY GroupServiceInvariant, ServiceInvSays, PTL

-----------------------------------------------------------------------------
(***************************************************************************)
(* The peer-to-peer server                                                 *)
(*                                                                         *)
(* Every connection has a service of its own, which nobody keeps; the      *)
(* adapters and objects of all of them are shared as before.  The          *)
(* connections that have a service are in the place of the watched peers.  *)
(***************************************************************************)
P2P == INSTANCE GumdServerP2P WITH user_service_adapters <- caller_watchers

P2PInv == SharedInv /\ OthersTyped

LEMMA SameP2PDisposable ==
    /\ \A timeout : P2P!Disposable!NewDisposable(timeout) = NewDisposable(timeout)
    /\ \A d : /\ P2P!Same!Served(d) = Served(d)
              /\ P2P!Same!DeleteLater(d) = DeleteLater(d)
<1>1. ASSUME NEW c
      PROVE  /\ P2P!Disposable!UpdateTimer(c) = UpdateTimer(c)
             /\ P2P!Same!UpdateTimer(c) = UpdateTimer(c)
    BY DEF P2P!Disposable!UpdateTimer, P2P!Disposable!AddSource,
       P2P!Disposable!RemoveSource, P2P!Same!UpdateTimer, P2P!Same!AddSource,
       P2P!Same!RemoveSource, UpdateTimer, AddSource, RemoveSource
<1>2. ASSUME NEW timeout
      PROVE  P2P!Disposable!NewDisposable(timeout) = NewDisposable(timeout)
    BY <1>1
    DEF P2P!Disposable!NewDisposable, NewDisposable, P2P!Disposable!SetTimeout, SetTimeout
<1>3. ASSUME NEW c, NEW b
      PROVE  P2P!Same!SetAutoDispose(c, b) = SetAutoDispose(c, b)
    BY <1>1 DEF P2P!Same!SetAutoDispose, SetAutoDispose
<1>4. ASSUME NEW c
      PROVE  P2P!Same!Served(c) = Served(c) /\ P2P!Same!DeleteLater(c) = DeleteLater(c)
    BY <1>3
    DEF P2P!Same!Served, Served, P2P!Same!Keep, Keep, P2P!Same!Release, Release,
        P2P!Same!DeleteLater, DeleteLater, P2P!Same!AddSource, AddSource,
        P2P!Same!RemoveSource, RemoveSource
<1> QED BY <1>2, <1>4

LEMMA SameP2PAdapters ==
    /\ P2P!Same!LiveAdapters = LiveAdapters
    /\ \A p : P2P!Same!Of(p) = Of(p)
    /\ \A a : P2P!Same!UserObject(a) = UserObject(a)
    /\ \A a, d : P2P!Same!SetDisp(a, d) <=> SetDisp(a, d)
    /\ \A S : P2P!Same!DisposeAdapters(S) <=> DisposeAdapters(S)
<1>1. ASSUME NEW S
      PROVE  P2P!Same!DisposeAdapters(S) <=> DisposeAdapters(S)
    <2>1. ASSUME NEW drops
          PROVE  P2P!Same!DropReferences(drops) <=> DropReferences(drops)
        BY DEF P2P!Same!DropReferences, DropReferences, P2P!Same!LiveObjects, LiveObjects
    <2> DEFINE drops == [o \in Object |-> Cardinality({b \in S : UserObject(b) = o})]
    <2>2. \A T : P2P!Same!Cardinality(T) = Cardinality(T)
        BY DEF P2P!Same!Cardinality, Cardinality
    <2>3. P2P!Same!DisposeAdapters(S) <=>
             /\ adapter' = [b \in Adapter |-> IF b \in S THEN None ELSE adapter[b]]
             /\ peer_users' = peer_users \ S
             /\ P2P!Same!DropReferences(drops)
        BY <2>2 DEF P2P!Same!DisposeAdapters, P2P!Same!UserObject, UserObject
    <2> QED BY <2>1, <2>3 DEF DisposeAdapters
<1> QED BY <1>1
    DEF P2P!Same!LiveAdapters, LiveAdapters, P2P!Same!Of, Of,
        P2P!Same!UserObject, UserObject, P2P!Same!SetDisp, SetDisp

LEMMA SameP2PDaemon ==
    /\ P2P!Same!DaemonInit <=> DaemonInit
    /\ \A o : P2P!Same!NewObject(o) <=> NewObject(o)
    /\ \A u : P2P!Same!GetCached(u) <=> GetCached(u)
    /\ \A u, o : P2P!Same!GetLoaded(u, o) <=> GetLoaded(u, o)
    /\ \A o, u : /\ P2P!Same!AddUser(o, u) <=> AddUser(o, u)
                 /\ P2P!Same!AddUserFails(o, u) <=> AddUserFails(o, u)
    /\ \A o : /\ P2P!Same!DeleteUser(o) <=> DeleteUser(o)
              /\ P2P!Same!DeleteUserFails(o) <=> DeleteUserFails(o)
    /\ \A o, n : P2P!Same!SetUsername(o, n) <=> SetUsername(o, n)
BY DEF P2P!Same!DaemonInit, DaemonInit, P2P!Same!NewObject, NewObject,
        P2P!Same!GetCached, GetCached, P2P!Same!GetLoaded, GetLoaded,
        P2P!Same!UserOf, UserOf, P2P!Same!AddUser, AddUser,
        P2P!Same!AddUserFails, AddUserFails, P2P!Same!Addable, Addable,
        P2P!Same!FreeUids, FreeUids, P2P!Same!DeleteUser, DeleteUser,
        P2P!Same!DeleteUserFails, DeleteUserFails, P2P!Same!Exists, Exists,
        P2P!Same!SetUsername, SetUsername

\* An adapter is made as on the message bus, and its connection has a service.
LEMMA P2PCreate ==
    ASSUME P2PInv, NEW p \in Peer, P2P!AsksService(p), NEW o \in Object, NEW u,
           \/ NewObject(o)
           \/ u \in Uid /\ GetLoaded(u, o)
           \/ u \in Uid /\ users[u] = o /\ GetCached(u),
           P2P!CreateAdapter(p, o)
    PROVE  P2PInv'
<1>1. MakesAdapter(p, o) /\ UNCHANGED <<bus, caller_watchers>>
    BY SameP2PDisposable, SameP2PAdapters DEF P2P!CreateAdapter, MakesAdapter
<1>2. caller_watchers' = caller_watchers \cup {p}
    BY <1>1 DEF P2P!AsksService
<1>3. SharedInv'
    BY <1>1, <1>2, MadeShared DEF P2PInv
<1>4. known' = known
    BY DEF NewObject, GetLoaded, GetCached
<1> QED BY <1>1, <1>3, <1>4 DEF P2PInv, OthersTyped

LEMMA P2PRequest ==
    ASSUME P2PInv, NEW p \in Peer, NEW a \in Adapter, P2P!AdapterRequest(p, a)
    PROVE  P2PInv'
<1>1. /\ a \in LiveAdapters
      /\ UNCHANGED <<bus, peer_users, caller_watchers>>
      /\ \/ adapter' = adapter
         \/ SetDisp(a, Served(adapter[a].disp))
         \/ SetDisp(a, DeleteLater(Served(adapter[a].disp)))
    <2>1. a \in Of(p)
        BY SameP2PAdapters DEF P2P!AdapterRequest, P2P!Same!HandleAddUser,
           P2P!Same!HandleDeleteUser, P2P!Same!HandleUpdateUser,
           P2P!Same!WriteUsername, P2P!Same!AsksAdapter
    <2>2. /\ UNCHANGED <<bus, peer_users, caller_watchers>>
          /\ \/ adapter' = adapter
             \/ SetDisp(a, Served(adapter[a].disp))
             \/ SetDisp(a, DeleteLater(Served(adapter[a].disp)))
        BY SameP2PAdapters, SameP2PDisposable
        DEF P2P!AdapterRequest, P2P!Same!HandleAddUser, P2P!Same!HandleDeleteUser,
            P2P!Same!HandleUpdateUser, P2P!Same!WriteUsername, P2P!Same!serviceVars
    <2> QED BY <2>1, <2>2 DEF Of
<1>2. \/ \E u \in Uid : AddUser(UserObject(a), u) \/ AddUserFails(UserObject(a), u)
      \/ DeleteUser(UserObject(a)) \/ DeleteUserFails(UserObject(a))
      \/ \E n \in Name : SetUsername(UserObject(a), n)
      \/ UNCHANGED daemonVars
    <2> DEFINE o == adapter[a].user
    <2>1. CASE P2P!Same!HandleAddUser(p, a)
        <3>1. PICK u \in Uid : P2P!Same!AddUser(o, u) \/ P2P!Same!AddUserFails(o, u)
            BY <2>1 DEF P2P!Same!HandleAddUser, P2P!Same!UserObject
        <3>2. AddUser(o, u) \/ AddUserFails(o, u)
            BY <3>1, SameP2PDaemon
        <3>3. AddUser(UserObject(a), u) \/ AddUserFails(UserObject(a), u)
            BY <3>2 DEF UserObject
        <3> QED BY <3>3
    <2>2. CASE P2P!Same!HandleDeleteUser(p, a)
        <3>1. P2P!Same!DeleteUser(o) \/ P2P!Same!DeleteUserFails(o)
            BY <2>2 DEF P2P!Same!HandleDeleteUser, P2P!Same!UserObject
        <3>2. DeleteUser(o) \/ DeleteUserFails(o)
            BY <3>1, SameP2PDaemon
        <3>3. DeleteUser(UserObject(a)) \/ DeleteUserFails(UserObject(a))
            BY <3>2 DEF UserObject
        <3> QED BY <3>3
    <2>3. CASE P2P!Same!HandleUpdateUser(p, a)
        BY <2>3 DEF P2P!Same!HandleUpdateUser, P2P!Same!daemonVars, daemonVars
    <2>4. CASE \E n \in Name : P2P!Same!WriteUsername(p, a, n)
        <3>1. PICK n \in Name : P2P!Same!SetUsername(P2P!Same!UserObject(a), n)
            BY <2>4 DEF P2P!Same!WriteUsername
        <3> QED BY <3>1, SameP2PAdapters, SameP2PDaemon
    <2> QED BY <2>1, <2>2, <2>3, <2>4 DEF P2P!AdapterRequest
<1>3. Edits(UserObject(a)) /\ known' \in SUBSET Uid
    BY <1>2, OperationEdits DEF P2PInv, OthersTyped
<1>4. SharedInv'
    BY <1>1, <1>3, HandledShared DEF P2PInv
<1> QED BY <1>1, <1>3, <1>4 DEF P2PInv, OthersTyped

\* Adapters go with their timer, their connection, or the server.
LEMMA P2PEnds ==
    ASSUME P2PInv,
           \/ \E p \in Peer : P2P!ConnectionClosed(p)
           \/ \E a \in Adapter : P2P!AdapterDue(a)
           \/ P2P!ServerEnds
    PROVE  P2PInv'
<1>1. PICK S \in SUBSET LiveAdapters :
         /\ DisposeAdapters(S)
         /\ \A a \in LiveAdapters \ S : adapter[a].peer \in caller_watchers'
         /\ caller_watchers' \in SUBSET Peer
         /\ bus' \in [Peer -> {"connected", "vanished", "lost"}]
    <2>1. ASSUME NEW p \in Peer, P2P!ConnectionClosed(p)
          PROVE  /\ Of(p) \in SUBSET LiveAdapters
                 /\ DisposeAdapters(Of(p))
                 /\ \A a \in LiveAdapters \ Of(p) : adapter[a].peer \in caller_watchers'
                 /\ caller_watchers' \in SUBSET Peer
                 /\ bus' \in [Peer -> {"connected", "vanished", "lost"}]
        BY <2>1, SameP2PAdapters DEF P2P!ConnectionClosed, P2PInv, OthersTyped,
           SharedInv, AdaptersAreListed, Of
    <2>2. ASSUME NEW a \in Adapter, P2P!AdapterDue(a)
          PROVE  /\ {a} \in SUBSET LiveAdapters
                 /\ DisposeAdapters({a})
                 /\ UNCHANGED <<bus, caller_watchers>>
        BY <2>2, SameP2PAdapters DEF P2P!AdapterDue
    <2>3. ASSUME P2P!ServerEnds
          PROVE  /\ DisposeAdapters(LiveAdapters)
                 /\ caller_watchers' \in SUBSET Peer
                 /\ bus' \in [Peer -> {"connected", "vanished", "lost"}]
        BY <2>3, SameP2PAdapters DEF P2P!ServerEnds
    <2>4. CASE \E p \in Peer : P2P!ConnectionClosed(p)
        BY <2>1, <2>4
    <2>5. CASE \E a \in Adapter : P2P!AdapterDue(a)
        BY <2>2, <2>5 DEF P2PInv, OthersTyped, SharedInv, AdaptersAreListed
    <2>6. CASE P2P!ServerEnds
        BY <2>3, <2>6
    <2> QED BY <2>4, <2>5, <2>6
<1>2. SharedInv'
    BY <1>1, DisposedShared DEF P2PInv
<1>3. known' = known
    BY <1>1 DEF DisposeAdapters, DropReferences
<1> QED BY <1>1, <1>2, <1>3 DEF P2PInv, OthersTyped

LEMMA P2PStep ==
    ASSUME P2PInv, [P2P!P2PNext]_(P2P!p2pVars)
    PROVE  P2PInv'
<1>1. CASE \/ \E p \in Peer : P2P!ClientRequest(p) \/ P2P!PeerVanishes(p)
           \/ UNCHANGED P2P!p2pVars
    <2>1. /\ UNCHANGED <<database, object, users, known, adapter, peer_users>>
          /\ caller_watchers \subseteq caller_watchers'
          /\ caller_watchers' \in SUBSET Peer
          /\ bus' \in [Peer -> {"connected", "vanished", "lost"}]
        BY <1>1 DEF P2P!ClientRequest, P2P!PeerVanishes, P2P!Same!PeerVanishes,
           P2P!Same!daemonVars, P2P!Same!serviceVars, P2P!p2pVars, P2PInv, OthersTyped
    <2>2. SharedInv'
        BY <2>1, UntouchedShared DEF P2PInv
    <2> QED BY <2>1, <2>2 DEF P2PInv, OthersTyped
<1>2. CASE \E p \in Peer : P2P!CreateNewUser(p)
    BY <1>2, P2PCreate, SameP2PDaemon DEF P2P!CreateNewUser
<1>3. CASE \E p \in Peer, u \in Uid : P2P!GetUser(p, u)
    <2>1. PICK p \in Peer, u \in Uid : P2P!GetUser(p, u)
        BY <1>3
    <2>2. P2P!AsksService(p)
        BY <2>1 DEF P2P!GetUser
    <2>3. CASE users[u] # None /\ GetCached(u) /\ P2P!CreateAdapter(p, users[u])
        <3>1. users[u] \in Object
            BY <2>3 DEF P2PInv, SharedInv, UsersTyped
        <3> QED BY <2>2, <2>3, <3>1, P2PCreate
    <2>4. CASE \E o \in Object : GetLoaded(u, o) /\ P2P!CreateAdapter(p, o)
        BY <2>2, <2>4, P2PCreate
    <2> QED BY <2>1, <2>3, <2>4, SameP2PDaemon DEF P2P!GetUser
<1>4. CASE \E p \in Peer, a \in Adapter : P2P!AdapterRequest(p, a)
    BY <1>4, P2PRequest
<1> QED BY <1>1, <1>2, <1>3, <1>4, P2PEnds DEF P2P!P2PNext

\* The inductive invariant of the peer-to-peer server.
THEOREM P2PInvariant == P2P!P2PSpec => []P2PInv
<1>1. P2P!P2PInit => P2PInv
    <2> SUFFICES ASSUME P2P!P2PInit
                 PROVE  P2PInv
        OBVIOUS
    <2>1. DaemonInit
        BY SameP2PDaemon DEF P2P!P2PInit
    <2>2. SharedInv
        BY <2>1, SharedInit DEF P2P!P2PInit
    <2>3. OthersTyped
        BY <2>1 DEF P2P!P2PInit, DaemonInit, OthersTyped
    <2> QED BY <2>2, <2>3 DEF P2PInv
<1>2. P2PInv /\ [P2P!P2PNext]_(P2P!p2pVars) => P2PInv'
    BY P2PStep
<1> QED BY <1>1, <1>2, PTL DEF P2P!P2PSpec

\* The peer-to-peer server shares the objects of the daemon between connections
\* as the message bus does: references, cache and lists are right, no adapter
\* outlives its connection, and no timer fires for one in use.
THEOREM P2PKeepsBooks ==
    P2P!P2PSpec => [](/\ DaemonTypeOK /\ AdaptersAreListed
                      /\ \A a \in LiveAdapters : TimersRight(adapter[a].disp)
                      /\ ReferencesExact /\ CacheIsLive)
<1>1. ASSUME P2PInv
      PROVE  /\ DaemonTypeOK /\ AdaptersAreListed
             /\ \A a \in LiveAdapters : TimersRight(adapter[a].disp)
             /\ ReferencesExact /\ CacheIsLive
    BY <1>1 DEF P2PInv, SharedInv, AdaptersInOrder, Orderly, UsersTyped, ObjectsTyped,
       OthersTyped, DaemonTypeOK
<1> QED BY <1>1, P2PInvariant, PTL
=============================================================================
