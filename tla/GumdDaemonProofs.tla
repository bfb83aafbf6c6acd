--------------------------- MODULE GumdDaemonProofs ---------------------------
(***************************************************************************)
(* The daemon shares objects without owning them.  For any number of       *)
(* clients, adapters, users and objects, the lemmas say what the steps of  *)
(* a service have in common: an adapter is made, it handles a request, or  *)
(* some are disposed.  Each of them keeps the reference counts exact, the  *)
(* cache free of freed objects, the list of adapters complete, and their   *)
(* timers right, in whichever service it happens.                          *)
(*                                                                         *)
(* An object has as many references as owners, the adapters that use it;   *)
(* the proofs follow the set of owners of each object through every step.  *)
(***************************************************************************)
EXTENDS GumdDbusUserService, GumDisposableProofs, FiniteSetTheorems

UsersTyped == users \in [Uid -> Object \cup {None}]

ObjectsTyped ==
    /\ database \in [Uid -> Name \cup {None}]
    /\ object \in [Object -> UserObjectFields \cup {None}]

AdaptersTyped == adapter \in [Adapter -> UserAdapter \cup {None}]

AdaptersInOrder == \A a \in LiveAdapters : Orderly(adapter[a].disp)

\* References are counted by ReferencesExact; the count needs objects of the
\* right shape, a safe disposal needs a cache of live objects, and a reference
\* that is taken on a cached object must be on a live one.
SharedInv ==
    /\ UsersTyped /\ ObjectsTyped
    /\ AdaptersTyped /\ AdaptersInOrder /\ AdaptersAreListed
    /\ ReferencesExact
    /\ CacheIsLive

\* The adapters that use an object.
Owners(o) == {a \in LiveAdapters : UserObject(a) = o}

\* A new adapter comes into the list: in every _create_and_cache_..._adapter.
MakesAdapter(p, o) ==
    \E a \in Adapter \ LiveAdapters :
       /\ adapter' = [adapter EXCEPT ![a] =
                         [peer |-> p, user |-> o, disp |-> NewDisposable(UserTimeout)]]
       /\ peer_users' = peer_users \cup {a}

\* What the requests to an adapter do to its object o, the files and the cache.
Edits(o) ==
    \/ \E u \in Uid :
          /\ object[o].name # None
          /\ object' = [object EXCEPT ![o].uid = u]
          /\ database' \in {database, [database EXCEPT ![u] = object[o].name]}
          /\ users' \in {users, [users EXCEPT ![u] = o]}
    \/ /\ \E n \in Name : object' = [object EXCEPT ![o].name = n]
       /\ UNCHANGED <<database, users>>
    \/ /\ database' \in {database, [database EXCEPT ![object[o].uid] = None]}
       /\ UNCHANGED <<object, users>>

-----------------------------------------------------------------------------
LEMMA AdapterFields ==
    ASSUME AdaptersTyped, NEW a \in LiveAdapters
    PROVE  /\ a \in Adapter
           /\ adapter[a] \in UserAdapter
           /\ adapter[a].peer \in Peer
           /\ adapter[a].user \in Object
           /\ adapter[a].disp \in Disposable
BY DEF AdaptersTyped, LiveAdapters, UserAdapter

\* There are finitely many places for adapters, so owners can be counted.
LEMMA OwnersFinite ==
    ASSUME NEW o
    PROVE  IsFiniteSet(Owners(o)) /\ Cardinality(Owners(o)) \in Nat
<1>1. IsFiniteSet(Adapter) /\ Owners(o) \in SUBSET Adapter
    BY ServiceAssumption DEF Owners, LiveAdapters
<1> QED BY <1>1, FS_Subset, FS_CardinalityType

\* What ReferencesExact says, in terms of owners.
LEMMA ExactOwners ==
    ReferencesExact <=>
        /\ \A a \in LiveAdapters : object[UserObject(a)] # None
        /\ \A o \in LiveObjects : object[o].ref_count = Cardinality(Owners(o))
BY DEF ReferencesExact, Owners

\* An object that does not exist has no owners.
LEMMA FreeHasNoOwners ==
    ASSUME ReferencesExact, NEW o \in Object, object[o] = None
    PROVE  Owners(o) = {}
BY ExactOwners DEF Owners

\* The cache stays live when no object is freed and what is put into it lives.
LEMMA CacheStaysLive ==
    ASSUME CacheIsLive, LiveObjects \subseteq LiveObjects',
           \A u \in Uid : users'[u] = users[u] \/ users'[u] \in LiveObjects'
    PROVE  CacheIsLive'
BY DEF CacheIsLive

\* The new adapter belongs to its peer and has its object; the others stay.
LEMMA MadeAdapter ==
    ASSUME AdaptersTyped, NEW p \in Peer, NEW o \in Object, MakesAdapter(p, o)
    PROVE  /\ AdaptersTyped'
           /\ \E a \in Adapter \ LiveAdapters :
                 /\ LiveAdapters' = LiveAdapters \cup {a}
                 /\ peer_users' = peer_users \cup {a}
                 /\ adapter'[a].peer = p /\ adapter'[a].user = o
                 /\ Orderly(adapter'[a].disp)
                 /\ \A b \in LiveAdapters : adapter'[b] = adapter[b]
<1> DEFINE d == NewDisposable(UserTimeout)
           new == [peer |-> p, user |-> o, disp |-> d]
<1>1. Orderly(d) /\ d \in Disposable
    BY ServiceAssumption, NewIsOrderly DEF Orderly
<1> HIDE DEF d
<1>2. new \in UserAdapter /\ new.peer = p /\ new.user = o /\ new.disp = d
    BY <1>1 DEF UserAdapter
<1>3. new # None
    BY <1>2, ServiceAssumption
<1> HIDE DEF new
<1>4. PICK a \in Adapter \ LiveAdapters :
          adapter' = [adapter EXCEPT ![a] = new] /\ peer_users' = peer_users \cup {a}
    BY DEF MakesAdapter, new, d
<1>5. AdaptersTyped'
    BY <1>2, <1>4 DEF AdaptersTyped
<1>6. LiveAdapters' = LiveAdapters \cup {a}
    BY <1>3, <1>4 DEF AdaptersTyped, LiveAdapters
<1>7. adapter'[a] = new /\ \A b \in LiveAdapters : adapter'[b] = adapter[b]
    BY <1>4 DEF AdaptersTyped, LiveAdapters
<1> QED BY <1>1, <1>2, <1>4, <1>5, <1>6, <1>7

\* A new adapter becomes an owner of its object, and of no other.
LEMMA CreateOwners ==
    ASSUME AdaptersTyped, NEW p \in Peer, NEW o \in Object, MakesAdapter(p, o)
    PROVE  \E a \in Adapter \ LiveAdapters :
              /\ LiveAdapters' = LiveAdapters \cup {a}
              /\ UserObject(a)' = o
              /\ \A b \in LiveAdapters : UserObject(b)' = UserObject(b)
BY MadeAdapter DEF UserObject

\* An adapter is made for an object that gets one reference more, the first if
\* the object is new.
LEMMA CreatedExact ==
    ASSUME SharedInv, NEW p \in Peer, NEW o \in Object, MakesAdapter(p, o),
           NEW new \in UserObjectFields, object' = [object EXCEPT ![o] = new],
           new.ref_count = Cardinality(Owners(o)) + 1
    PROVE  /\ object' \in [Object -> UserObjectFields \cup {None}]
           /\ ReferencesExact'
           /\ LiveObjects' = LiveObjects \cup {o}
<1>1. new # None
    BY DaemonAssumption
<1>2. object' \in [Object -> UserObjectFields \cup {None}]
    BY DEF SharedInv, ObjectsTyped
<1>3. object'[o] = new /\ \A x \in Object : x # o => object'[x] = object[x]
    BY DEF SharedInv, ObjectsTyped
<1>4. LiveObjects' = LiveObjects \cup {o}
    BY <1>1, <1>3 DEF LiveObjects
<1>5. PICK a \in Adapter \ LiveAdapters :
              /\ LiveAdapters' = LiveAdapters \cup {a}
              /\ UserObject(a)' = o
              /\ \A b \in LiveAdapters : UserObject(b)' = UserObject(b)
    BY CreateOwners DEF SharedInv
<1>6. Owners(o)' = Owners(o) \cup {a}
    BY <1>5 DEF Owners
<1>7. \A x \in Object : x # o => Owners(x)' = Owners(x)
    BY <1>5 DEF Owners
<1>8. Cardinality(Owners(o)') = Cardinality(Owners(o)) + 1
    <2>1. a \notin Owners(o)
        BY DEF Owners
    <2>2. IsFiniteSet(Owners(o))
        BY OwnersFinite
    <2> QED BY <1>6, <2>1, <2>2, FS_AddElement
<1>9. \A x \in LiveObjects' : object'[x].ref_count = Cardinality(Owners(x)')
    BY <1>3, <1>4, <1>7, <1>8, ExactOwners DEF SharedInv, LiveObjects
<1>10. \A b \in LiveAdapters' : object'[UserObject(b)'] # None
    <2>1. \A b \in LiveAdapters : UserObject(b) \in Object
        BY AdapterFields DEF SharedInv, UserObject
    <2>2. \A b \in LiveAdapters : object[UserObject(b)] # None
        BY DEF SharedInv, ReferencesExact
    <2> QED BY <1>1, <1>3, <1>5, <2>1, <2>2
<1>11. ReferencesExact'
    BY <1>9, <1>10 DEF ReferencesExact, Owners
<1> QED BY <1>2, <1>4, <1>11

\* A request that changes the uid or the name of an object, or nothing of it,
\* and leaves the adapters at their objects.
LEMMA EditedExact ==
    ASSUME SharedInv, NEW o \in LiveObjects, NEW new \in UserObjectFields,
           object' = [object EXCEPT ![o] = new],
           new.ref_count = object[o].ref_count,
           LiveAdapters' = LiveAdapters,
           \A b \in LiveAdapters : UserObject(b)' = UserObject(b)
    PROVE  /\ object' \in [Object -> UserObjectFields \cup {None}]
           /\ ReferencesExact'
           /\ LiveObjects' = LiveObjects
<1>1. new # None /\ o \in Object
    BY DaemonAssumption DEF LiveObjects
<1>2. object' \in [Object -> UserObjectFields \cup {None}]
    BY <1>1 DEF SharedInv, ObjectsTyped
<1>3. object'[o] = new /\ \A x \in Object : x # o => object'[x] = object[x]
    BY <1>1 DEF SharedInv, ObjectsTyped
<1>4. LiveObjects' = LiveObjects
    BY <1>1, <1>3 DEF LiveObjects
<1>5. \A x \in Object : Owners(x)' = Owners(x)
    BY DEF Owners
<1>6. \A x \in LiveObjects' : object'[x].ref_count = Cardinality(Owners(x)')
    BY <1>3, <1>4, <1>5, ExactOwners DEF SharedInv, LiveObjects
<1>7. \A b \in LiveAdapters' : object'[UserObject(b)'] # None
    <2>1. \A b \in LiveAdapters : UserObject(b) \in Object
        BY AdapterFields DEF SharedInv, UserObject
    <2>2. \A b \in LiveAdapters : object[UserObject(b)] # None
        BY DEF SharedInv, ReferencesExact
    <2> QED BY <1>1, <1>3, <2>1, <2>2
<1>8. ReferencesExact'
    BY <1>6, <1>7 DEF ReferencesExact, Owners
<1> QED BY <1>2, <1>4, <1>8

\* The owners of an object that keep it when the adapters of S are disposed,
\* and the references that are given back.
LEMMA DroppedOwners ==
    ASSUME NEW S \in SUBSET LiveAdapters, NEW o
    PROVE  LET D == {a \in S : UserObject(a) = o} IN
           /\ Cardinality(D) \in Nat
           /\ Cardinality(D) <= Cardinality(Owners(o))
           /\ Cardinality(Owners(o)) = Cardinality(D) => Owners(o) = D
           /\ Cardinality(Owners(o) \ D) = Cardinality(Owners(o)) - Cardinality(D)
<1> DEFINE D == {a \in S : UserObject(a) = o}
           K == Owners(o) \ D
<1>1. D \in SUBSET Owners(o) /\ K \in SUBSET Owners(o)
    BY DEF Owners
<1>2. Owners(o) = K \cup D /\ K \cap D = {}
    BY <1>1
<1>3. IsFiniteSet(Owners(o)) /\ Cardinality(Owners(o)) \in Nat
    BY OwnersFinite
<1> HIDE DEF D, K
<1>4. /\ IsFiniteSet(D)
      /\ Cardinality(D) <= Cardinality(Owners(o))
      /\ Cardinality(Owners(o)) = Cardinality(D) => Owners(o) = D
    BY <1>1, <1>3, FS_Subset
<1>5. IsFiniteSet(K)
    BY <1>1, <1>3, FS_Subset
<1>6. Cardinality(D) \in Nat /\ Cardinality(K) \in Nat
    BY <1>4, <1>5, FS_CardinalityType
<1>7. Cardinality(Owners(o)) = Cardinality(K) + Cardinality(D) - Cardinality(K \cap D)
    BY <1>2, <1>4, <1>5, FS_Union
<1>8. Cardinality(K \cap D) = 0
    BY <1>2, FS_EmptySet
<1>9. Cardinality(K) = Cardinality(Owners(o)) - Cardinality(D)
    BY <1>3, <1>6, <1>7, <1>8
<1> QED BY <1>4, <1>6, <1>9 DEF D, K

\* Adapters are disposed, and the objects all of whose owners were among them:
\* the last reference to an object goes with its last owner, and with it its
\* entries in the cache.
LEMMA DisposedExact ==
    ASSUME SharedInv, NEW S \in SUBSET LiveAdapters, DisposeAdapters(S)
    PROVE  ObjectsTyped' /\ ReferencesExact' /\ CacheIsLive'
<1> DEFINE drops == [o \in Object |-> Cardinality({a \in S : UserObject(a) = o})]
           Dead == {o \in LiveObjects : object[o].ref_count = drops[o]}
           left(o) == [object[o] EXCEPT !.ref_count = @ - drops[o]]
<1>1. \A o \in Object :
         /\ drops[o] \in Nat
         /\ drops[o] <= Cardinality(Owners(o))
         /\ Cardinality(Owners(o)) = drops[o] => Owners(o) = {a \in S : UserObject(a) = o}
         /\ Cardinality(Owners(o) \ {a \in S : UserObject(a) = o})
               = Cardinality(Owners(o)) - drops[o]
    BY DroppedOwners
<1>2. DropReferences(drops)
    BY DEF DisposeAdapters
<1> HIDE DEF drops
<1>3. /\ object' = [o \in Object |-> IF object[o] = None \/ o \in Dead THEN None
                                     ELSE left(o)]
      /\ users' = [u \in Uid |-> IF users[u] \in Dead THEN None ELSE users[u]]
      /\ database' = database
    BY <1>2 DEF DropReferences
<1>4. adapter' = [a \in Adapter |-> IF a \in S THEN None ELSE adapter[a]]
    BY DEF DisposeAdapters
<1>5. LiveAdapters' = LiveAdapters \ S
    BY <1>4 DEF LiveAdapters
<1>6. \A a \in LiveAdapters' : UserObject(a)' = UserObject(a)
    BY <1>4, <1>5 DEF LiveAdapters, UserObject
<1>7. \A o \in LiveObjects :
         /\ o \in Object
         /\ object[o] \in UserObjectFields
         /\ object[o].ref_count = Cardinality(Owners(o))
    BY ExactOwners DEF SharedInv, ObjectsTyped, LiveObjects
<1>8. ASSUME NEW o \in LiveObjects, o \notin Dead
      PROVE  /\ left(o) \in UserObjectFields
             /\ left(o) # None
             /\ left(o).ref_count = object[o].ref_count - drops[o]
    <2>1. /\ object[o] \in UserObjectFields
          /\ object[o].ref_count \in Nat
          /\ drops[o] \in Nat
          /\ drops[o] < object[o].ref_count
        <3>1. object[o] \in UserObjectFields /\ object[o].ref_count # drops[o]
            BY <1>7, <1>8
        <3>2. object[o].ref_count \in Nat
            BY <3>1 DEF UserObjectFields
        <3>3. drops[o] \in Nat /\ drops[o] <= object[o].ref_count
            BY <1>1, <1>7
        <3> QED BY <3>1, <3>2, <3>3
    <2>2. PICK r : r = object[o].ref_count - drops[o]
        OBVIOUS
    <2>3. r \in Nat \ {0}
        BY <2>1, <2>2
    <2>4. left(o) = [object[o] EXCEPT !.ref_count = r]
        BY <2>1, <2>2 DEF UserObjectFields
    <2>5. /\ left(o) \in UserObjectFields
          /\ left(o).ref_count = r
        BY <2>1, <2>3, <2>4 DEF UserObjectFields
    <2> QED BY <2>2, <2>5, DaemonAssumption
<1> HIDE DEF left
<1>9. LiveObjects' = LiveObjects \ Dead
    BY <1>3, <1>8 DEF LiveObjects
<1>10. \A o \in LiveObjects' : object'[o] = left(o) /\ o \in Object
    BY <1>3, <1>9 DEF LiveObjects
<1>11. ObjectsTyped'
    <2>1. \A o \in Object : object'[o] \in UserObjectFields \cup {None}
        BY <1>3, <1>8 DEF LiveObjects
    <2> QED BY <1>3, <2>1 DEF SharedInv, ObjectsTyped
<1>12. \A o \in Object : Owners(o)' = Owners(o) \ {a \in S : UserObject(a) = o}
    BY <1>5, <1>6 DEF Owners
<1>13. \A o \in LiveObjects' : object'[o].ref_count = Cardinality(Owners(o)')
    BY <1>1, <1>7, <1>8, <1>9, <1>10, <1>12
<1>14. \A b \in LiveAdapters' : object'[UserObject(b)'] # None
    <2> SUFFICES ASSUME NEW b \in LiveAdapters'
                 PROVE  object'[UserObject(b)] # None
        BY <1>6
    <2>1. b \in LiveAdapters /\ b \notin S
        BY <1>5
    <2> DEFINE o == UserObject(b)
    <2>2. o \in LiveObjects
        BY <2>1, AdapterFields
        DEF SharedInv, UserObject, ReferencesExact, LiveObjects
    <2>3. b \in Owners(o)
        BY <2>1 DEF Owners
    <2>4. o \notin Dead
        BY <1>1, <1>7, <2>1, <2>2, <2>3
    <2> HIDE DEF o
    <2>5. o \in LiveObjects'
        BY <1>9, <2>2, <2>4
    <2> QED BY <2>5 DEF LiveObjects, o
<1>15. ReferencesExact'
    BY <1>13, <1>14 DEF ReferencesExact, Owners
<1>16. CacheIsLive'
    <2> SUFFICES ASSUME NEW u \in Uid, users'[u] # None
                 PROVE  users'[u] \in LiveObjects'
        BY DEF CacheIsLive
    <2>1. users'[u] = users[u] /\ users[u] \notin Dead
        BY <1>3
    <2> QED BY <1>9, <2>1 DEF SharedInv, CacheIsLive
<1> QED BY <1>11, <1>15, <1>16

\* A request that makes an adapter for a new object, which is cached if it was
\* loaded, or for a cached one.
LEMMA GetExact ==
    ASSUME SharedInv, NEW p \in Peer, NEW o \in Object, NEW u,
           \/ NewObject(o)
           \/ u \in Uid /\ GetLoaded(u, o)
           \/ u \in Uid /\ users[u] = o /\ GetCached(u),
           MakesAdapter(p, o)
    PROVE  ObjectsTyped' /\ ReferencesExact' /\ CacheIsLive'
<1> USE DaemonAssumption
<1>1. database \in [Uid -> Name \cup {None}] /\ users \in [Uid -> Object \cup {None}]
    BY DEF SharedInv, ObjectsTyped, UsersTyped
<1>2. PICK new \in UserObjectFields :
         /\ object' = [object EXCEPT ![o] = new]
         /\ new.ref_count = Cardinality(Owners(o)) + 1
    <2>1. CASE NewObject(o) \/ (u \in Uid /\ GetLoaded(u, o))
        <3>1. Cardinality(Owners(o)) = 0
            BY <2>1, FreeHasNoOwners, FS_EmptySet DEF SharedInv, NewObject, GetLoaded
        <3>2. PICK new \in UserObjectFields :
                  new.ref_count = 1 /\ object' = [object EXCEPT ![o] = new]
            <4>1. CASE NewObject(o)
                <5>1. PICK new : new = [uid |-> None, name |-> None, ref_count |-> 1]
                    OBVIOUS
                <5>2. new \in UserObjectFields /\ new.ref_count = 1
                    BY <5>1 DEF UserObjectFields
                <5> QED BY <4>1, <5>1, <5>2 DEF NewObject
            <4>2. CASE u \in Uid /\ GetLoaded(u, o)
                <5>1. PICK new : new = UserOf(u)
                    OBVIOUS
                <5>2. database[u] \in Name
                    BY <1>1, <4>2 DEF GetLoaded
                <5>3. new \in UserObjectFields /\ new.ref_count = 1
                    BY <4>2, <5>1, <5>2 DEF UserOf, UserObjectFields
                <5> QED BY <4>2, <5>1, <5>3 DEF GetLoaded
            <4> QED BY <2>1, <4>1, <4>2
        <3>3. new.ref_count = Cardinality(Owners(o)) + 1
            BY <3>1, <3>2
        <3> QED BY <3>2, <3>3
    <2>2. CASE u \in Uid /\ users[u] = o /\ GetCached(u)
        <3>1. o \in LiveObjects
            BY <2>2 DEF SharedInv, CacheIsLive
        <3>2. /\ object[o] \in UserObjectFields
              /\ object[o].ref_count = Cardinality(Owners(o))
            BY <3>1, ExactOwners DEF SharedInv, ObjectsTyped, LiveObjects
        <3>3. PICK r : r = object[o].ref_count + 1
            OBVIOUS
        <3>4. r \in Nat \ {0}
            BY <3>2, <3>3 DEF UserObjectFields
        <3>5. PICK new : new = [object[o] EXCEPT !.ref_count = r]
            OBVIOUS
        <3>6. new \in UserObjectFields /\ new.ref_count = r
            BY <3>2, <3>4, <3>5 DEF UserObjectFields
        <3>7. object' = [object EXCEPT ![o] = new]
            BY <2>2, <3>3, <3>5 DEF GetCached
        <3> QED BY <3>2, <3>3, <3>6, <3>7
    <2> QED BY <2>1, <2>2
<1>3. /\ object' \in [Object -> UserObjectFields \cup {None}]
      /\ ReferencesExact'
      /\ LiveObjects' = LiveObjects \cup {o}
    BY <1>2, CreatedExact
<1>4. ObjectsTyped'
    BY <1>1, <1>3 DEF ObjectsTyped, NewObject, GetLoaded, GetCached
<1>5. \A v \in Uid : users'[v] = users[v] \/ users'[v] = o
    BY <1>1 DEF NewObject, GetLoaded, GetCached
<1>6. CacheIsLive'
    BY <1>3, <1>5, CacheStaysLive DEF SharedInv
<1> QED BY <1>3, <1>4, <1>6

\* A request that makes an adapter.
LEMMA MadeShared ==
    ASSUME SharedInv, NEW p \in Peer, NEW o \in Object, NEW u,
           \/ NewObject(o)
           \/ u \in Uid /\ GetLoaded(u, o)
           \/ u \in Uid /\ users[u] = o /\ GetCached(u),
           MakesAdapter(p, o),
           caller_watchers' = caller_watchers \cup {p}
    PROVE  SharedInv'
<1>1. ObjectsTyped' /\ ReferencesExact' /\ CacheIsLive'
    BY GetExact
<1>2. UsersTyped'
    BY DEF SharedInv, UsersTyped, NewObject, GetLoaded, GetCached
<1>3. /\ AdaptersTyped'
      /\ \E a \in Adapter \ LiveAdapters :
            /\ LiveAdapters' = LiveAdapters \cup {a}
            /\ peer_users' = peer_users \cup {a}
            /\ adapter'[a].peer = p /\ adapter'[a].user = o
            /\ Orderly(adapter'[a].disp)
            /\ \A b \in LiveAdapters : adapter'[b] = adapter[b]
    BY MadeAdapter DEF SharedInv
<1>4. AdaptersInOrder' /\ AdaptersAreListed'
    BY <1>3 DEF SharedInv, AdaptersInOrder, AdaptersAreListed
<1> QED BY <1>1, <1>2, <1>3, <1>4 DEF SharedInv

\* Adapters that are disposed leave the list, the rest stays as it was.
LEMMA DisposedShared ==
    ASSUME SharedInv, NEW S \in SUBSET LiveAdapters, DisposeAdapters(S),
           \A a \in LiveAdapters \ S : adapter[a].peer \in caller_watchers'
    PROVE  /\ SharedInv'
           /\ LiveAdapters' = LiveAdapters \ S
           /\ peer_users' = peer_users \ S
<1>1. /\ adapter' = [a \in Adapter |-> IF a \in S THEN None ELSE adapter[a]]
      /\ peer_users' = peer_users \ S
    BY DEF DisposeAdapters
<1>2. AdaptersTyped'
    BY <1>1 DEF SharedInv, AdaptersTyped
<1>3. LiveAdapters' = LiveAdapters \ S
    BY <1>1 DEF LiveAdapters
<1>4. \A b \in LiveAdapters' : adapter'[b] = adapter[b]
    BY <1>1, <1>3 DEF LiveAdapters
<1>5. AdaptersInOrder' /\ AdaptersAreListed'
    BY <1>1, <1>3, <1>4 DEF SharedInv, AdaptersInOrder, AdaptersAreListed
<1>6. UsersTyped'
    BY DEF DisposeAdapters, DropReferences, SharedInv, UsersTyped
<1>7. ObjectsTyped' /\ ReferencesExact' /\ CacheIsLive'
    BY DisposedExact
<1> QED BY <1>1, <1>2, <1>3, <1>5, <1>6, <1>7 DEF SharedInv

\* All of them are disposed.
LEMMA AllDisposedShared ==
    ASSUME SharedInv, DisposeAdapters(LiveAdapters)
    PROVE  SharedInv' /\ LiveAdapters' = {} /\ peer_users' = {}
<1>1. LiveAdapters \in SUBSET LiveAdapters /\ LiveAdapters \ LiveAdapters = {}
    OBVIOUS
<1>2. SharedInv' /\ LiveAdapters' = {} /\ peer_users' = peer_users \ LiveAdapters
    BY <1>1, DisposedShared
<1> QED BY <1>2 DEF SharedInv, AdaptersAreListed

\* A request that uses the disposable of an adapter, or leaves it alone.
LEMMA UsedAdapter ==
    ASSUME AdaptersTyped, AdaptersInOrder, AdaptersAreListed, NEW a \in LiveAdapters,
           \/ adapter' = adapter
           \/ SetDisp(a, Served(adapter[a].disp))
           \/ SetDisp(a, DeleteLater(Served(adapter[a].disp))),
           UNCHANGED <<peer_users, caller_watchers>>
    PROVE  /\ AdaptersTyped' /\ AdaptersInOrder' /\ AdaptersAreListed'
           /\ LiveAdapters' = LiveAdapters
           /\ \A b \in LiveAdapters : UserObject(b)' = UserObject(b)
<1>1. CASE adapter' = adapter
    BY <1>1 DEF AdaptersTyped, AdaptersInOrder, AdaptersAreListed, LiveAdapters, UserObject
<1>2. CASE \E d : Orderly(d) /\ SetDisp(a, d)
    <2>1. PICK d : Orderly(d) /\ SetDisp(a, d)
        BY <1>2
    <2>2. /\ a \in Adapter /\ adapter[a] \in UserAdapter
          /\ d \in Disposable
        BY <2>1, AdapterFields DEF Orderly
    <2>3. PICK new : new = [adapter[a] EXCEPT !.disp = d]
        OBVIOUS
    <2>4. /\ new \in UserAdapter /\ new.disp = d
          /\ new.peer = adapter[a].peer /\ new.user = adapter[a].user
        BY <2>2, <2>3 DEF UserAdapter
    <2>5. new # None
        BY <2>4, ServiceAssumption
    <2>6. adapter' = [adapter EXCEPT ![a] = new]
        BY <2>1, <2>3 DEF SetDisp
    <2>7. AdaptersTyped'
        BY <2>2, <2>4, <2>6 DEF AdaptersTyped
    <2>8. LiveAdapters' = LiveAdapters
        BY <2>2, <2>5, <2>6 DEF AdaptersTyped, LiveAdapters
    <2>9. adapter'[a] = new /\ \A b \in LiveAdapters : b # a => adapter'[b] = adapter[b]
        BY <2>2, <2>6 DEF AdaptersTyped, LiveAdapters
    <2>10. AdaptersInOrder' /\ AdaptersAreListed'
        BY <2>1, <2>4, <2>8, <2>9 DEF AdaptersInOrder, AdaptersAreListed
    <2> QED BY <2>4, <2>7, <2>8, <2>9, <2>10 DEF UserObject
<1>3. Orderly(adapter[a].disp)
    BY DEF AdaptersInOrder
<1>4. Orderly(Served(adapter[a].disp)) /\ Orderly(DeleteLater(Served(adapter[a].disp)))
    BY <1>3, ServedIsOrderly, DeleteLaterIsOrderly
<1> QED BY <1>1, <1>2, <1>4

\* What an operation does to the object of an adapter: it keeps its references,
\* and only an object that lives comes into the cache.
LEMMA EditsExact ==
    ASSUME SharedInv, NEW o \in LiveObjects, Edits(o), LiveAdapters' = LiveAdapters,
           \A b \in LiveAdapters : UserObject(b)' = UserObject(b)
    PROVE  UsersTyped' /\ ObjectsTyped' /\ ReferencesExact' /\ CacheIsLive'
<1>1. /\ database \in [Uid -> Name \cup {None}]
      /\ users \in [Uid -> Object \cup {None}]
      /\ object[o] \in UserObjectFields /\ o \in Object
    BY DEF SharedInv, ObjectsTyped, UsersTyped, LiveObjects
<1>2. PICK new \in UserObjectFields :
         /\ object' = [object EXCEPT ![o] = new]
         /\ new.ref_count = object[o].ref_count
    <2>1. ASSUME NEW u \in Uid, object' = [object EXCEPT ![o].uid = u]
          PROVE  \E new \in UserObjectFields :
                    /\ object' = [object EXCEPT ![o] = new]
                    /\ new.ref_count = object[o].ref_count
        <3>1. PICK new : new = [object[o] EXCEPT !.uid = u]
            OBVIOUS
        <3>2. new \in UserObjectFields /\ new.ref_count = object[o].ref_count
            BY <1>1, <3>1 DEF UserObjectFields
        <3> QED BY <2>1, <3>1, <3>2
    <2>2. ASSUME NEW n \in Name, object' = [object EXCEPT ![o].name = n]
          PROVE  \E new \in UserObjectFields :
                    /\ object' = [object EXCEPT ![o] = new]
                    /\ new.ref_count = object[o].ref_count
        <3>1. PICK new : new = [object[o] EXCEPT !.name = n]
            OBVIOUS
        <3>2. new \in UserObjectFields /\ new.ref_count = object[o].ref_count
            BY <1>1, <2>2, <3>1 DEF UserObjectFields
        <3> QED BY <2>2, <3>1, <3>2
    <2>3. CASE object' = object
        <3>1. object' = [object EXCEPT ![o] = object[o]]
            BY <2>3 DEF SharedInv, ObjectsTyped
        <3> QED BY <1>1, <3>1
    <2> QED BY <2>1, <2>2, <2>3 DEF Edits
<1>3. /\ object' \in [Object -> UserObjectFields \cup {None}]
      /\ ReferencesExact'
      /\ LiveObjects' = LiveObjects
    BY <1>2, EditedExact
<1>4. ObjectsTyped'
    <2>1. object[o].name \in Name \cup {None}
        BY <1>1 DEF UserObjectFields
    <2> QED BY <1>1, <1>3, <2>1 DEF ObjectsTyped, Edits
<1>5. UsersTyped' /\ \A v \in Uid : users'[v] = users[v] \/ users'[v] = o
    BY <1>1 DEF UsersTyped, Edits
<1>6. CacheIsLive'
    BY <1>3, <1>5, CacheStaysLive DEF SharedInv
<1> QED BY <1>3, <1>4, <1>5, <1>6

\* A request to an adapter.
LEMMA HandledShared ==
    ASSUME SharedInv, NEW a \in LiveAdapters, Edits(UserObject(a)),
           \/ adapter' = adapter
           \/ SetDisp(a, Served(adapter[a].disp))
           \/ SetDisp(a, DeleteLater(Served(adapter[a].disp))),
           UNCHANGED <<peer_users, caller_watchers>>
    PROVE  SharedInv' /\ LiveAdapters' = LiveAdapters
<1>1. UserObject(a) \in LiveObjects
    BY AdapterFields DEF SharedInv, UserObject, ReferencesExact, LiveObjects
<1>2. /\ AdaptersTyped' /\ AdaptersInOrder' /\ AdaptersAreListed'
      /\ LiveAdapters' = LiveAdapters
      /\ \A b \in LiveAdapters : UserObject(b)' = UserObject(b)
    BY UsedAdapter DEF SharedInv
<1>3. UsersTyped' /\ ObjectsTyped' /\ ReferencesExact' /\ CacheIsLive'
    BY <1>1, <1>2, EditsExact
<1> QED BY <1>2, <1>3 DEF SharedInv

\* Steps that concern neither objects nor adapters, but may watch a peer.
LEMMA UntouchedShared ==
    ASSUME SharedInv, UNCHANGED <<database, object, users, adapter, peer_users>>,
           caller_watchers \subseteq caller_watchers'
    PROVE  SharedInv'
<1>1. LiveAdapters' = LiveAdapters /\ LiveObjects' = LiveObjects
      /\ \A b \in LiveAdapters : UserObject(b)' = UserObject(b)
    BY DEF LiveAdapters, LiveObjects, UserObject
<1>2. UsersTyped' /\ ObjectsTyped' /\ AdaptersTyped' /\ AdaptersInOrder' /\ CacheIsLive'
    BY <1>1 DEF SharedInv, UsersTyped, ObjectsTyped, AdaptersTyped, AdaptersInOrder, CacheIsLive
<1>3. AdaptersAreListed'
    BY <1>1 DEF SharedInv, AdaptersAreListed
<1>4. ReferencesExact'
    BY <1>1 DEF SharedInv, ReferencesExact
<1> QED BY <1>2, <1>3, <1>4 DEF SharedInv

\* A daemon without adapters and objects.
LEMMA SharedInit ==
    ASSUME DaemonInit, adapter = [a \in Adapter |-> None], peer_users = {}
    PROVE  SharedInv
<1>1. LiveAdapters = {} /\ LiveObjects = {}
    BY DEF DaemonInit, LiveAdapters, LiveObjects
<1> QED BY <1>1 DEF DaemonInit, SharedInv, UsersTyped, ObjectsTyped, AdaptersTyped,
           AdaptersInOrder, AdaptersAreListed, ReferencesExact, CacheIsLive
=============================================================================
