-------------------------- MODULE GumdAccountsProofs --------------------------
(***************************************************************************)
(* Proofs about GumdAccounts, for any number of processes, users, groups   *)
(* and ids, any configuration and any combination of faults: types, unique *)
(* names and ids, primary groups, and that the operations on the files     *)
(* implement Accounts.                                                     *)
(***************************************************************************)
EXTENDS GumdAccounts, TLAPS

-----------------------------------------------------------------------------
(***************************************************************************)
(* The inductive invariant.  What an operation looked up when it got the   *)
(* lock still holds when it writes, because nobody else writes meanwhile.  *)
(***************************************************************************)

\* Only the process that has the lock is in an operation.
OneAtWork == \A p \in Proc : pc[p] # "idle" => holder = p

\* A group operation returns into a user operation only out of its own steps.
Control(p) ==
    /\ pc[p] = "idle" => call[p] = "none"
    /\ pc[p] \in UserSteps \/ ret[p] # "caller" => call[p] \in UserCalls
    /\ ret[p] # "caller" => pc[p] \in GroupSteps \cup Results
    /\ ret[p] = "set_group"
          => pc[p] \in {"group_add", "gshadow_add", "true", "false"}

\* What a user object has at a step of its operation.
UserReady(u, step, back) ==
    /\ step \in UserSteps \/ back # "caller" => u \in UserObject /\ u.uid \in Nat
    /\ step \in {"passwd_add", "shadow_add", "passwd_mod", "shadow_mod"}
          => u.pwd \in Password
    /\ step \in {"set_group", "set_shadow", "passwd_add"} \/ back = "set_group"
          => u.name \notin Names(passwd) /\ u.uid \notin Uids
    /\ step \in {"set_shadow", "passwd_add"} => u.gid \in Gids
    /\ step = "passwd_mod"
          => \E e \in passwd : e.name = u.name /\ e.uid = u.uid /\ e.gid = u.gid

\* What a group object has at a step of its operation.
GroupReady(g, step) ==
    /\ step \in GroupSteps
          => g \in GroupObject /\ g.name \in GroupName /\ g.gid \in Nat
    /\ step \in {"group_add", "gshadow_add"} => g.pwd \in Password
    /\ step \in {"group_mod", "member_add", "gshadow_mod"}
          => g.pwd \in Password \/ Named(gshadow, g.name) = {}
    /\ step = "group_add" => g.name \notin Names(group) /\ g.gid \notin Gids
    /\ step = "group_del" => \A u \in passwd : u.gid # g.gid
    /\ step \in {"group_mod", "member_add"}
          => \E e \in group : e.name = g.name /\ e.gid = g.gid

\* The primary group that gumd_daemon_user_add made is there when it goes on.
GroupMade(g, step, back) ==
    back = "set_group" /\ step \in {"gshadow_add", "true"} => g.gid \in Gids

\* The group of a caller, and that of an operation on it, has a name.
OwnGroup(p) ==
    /\ grp[p] # None => grp[p].name \in GroupName
    /\ call[p] \in GroupCalls => obj[p] \in GroupObject /\ obj[p].name \in GroupName

Ready(p) ==
    /\ Control(p)
    /\ OwnGroup(p)
    /\ UserReady(usr[p], pc[p], ret[p])
    /\ GroupReady(obj[p], pc[p])
    /\ GroupMade(obj[p], pc[p], ret[p])

AccountsInv ==
    /\ TypeOK
    /\ OneAtWork
    /\ NamesAndIdsUnique
    /\ PrimaryGroupExists
    /\ \A p \in Proc : Ready(p)

-----------------------------------------------------------------------------
(***************************************************************************)
(* Lemmas about the operators.                                             *)
(***************************************************************************)
LEMMA PasswordTypes ==
    /\ EmptyPassword \in Password
    /\ \A type : DefaultPassword(type) \in Password
    /\ \A s \in Secret \cup {Placeholder} : Encrypted(s) \in Password
    /\ \A lock \in BOOLEAN, pwd \in Password : SetLocked(lock, pwd) \in Password
  BY DEF EmptyPassword, DefaultPassword, Encrypted, SetLocked, Password

\* A free id is a number that nothing uses.
LEMMA FreeIdIsFree ==
    ASSUME NEW range \in Range, NEW used, NEW id \in FreeIds(range, used)
    PROVE  id \in Nat /\ id \notin used
  BY DEF FreeIds, Range

LEMMA FreeGidIsFree ==
    ASSUME NEW type \in GroupType, NEW preferred \in Nat \cup {None},
           NEW gid \in FreeGids(type, preferred)
    PROVE  gid \in Nat /\ gid \notin Gids
<1>1. GidRange[type] \in Range
    BY AccountAssumption
<1>2. QED
    BY <1>1, FreeIdIsFree DEF FreeGids

LEMMA NewObjectType == NewObject \in GroupObject
  BY DEF NewObject, GroupObject, Members

\* The object of a group or a user whose secret was set, or could not be.
LEMMA GroupSecretSet ==
    ASSUME NEW g \in GroupObject, NEW s \in SecretSet(g)
    PROVE  /\ s \in GroupObject
           /\ s.name = g.name /\ s.gid = g.gid /\ s.mem = g.mem
           /\ s.smem = g.smem /\ s.sadm = g.sadm /\ s.type = g.type
<1>1. PICK pwd \in Password \cup {None}, secret \in {Placeholder, g.secret} :
         s = [g EXCEPT !.secret = secret, !.pwd = pwd]
    <2>1. CASE s = [g EXCEPT !.secret = Placeholder, !.pwd = DefaultPassword(g.type)]
        BY <2>1, PasswordTypes
    <2>2. CASE /\ g.secret # None
               /\ s = [g EXCEPT !.secret = Placeholder, !.pwd = Encrypted(g.secret)]
        BY <2>2, PasswordTypes DEF GroupObject
    <2>3. CASE s = [g EXCEPT !.pwd = None]
        <3>1. s = [g EXCEPT !.secret = g.secret, !.pwd = None]
            BY <2>3 DEF GroupObject
        <3>2. QED
            BY <3>1
    <2>4. QED
        BY <2>1, <2>2, <2>3 DEF SecretSet
<1>2. QED
    BY <1>1 DEF GroupObject

LEMMA UserSecretSet ==
    ASSUME NEW u \in UserObject, NEW s \in SecretSet(u)
    PROVE  /\ s \in UserObject
           /\ s.name = u.name /\ s.uid = u.uid /\ s.gid = u.gid
           /\ s.type = u.type /\ s.info = u.info
<1>1. PICK pwd \in Password \cup {None}, secret \in {Placeholder, u.secret} :
         s = [u EXCEPT !.secret = secret, !.pwd = pwd]
    <2>1. CASE s = [u EXCEPT !.secret = Placeholder, !.pwd = DefaultPassword(u.type)]
        BY <2>1, PasswordTypes
    <2>2. CASE /\ u.secret # None
               /\ s = [u EXCEPT !.secret = Placeholder, !.pwd = Encrypted(u.secret)]
        BY <2>2, PasswordTypes DEF UserObject
    <2>3. CASE s = [u EXCEPT !.pwd = None]
        <3>1. s = [u EXCEPT !.secret = u.secret, !.pwd = None]
            BY <2>3 DEF UserObject
        <3>2. QED
            BY <3>1
    <2>4. QED
        BY <2>1, <2>2, <2>3 DEF SecretSet
<1>2. QED
    BY <1>1 DEF UserObject

\* A group object filled from the files has a password unless its group has no
\* entry in gshadow.
LEMMA CopyGroupType ==
    ASSUME FilesTypeOK, NEW g \in GroupObject, NEW e \in group
    PROVE  /\ CopyGroup(g, e) \in GroupObject
           /\ CopyGroup(g, e).name = e.name
           /\ CopyGroup(g, e).gid = e.gid
           /\ CopyGroup(g, e).mem = e.mem
           /\ CopyGroup(g, e).pwd \in Password \/ Named(gshadow, e.name) = {}
<1>1. e \in GroupEntry
    BY DEF FilesTypeOK
<1> DEFINE c == [g EXCEPT !.name = e.name, !.gid = e.gid,
                          !.secret = Placeholder, !.mem = e.mem]
<1>2. /\ c \in GroupObject
      /\ c.name = e.name /\ c.gid = e.gid /\ c.mem = e.mem
    BY <1>1 DEF GroupObject, GroupEntry, Members
<1>3. CASE Named(gshadow, e.name) = {}
    BY <1>2, <1>3 DEF CopyGroup
<1>4. CASE Named(gshadow, e.name) # {}
    <2> DEFINE s == CHOOSE s \in Named(gshadow, e.name) : TRUE
    <2>1. s \in GshadowEntry
        BY <1>4 DEF Named, FilesTypeOK
    <2>2. CopyGroup(g, e) = [c EXCEPT !.pwd = s.pwd, !.smem = s.mem, !.sadm = s.adm]
        BY <1>4 DEF CopyGroup
    <2>3. /\ s.pwd \in Password /\ s.mem \in Members /\ s.adm \in Members
        BY <2>1 DEF GshadowEntry, Members
    <2> HIDE DEF c, s
    <2>5. QED
        BY <1>2, <2>2, <2>3 DEF GroupObject
<1>5. QED
    BY <1>3, <1>4

\* and the administrators of that entry.
LEMMA CopiedAdmins ==
    ASSUME FilesTypeOK, NEW g \in GroupObject, NEW e \in group,
           Named(gshadow, e.name) # {}
    PROVE  CopyGroup(g, e).sadm \in SUBSET UserName
<1> DEFINE c == [g EXCEPT !.name = e.name, !.gid = e.gid,
                          !.secret = Placeholder, !.mem = e.mem]
           s == CHOOSE s \in Named(gshadow, e.name) : TRUE
<1>1. s \in GshadowEntry
    BY DEF Named, FilesTypeOK
<1>2. CopyGroup(g, e) = [c EXCEPT !.pwd = s.pwd, !.smem = s.mem, !.sadm = s.adm]
    BY DEF CopyGroup
<1>3. s.adm \in SUBSET UserName
    BY <1>1 DEF GshadowEntry
<1>4. QED
    BY <1>2, <1>3 DEF GroupObject

-----------------------------------------------------------------------------
(***************************************************************************)
(* How a group operation starts: it goes to one of the given steps with an *)
(* object that is ready for it.                                            *)
(***************************************************************************)
Started(p, g, steps) ==
    \E o \in GroupObject, step \in steps :
        /\ obj' = [obj EXCEPT ![p] = o]
        /\ pc' = [pc EXCEPT ![p] = step]
        /\ GroupReady(o, step)
        /\ g.name \in GroupName => o.name \in GroupName

LEMMA RefuseIsStart ==
    ASSUME NEW p \in Proc, NEW g \in GroupObject, NEW o \in GroupObject,
           o.name = g.name, Refuse(p, o)
    PROVE  Started(p, g, {"false"})
  BY DEF Refuse, GoTo, Started, GroupReady, GroupSteps

LEMMA StartedMore ==
    ASSUME NEW p, NEW g, NEW small, NEW large, small \subseteq large,
           Started(p, g, small)
    PROVE  Started(p, g, large)
  BY DEF Started

LEMMA StartAddReady ==
    ASSUME FilesTypeOK, NEW p \in Proc, NEW g \in GroupObject,
           g.name \in GroupName, g.type \in GroupType,
           NEW preferred \in Nat \cup {None}, StartAdd(p, g, preferred)
    PROVE  Started(p, g, {"group_add", "false"})
<1>1. CASE Refuse(p, g)
    BY <1>1, RefuseIsStart, StartedMore
<1>2. ASSUME Named(group, g.name) = {}, NEW gid \in FreeGids(g.type, preferred),
             NEW s \in SecretSet([g EXCEPT !.gid = gid]),
             IF s.pwd = None
             THEN Refuse(p, s)
             ELSE /\ obj' = [obj EXCEPT ![p] = [s EXCEPT !.smem = s.mem]]
                  /\ GoTo(p, "group_add")
      PROVE  Started(p, g, {"group_add", "false"})
    <2> DEFINE n == [g EXCEPT !.gid = gid]
    <2>1. gid \in Nat /\ gid \notin Gids
        BY <1>2, FreeGidIsFree
    <2>2. n \in GroupObject /\ n.name = g.name /\ n.gid = gid
        BY <2>1 DEF GroupObject
    <2> HIDE DEF n
    <2>3. /\ s \in GroupObject
          /\ s.name = g.name /\ s.gid = gid
        BY <2>2, <1>2, GroupSecretSet DEF n
    <2>4. CASE s.pwd = None
        BY <1>2, <2>3, <2>4, RefuseIsStart, StartedMore
    <2>5. CASE s.pwd # None
        <3> DEFINE o == [s EXCEPT !.smem = s.mem]
        <3>1. /\ o \in GroupObject /\ o.name = g.name /\ o.gid = gid
              /\ o.pwd \in Password
            BY <2>3, <2>5 DEF GroupObject
        <3>2. g.name \notin Names(group)
            BY <1>2 DEF Named, Names
        <3>3. obj' = [obj EXCEPT ![p] = o] /\ pc' = [pc EXCEPT ![p] = "group_add"]
            BY <1>2, <2>5 DEF GoTo
        <3> HIDE DEF o
        <3>4. GroupReady(o, "group_add")
            BY <2>1, <3>1, <3>2 DEF GroupReady, GroupSteps
        <3>5. QED
            BY <3>1, <3>3, <3>4 DEF Started
    <2>6. QED
        BY <2>4, <2>5
<1>3. QED
    BY <1>1, <1>2 DEF StartAdd

LEMMA StartDeleteReady ==
    ASSUME FilesTypeOK, NEW p \in Proc, NEW g \in GroupObject, StartDelete(p, g)
    PROVE  Started(p, g, {"group_del", "true", "false"})
<1>1. CASE Refuse(p, g)
    BY <1>1, RefuseIsStart, StartedMore
<1>2. ASSUME NEW e \in GetGroup(g),
             obj' = [obj EXCEPT ![p] = CopyGroup(g, e)],
             GoTo(p, IF \E u \in passwd : u.gid = e.gid THEN "true" ELSE "group_del")
      PROVE  Started(p, g, {"group_del", "true", "false"})
    <2>1. e \in group /\ e.name \in GroupName /\ e.gid \in Nat
        BY DEF GetGroup, FilesTypeOK, GroupEntry
    <2>2. /\ CopyGroup(g, e) \in GroupObject
          /\ CopyGroup(g, e).name = e.name /\ CopyGroup(g, e).gid = e.gid
        BY <2>1, CopyGroupType
    <2>3. CASE \E u \in passwd : u.gid = e.gid
        BY <1>2, <2>1, <2>2, <2>3 DEF Started, GoTo, GroupReady, GroupSteps
    <2>4. CASE \A u \in passwd : u.gid # e.gid
        BY <1>2, <2>1, <2>2, <2>4 DEF Started, GoTo, GroupReady, GroupSteps
    <2>5. QED
        BY <2>3, <2>4
<1>3. QED
    BY <1>1, <1>2 DEF StartDelete

LEMMA StartUpdateReady ==
    ASSUME FilesTypeOK, NEW p \in Proc, NEW g \in GroupObject, StartUpdate(p, g)
    PROVE  Started(p, g, {"group_mod", "false"})
<1>1. CASE Refuse(p, g)
    BY <1>1, RefuseIsStart, StartedMore
<1>2. ASSUME g.gid # None, NEW e \in GetGroup(g), NEW s \in SecretSet(Completed(g, e)),
             obj' = [obj EXCEPT ![p] = s],
             GoTo(p, IF s.pwd = None THEN "false" ELSE "group_mod")
      PROVE  Started(p, g, {"group_mod", "false"})
    <2>1. e \in group /\ e.name \in GroupName /\ e.gid \in Nat /\ e.gid = g.gid
        BY <1>2 DEF GetGroup, FilesTypeOK, GroupEntry
    <2>2. CopyGroup(g, e) \in GroupObject
        BY <2>1, CopyGroupType
    <2>3. /\ Completed(g, e) \in GroupObject
          /\ Completed(g, e).name = e.name /\ Completed(g, e).gid = g.gid
        <3> DEFINE c == CopyGroup(g, e)
        <3>1. PICK m, sm, sa :
                 /\ m \in {g.mem, c.mem} /\ sm \in {g.smem, c.smem}
                 /\ sa \in {g.sadm, c.sadm}
                 /\ Completed(g, e) = [g EXCEPT !.name = e.name, !.mem = m,
                                                !.smem = sm, !.sadm = sa]
            BY DEF Completed
        <3> HIDE DEF c
        <3>2. c \in GroupObject
            BY <2>2 DEF c
        <3>3. m \in Members /\ sm \in Members /\ sa \in Members
            BY <3>1, <3>2 DEF GroupObject
        <3>4. PICK o : o = [g EXCEPT !.name = e.name, !.mem = m, !.smem = sm,
                                     !.sadm = sa]
            OBVIOUS
        <3>5. o \in GroupObject /\ o.name = e.name /\ o.gid = g.gid
            BY <2>1, <3>3, <3>4 DEF GroupObject
        <3> QED BY <3>1, <3>4, <3>5
    <2>4. s \in GroupObject /\ s.name = e.name /\ s.gid = e.gid
        BY <2>1, <2>3, GroupSecretSet
    <2>5. CASE s.pwd = None
        BY <1>2, <2>1, <2>4, <2>5 DEF Started, GoTo, GroupReady, GroupSteps
    <2>6. CASE s.pwd # None
        <3>1. s.pwd \in Password
            BY <2>4, <2>6 DEF GroupObject
        <3>2. GroupReady(s, "group_mod")
            BY <2>1, <2>4, <3>1 DEF GroupReady, GroupSteps
        <3>3. QED
            BY <1>2, <2>1, <2>4, <2>6, <3>2 DEF Started, GoTo
    <2>7. QED
        BY <2>5, <2>6
<1>3. QED
    BY <1>1, <1>2 DEF StartUpdate

LEMMA StartAddMemberReady ==
    ASSUME FilesTypeOK, NEW p \in Proc, NEW g \in GroupObject,
           NEW uid, NEW admin, StartAddMember(p, g, uid, admin)
    PROVE  Started(p, g, {"member_add", "false"})
<1>1. CASE Refuse(p, g)
    BY <1>1, RefuseIsStart, StartedMore
<1>2. CASE ~ Refuse(p, g)
    <2>1. PICK u \in passwd, e \in GetGroup(g) :
             LET c == CopyGroup(g, e)
                 asAdmin == admin /\ Named(gshadow, e.name) # {}
             IN  /\ obj' = [obj EXCEPT ![p] =
                       [c EXCEPT !.mem = e.mem \cup {u.name},
                                 !.smem = e.mem \cup {u.name},
                                 !.sadm = IF asAdmin THEN @ \cup {u.name} ELSE @]]
                 /\ GoTo(p, "member_add")
        BY <1>2 DEF StartAddMember
    <2> DEFINE c == CopyGroup(g, e)
               o == [c EXCEPT !.mem = e.mem \cup {u.name},
                              !.smem = e.mem \cup {u.name},
                              !.sadm = IF admin /\ Named(gshadow, e.name) # {}
                                       THEN @ \cup {u.name} ELSE @]
    <2>2. /\ e \in group /\ e.name \in GroupName /\ e.gid \in Nat
          /\ e.mem \in SUBSET UserName /\ u.name \in UserName
        BY DEF GetGroup, FilesTypeOK, GroupEntry, PasswdEntry
    <2>3. /\ c \in GroupObject /\ c.name = e.name /\ c.gid = e.gid
          /\ c.pwd \in Password \/ Named(gshadow, e.name) = {}
        BY <2>2, CopyGroupType
    <2>4. Named(gshadow, e.name) # {} => c.sadm \in SUBSET UserName
        BY <2>2, CopiedAdmins
    <2>5. obj' = [obj EXCEPT ![p] = o] /\ pc' = [pc EXCEPT ![p] = "member_add"]
        BY <2>1 DEF GoTo
    <2> HIDE DEF c
    <2>6. /\ o \in GroupObject /\ o.name = e.name /\ o.gid = e.gid
          /\ o.pwd = c.pwd
        <3> DEFINE m == e.mem \cup {u.name}
                   a == IF admin /\ Named(gshadow, e.name) # {} THEN c.sadm \cup {u.name} ELSE c.sadm
        <3>1. m \in Members
            BY <2>2 DEF Members
        <3>2. a \in Members
            <4>1. c.sadm \in Members
                BY <2>3 DEF GroupObject
            <4> QED BY <2>2, <2>4, <4>1 DEF Members
        <3>3. o = [c EXCEPT !.mem = m, !.smem = m, !.sadm = a]
            OBVIOUS
        <3> HIDE DEF o, m, a
        <3>4. /\ o \in GroupObject
              /\ o.name = c.name /\ o.gid = c.gid /\ o.pwd = c.pwd
            <4>1. c \in GroupObject
                BY <2>3
            <4> QED BY <3>1, <3>2, <3>3, <4>1 DEF GroupObject
        <3> QED BY <2>3, <3>4
    <2> HIDE DEF o
    <2>7. GroupReady(o, "member_add")
        BY <2>2, <2>3, <2>6 DEF GroupReady, GroupSteps
    <2>8. QED
        BY <2>2, <2>5, <2>6, <2>7 DEF Started
<1>3. QED
    BY <1>1, <1>2

LEMMA StartDeleteMemberReady ==
    ASSUME FilesTypeOK, NEW p \in Proc, NEW g \in GroupObject, NEW uid,
           StartDeleteMember(p, g, uid)
    PROVE  Started(p, g, {"group_mod", "false"})
<1>1. CASE Refuse(p, g)
    BY <1>1, RefuseIsStart, StartedMore
<1>2. CASE ~ Refuse(p, g)
    <2>1. PICK u \in passwd, e \in GetGroup(g) :
             LET c == CopyGroup(g, e)
                 listed == Named(gshadow, e.name) # {}
             IN  /\ obj' = [obj EXCEPT ![p] =
                       [c EXCEPT !.mem = e.mem \ {u.name},
                                 !.smem = e.mem \ {u.name},
                                 !.sadm = IF listed THEN @ \ {u.name} ELSE @]]
                 /\ GoTo(p, "group_mod")
        BY <1>2 DEF StartDeleteMember
    <2> DEFINE c == CopyGroup(g, e)
               o == [c EXCEPT !.mem = e.mem \ {u.name},
                              !.smem = e.mem \ {u.name},
                              !.sadm = IF Named(gshadow, e.name) # {}
                                       THEN @ \ {u.name} ELSE @]
    <2>2. /\ e \in group /\ e.name \in GroupName /\ e.gid \in Nat
          /\ e.mem \in SUBSET UserName
        BY DEF GetGroup, FilesTypeOK, GroupEntry
    <2>3. /\ c \in GroupObject /\ c.name = e.name /\ c.gid = e.gid
          /\ c.pwd \in Password \/ Named(gshadow, e.name) = {}
        BY <2>2, CopyGroupType
    <2>4. Named(gshadow, e.name) # {} => c.sadm \in SUBSET UserName
        BY <2>2, CopiedAdmins
    <2>5. obj' = [obj EXCEPT ![p] = o] /\ pc' = [pc EXCEPT ![p] = "group_mod"]
        BY <2>1 DEF GoTo
    <2> HIDE DEF c
    <2>6. /\ o \in GroupObject /\ o.name = e.name /\ o.gid = e.gid
          /\ o.pwd = c.pwd
        <3> DEFINE m == e.mem \ {u.name}
                   a == IF Named(gshadow, e.name) # {} THEN c.sadm \ {u.name} ELSE c.sadm
        <3>1. m \in Members
            BY <2>2 DEF Members
        <3>2. a \in Members
            <4>1. c.sadm \in Members
                BY <2>3 DEF GroupObject
            <4> QED BY <2>2, <2>4, <4>1 DEF Members
        <3>3. o = [c EXCEPT !.mem = m, !.smem = m, !.sadm = a]
            OBVIOUS
        <3> HIDE DEF o, m, a
        <3>4. /\ o \in GroupObject
              /\ o.name = c.name /\ o.gid = c.gid /\ o.pwd = c.pwd
            <4>1. c \in GroupObject
                BY <2>3
            <4> QED BY <3>1, <3>2, <3>3, <4>1 DEF GroupObject
        <3> QED BY <2>3, <3>4
    <2> HIDE DEF o
    <2>7. GroupReady(o, "group_mod")
        BY <2>2, <2>3, <2>6 DEF GroupReady, GroupSteps
    <2>8. QED
        BY <2>2, <2>5, <2>6, <2>7 DEF Started
<1>3. QED
    BY <1>1, <1>2

-----------------------------------------------------------------------------
(***************************************************************************)
(* A step of one process: the others are idle, before it and after it.     *)
(***************************************************************************)
Frame(p) ==
    /\ pc[p] # "idle" \/ holder = NoProc
    /\ pc'[p] # "idle" => holder' = p
    /\ \A q \in Proc \ {p} : /\ pc'[q] = pc[q] /\ call'[q] = call[q]
                             /\ ret'[q] = ret[q] /\ grp'[q] = grp[q]

LEMMA IdleIsReady ==
    ASSUME NEW q \in Proc, pc[q] = "idle", call[q] = "none", ret[q] = "caller",
           grp[q] # None => grp[q].name \in GroupName
    PROVE  Ready(q)
  BY DEF Ready, Control, OwnGroup, UserReady, GroupReady, GroupMade, GroupSteps,
         UserSteps, GroupCalls

LEMMA OthersStayReady ==
    ASSUME AccountsInv, NEW p \in Proc, Frame(p),
           TypeOK', NamesAndIdsUnique', PrimaryGroupExists', Ready(p)'
    PROVE  AccountsInv'
<1>1. ASSUME NEW q \in Proc \ {p}
      PROVE  pc'[q] = "idle" /\ Ready(q)'
    <2>1. pc[q] = "idle"
        BY AccountAssumption DEF AccountsInv, OneAtWork, Frame
    <2>2. /\ call[q] = "none" /\ ret[q] = "caller"
          /\ grp[q] # None => grp[q].name \in GroupName
        BY <2>1 DEF AccountsInv, Ready, Control, OwnGroup, UserCalls
    <2>3. /\ pc'[q] = "idle" /\ call'[q] = "none" /\ ret'[q] = "caller"
          /\ grp'[q] # None => grp'[q].name \in GroupName
        BY <2>1, <2>2 DEF Frame
    <2>4. QED
        BY <2>3 DEF Ready, Control, OwnGroup, UserReady, GroupReady, GroupMade,
                    GroupSteps, UserSteps, GroupCalls
<1>2. OneAtWork'
    BY <1>1 DEF Frame, OneAtWork
<1>3. \A q \in Proc : Ready(q)'
    BY <1>1
<1>4. QED
    BY <1>2, <1>3 DEF AccountsInv

-----------------------------------------------------------------------------
(***************************************************************************)
(* Between operations a process handles its objects.                       *)
(***************************************************************************)
LEMMA HandleUserStep ==
    ASSUME AccountsInv, NEW p \in Proc, HandleUser(p)
    PROVE  AccountsInv'
<1>1. pc[p] = "idle" /\ UNCHANGED <<files, holder, call, pc, ret, grp, obj, todo,
                                    userinfo, homes>>
    BY DEF HandleUser, NewUser, LoadUser, SetProperty, DropUser, files
<1>2. PICK o \in UserObject \cup {None} : usr' = [usr EXCEPT ![p] = o]
    <2>1. ASSUME NEW name \in UserName, NEW type \in UserType, NEW info \in Info,
                 NEW secret \in Secret \cup {None}
          PROVE  [name |-> name, uid |-> None, gid |-> None, type |-> type,
                  secret |-> secret, pwd |-> None, info |-> info] \in UserObject
        BY DEF UserObject
    <2>2. ASSUME NEW u \in passwd, NEW s \in Named(shadow, u.name)
          PROVE  CopyUser(u, s) \in UserObject
        BY DEF CopyUser, UserObject, Named, AccountsInv, TypeOK, FilesTypeOK,
               PasswdEntry, ShadowEntry
    <2>3. ASSUME usr[p] # None
          PROVE  /\ \A secret \in Secret : [usr[p] EXCEPT !.secret = secret] \in UserObject
                 /\ \A info \in Info : [usr[p] EXCEPT !.info = info] \in UserObject
                 /\ \A type \in UserType : [usr[p] EXCEPT !.type = type] \in UserObject
        <3>1. usr[p] \in UserObject
            BY <2>3 DEF AccountsInv, TypeOK, UserTypeOK
        <3>2. QED
            BY <3>1 DEF UserObject
    <2>4. CASE NewUser(p)
        BY <2>1, <2>4 DEF NewUser, SetUser
    <2>5. CASE LoadUser(p)
        BY <2>2, <2>5 DEF LoadUser, SetUser
    <2>6. CASE SetProperty(p)
        BY <2>3, <2>6 DEF SetProperty, SetUser
    <2>7. CASE DropUser(p)
        BY <2>7 DEF DropUser, SetUser
    <2>8. QED
        BY <2>4, <2>5, <2>6, <2>7 DEF HandleUser
<1>3. TypeOK' /\ OneAtWork' /\ NamesAndIdsUnique' /\ PrimaryGroupExists'
    BY <1>1, <1>2 DEF AccountsInv, TypeOK, FilesTypeOK, GroupTypeOK, UserTypeOK,
       OneAtWork, NamesAndIdsUnique, Unique, PrimaryGroupExists, files
<1>4. ASSUME NEW q \in Proc
      PROVE  Ready(q)'
    <2>1. CASE q = p
        <3>1. /\ call[p] = "none" /\ ret[p] = "caller"
              /\ grp[p] # None => grp[p].name \in GroupName
            BY <1>1 DEF AccountsInv, Ready, Control, OwnGroup, UserCalls
        <3>2. QED
            BY <1>1, <2>1, <3>1 DEF Ready, Control, OwnGroup, UserReady,
               GroupReady, GroupMade, GroupSteps, UserSteps, GroupCalls
    <2>2. CASE q # p
        <3>1. usr'[q] = usr[q]
            BY <1>2, <2>2 DEF AccountsInv, TypeOK, UserTypeOK
        <3>2. Ready(q)
            BY DEF AccountsInv
        <3>3. QED
            BY <1>1, <3>1, <3>2 DEF Ready, Control, OwnGroup, UserReady,
               GroupReady, GroupMade, Names, Uids, Gids, Named, files
    <2>3. QED
        BY <2>1, <2>2
<1>5. QED
    BY <1>3, <1>4 DEF AccountsInv

LEMMA HandleGroupStep ==
    ASSUME AccountsInv, NEW p \in Proc, HandleGroup(p)
    PROVE  AccountsInv'
<1>1. pc[p] = "idle" /\ UNCHANGED <<files, holder, call, pc, ret, obj, userVars>>
    BY DEF HandleGroup, NewGroup, LoadGroup, SetGroupSecret, DropGroup, UsesGroup,
           files, userVars
<1>2. PICK g \in GroupObject \cup {None} :
         /\ grp' = [grp EXCEPT ![p] = g]
         /\ g # None => g.name \in GroupName
    <2>1. NewObject \in GroupObject
        BY NewObjectType
    <2>2. ASSUME NEW name \in GroupName, NEW type \in GroupType,
                 NEW secret \in Secret \cup {None}
          PROVE  /\ [NewObject EXCEPT !.name = name, !.type = type,
                                      !.secret = secret] \in GroupObject
                 /\ [NewObject EXCEPT !.name = name, !.type = type,
                                      !.secret = secret].name \in GroupName
        BY <2>1 DEF GroupObject
    <2>3. ASSUME NEW e \in group
          PROVE  /\ CopyGroup(NewObject, e) \in GroupObject
                 /\ CopyGroup(NewObject, e).name \in GroupName
        BY <2>1, CopyGroupType DEF AccountsInv, TypeOK, FilesTypeOK, GroupEntry
    <2>4. ASSUME grp[p] # None, NEW secret \in Secret
          PROVE  /\ [grp[p] EXCEPT !.secret = secret] \in GroupObject
                 /\ [grp[p] EXCEPT !.secret = secret].name \in GroupName
        <3>1. grp[p] \in GroupObject /\ grp[p].name \in GroupName
            BY <2>4 DEF AccountsInv, TypeOK, GroupTypeOK, Ready, OwnGroup
        <3>2. QED
            BY <3>1 DEF GroupObject
    <2>5. CASE NewGroup(p)
        <3>1. PICK name \in GroupName, type \in GroupType,
                   secret \in Secret \cup {None} :
                 grp' = [grp EXCEPT ![p] = [NewObject EXCEPT !.name = name,
                                              !.type = type, !.secret = secret]]
            BY <2>5 DEF NewGroup
        <3> DEFINE g == [NewObject EXCEPT !.name = name, !.type = type,
                                          !.secret = secret]
        <3>2. g \in GroupObject /\ g.name \in GroupName
            BY <2>2
        <3>3. grp' = [grp EXCEPT ![p] = g]
            BY <3>1
        <3> HIDE DEF g
        <3>4. QED
            BY <3>2, <3>3
    <2>6. CASE LoadGroup(p)
        BY <2>3, <2>6 DEF LoadGroup
    <2>7. CASE SetGroupSecret(p)
        BY <2>4, <2>7 DEF SetGroupSecret
    <2>8. CASE DropGroup(p)
        BY <2>8 DEF DropGroup
    <2>9. QED
        BY <2>5, <2>6, <2>7, <2>8 DEF HandleGroup
<1>3. TypeOK' /\ OneAtWork' /\ NamesAndIdsUnique' /\ PrimaryGroupExists'
    BY <1>1, <1>2 DEF AccountsInv, TypeOK, FilesTypeOK, GroupTypeOK, UserTypeOK,
       OneAtWork, NamesAndIdsUnique, Unique, PrimaryGroupExists, files, userVars
<1>4. ASSUME NEW q \in Proc
      PROVE  Ready(q)'
    <2>1. grp'[q] # None => grp'[q].name \in GroupName
        BY <1>2 DEF AccountsInv, TypeOK, GroupTypeOK, Ready, OwnGroup
    <2>2. Ready(q)
        BY DEF AccountsInv
    <2>3. QED
        BY <1>1, <2>1, <2>2 DEF Ready, Control, OwnGroup, UserReady,
           GroupReady, GroupMade, Names, Uids, Gids, Named, files, userVars
<1>5. QED
    BY <1>3, <1>4 DEF AccountsInv

-----------------------------------------------------------------------------
(***************************************************************************)
(* A process gets the lock and begins.                                     *)
(***************************************************************************)
LEMMA BeginGroupStep ==
    ASSUME AccountsInv, NEW p \in Proc, BeginGroup(p)
    PROVE  AccountsInv'
<1>1. /\ pc[p] = "idle" /\ holder = NoProc /\ holder' = p
      /\ UNCHANGED <<files, userVars, grp>>
      /\ ret' = [ret EXCEPT ![p] = "caller"]
      /\ grp[p] # None
    BY DEF BeginGroup, CallGroup, CallGroupAdd, CallGroupDelete, CallGroupUpdate,
           CallAddMember, CallDeleteMember, OnOwnGroup, Begin
<1>2. PICK c \in GroupCalls : call' = [call EXCEPT ![p] = c]
    BY DEF BeginGroup, CallGroup, CallGroupAdd, CallGroupDelete, CallGroupUpdate,
           CallAddMember, CallDeleteMember, OnOwnGroup, Begin, GroupCalls
<1>3. grp[p] \in GroupObject /\ grp[p].name \in GroupName
    BY <1>1 DEF AccountsInv, TypeOK, GroupTypeOK, Ready, OwnGroup
<1>4. FilesTypeOK
    BY DEF AccountsInv, TypeOK
<1>5. Started(p, grp[p], GroupSteps \cup Results)
    <2>1. CASE CallGroupAdd(p)
        <3>1. grp[p].type \in GroupType
            BY <1>3, <2>1 DEF CallGroupAdd, GroupObject
        <3>2. Started(p, grp[p], {"group_add", "false"})
            BY <1>3, <1>4, <2>1, <3>1, StartAddReady DEF CallGroupAdd
        <3>3. QED
            BY <3>2, StartedMore DEF GroupSteps, Results
    <2>2. CASE CallGroupDelete(p)
        BY <1>3, <1>4, <2>2, StartDeleteReady, StartedMore
           DEF CallGroupDelete, GroupSteps, Results
    <2>3. CASE CallGroupUpdate(p)
        BY <1>3, <1>4, <2>3, StartUpdateReady, StartedMore
           DEF CallGroupUpdate, GroupSteps, Results
    <2>4. CASE CallAddMember(p)
        BY <1>3, <1>4, <2>4, StartAddMemberReady, StartedMore
           DEF CallAddMember, GroupSteps, Results
    <2>5. CASE CallDeleteMember(p)
        BY <1>3, <1>4, <2>5, StartDeleteMemberReady, StartedMore
           DEF CallDeleteMember, GroupSteps, Results
    <2>6. QED
        BY <2>1, <2>2, <2>3, <2>4, <2>5 DEF BeginGroup, CallGroup
<1>6. PICK o \in GroupObject, step \in GroupSteps \cup Results :
         /\ obj' = [obj EXCEPT ![p] = o]
         /\ pc' = [pc EXCEPT ![p] = step]
         /\ GroupReady(o, step)
         /\ o.name \in GroupName
    BY <1>3, <1>5 DEF Started
<1>7. TypeOK' /\ NamesAndIdsUnique' /\ PrimaryGroupExists'
    BY <1>1, <1>2, <1>6 DEF AccountsInv, TypeOK, FilesTypeOK, GroupTypeOK, UserTypeOK,
       NamesAndIdsUnique, Unique, PrimaryGroupExists, files, userVars
<1>8. /\ pc'[p] = step /\ call'[p] = c /\ ret'[p] = "caller" /\ obj'[p] = o
      /\ grp'[p] = grp[p]
    BY <1>1, <1>2, <1>6 DEF AccountsInv, TypeOK, GroupTypeOK
<1>9. Ready(p)'
    <2>1. Control(p)' /\ OwnGroup(p)' /\ GroupMade(obj[p], pc[p], ret[p])'
        BY <1>3, <1>6, <1>8 DEF Control, OwnGroup, GroupMade, GroupSteps, UserSteps, Results
    <2>2. UserReady(usr[p], pc[p], ret[p])'
        BY <1>8 DEF UserReady, GroupSteps, UserSteps, Results
    <2>3. GroupReady(obj[p], pc[p])'
        BY <1>1, <1>6, <1>8 DEF GroupReady, Names, Named, Gids, files
    <2>4. QED
        BY <2>1, <2>2, <2>3 DEF Ready
<1>10. Frame(p)
    BY <1>1, <1>2, <1>6 DEF Frame, AccountsInv, TypeOK, GroupTypeOK
<1>11. QED
    BY <1>7, <1>9, <1>10, OthersStayReady

\* A user operation goes to one of its steps with an object that is ready for it.
LEMMA CallUserReady ==
    ASSUME AccountsInv, NEW p \in Proc, CallUser(p)
    PROVE  \E o \in UserObject, step \in UserSteps \cup {"false"} :
              /\ usr' = [usr EXCEPT ![p] = o]
              /\ pc' = [pc EXCEPT ![p] = step]
              /\ UserReady(o, step, "caller")
<1>1. usr[p] \in UserObject /\ usr[p].name \in UserName /\ usr[p].name # None
    BY AccountAssumption DEF CallUser, CallUserAdd, CallUserDelete, CallUserUpdate,
           OnUser, AccountsInv, TypeOK, UserTypeOK, UserObject
<1>2. usr = [usr EXCEPT ![p] = usr[p]]
    BY DEF AccountsInv, TypeOK, UserTypeOK
<1>3. UserReady(usr[p], "false", "caller")
    BY DEF UserReady, UserSteps
<1> DEFINE refused == UNCHANGED usr /\ GoTo(p, "false")
<1>4. CASE refused
    BY <1>1, <1>2, <1>3, <1>4 DEF GoTo
<1>5. CASE CallUserAdd(p) /\ ~ refused
    <2>1. PICK uid \in FreeIds(UidRange[usr[p].type], Uids) :
             /\ Named(passwd, usr[p].name) = {}
             /\ usr' = [usr EXCEPT ![p] = [usr[p] EXCEPT !.uid = uid]]
             /\ pc' = [pc EXCEPT ![p] = "set_group"]
        BY <1>5 DEF CallUserAdd, SetUser, GoTo
    <2> DEFINE o == [usr[p] EXCEPT !.uid = uid]
    <2>2. UidRange[usr[p].type] \in Range
        BY <1>1, AccountAssumption DEF UserObject
    <2>3. uid \in Nat /\ uid \notin Uids
        BY <2>2, FreeIdIsFree
    <2>4. o \in UserObject /\ o.uid = uid /\ o.name = usr[p].name
        BY <1>1, <2>3 DEF UserObject
    <2>5. o.name \notin Names(passwd)
        BY <2>1, <2>4 DEF Names, Named
    <2> HIDE DEF o
    <2>6. UserReady(o, "set_group", "caller")
        BY <2>3, <2>4, <2>5 DEF UserReady, UserSteps
    <2>7. QED
        BY <2>1, <2>4, <2>6 DEF UserSteps, o
<1>6. CASE CallUserDelete(p) /\ ~ refused
    <2>1. PICK e \in Entries(usr[p]) :
             /\ usr' = [usr EXCEPT ![p] = CopyUser(e[1], e[2])]
             /\ pc' = [pc EXCEPT ![p] = "lock_pwd"]
        BY <1>6 DEF CallUserDelete, SetUser, GoTo
    <2>2. e[1] \in PasswdEntry /\ e[2] \in ShadowEntry
        BY DEF Entries, GetPasswd, AccountsInv, TypeOK, FilesTypeOK
    <2>3. CopyUser(e[1], e[2]) \in UserObject /\ CopyUser(e[1], e[2]).uid \in Nat
        BY <2>2 DEF CopyUser, UserObject, PasswdEntry, ShadowEntry
    <2>4. UserReady(CopyUser(e[1], e[2]), "lock_pwd", "caller")
        BY <2>3 DEF UserReady
    <2>5. QED
        BY <2>1, <2>3, <2>4 DEF UserSteps
<1>7. CASE CallUserUpdate(p) /\ ~ refused
    <2>1. PICK e \in Entries(usr[p]) :
             \E o \in Updated(Merged(usr[p], e[1], e[2])),
                step \in {"false", "passwd_mod"} :
             /\ usr[p].uid # None
             /\ usr' = [usr EXCEPT ![p] = o]
             /\ pc' = [pc EXCEPT ![p] = step]
             /\ step = "passwd_mod" => o.pwd # None
        BY <1>7 DEF CallUserUpdate, SetUser, GoTo
    <2>9. PICK o \in Updated(Merged(usr[p], e[1], e[2])),
             step \in {"false", "passwd_mod"} :
             /\ usr[p].uid # None
             /\ usr' = [usr EXCEPT ![p] = o]
             /\ pc' = [pc EXCEPT ![p] = step]
             /\ step = "passwd_mod" => o.pwd # None
        BY <2>1
    <2>2. /\ e[1] \in passwd /\ e[1] \in PasswdEntry /\ e[2] \in ShadowEntry
          /\ e[1].uid = usr[p].uid /\ e[1].name = usr[p].name
        BY <1>1, <2>9 DEF Entries, GetPasswd, AccountsInv, TypeOK, FilesTypeOK
    <2> DEFINE m == Merged(usr[p], e[1], e[2])
    <2>3. /\ m \in UserObject /\ m.name = usr[p].name /\ m.uid = usr[p].uid
          /\ m.gid = e[1].gid
        BY <1>1, <2>2 DEF Merged, UserObject, PasswdEntry, ShadowEntry
    <2> HIDE DEF m
    <2>4. o \in UserObject /\ o.name = m.name /\ o.uid = m.uid /\ o.gid = m.gid
        <3>1. CASE o \in SecretSet(m)
            BY <2>3, <3>1, UserSecretSet
        <3>2. CASE o = [m EXCEPT !.secret = Placeholder]
            BY <2>3, <3>2 DEF UserObject
        <3>3. QED
            BY <3>1, <3>2 DEF Updated, m
    <2>5. o.uid \in Nat
        BY <2>9, <2>3, <2>4 DEF UserObject
    <2>6. step = "passwd_mod" => o.pwd \in Password
        BY <2>9, <2>4 DEF UserObject
    <2>7. UserReady(o, step, "caller")
        BY <2>2, <2>3, <2>4, <2>5, <2>6 DEF UserReady, UserSteps
    <2>8. QED
        BY <2>9, <2>4, <2>7 DEF UserSteps
<1>8. QED
    BY <1>4, <1>5, <1>6, <1>7 DEF CallUser

LEMMA CallUserStep ==
    ASSUME AccountsInv, NEW p \in Proc, CallUser(p)
    PROVE  AccountsInv'
<1>1. /\ pc[p] = "idle" /\ holder = NoProc /\ holder' = p
      /\ UNCHANGED <<files, grp, obj, homes, todo>>
      /\ ret' = [ret EXCEPT ![p] = "caller"]
    BY DEF CallUser, CallUserAdd, CallUserDelete, CallUserUpdate, OnUser, Begin, files
<1>2. PICK c \in UserCalls : call' = [call EXCEPT ![p] = c]
    BY DEF CallUser, CallUserAdd, CallUserDelete, CallUserUpdate, OnUser, Begin,
           UserCalls
<1>3. PICK o \in UserObject, step \in UserSteps \cup {"false"} :
         /\ usr' = [usr EXCEPT ![p] = o]
         /\ pc' = [pc EXCEPT ![p] = step]
         /\ UserReady(o, step, "caller")
    BY CallUserReady
<1>4. userinfo' \subseteq Nat
    <2>1. CASE UNCHANGED userinfo
        BY <2>1 DEF AccountsInv, TypeOK, UserTypeOK
    <2>2. CASE userinfo' = userinfo \cup {usr[p].uid} /\ usr[p].uid # None
                 /\ usr[p] # None
        BY <2>2 DEF AccountsInv, TypeOK, UserTypeOK, UserObject
    <2>3. QED
        BY <2>1, <2>2 DEF CallUser, CallUserAdd, CallUserDelete, CallUserUpdate, OnUser
<1>5. TypeOK' /\ NamesAndIdsUnique' /\ PrimaryGroupExists'
    BY <1>1, <1>2, <1>3, <1>4 DEF AccountsInv, TypeOK, FilesTypeOK, GroupTypeOK,
       UserTypeOK, NamesAndIdsUnique, Unique, PrimaryGroupExists, files, Results
<1>6. /\ pc'[p] = step /\ call'[p] = c /\ ret'[p] = "caller" /\ usr'[p] = o
      /\ grp'[p] = grp[p]
    BY <1>1, <1>2, <1>3 DEF AccountsInv, TypeOK, GroupTypeOK, UserTypeOK
<1>7. Ready(p)'
    <2>1. Ready(p)
        BY DEF AccountsInv
    <2>2. Control(p)' /\ OwnGroup(p)' /\ GroupMade(obj[p], pc[p], ret[p])'
        BY <1>6, <2>1 DEF Ready, Control, OwnGroup, GroupMade, UserSteps, UserCalls,
           GroupCalls
    <2>3. UserReady(usr[p], pc[p], ret[p])'
        BY <1>1, <1>3, <1>6 DEF UserReady, Names, Uids, Gids, files
    <2>4. GroupReady(obj[p], pc[p])'
        BY <1>6 DEF GroupReady, GroupSteps, UserSteps
    <2>5. QED
        BY <2>2, <2>3, <2>4 DEF Ready
<1>8. Frame(p)
    BY <1>1, <1>2, <1>3 DEF Frame, AccountsInv, TypeOK, GroupTypeOK
<1>9. QED
    BY <1>5, <1>7, <1>8, OthersStayReady

-----------------------------------------------------------------------------
(***************************************************************************)
(* The updates of group and gshadow.                                       *)
(***************************************************************************)
LEMMA EntryTypes ==
    ASSUME NEW g \in GroupObject, g.name \in GroupName, g.gid \in Nat
    PROVE  /\ EntryOf(g) \in GroupEntry
           /\ EntryOf(g).name = g.name /\ EntryOf(g).gid = g.gid
           /\ GshadowOf(g).name = g.name
           /\ g.pwd \in Password => GshadowOf(g) \in GshadowEntry
  BY DEF EntryOf, GshadowOf, GroupEntry, GshadowEntry, GroupObject, Members

\* What the update of a group file leaves behind: files in order and a step
\* that the object is ready for.
GroupFilesKept(p) ==
    /\ FilesTypeOK' /\ NamesAndIdsUnique' /\ PrimaryGroupExists'
    /\ \E step \in GroupSteps \cup Results :
          /\ pc' = [pc EXCEPT ![p] = step]
          /\ GroupReady(obj[p], step)'
          /\ GroupMade(obj[p], step, ret[p])'
          /\ ret[p] = "set_group" => step \in {"gshadow_add", "true", "false"}

LEMMA GroupFilesStep ==
    ASSUME AccountsInv, NEW p \in Proc, UpdateGroupFiles(p)
    PROVE  GroupFilesKept(p)
<1> DEFINE g == obj[p]
<1>1. UNCHANGED <<passwd, shadow, holder, call, ret, grp, obj>>
    BY DEF UpdateGroupFiles
<1>2. pc[p] \in GroupSteps
    BY DEF UpdateGroupFiles, AddToGroup, AddToGshadow, DeleteFromGroup,
           DeleteFromGshadow, ModifyGroup, ModifyGshadow, GroupUpdateFails,
           UpdateFails, Then, GroupSteps
<1>3. /\ FilesTypeOK /\ NamesAndIdsUnique /\ PrimaryGroupExists
      /\ GroupReady(g, pc[p]) /\ GroupMade(g, pc[p], ret[p]) /\ Control(p)
    BY DEF AccountsInv, TypeOK, Ready
<1>4. g \in GroupObject /\ g.name \in GroupName /\ g.gid \in Nat
    BY <1>2, <1>3 DEF GroupReady
<1>5. /\ EntryOf(g) \in GroupEntry
      /\ EntryOf(g).name = g.name /\ EntryOf(g).gid = g.gid
      /\ GshadowOf(g).name = g.name
      /\ g.pwd \in Password => GshadowOf(g) \in GshadowEntry
    BY <1>4, EntryTypes
<1> HIDE DEF g
<1>6. CASE AddToGroup(p)
    <2>1. /\ g.name \notin Names(group) /\ g.gid \notin Gids /\ g.pwd \in Password
          /\ group' = group \cup {EntryOf(g)} /\ gshadow' = gshadow
        BY <1>3, <1>6 DEF AddToGroup, Then, GroupReady, g
    <2>2. PICK step \in {"gshadow_add", "true"} : pc' = [pc EXCEPT ![p] = step]
        BY <1>6 DEF AddToGroup, Then, GoTo
    <2>3. FilesTypeOK' /\ PrimaryGroupExists'
        BY <1>1, <1>3, <1>5, <2>1 DEF FilesTypeOK, PrimaryGroupExists
    <2>4. NamesAndIdsUnique'
        BY <1>1, <1>3, <1>5, <2>1 DEF NamesAndIdsUnique, Unique, Names, Gids
    <2>5. GroupReady(obj[p], step)' /\ GroupMade(obj[p], step, ret[p])'
        BY <1>1, <1>4, <1>5, <2>1, <2>2 DEF GroupReady, GroupMade, Gids, g
    <2>6. QED
        BY <2>2, <2>3, <2>4, <2>5 DEF GroupFilesKept, GroupSteps, Results
<1>7. CASE AddToGshadow(p)
    <2>1. /\ g.pwd \in Password /\ group' = group
          /\ \/ gshadow' = gshadow
             \/ /\ Named(gshadow, g.name) = {}
                /\ gshadow' = gshadow \cup {GshadowOf(g)}
        BY <1>3, <1>7 DEF AddToGshadow, Then, GroupReady, g
    <2>2. PICK step \in {"true", "false"} : pc' = [pc EXCEPT ![p] = step]
        BY <1>7 DEF AddToGshadow, Then, GoTo
    <2>3. FilesTypeOK' /\ PrimaryGroupExists'
        BY <1>1, <1>3, <1>5, <2>1 DEF FilesTypeOK, PrimaryGroupExists
    <2>4. NamesAndIdsUnique'
        BY <1>1, <1>3, <1>5, <2>1 DEF NamesAndIdsUnique, Unique, Named
    <2>5. GroupReady(obj[p], step)' /\ GroupMade(obj[p], step, ret[p])'
        BY <1>1, <1>3, <1>7, <2>1, <2>2
           DEF GroupReady, GroupMade, Gids, g, GroupSteps, AddToGshadow, Then
    <2>6. QED
        BY <2>2, <2>3, <2>4, <2>5 DEF GroupFilesKept, GroupSteps, Results
<1>8. CASE DeleteFromGroup(p)
    <2>1. /\ \A u \in passwd : u.gid # g.gid
          /\ group' = group \ GetGroup(g) /\ gshadow' = gshadow
          /\ ret[p] # "set_group"
        BY <1>3, <1>8 DEF DeleteFromGroup, Then, GroupReady, Control, g
    <2>2. PICK step \in {"gshadow_del", "true"} : pc' = [pc EXCEPT ![p] = step]
        BY <1>8 DEF DeleteFromGroup, Then, GoTo
    <2>3. FilesTypeOK' /\ NamesAndIdsUnique'
        BY <1>1, <1>3, <2>1 DEF FilesTypeOK, NamesAndIdsUnique, Unique
    <2>4. g.gid # None
        BY <1>4, AccountAssumption
    <2>5. PrimaryGroupExists'
        BY <1>1, <1>3, <2>1, <2>4 DEF PrimaryGroupExists, GetGroup
    <2>6. GroupReady(obj[p], step)' /\ GroupMade(obj[p], step, ret[p])'
        BY <1>1, <1>4, <2>1, <2>2 DEF GroupReady, GroupMade, g
    <2>7. QED
        BY <2>1, <2>2, <2>3, <2>5, <2>6 DEF GroupFilesKept, GroupSteps, Results
<1>9. CASE DeleteFromGshadow(p)
    <2>1. /\ gshadow' \subseteq gshadow /\ group' = group /\ ret[p] # "set_group"
        BY <1>3, <1>9 DEF DeleteFromGshadow, Then, Control, g
    <2>2. PICK step \in {"true", "false"} : pc' = [pc EXCEPT ![p] = step]
        BY <1>9 DEF DeleteFromGshadow, Then, GoTo
    <2>3. FilesTypeOK' /\ NamesAndIdsUnique' /\ PrimaryGroupExists'
        BY <1>1, <1>3, <2>1
           DEF FilesTypeOK, NamesAndIdsUnique, Unique, PrimaryGroupExists
    <2>4. GroupReady(obj[p], step)' /\ GroupMade(obj[p], step, ret[p])'
        BY <1>1, <2>1, <2>2 DEF GroupReady, GroupMade, GroupSteps
    <2>5. QED
        BY <2>1, <2>2, <2>3, <2>4 DEF GroupFilesKept, GroupSteps, Results
<1>10. CASE ModifyGroup(p)
    <2>1. /\ group' = (group \ GetGroup(g)) \cup {EntryOf(g)} /\ gshadow' = gshadow
          /\ ret[p] # "set_group"
          /\ g.pwd \in Password \/ Named(gshadow, g.name) = {}
        BY <1>3, <1>10 DEF ModifyGroup, Then, GroupReady, Control, g
    <2>2. PICK step \in {"gshadow_mod", "true"} : pc' = [pc EXCEPT ![p] = step]
        BY <1>10 DEF ModifyGroup, Then, GoTo
    <2>3. PICK e \in group : e.name = g.name /\ e.gid = g.gid
        BY <1>3, <1>10 DEF ModifyGroup, Then, GroupReady, g
    <2>4. /\ GetGroup(g) = {e}
        <3>1. g.gid # None /\ g.name # None
            BY <1>4, AccountAssumption
        <3>2. QED
            BY <1>3, <2>3, <3>1 DEF GetGroup, NamesAndIdsUnique, Unique
    <2>5. group' = (group \ {e}) \cup {EntryOf(g)}
        BY <2>1, <2>4
    <2>6. FilesTypeOK'
        BY <1>1, <1>3, <1>5, <2>1 DEF FilesTypeOK
    <2>7. NamesAndIdsUnique'
        BY <1>1, <1>3, <1>5, <2>1, <2>3, <2>5 DEF NamesAndIdsUnique, Unique
    <2>8. PrimaryGroupExists'
        BY <1>1, <1>3, <1>5, <2>3, <2>5 DEF PrimaryGroupExists
    <2>9. GroupReady(obj[p], step)' /\ GroupMade(obj[p], step, ret[p])'
        BY <1>1, <1>4, <2>1, <2>2 DEF GroupReady, GroupMade, g, Named
    <2>10. QED
        BY <2>1, <2>2, <2>6, <2>7, <2>8, <2>9 DEF GroupFilesKept, GroupSteps, Results
<1>11. CASE ModifyGshadow(p)
    <2>1. /\ group' = group /\ ret[p] # "set_group"
          /\ \/ gshadow' = gshadow
             \/ /\ g.pwd \in Password
                /\ gshadow' = (gshadow \ Named(gshadow, g.name)) \cup {GshadowOf(g)}
        BY <1>3, <1>11 DEF ModifyGshadow, Then, GroupReady, Control, g
    <2>2. PICK step \in {"true", "false"} : pc' = [pc EXCEPT ![p] = step]
        BY <1>11 DEF ModifyGshadow, Then, GoTo
    <2>3. FilesTypeOK' /\ PrimaryGroupExists'
        BY <1>1, <1>3, <1>5, <2>1 DEF FilesTypeOK, PrimaryGroupExists
    <2>4. NamesAndIdsUnique'
        BY <1>1, <1>3, <1>5, <2>1 DEF NamesAndIdsUnique, Unique, Named
    <2>5. GroupReady(obj[p], step)' /\ GroupMade(obj[p], step, ret[p])'
        BY <1>1, <2>1, <2>2 DEF GroupReady, GroupMade, GroupSteps
    <2>6. QED
        BY <2>1, <2>2, <2>3, <2>4, <2>5 DEF GroupFilesKept, GroupSteps, Results
<1>12. CASE GroupUpdateFails(p)
    <2>1. UNCHANGED <<group, gshadow>> /\ pc' = [pc EXCEPT ![p] = "false"]
        BY <1>12 DEF GroupUpdateFails, UpdateFails, GoTo
    <2>2. FilesTypeOK' /\ NamesAndIdsUnique' /\ PrimaryGroupExists'
        BY <1>1, <1>3, <2>1
           DEF FilesTypeOK, NamesAndIdsUnique, Unique, PrimaryGroupExists
    <2>3. GroupReady(obj[p], "false")' /\ GroupMade(obj[p], "false", ret[p])'
        BY DEF GroupReady, GroupMade, GroupSteps
    <2>4. QED
        BY <2>1, <2>2, <2>3 DEF GroupFilesKept, Results
<1>13. QED
    BY <1>6, <1>7, <1>8, <1>9, <1>10, <1>11, <1>12 DEF UpdateGroupFiles

LEMMA UpdateGroupFilesStep ==
    ASSUME AccountsInv, NEW p \in Proc, UpdateGroupFiles(p), UNCHANGED userVars
    PROVE  AccountsInv'
<1>1. GroupFilesKept(p)
    BY GroupFilesStep
<1>2. PICK step \in GroupSteps \cup Results :
         /\ pc' = [pc EXCEPT ![p] = step]
         /\ GroupReady(obj[p], step)'
         /\ GroupMade(obj[p], step, ret[p])'
         /\ ret[p] = "set_group" => step \in {"gshadow_add", "true", "false"}
    BY <1>1 DEF GroupFilesKept
<1>3. UNCHANGED <<passwd, shadow, holder, call, ret, grp, obj, userVars>>
    BY DEF UpdateGroupFiles
<1>4. pc[p] \in GroupSteps /\ pc[p] # "idle"
    BY DEF UpdateGroupFiles, AddToGroup, AddToGshadow, DeleteFromGroup,
           DeleteFromGshadow, ModifyGroup, ModifyGshadow, GroupUpdateFails,
           UpdateFails, Then, GroupSteps
<1>5. holder' = p
    BY <1>3, <1>4 DEF AccountsInv, OneAtWork
<1>6. TypeOK' /\ NamesAndIdsUnique' /\ PrimaryGroupExists'
    BY <1>1, <1>2, <1>3 DEF GroupFilesKept, AccountsInv, TypeOK, GroupTypeOK,
       UserTypeOK, userVars
<1>7. pc'[p] = step
    BY <1>2 DEF AccountsInv, TypeOK, GroupTypeOK
<1>8. Ready(p)'
    <2>1. Ready(p)
        BY DEF AccountsInv
    <2>2. UserReady(usr[p], pc[p], ret[p])'
        BY <1>3, <1>4, <1>7, <2>1 DEF Ready, UserReady, GroupSteps, UserSteps,
           Results, Names, Uids, userVars
    <2>3. Control(p)' /\ OwnGroup(p)'
        BY <1>2, <1>3, <1>4, <1>7, <2>1 DEF Ready, Control, OwnGroup, GroupSteps,
           UserSteps, Results
    <2>4. GroupReady(obj[p], pc[p])' /\ GroupMade(obj[p], pc[p], ret[p])'
        BY <1>2, <1>7
    <2>5. QED
        BY <2>2, <2>3, <2>4 DEF Ready
<1>9. Frame(p)
    BY <1>2, <1>3, <1>4, <1>5 DEF Frame, AccountsInv, TypeOK, GroupTypeOK
<1>10. QED
    BY <1>6, <1>8, <1>9, OthersStayReady

LEMMA StripMembershipStep ==
    ASSUME AccountsInv, NEW p \in Proc, StripMembership(p, usr[p].name),
           UNCHANGED userVars
    PROVE  AccountsInv'
<1> DEFINE name == usr[p].name
<1>1. UNCHANGED <<passwd, shadow, holder, call, ret, grp, obj, userVars>>
    BY DEF StripMembership
<1>2. /\ pc[p] \in {"strip_group", "strip_gshadow"}
      /\ \E step \in {"strip_gshadow", "home_del", "false"} :
            pc' = [pc EXCEPT ![p] = step]
    BY DEF StripMembership, StripGroup, StripGshadow, Then, GoTo, UpdateFails
<1>3. PICK step \in {"strip_gshadow", "home_del", "false"} :
         pc' = [pc EXCEPT ![p] = step]
    BY <1>2
<1>4. pc'[p] = step
    BY <1>3 DEF AccountsInv, TypeOK, GroupTypeOK
<1>5. holder' = p
    BY <1>1, <1>2 DEF AccountsInv, OneAtWork
<1> DEFINE inGroup(e) == [e EXCEPT !.mem = @ \ {name}]
           inGshadow(e) == [e EXCEPT !.mem = @ \ {name}, !.adm = @ \ {name}]
<1>6. group' = group \/ group' = {inGroup(e) : e \in group}
    BY DEF StripMembership, StripGroup, StripGshadow
<1>7. gshadow' = gshadow \/ gshadow' = {inGshadow(e) : e \in gshadow}
    BY DEF StripMembership, StripGroup, StripGshadow
<1>8. FilesTypeOK /\ NamesAndIdsUnique /\ PrimaryGroupExists
    BY DEF AccountsInv, TypeOK
<1> HIDE DEF name
<1>9. \A e \in group : /\ inGroup(e) \in GroupEntry
                       /\ inGroup(e).name = e.name /\ inGroup(e).gid = e.gid
    BY <1>8 DEF FilesTypeOK, GroupEntry
<1>10. \A e \in gshadow : /\ inGshadow(e) \in GshadowEntry
                          /\ inGshadow(e).name = e.name
    <2>1. \A e \in GshadowEntry : inGshadow(e) \in GshadowEntry
        BY DEF GshadowEntry
    <2>2. \A e \in GshadowEntry : inGshadow(e).name = e.name
        BY DEF GshadowEntry
    <2>3. QED
        BY <1>8, <2>1, <2>2 DEF FilesTypeOK
<1> HIDE DEF inGroup, inGshadow
<1>11. group' \subseteq GroupEntry /\ gshadow' \subseteq GshadowEntry
    BY <1>6, <1>7, <1>8, <1>9, <1>10 DEF FilesTypeOK
<1>12. Unique(group)' /\ (\A g, h \in group : g.gid = h.gid => g = h)'
    BY <1>6, <1>8, <1>9 DEF NamesAndIdsUnique, Unique
<1>13. Unique(gshadow)'
    BY <1>7, <1>8, <1>10 DEF NamesAndIdsUnique, Unique
<1>14. PrimaryGroupExists'
    BY <1>1, <1>6, <1>8, <1>9 DEF PrimaryGroupExists
<1>15. NamesAndIdsUnique'
    BY <1>1, <1>8, <1>12, <1>13 DEF NamesAndIdsUnique, Unique
<1>16. TypeOK'
    BY <1>1, <1>3, <1>11 DEF AccountsInv, TypeOK, FilesTypeOK, GroupTypeOK,
       UserTypeOK, userVars, UserSteps, Results
<1>17. Ready(p)'
    <2>1. Ready(p)
        BY DEF AccountsInv
    <2>2. ret[p] = "caller"
        BY <1>2, <2>1 DEF Ready, Control, GroupSteps, Results
    <2>3. UserReady(usr[p], pc[p], ret[p])'
        BY <1>1, <1>2, <1>4, <2>1, <2>2 DEF Ready, UserReady, UserSteps, userVars
    <2>4. Control(p)' /\ OwnGroup(p)'
        BY <1>1, <1>2, <1>4, <2>1, <2>2 DEF Ready, Control, OwnGroup, GroupSteps,
           UserSteps, Results
    <2>5. GroupReady(obj[p], pc[p])' /\ GroupMade(obj[p], pc[p], ret[p])'
        BY <1>1, <1>4, <2>2 DEF GroupReady, GroupMade, GroupSteps
    <2>6. QED
        BY <2>3, <2>4, <2>5 DEF Ready
<1>18. Frame(p)
    BY <1>1, <1>2, <1>3, <1>5 DEF Frame, AccountsInv, TypeOK, GroupTypeOK
<1>19. QED
    BY <1>14, <1>15, <1>16, <1>17, <1>18, OthersStayReady

LEMMA GroupReturnsStep ==
    ASSUME AccountsInv, NEW p \in Proc, GroupReturns(p), UNCHANGED <<files, userVars>>
    PROVE  AccountsInv'
<1>1. /\ pc[p] \in Results /\ call[p] \in GroupCalls
      /\ holder' = NoProc
      /\ call' = [call EXCEPT ![p] = "none"]
      /\ pc' = [pc EXCEPT ![p] = "idle"]
      /\ grp' = [grp EXCEPT ![p] = obj[p]]
      /\ obj' = [obj EXCEPT ![p] = None]
      /\ ret' = ret
    BY DEF GroupReturns, End, GoTo
<1>2. Ready(p)
    BY DEF AccountsInv
<1>3. obj[p] \in GroupObject /\ obj[p].name \in GroupName /\ ret[p] = "caller"
    BY <1>1, <1>2 DEF Ready, OwnGroup, Control, UserCalls, GroupCalls
<1>4. TypeOK' /\ NamesAndIdsUnique' /\ PrimaryGroupExists'
    BY <1>1, <1>3 DEF AccountsInv, TypeOK, FilesTypeOK, GroupTypeOK, UserTypeOK,
       NamesAndIdsUnique, Unique, PrimaryGroupExists, files, userVars
<1>5. /\ pc'[p] = "idle" /\ call'[p] = "none" /\ ret'[p] = "caller"
      /\ grp'[p].name \in GroupName
    BY <1>1, <1>3 DEF AccountsInv, TypeOK, GroupTypeOK
<1>6. Ready(p)'
    BY <1>5 DEF Ready, Control, OwnGroup, UserReady, GroupReady, GroupMade,
       GroupSteps, UserSteps, GroupCalls
<1>7. Frame(p)
    BY <1>1 DEF Frame, AccountsInv, TypeOK, GroupTypeOK, Results
<1>8. QED
    BY <1>4, <1>6, <1>7, OthersStayReady

LEMMA DieStep ==
    ASSUME AccountsInv, NEW p \in Proc, Die(p)
    PROVE  AccountsInv'
<1>1. /\ pc[p] # "idle" /\ holder' = NoProc
      /\ call' = [call EXCEPT ![p] = "none"]
      /\ pc' = [pc EXCEPT ![p] = "idle"]
      /\ ret' = [ret EXCEPT ![p] = "caller"]
      /\ grp' = [grp EXCEPT ![p] = None]
      /\ obj' = [obj EXCEPT ![p] = None]
      /\ usr' = [usr EXCEPT ![p] = None]
      /\ todo' = [todo EXCEPT ![p] = <<>>]
      /\ UNCHANGED <<files, userinfo, homes>>
    BY DEF Die, GoTo, SetUser
<1>2. TypeOK' /\ NamesAndIdsUnique' /\ PrimaryGroupExists'
    BY <1>1 DEF AccountsInv, TypeOK, FilesTypeOK, GroupTypeOK, UserTypeOK,
       NamesAndIdsUnique, Unique, PrimaryGroupExists, files
<1>3. /\ pc'[p] = "idle" /\ call'[p] = "none" /\ ret'[p] = "caller"
      /\ grp'[p] = None
    BY <1>1 DEF AccountsInv, TypeOK, GroupTypeOK
<1>4. Ready(p)'
    BY <1>3 DEF Ready, Control, OwnGroup, UserReady, GroupReady, GroupMade,
       GroupSteps, UserSteps, GroupCalls
<1>5. Frame(p)
    BY <1>1 DEF Frame, AccountsInv, TypeOK, GroupTypeOK
<1>6. QED
    BY <1>2, <1>4, <1>5, OthersStayReady

-----------------------------------------------------------------------------
(***************************************************************************)
(* The steps of a user operation that call no group operation.             *)
(***************************************************************************)
UserFilesKept(p) ==
    /\ FilesTypeOK' /\ UserTypeOK' /\ NamesAndIdsUnique' /\ PrimaryGroupExists'
    /\ \E u \in UserObject, step \in UserSteps \cup Results :
          /\ usr' = [usr EXCEPT ![p] = u]
          /\ pc' = [pc EXCEPT ![p] = step]
          /\ UserReady(u, step, "caller")'

LEMMA UserFilesStep ==
    ASSUME AccountsInv, NEW p \in Proc, pc[p] \in UserSteps, UserFilesKept(p),
           UNCHANGED <<holder, call, ret, grp, obj>>
    PROVE  AccountsInv'
<1>1. PICK u \in UserObject, step \in UserSteps \cup Results :
         /\ usr' = [usr EXCEPT ![p] = u]
         /\ pc' = [pc EXCEPT ![p] = step]
         /\ UserReady(u, step, "caller")'
    BY DEF UserFilesKept
<1>2. TypeOK' /\ NamesAndIdsUnique' /\ PrimaryGroupExists'
    BY <1>1 DEF UserFilesKept, AccountsInv, TypeOK, GroupTypeOK
<1>3. pc'[p] = step /\ usr'[p] = u
    BY <1>1 DEF AccountsInv, TypeOK, GroupTypeOK, UserTypeOK
<1>4. Ready(p)
    BY DEF AccountsInv
<1>5. ret[p] = "caller" /\ pc[p] # "idle"
    BY <1>4 DEF Ready, Control, GroupSteps, Results, UserSteps
<1>6. Ready(p)'
    <2>1. UserReady(usr[p], pc[p], ret[p])'
        BY <1>1, <1>3, <1>5
    <2>2. Control(p)' /\ OwnGroup(p)'
        BY <1>3, <1>4, <1>5 DEF Ready, Control, OwnGroup, UserSteps, Results
    <2>3. GroupReady(obj[p], pc[p])' /\ GroupMade(obj[p], pc[p], ret[p])'
        BY <1>3, <1>5 DEF GroupReady, GroupMade, GroupSteps, UserSteps, Results
    <2>4. QED
        BY <2>1, <2>2, <2>3 DEF Ready
<1>7. Frame(p)
    BY <1>1, <1>5 DEF Frame, AccountsInv, OneAtWork, TypeOK, GroupTypeOK
<1>8. QED
    BY <1>2, <1>6, <1>7, OthersStayReady

\* What holds of the user object while its operation is at a step of its own.
LEMMA UserAtWork ==
    ASSUME AccountsInv, NEW p \in Proc, pc[p] \in UserSteps
    PROVE  /\ usr[p] \in UserObject /\ usr[p].uid \in Nat /\ usr[p].name \in UserName
           /\ UserReady(usr[p], pc[p], "caller")
           /\ usr = [usr EXCEPT ![p] = usr[p]]
<1>1. Ready(p) /\ TypeOK
    BY DEF AccountsInv
<1>2. ret[p] = "caller"
    BY <1>1 DEF Ready, Control, GroupSteps, Results, UserSteps
<1>3. UserReady(usr[p], pc[p], "caller")
    BY <1>1, <1>2 DEF Ready
<1>4. QED
    BY <1>1, <1>3 DEF UserReady, UserObject, TypeOK, UserTypeOK

LEMMA SetGroupFoundStep ==
    ASSUME AccountsInv, NEW p \in Proc, pc[p] = "set_group",
           NEW g \in Named(group, PrimaryGroup),
           SetUser(p, [usr[p] EXCEPT !.gid = g.gid]), GoTo(p, "set_shadow"),
           UNCHANGED <<files, holder, call, ret, grp, obj, todo, userinfo, homes>>
    PROVE  AccountsInv'
<1>0. PICK u : u = [usr[p] EXCEPT !.gid = g.gid]
    OBVIOUS
<1>1. /\ usr[p] \in UserObject /\ usr[p].uid \in Nat
      /\ UserReady(usr[p], "set_group", "caller")
    BY UserAtWork DEF UserSteps
<1>2. g \in group /\ g.gid \in Nat
    BY DEF Named, AccountsInv, TypeOK, FilesTypeOK, GroupEntry
<1>3. /\ u \in UserObject /\ u.name = usr[p].name /\ u.uid = usr[p].uid
      /\ u.gid = g.gid
    BY <1>0, <1>1, <1>2 DEF UserObject
<1>4. usr' = [usr EXCEPT ![p] = u] /\ pc' = [pc EXCEPT ![p] = "set_shadow"]
    BY <1>0 DEF SetUser, GoTo
<1>5. UserReady(u, "set_shadow", "caller")'
    BY <1>1, <1>2, <1>3 DEF UserReady, UserSteps, Names, Uids, Gids, files
<1>6. FilesTypeOK' /\ UserTypeOK' /\ NamesAndIdsUnique' /\ PrimaryGroupExists'
    BY <1>3, <1>4 DEF AccountsInv, TypeOK, FilesTypeOK, UserTypeOK, NamesAndIdsUnique,
       Unique, PrimaryGroupExists, files
<1>7. UserFilesKept(p)
    BY <1>3, <1>4, <1>5, <1>6 DEF UserFilesKept, UserSteps
<1>8. QED
    BY <1>7, UserFilesStep DEF UserSteps

LEMMA SetShadowStep ==
    ASSUME AccountsInv, NEW p \in Proc, SetShadow(p),
           UNCHANGED <<files, holder, call, grp, todo, userinfo, homes>>
    PROVE  AccountsInv'
<1>1. PICK s \in SecretSet(usr[p]) :
         /\ usr' = [usr EXCEPT ![p] = s]
         /\ pc' = [pc EXCEPT ![p] = IF s.pwd = None THEN "false" ELSE "passwd_add"]
    BY DEF SetShadow, SetUser, GoTo
<1>2. pc[p] = "set_shadow" /\ UNCHANGED <<ret, obj>>
    BY DEF SetShadow
<1>3. /\ usr[p] \in UserObject /\ usr[p].uid \in Nat
      /\ UserReady(usr[p], "set_shadow", "caller")
    BY <1>2, UserAtWork DEF UserSteps
<1>4. /\ s \in UserObject
      /\ s.name = usr[p].name /\ s.uid = usr[p].uid /\ s.gid = usr[p].gid
    BY <1>3, UserSecretSet
<1> DEFINE step == IF s.pwd = None THEN "false" ELSE "passwd_add"
<1>5. step \in UserSteps \cup Results
    BY DEF UserSteps, Results
<1>6. UserReady(s, step, "caller")'
    <2>1. CASE s.pwd = None
        BY <2>1 DEF UserReady, UserSteps
    <2>2. CASE s.pwd # None
        <3>1. s.pwd \in Password
            BY <1>4, <2>2 DEF UserObject
        <3>2. QED
            BY <1>3, <1>4, <2>2, <3>1 DEF UserReady, Names, Uids, Gids, files
    <2>3. QED
        BY <2>1, <2>2
<1>7. FilesTypeOK' /\ UserTypeOK' /\ NamesAndIdsUnique' /\ PrimaryGroupExists'
    BY <1>1, <1>4 DEF AccountsInv, TypeOK, FilesTypeOK, UserTypeOK, NamesAndIdsUnique,
       Unique, PrimaryGroupExists, files
<1>8. UserFilesKept(p)
    BY <1>1, <1>4, <1>5, <1>6, <1>7 DEF UserFilesKept
<1>9. QED
    BY <1>2, <1>8, UserFilesStep DEF UserSteps

\* A step that leaves the object alone: what remains to be shown of it.
LEMMA SameUserStep ==
    ASSUME AccountsInv, NEW p \in Proc, pc[p] \in UserSteps,
           UNCHANGED <<group, gshadow, holder, call, ret, grp, usr, obj>>,
           passwd' \subseteq PasswdEntry, shadow' \subseteq ShadowEntry,
           Unique(passwd)', Unique(shadow)',
           (\A u, v \in passwd : u.uid = v.uid => u = v)', PrimaryGroupExists',
           todo' \in [Proc -> Seq(GroupName)], userinfo' \subseteq Nat,
           homes' \in [UserName -> Nat \cup {None}],
           NEW step \in (UserSteps \cup Results)
                           \ {"set_group", "set_shadow", "passwd_add", "passwd_mod"},
           GoTo(p, step),
           step \in {"shadow_add", "shadow_mod"} => usr[p].pwd \in Password
    PROVE  AccountsInv'
<1>1. PICK u : u = usr[p]
    OBVIOUS
<1>2. /\ u \in UserObject /\ u.uid \in Nat
      /\ usr' = [usr EXCEPT ![p] = u]
    BY <1>1, UserAtWork
<1>3. pc' = [pc EXCEPT ![p] = step]
    BY DEF GoTo
<1>4. UserReady(u, step, "caller")'
    BY <1>1, <1>2 DEF UserReady
<1>5. FilesTypeOK' /\ UserTypeOK' /\ NamesAndIdsUnique'
    BY DEF AccountsInv, TypeOK, FilesTypeOK, UserTypeOK, NamesAndIdsUnique, Unique
<1>6. UserFilesKept(p)
    BY <1>2, <1>3, <1>4, <1>5 DEF UserFilesKept
<1>7. QED
    BY <1>6, UserFilesStep

LEMMA PasswdAddStep ==
    ASSUME AccountsInv, NEW p \in Proc, PasswdAdd(p),
           UNCHANGED <<group, gshadow, holder, call, ret, grp, usr, obj>>
    PROVE  AccountsInv'
<1>1. /\ pc[p] = "passwd_add" /\ GoTo(p, "shadow_add")
      /\ passwd' = passwd \cup {PasswdOf(usr[p])}
      /\ UNCHANGED <<shadow, todo, userinfo, homes>>
    BY DEF PasswdAdd, Then
<1>2. /\ usr[p] \in UserObject /\ usr[p].uid \in Nat
      /\ UserReady(usr[p], "passwd_add", "caller")
    BY <1>1, UserAtWork DEF UserSteps
<1>3. /\ usr[p].name \notin Names(passwd) /\ usr[p].uid \notin Uids
      /\ usr[p].gid \in Gids /\ usr[p].pwd \in Password
    BY <1>2 DEF UserReady
<1>4. FilesTypeOK /\ UserTypeOK /\ NamesAndIdsUnique /\ PrimaryGroupExists
    BY DEF AccountsInv, TypeOK
<1>5. usr[p].gid \in Nat
    BY <1>3, <1>4 DEF Gids, FilesTypeOK, GroupEntry
<1>6. /\ PasswdOf(usr[p]) \in PasswdEntry
      /\ PasswdOf(usr[p]).name = usr[p].name
      /\ PasswdOf(usr[p]).uid = usr[p].uid /\ PasswdOf(usr[p]).gid = usr[p].gid
    BY <1>2, <1>5 DEF PasswdOf, PasswdEntry, UserObject
<1>7. passwd' \subseteq PasswdEntry
    BY <1>1, <1>4, <1>6 DEF FilesTypeOK
<1>8. Unique(passwd)' /\ (\A u, v \in passwd : u.uid = v.uid => u = v)'
    BY <1>1, <1>3, <1>4, <1>6 DEF NamesAndIdsUnique, Unique, Names, Uids
<1>9. PrimaryGroupExists'
    BY <1>1, <1>3, <1>4, <1>6 DEF PrimaryGroupExists, Gids
<1>10. QED
    BY <1>1, <1>3, <1>4, <1>7, <1>8, <1>9, SameUserStep
       DEF UserSteps, FilesTypeOK, UserTypeOK, NamesAndIdsUnique, Unique

LEMMA ShadowAddStep ==
    ASSUME AccountsInv, NEW p \in Proc, ShadowAdd(p),
           UNCHANGED <<group, gshadow, holder, call, ret, grp, usr, obj>>
    PROVE  AccountsInv'
<1>1. PICK step \in {"false", "userinfo_add"} : GoTo(p, step)
    BY DEF ShadowAdd, Then
<1>2. /\ pc[p] = "shadow_add"
      /\ UNCHANGED <<passwd, todo, userinfo, homes>>
      /\ \/ shadow' = shadow
         \/ /\ Named(shadow, usr[p].name) = {}
            /\ shadow' = shadow \cup {ShadowOf(usr[p])}
    BY DEF ShadowAdd, Then
<1>3. /\ usr[p] \in UserObject /\ usr[p].pwd \in Password
    BY <1>2, UserAtWork DEF UserSteps, UserReady
<1>4. FilesTypeOK /\ UserTypeOK /\ NamesAndIdsUnique /\ PrimaryGroupExists
    BY DEF AccountsInv, TypeOK
<1>5. ShadowOf(usr[p]) \in ShadowEntry /\ ShadowOf(usr[p]).name = usr[p].name
    BY <1>3 DEF ShadowOf, ShadowEntry, UserObject
<1>6. shadow' \subseteq ShadowEntry
    BY <1>2, <1>4, <1>5 DEF FilesTypeOK
<1>7. Unique(shadow)'
    BY <1>2, <1>4, <1>5 DEF NamesAndIdsUnique, Unique, Named
<1>8. /\ passwd' \subseteq PasswdEntry /\ Unique(passwd)'
      /\ (\A u, v \in passwd : u.uid = v.uid => u = v)' /\ PrimaryGroupExists'
    BY <1>2, <1>4 DEF NamesAndIdsUnique, Unique, PrimaryGroupExists, FilesTypeOK
<1>9. QED
    BY <1>1, <1>2, <1>4, <1>6, <1>7, <1>8, SameUserStep
       DEF UserSteps, Results, UserTypeOK

\* Steps that leave passwd and shadow alone as well.
LEMMA SameFilesStep ==
    ASSUME AccountsInv, NEW p \in Proc, pc[p] \in UserSteps,
           UNCHANGED <<files, holder, call, ret, grp, usr, obj>>,
           todo' \in [Proc -> Seq(GroupName)], userinfo' \subseteq Nat,
           homes' \in [UserName -> Nat \cup {None}],
           NEW step \in (UserSteps \cup Results)
                           \ {"set_group", "set_shadow", "passwd_add", "passwd_mod",
                              "shadow_add", "shadow_mod"},
           GoTo(p, step)
    PROVE  AccountsInv'
<1>1. FilesTypeOK /\ NamesAndIdsUnique /\ PrimaryGroupExists
    BY DEF AccountsInv, TypeOK
<1>2. /\ passwd' \subseteq PasswdEntry /\ shadow' \subseteq ShadowEntry
      /\ Unique(passwd)' /\ Unique(shadow)'
      /\ (\A u, v \in passwd : u.uid = v.uid => u = v)' /\ PrimaryGroupExists'
    BY <1>1 DEF NamesAndIdsUnique, Unique, PrimaryGroupExists, FilesTypeOK, files
<1>3. QED
    BY <1>2, SameUserStep DEF files

LEMMA UserinfoAddStep ==
    ASSUME AccountsInv, NEW p \in Proc, UserinfoAdd(p),
           UNCHANGED <<group, gshadow, holder, call, ret, grp, usr, obj>>
    PROVE  AccountsInv'
<1>1. /\ pc[p] = "userinfo_add" /\ GoTo(p, "def_groups")
      /\ todo' = [todo EXCEPT ![p] = DefaultGroups(usr[p].type)]
      /\ userinfo' \in {userinfo, userinfo \cup {usr[p].uid}}
      /\ UNCHANGED <<files, homes>>
    BY DEF UserinfoAdd, Then, files
<1>2. usr[p].uid \in Nat
    BY <1>1, UserAtWork DEF UserSteps
<1>3. DefaultGroups(usr[p].type) \in Seq(GroupName)
    BY AccountAssumption DEF DefaultGroups
<1>4. /\ todo' \in [Proc -> Seq(GroupName)] /\ userinfo' \subseteq Nat
      /\ homes' \in [UserName -> Nat \cup {None}]
    BY <1>1, <1>2, <1>3 DEF AccountsInv, TypeOK, UserTypeOK
<1>5. QED
    BY <1>1, <1>4, SameFilesStep DEF UserSteps, Results

LEMMA HomeStep ==
    ASSUME AccountsInv, NEW p \in Proc,
           \/ HomeAdd(p) /\ UNCHANGED <<ret, usr, obj>>
           \/ HomeDel(p),
           UNCHANGED <<group, gshadow, holder, call, grp>>
    PROVE  AccountsInv'
<1>1. PICK step \in Results : GoTo(p, step)
    BY DEF HomeAdd, HomeDel, Results
<1>2. /\ pc[p] \in UserSteps
      /\ UNCHANGED <<files, ret, usr, obj, todo, userinfo>>
    BY DEF HomeAdd, HomeDel, UserSteps, files
<1>3. usr[p].uid \in Nat /\ usr[p].name \in UserName
    BY <1>2, UserAtWork
<1>4. \E owner \in Nat \cup {None} :
         homes' \in {homes, [homes EXCEPT ![usr[p].name] = owner]}
    BY <1>3 DEF HomeAdd, HomeDel, Root
<1>5. /\ todo' \in [Proc -> Seq(GroupName)] /\ userinfo' \subseteq Nat
      /\ homes' \in [UserName -> Nat \cup {None}]
    BY <1>2, <1>4 DEF AccountsInv, TypeOK, UserTypeOK
<1>6. QED
    BY <1>1, <1>2, <1>5, SameFilesStep DEF UserSteps, Results

LEMMA LockedShadow ==
    ASSUME FilesTypeOK, Unique(shadow), NEW name, NEW lock \in BOOLEAN
    PROVE  /\ WithLocked(name, lock) \subseteq ShadowEntry
           /\ Unique(WithLocked(name, lock))
<1> DEFINE changed(s) ==
      IF s.name = name THEN [s EXCEPT !.pwd = SetLocked(lock, @)] ELSE s
<1>1. \A s \in shadow : changed(s) \in ShadowEntry /\ changed(s).name = s.name
    BY PasswordTypes DEF FilesTypeOK, ShadowEntry
<1>2. WithLocked(name, lock) = {changed(s) : s \in shadow}
    BY DEF WithLocked
<1> HIDE DEF changed
<1>3. QED
    BY <1>1, <1>2 DEF Unique

LEMMA DeleteFromFilesStep ==
    ASSUME AccountsInv, NEW p \in Proc, DeleteFromFiles(p),
           UNCHANGED <<group, gshadow, holder, call, grp>>
    PROVE  AccountsInv'
<1>1. UNCHANGED <<ret, usr, obj, todo, homes>> /\ pc[p] \in UserSteps
    BY DEF DeleteFromFiles, LockPassword, TerminateUser, UnlockPassword, UserinfoDel,
           PasswdDel, ShadowDel, DeleteUpdateFails, Then, UserSteps
<1>2. PICK step \in {"terminate", "userinfo_del", "unlock_pwd", "false", "passwd_del",
                     "shadow_del", "del_group"} : GoTo(p, step)
    BY DEF DeleteFromFiles, LockPassword, TerminateUser, UnlockPassword, UserinfoDel,
           PasswdDel, ShadowDel, DeleteUpdateFails, Then
<1>3. /\ passwd' \subseteq passwd
      /\ \/ shadow' \subseteq shadow
         \/ \E lock \in BOOLEAN : shadow' = WithLocked(usr[p].name, lock)
      /\ userinfo' \subseteq userinfo
    BY DEF DeleteFromFiles, LockPassword, TerminateUser, UnlockPassword, UserinfoDel,
           PasswdDel, ShadowDel, DeleteUpdateFails
<1>4. FilesTypeOK /\ UserTypeOK /\ NamesAndIdsUnique /\ PrimaryGroupExists
    BY DEF AccountsInv, TypeOK
<1>5. /\ passwd' \subseteq PasswdEntry /\ Unique(passwd)'
      /\ (\A u, v \in passwd : u.uid = v.uid => u = v)' /\ PrimaryGroupExists'
    BY <1>3, <1>4 DEF FilesTypeOK, NamesAndIdsUnique, Unique, PrimaryGroupExists
<1>6. shadow' \subseteq ShadowEntry /\ Unique(shadow)'
    <2>1. CASE shadow' \subseteq shadow
        BY <1>4, <2>1 DEF FilesTypeOK, NamesAndIdsUnique, Unique
    <2>2. ASSUME NEW lock \in BOOLEAN, shadow' = WithLocked(usr[p].name, lock)
          PROVE  shadow' \subseteq ShadowEntry /\ Unique(shadow)'
        <3>1. PICK name : name = usr[p].name
            OBVIOUS
        <3>2. /\ WithLocked(name, lock) \subseteq ShadowEntry
              /\ Unique(WithLocked(name, lock))
            BY <1>4, LockedShadow DEF NamesAndIdsUnique
        <3>3. QED
            BY <2>2, <3>1, <3>2 DEF Unique
    <2>3. QED
        BY <1>3, <2>1, <2>2
<1>7. /\ todo' \in [Proc -> Seq(GroupName)] /\ userinfo' \subseteq Nat
      /\ homes' \in [UserName -> Nat \cup {None}]
    BY <1>1, <1>3, <1>4 DEF UserTypeOK
<1>8. QED
    BY <1>1, <1>2, <1>5, <1>6, <1>7, SameUserStep DEF UserSteps, Results

LEMMA ModifyUserStep ==
    ASSUME AccountsInv, NEW p \in Proc, ModifyUser(p),
           UNCHANGED <<group, gshadow, holder, call, grp>>
    PROVE  AccountsInv'
<1> DEFINE u == usr[p]
<1>1. FilesTypeOK /\ UserTypeOK /\ NamesAndIdsUnique /\ PrimaryGroupExists
    BY DEF AccountsInv, TypeOK
<1>2. UNCHANGED <<ret, usr, obj, todo, userinfo, homes>>
    BY DEF ModifyUser
<1>3. CASE PasswdMod(p)
    <2>1. /\ pc[p] = "passwd_mod" /\ GoTo(p, "shadow_mod") /\ shadow' = shadow
          /\ passwd' = (passwd \ {e \in passwd : /\ e.name = u.name /\ e.uid = u.uid
                                                 /\ e.gid = u.gid})
                          \cup {PasswdOf(u)}
        BY <1>3 DEF PasswdMod, Then
    <2>2. /\ u \in UserObject /\ u.uid \in Nat /\ UserReady(u, "passwd_mod", "caller")
        BY <2>1, UserAtWork DEF UserSteps
    <2>3. PICK e \in passwd : e.name = u.name /\ e.uid = u.uid /\ e.gid = u.gid
        BY <2>2 DEF UserReady
    <2>4. u.gid \in Nat /\ u.pwd \in Password
        BY <1>1, <2>2, <2>3 DEF FilesTypeOK, PasswdEntry, UserReady
    <2>5. /\ PasswdOf(u) \in PasswdEntry /\ PasswdOf(u).name = u.name
          /\ PasswdOf(u).uid = u.uid /\ PasswdOf(u).gid = u.gid
        BY <2>2, <2>4 DEF PasswdOf, PasswdEntry, UserObject
    <2> HIDE DEF u
    <2>6. passwd' = (passwd \ {e}) \cup {PasswdOf(u)}
        BY <1>1, <2>1, <2>3 DEF NamesAndIdsUnique, Unique
    <2>7. passwd' \subseteq PasswdEntry
        BY <1>1, <2>5, <2>6 DEF FilesTypeOK
    <2>8. Unique(passwd)' /\ (\A v, w \in passwd : v.uid = w.uid => v = w)'
        BY <1>1, <2>3, <2>5, <2>6 DEF NamesAndIdsUnique, Unique
    <2>9. PrimaryGroupExists'
        BY <1>1, <2>3, <2>5, <2>6 DEF PrimaryGroupExists
    <2>10. shadow' \subseteq ShadowEntry /\ Unique(shadow)'
        BY <1>1, <2>1 DEF FilesTypeOK, NamesAndIdsUnique, Unique
    <2>11. /\ todo' \in [Proc -> Seq(GroupName)] /\ userinfo' \subseteq Nat
           /\ homes' \in [UserName -> Nat \cup {None}]
        BY <1>1, <1>2 DEF UserTypeOK
    <2>12. "shadow_mod" \in (UserSteps \cup Results)
              \ {"set_group", "set_shadow", "passwd_add", "passwd_mod"}
        BY DEF UserSteps
    <2>13. pc[p] \in UserSteps
        BY <2>1 DEF UserSteps
    <2>14. QED
        BY <1>2, <2>1, <2>4, <2>7, <2>8, <2>9, <2>10, <2>11, <2>12, <2>13,
           SameUserStep DEF u
<1>4. CASE ShadowMod(p)
    <2>1. /\ pc[p] = "shadow_mod" /\ GoTo(p, "true") /\ passwd' = passwd
          /\ shadow' = (shadow \ Named(shadow, u.name)) \cup {ShadowOf(u)}
        BY <1>4 DEF ShadowMod, Then
    <2>2. u \in UserObject /\ u.pwd \in Password
        BY <2>1, UserAtWork DEF UserSteps, UserReady
    <2>3. ShadowOf(u) \in ShadowEntry /\ ShadowOf(u).name = u.name
        BY <2>2 DEF ShadowOf, ShadowEntry, UserObject
    <2> HIDE DEF u
    <2>4. shadow' \subseteq ShadowEntry /\ Unique(shadow)'
        BY <1>1, <2>1, <2>3 DEF FilesTypeOK, NamesAndIdsUnique, Unique, Named
    <2>5. /\ passwd' \subseteq PasswdEntry /\ Unique(passwd)'
          /\ (\A v, w \in passwd : v.uid = w.uid => v = w)' /\ PrimaryGroupExists'
        BY <1>1, <2>1 DEF FilesTypeOK, NamesAndIdsUnique, Unique, PrimaryGroupExists
    <2>6. /\ todo' \in [Proc -> Seq(GroupName)] /\ userinfo' \subseteq Nat
          /\ homes' \in [UserName -> Nat \cup {None}]
        BY <1>1, <1>2 DEF UserTypeOK
    <2>7. QED
        BY <1>2, <2>1, <2>4, <2>5, <2>6, SameUserStep DEF UserSteps, Results
<1>5. QED
    BY <1>3, <1>4 DEF ModifyUser

LEMMA UserUpdateFailsStep ==
    ASSUME AccountsInv, NEW p \in Proc, UserUpdateFails(p),
           UNCHANGED <<group, gshadow, holder, call, grp>>
    PROVE  AccountsInv'
<1>1. /\ pc[p] \in UserSteps /\ GoTo(p, "false")
      /\ UNCHANGED <<files, ret, usr, obj, todo, userinfo, homes>>
    BY DEF UserUpdateFails, UpdateFails, UserSteps, files
<1>2. /\ todo' \in [Proc -> Seq(GroupName)] /\ userinfo' \subseteq Nat
      /\ homes' \in [UserName -> Nat \cup {None}]
    BY <1>1 DEF AccountsInv, TypeOK, UserTypeOK
<1>3. QED
    BY <1>1, <1>2, SameFilesStep DEF UserSteps, Results

LEMMA UserReturnsStep ==
    ASSUME AccountsInv, NEW p \in Proc, UserReturns(p),
           UNCHANGED <<group, gshadow, grp>>
    PROVE  AccountsInv'
<1>1. /\ pc[p] \in Results /\ ret[p] = "caller"
      /\ holder' = NoProc
      /\ call' = [call EXCEPT ![p] = "none"]
      /\ pc' = [pc EXCEPT ![p] = "idle"]
      /\ UNCHANGED <<files, ret, grp, usr, obj, todo, userinfo, homes>>
    BY DEF UserReturns, End, GoTo, files
<1>2. TypeOK' /\ NamesAndIdsUnique' /\ PrimaryGroupExists'
    BY <1>1 DEF AccountsInv, TypeOK, FilesTypeOK, GroupTypeOK, UserTypeOK,
       NamesAndIdsUnique, Unique, PrimaryGroupExists, files
<1>3. pc'[p] = "idle" /\ call'[p] = "none" /\ ret'[p] = "caller" /\ grp'[p] = grp[p]
    BY <1>1 DEF AccountsInv, TypeOK, GroupTypeOK
<1>4. Ready(p)
    BY DEF AccountsInv
<1>5. Ready(p)'
    BY <1>3, <1>4 DEF Ready, Control, OwnGroup, UserReady, GroupReady, GroupMade,
       GroupSteps, UserSteps, GroupCalls
<1>6. Frame(p)
    BY <1>1 DEF Frame, AccountsInv, TypeOK, GroupTypeOK, Results
<1>7. QED
    BY <1>2, <1>5, <1>6, OthersStayReady

-----------------------------------------------------------------------------
(***************************************************************************)
(* A user operation calls a group operation, and goes on after it.         *)
(***************************************************************************)
LEMMA CallsGroupStep ==
    ASSUME AccountsInv, NEW p \in Proc, pc[p] \in UserSteps,
           UNCHANGED <<files, holder, call, grp, usr, userinfo, homes>>,
           todo' \in [Proc -> Seq(GroupName)],
           NEW back \in {"set_group", "def_groups", "del_group"},
           ret' = [ret EXCEPT ![p] = back],
           NEW g, NEW steps, steps \subseteq GroupSteps \cup Results,
           Started(p, g, steps),
           back = "set_group"
             => pc[p] = "set_group" /\ steps = {"group_add", "false"}
    PROVE  AccountsInv'
<1>1. PICK o \in GroupObject, step \in steps :
         /\ obj' = [obj EXCEPT ![p] = o]
         /\ pc' = [pc EXCEPT ![p] = step]
         /\ GroupReady(o, step)
    BY DEF Started
<1>2. TypeOK' /\ NamesAndIdsUnique' /\ PrimaryGroupExists'
    BY <1>1 DEF AccountsInv, TypeOK, FilesTypeOK, GroupTypeOK, UserTypeOK,
       NamesAndIdsUnique, Unique, PrimaryGroupExists, files
<1>3. pc'[p] = step /\ obj'[p] = o /\ ret'[p] = back
    BY <1>1 DEF AccountsInv, TypeOK, GroupTypeOK
<1>4. step \in GroupSteps \cup Results
    OBVIOUS
<1>5. Ready(p)
    BY DEF AccountsInv
<1>6. Ready(p)'
    <2>1. Control(p)'
        BY <1>1, <1>3, <1>4, <1>5 DEF Ready, Control, GroupSteps, UserSteps, Results
    <2>2. OwnGroup(p)'
        BY <1>5 DEF Ready, Control, OwnGroup, UserCalls, GroupCalls
    <2>3. /\ usr[p] \in UserObject /\ usr[p].uid \in Nat
          /\ UserReady(usr[p], pc[p], "caller")
        BY UserAtWork
    <2>4. UserReady(usr[p], pc[p], ret[p])'
        BY <1>3, <1>4, <2>3 DEF UserReady, GroupSteps, Results, Names, Uids, files
    <2>5. GroupReady(obj[p], pc[p])'
        BY <1>1, <1>3 DEF GroupReady, Names, Gids, Named, files
    <2>6. GroupMade(obj[p], pc[p], ret[p])'
        BY <1>3 DEF GroupMade
    <2>7. QED
        BY <2>1, <2>2, <2>4, <2>5, <2>6 DEF Ready
<1>7. pc[p] # "idle"
    BY DEF UserSteps
<1>8. Frame(p)
    BY <1>1, <1>7 DEF Frame, AccountsInv, OneAtWork, TypeOK, GroupTypeOK
<1>9. QED
    BY <1>2, <1>6, <1>8, OthersStayReady

LEMMA SetGroupStep ==
    ASSUME AccountsInv, NEW p \in Proc, SetGroup(p),
           UNCHANGED <<files, holder, call, grp, todo, userinfo, homes>>
    PROVE  AccountsInv'
<1> DEFINE name == IF PrimaryGroup = None THEN usr[p].name ELSE PrimaryGroup
           type == IF usr[p].type = "system" THEN "system" ELSE "user"
           g == [NewObject EXCEPT !.name = name, !.type = type]
<1>1. pc[p] = "set_group" /\ usr[p].name \in UserName /\ usr[p].uid \in Nat
    BY UserAtWork DEF SetGroup, UserSteps
<1>2. CASE \E h \in Named(group, PrimaryGroup) :
              /\ SetUser(p, [usr[p] EXCEPT !.gid = h.gid])
              /\ GoTo(p, "set_shadow")
              /\ UNCHANGED <<ret, obj>>
    BY <1>1, <1>2, SetGroupFoundStep
<1>3. CASE /\ StartAdd(p, g, usr[p].uid)
           /\ ret' = [ret EXCEPT ![p] = "set_group"]
           /\ UNCHANGED usr
    <2>1. name \in GroupName /\ type \in GroupType
        BY <1>1, AccountAssumption DEF GroupType
    <2>2. g \in GroupObject /\ g.name \in GroupName /\ g.type \in GroupType
        <3> HIDE DEF name, type
        <3>1. QED
            BY <2>1, NewObjectType DEF GroupObject
    <2> HIDE DEF g
    <2>3. Started(p, g, {"group_add", "false"})
        BY <1>1, <1>3, <2>2, StartAddReady DEF AccountsInv, TypeOK
    <2>4. todo' \in [Proc -> Seq(GroupName)]
        BY DEF AccountsInv, TypeOK, UserTypeOK
    <2>5. {"group_add", "false"} \subseteq GroupSteps \cup Results
        BY DEF GroupSteps, Results
    <2>6. pc[p] \in UserSteps
        BY <1>1 DEF UserSteps
    <2>7. QED
        BY <1>1, <1>3, <2>3, <2>4, <2>5, <2>6, CallsGroupStep
<1>4. QED
    BY <1>2, <1>3 DEF SetGroup

LEMMA DefaultGroupStep ==
    ASSUME AccountsInv, NEW p \in Proc, DefaultGroup(p),
           UNCHANGED <<files, holder, call, grp, userinfo, homes>>
    PROVE  AccountsInv'
<1> DEFINE g == [NewObject EXCEPT !.name = Head(todo[p])]
<1>1. /\ pc[p] = "def_groups" /\ todo[p] # <<>>
      /\ StartAddMember(p, g, usr[p].uid, FALSE)
      /\ ret' = [ret EXCEPT ![p] = "def_groups"]
      /\ todo' = [todo EXCEPT ![p] = Tail(todo[p])]
      /\ UNCHANGED usr
    BY DEF DefaultGroup
<1>2. todo[p] \in Seq(GroupName)
    BY DEF AccountsInv, TypeOK, UserTypeOK
<1>3. Head(todo[p]) \in GroupName /\ Tail(todo[p]) \in Seq(GroupName)
    BY <1>1, <1>2
<1>4. g \in GroupObject
    BY <1>3, NewObjectType DEF GroupObject
<1>5. todo' \in [Proc -> Seq(GroupName)]
    BY <1>1, <1>3 DEF AccountsInv, TypeOK, UserTypeOK
<1> HIDE DEF g
<1>6. Started(p, g, {"member_add", "false"})
    BY <1>1, <1>4, StartAddMemberReady DEF AccountsInv, TypeOK
<1>7. {"member_add", "false"} \subseteq GroupSteps \cup Results
    BY DEF GroupSteps, Results
<1>8. pc[p] \in UserSteps
    BY <1>1 DEF UserSteps
<1>9. QED
    BY <1>1, <1>5, <1>6, <1>7, <1>8, CallsGroupStep

LEMMA DelGroupStep ==
    ASSUME AccountsInv, NEW p \in Proc, DelGroup(p),
           UNCHANGED <<files, holder, call, grp, usr, todo, userinfo, homes>>
    PROVE  AccountsInv'
<1> DEFINE g == [NewObject EXCEPT !.gid = usr[p].gid]
<1>1. /\ pc[p] = "del_group"
      /\ StartDelete(p, g)
      /\ ret' = [ret EXCEPT ![p] = "del_group"]
    BY DEF DelGroup
<1>2. usr[p].gid \in Nat \cup {None}
    BY <1>1, UserAtWork DEF UserObject, UserSteps
<1>3. g \in GroupObject
    BY <1>2, NewObjectType DEF GroupObject
<1> HIDE DEF g
<1>4. Started(p, g, {"group_del", "true", "false"})
    BY <1>1, <1>3, StartDeleteReady DEF AccountsInv, TypeOK
<1>5. {"group_del", "true", "false"} \subseteq GroupSteps \cup Results
    BY DEF GroupSteps, Results
<1>6. todo' \in [Proc -> Seq(GroupName)]
    BY DEF AccountsInv, TypeOK, UserTypeOK
<1>7. pc[p] \in UserSteps
    BY <1>1 DEF UserSteps
<1>8. QED
    BY <1>1, <1>4, <1>5, <1>6, <1>7, CallsGroupStep

LEMMA ResumeStep ==
    ASSUME AccountsInv, NEW p \in Proc, NEW back, Resume(p, back), back # "caller",
           UNCHANGED <<files, holder, call, grp, todo, userinfo, homes>>,
           NEW u \in UserObject, usr' = [usr EXCEPT ![p] = u],
           NEW step \in UserSteps \cup Results, pc' = [pc EXCEPT ![p] = step],
           UserReady(u, step, "caller")
    PROVE  AccountsInv'
<1>1. /\ pc[p] \in Results /\ pc[p] # "idle" /\ ret[p] # "caller"
      /\ ret' = [ret EXCEPT ![p] = "caller"]
      /\ obj' = [obj EXCEPT ![p] = None]
    BY DEF Resume, Results
<1>2. TypeOK' /\ NamesAndIdsUnique' /\ PrimaryGroupExists'
    BY <1>1 DEF AccountsInv, TypeOK, FilesTypeOK, GroupTypeOK, UserTypeOK,
       NamesAndIdsUnique, Unique, PrimaryGroupExists, files
<1>3. pc'[p] = step /\ usr'[p] = u /\ ret'[p] = "caller"
    BY <1>1 DEF AccountsInv, TypeOK, GroupTypeOK, UserTypeOK
<1>4. Ready(p)
    BY DEF AccountsInv
<1>5. Ready(p)'
    <2>1. call[p] \in UserCalls
        BY <1>1, <1>4 DEF Ready, Control
    <2>2. Control(p)' /\ OwnGroup(p)'
        BY <1>3, <1>4, <2>1 DEF Ready, Control, OwnGroup, UserSteps, Results,
           UserCalls, GroupCalls
    <2>3. UserReady(usr[p], pc[p], ret[p])'
        BY <1>3 DEF UserReady, Names, Uids, Gids, files
    <2>4. GroupReady(obj[p], pc[p])' /\ GroupMade(obj[p], pc[p], ret[p])'
        BY <1>3 DEF GroupReady, GroupMade, GroupSteps, UserSteps, Results
    <2>5. QED
        BY <2>2, <2>3, <2>4 DEF Ready
<1>6. Frame(p)
    BY <1>1 DEF Frame, AccountsInv, OneAtWork, TypeOK, GroupTypeOK
<1>7. QED
    BY <1>2, <1>5, <1>6, OthersStayReady

LEMMA SetGroupReturnsStep ==
    ASSUME AccountsInv, NEW p \in Proc, SetGroupReturns(p),
           UNCHANGED <<files, holder, call, grp, todo, userinfo, homes>>
    PROVE  AccountsInv'
<1>1. Resume(p, "set_group") /\ pc[p] \in Results /\ ret[p] = "set_group"
    BY DEF SetGroupReturns, Resume
<1>2. Ready(p) /\ TypeOK
    BY DEF AccountsInv
<1>3. /\ usr[p] \in UserObject /\ usr[p].uid \in Nat
      /\ usr[p].name \notin Names(passwd) /\ usr[p].uid \notin Uids
    BY <1>1, <1>2 DEF Ready, UserReady
<1>4. CASE /\ pc[p] = "true"
           /\ SetUser(p, [usr[p] EXCEPT !.gid = obj[p].gid])
           /\ GoTo(p, "set_shadow")
    <2>1. obj[p].gid \in Gids
        BY <1>1, <1>2, <1>4 DEF Ready, GroupMade
    <2>2. obj[p].gid \in Nat
        BY <1>2, <2>1 DEF Gids, TypeOK, FilesTypeOK, GroupEntry
    <2>3. PICK u : u = [usr[p] EXCEPT !.gid = obj[p].gid]
        OBVIOUS
    <2>4. /\ u \in UserObject /\ u.name = usr[p].name /\ u.uid = usr[p].uid
          /\ u.gid = obj[p].gid
        BY <1>3, <2>2, <2>3 DEF UserObject
    <2>5. UserReady(u, "set_shadow", "caller")
        BY <1>3, <2>1, <2>4 DEF UserReady
    <2>6. usr' = [usr EXCEPT ![p] = u] /\ pc' = [pc EXCEPT ![p] = "set_shadow"]
        BY <1>4, <2>3 DEF SetUser, GoTo
    <2>7. QED
        BY <1>1, <2>4, <2>5, <2>6, ResumeStep DEF UserSteps
<1>5. CASE pc[p] = "false" /\ UNCHANGED <<usr, pc>>
    <2>1. PICK u : u = usr[p]
        OBVIOUS
    <2>2. usr' = [usr EXCEPT ![p] = u] /\ pc' = [pc EXCEPT ![p] = "false"]
        BY <1>2, <1>5, <2>1 DEF TypeOK, GroupTypeOK, UserTypeOK
    <2>3. UserReady(u, "false", "caller")
        BY DEF UserReady, UserSteps
    <2>4. QED
        BY <1>1, <1>3, <2>1, <2>2, <2>3, ResumeStep DEF Results
<1>6. QED
    BY <1>4, <1>5 DEF SetGroupReturns

LEMMA GroupStepReturnsStep ==
    ASSUME AccountsInv, NEW p \in Proc,
           \/ DefaultGroupReturns(p)
           \/ DelGroupReturns(p) /\ UNCHANGED <<usr, todo>>,
           UNCHANGED <<files, holder, call, grp, userinfo, homes>>
    PROVE  AccountsInv'
<1>1. PICK back \in {"def_groups", "del_group"} :
         Resume(p, back) /\ ret[p] = back
    BY DEF DefaultGroupReturns, DelGroupReturns, Resume
<1>2. PICK step \in {"def_groups", "strip_group", "false"} :
         pc' = [pc EXCEPT ![p] = step]
    BY DEF DefaultGroupReturns, DelGroupReturns, GoTo
<1>3. UNCHANGED <<usr, todo>>
    BY DEF DefaultGroupReturns
<1>4. Ready(p) /\ TypeOK
    BY DEF AccountsInv
<1>5. PICK u : u = usr[p]
    OBVIOUS
<1>6. u \in UserObject /\ u.uid \in Nat
    BY <1>1, <1>4, <1>5 DEF Ready, UserReady
<1>7. usr' = [usr EXCEPT ![p] = u]
    BY <1>3, <1>4, <1>5 DEF TypeOK, UserTypeOK
<1>8. UserReady(u, step, "caller")
    BY <1>6 DEF UserReady
<1>9. QED
    BY <1>1, <1>2, <1>3, <1>6, <1>7, <1>8, ResumeStep DEF UserSteps, Results

LEMMA DefaultGroupsDoneStep ==
    ASSUME AccountsInv, NEW p \in Proc, DefaultGroupsDone(p),
           UNCHANGED <<files, holder, call, grp, userinfo, homes>>
    PROVE  AccountsInv'
<1>1. /\ pc[p] \in UserSteps /\ GoTo(p, "home_add")
      /\ UNCHANGED <<ret, obj, usr, todo>>
    BY DEF DefaultGroupsDone, Then, UserSteps
<1>2. /\ todo' \in [Proc -> Seq(GroupName)] /\ userinfo' \subseteq Nat
      /\ homes' \in [UserName -> Nat \cup {None}]
    BY <1>1 DEF AccountsInv, TypeOK, UserTypeOK
<1>3. QED
    BY <1>1, <1>2, SameFilesStep DEF UserSteps, Results

LEMMA UserOwnStep ==
    ASSUME AccountsInv, NEW p \in Proc, UserStep(p)
    PROVE  AccountsInv'
<1>1. CASE UserReturns(p) /\ UNCHANGED <<group, gshadow, grp>>
    BY <1>1, UserReturnsStep
<1>2. CASE UNCHANGED <<group, gshadow, holder, call, grp>>
    <2>1. CASE AddingUser(p)
        <3>1. UNCHANGED <<files, todo, userinfo, homes>>
            BY <1>2, <2>1 DEF AddingUser, files
        <3>2. QED
            BY <1>2, <2>1, <3>1, SetGroupStep, SetGroupReturnsStep, SetShadowStep
               DEF AddingUser
    <2>2. CASE SetDefaultGroups(p)
        <3>1. UNCHANGED <<files, userinfo, homes>>
            BY <1>2, <2>2 DEF SetDefaultGroups, files
        <3>2. QED
            BY <1>2, <2>2, <3>1, DefaultGroupStep, GroupStepReturnsStep,
               DefaultGroupsDoneStep DEF SetDefaultGroups
    <2>3. CASE DeletePrimaryGroup(p)
        <3>1. UNCHANGED <<files, usr, todo, userinfo, homes>>
            BY <1>2, <2>3 DEF DeletePrimaryGroup, files
        <3>2. QED
            BY <1>2, <2>3, <3>1, DelGroupStep, GroupStepReturnsStep
               DEF DeletePrimaryGroup
    <2>4. CASE /\ PasswdAdd(p) \/ ShadowAdd(p) \/ UserinfoAdd(p) \/ HomeAdd(p)
               /\ UNCHANGED <<ret, usr, obj>>
        BY <1>2, <2>4, PasswdAddStep, ShadowAddStep, UserinfoAddStep, HomeStep
    <2>5. CASE DeleteFromFiles(p)
        BY <1>2, <2>5, DeleteFromFilesStep
    <2>6. CASE HomeDel(p)
        BY <1>2, <2>6, HomeStep
    <2>7. CASE ModifyUser(p)
        BY <1>2, <2>7, ModifyUserStep
    <2>8. CASE UserUpdateFails(p)
        BY <1>2, <2>8, UserUpdateFailsStep
    <2>9. QED
        BY <1>1, <2>1, <2>2, <2>3, <2>4, <2>5, <2>6, <2>7, <2>8 DEF UserStep
<1>3. QED
    BY <1>1, <1>2 DEF UserStep

-----------------------------------------------------------------------------
(***************************************************************************)
(* The theorems.                                                           *)
(***************************************************************************)
LEMMA AccountsInvInit == Init => AccountsInv
<1> SUFFICES ASSUME Init
             PROVE  AccountsInv
    OBVIOUS
<1> USE DEF Init, FilesInit, GroupInit, UserInit
<1>1. FilesTypeOK
    <2>1. group \subseteq GroupEntry
        BY AccountAssumption DEF GroupEntry
    <2>2. gshadow \subseteq GshadowEntry
        BY AccountAssumption, PasswordTypes DEF GshadowEntry
    <2>3. QED
        BY <2>1, <2>2 DEF FilesTypeOK
<1>2. GroupTypeOK
    BY DEF GroupTypeOK
<1>3. UserTypeOK
    BY DEF UserTypeOK
<1>4. NamesAndIdsUnique
    <2>1. Unique(passwd) /\ Unique(shadow) /\ \A u, v \in passwd : u.uid = v.uid => u = v
        BY DEF Unique
    <2>2. \A g \in group : /\ g.name \in DOMAIN InitialGroups
                           /\ g = [name |-> g.name, gid |-> InitialGroups[g.name],
                                   mem |-> {}]
        OBVIOUS
    <2>3. \A s \in gshadow : s = [name |-> s.name, pwd |-> DefaultPassword("user"),
                                  mem |-> {}, adm |-> {}]
        OBVIOUS
    <2> HIDE DEF Init, FilesInit
    <2>4. Unique(group) /\ Unique(gshadow)
        BY <2>2, <2>3 DEF Unique
    <2>5. ASSUME NEW g \in group, NEW h \in group, g.gid = h.gid
          PROVE  g = h
        <3>1. g.gid = InitialGroups[g.name] /\ h.gid = InitialGroups[h.name]
            BY <2>2
        <3>2. g.name = h.name
            BY <2>2, <2>5, <3>1, AccountAssumption
        <3>3. QED
            BY <2>4, <3>2 DEF Unique
    <2>6. QED
        BY <2>1, <2>4, <2>5 DEF NamesAndIdsUnique
<1>5. PrimaryGroupExists
    BY DEF PrimaryGroupExists
<1>6. OneAtWork
    BY DEF OneAtWork
<1>7. \A p \in Proc : Ready(p)
    BY IdleIsReady
<1>8. QED
    BY <1>1, <1>2, <1>3, <1>4, <1>5, <1>6, <1>7 DEF AccountsInv, TypeOK

LEMMA AccountsInvNext == AccountsInv /\ [Next]_vars => AccountsInv'
<1>1. ASSUME AccountsInv, NEW p \in Proc,
             \/ HandleUser(p) \/ CallUser(p)
             \/ HandleGroup(p) \/ BeginGroup(p)
             \/ Proceed(p) \/ Die(p)
      PROVE  AccountsInv'
    <2>1. CASE GroupStep(p)
        BY <1>1, <2>1, GroupReturnsStep, UpdateGroupFilesStep, StripMembershipStep
           DEF GroupStep, userVars
    <2>2. QED
        BY <1>1, <2>1, HandleUserStep, CallUserStep, HandleGroupStep,
           BeginGroupStep, UserOwnStep, DieStep DEF Proceed
<1>2. ASSUME AccountsInv, UNCHANGED vars
      PROVE  AccountsInv'
    BY <1>2 DEF vars, AccountsInv, TypeOK, FilesTypeOK, GroupTypeOK, UserTypeOK,
       OneAtWork, NamesAndIdsUnique, Unique, PrimaryGroupExists, Ready, Control,
       OwnGroup, UserReady, GroupReady, GroupMade, Names, Named, Uids, Gids
<1>3. QED
    BY <1>1, <1>2 DEF Next

\* Whatever the processes do and whichever of the Faults occur: the invariant
\* holds.
THEOREM AccountsInvariant == Spec => []AccountsInv
  BY AccountsInvInit, AccountsInvNext, PTL DEF Spec

\* The files and the objects keep their types.
THEOREM AccountsTypeCorrect == Spec => []TypeOK
<1>1. AccountsInv => TypeOK
    BY DEF AccountsInv
<1>2. QED
    BY <1>1, AccountsInvariant, PTL

\* No two entries of a file share a name, no two users a uid and no two groups
\* a gid, however many processes add, delete and update, in whatever step they
\* fail or die (gumd_daemon_user_add and _group_add look for a free id and name
\* long before they write).
THEOREM NamesAndIdsAlwaysUnique == Spec => []NamesAndIdsUnique
<1>1. AccountsInv => NamesAndIdsUnique
    BY DEF AccountsInv
<1>2. QED
    BY <1>1, AccountsInvariant, PTL

\* The primary group of a user in passwd is in group at every instant, between
\* any two updates of files.
THEOREM PrimaryGroupAlwaysExists == Spec => []PrimaryGroupExists
<1>1. AccountsInv => PrimaryGroupExists
    BY DEF AccountsInv
<1>2. QED
    BY <1>1, AccountsInvariant, PTL

-----------------------------------------------------------------------------
(***************************************************************************)
(* Accounts is implemented.  Only the updates of passwd and group change   *)
(* what Accounts sees.                                                     *)
(***************************************************************************)
User(u) == [name |-> u.name, uid |-> u.uid, gid |-> u.gid]

Group(g) == [name |-> g.name, gid |-> g.gid]

LEMMA IdentityOf ==
    /\ \A u : User(u).name = u.name /\ User(u).uid = u.uid /\ User(u).gid = u.gid
    /\ \A g : Group(g).name = g.name /\ Group(g).gid = g.gid
    /\ Users = {User(u) : u \in passwd}
    /\ Groups = {Group(g) : g \in group}
    /\ Users' = {User(u) : u \in passwd'}
    /\ Groups' = {Group(g) : g \in group'}
  BY DEF User, Group, Users, Groups

LEMMA PasswdAddImplements ==
    ASSUME AccountsInv, NEW p \in Proc, PasswdAdd(p), UNCHANGED group
    PROVE  \E u \in Users' \ Users : Abstract!AddUser(u)
<1>1. pc[p] = "passwd_add" /\ passwd' = passwd \cup {PasswdOf(usr[p])}
    BY DEF PasswdAdd, Then
<1>2. /\ usr[p].name \notin Names(passwd) /\ usr[p].uid \notin Uids
      /\ usr[p].gid \in Gids
    BY <1>1, UserAtWork DEF UserReady, UserSteps
<1>3. PICK e : e = PasswdOf(usr[p])
    OBVIOUS
<1>4. /\ \A v \in passwd : v.name # e.name /\ v.uid # e.uid
      /\ \E g \in group : g.gid = e.gid
    BY <1>2, <1>3 DEF PasswdOf, Names, Uids, Gids
<1>5. Users' = Users \cup {User(e)} /\ Groups' = Groups
    BY <1>1, <1>3, IdentityOf
<1>6. /\ \A v \in Users : v.name # User(e).name /\ v.uid # User(e).uid
      /\ \E g \in Groups : g.gid = User(e).gid
    BY <1>4, IdentityOf
<1>7. QED
    BY <1>5, <1>6 DEF Abstract!AddUser

LEMMA PasswdDelImplements ==
    ASSUME AccountsInv, NEW p \in Proc, PasswdDel(p), UNCHANGED group
    PROVE  \/ UNCHANGED <<Users, Groups>>
           \/ \E u \in Users : Abstract!RemoveUser(u)
<1> DEFINE its == {e \in passwd : /\ e.name = usr[p].name /\ e.uid = usr[p].uid
                                  /\ e.gid = usr[p].gid}
<1>1. passwd' = passwd \ its
    BY DEF PasswdDel
<1>2. Unique(passwd)
    BY DEF AccountsInv, NamesAndIdsUnique
<1>3. Groups' = Groups
    BY IdentityOf
<1>4. CASE its = {}
    BY <1>1, <1>3, <1>4, IdentityOf
<1>5. ASSUME NEW e \in its
      PROVE  \E u \in Users : Abstract!RemoveUser(u)
    <2>1. e \in passwd /\ passwd' = passwd \ {e}
        BY <1>1, <1>2 DEF Unique
    <2>2. \A v \in passwd : v # e => User(v) # User(e)
        BY <1>2, <2>1, IdentityOf DEF Unique
    <2>3. User(e) \in Users /\ Users' = Users \ {User(e)}
        BY <2>1, <2>2, IdentityOf
    <2>4. QED
        BY <1>3, <2>3 DEF Abstract!RemoveUser
<1>6. QED
    BY <1>4, <1>5

LEMMA PasswdModImplements ==
    ASSUME AccountsInv, NEW p \in Proc, PasswdMod(p), UNCHANGED group
    PROVE  UNCHANGED <<Users, Groups>>
<1>1. /\ pc[p] = "passwd_mod"
      /\ passwd' = (passwd \ {e \in passwd : /\ e.name = usr[p].name
                                             /\ e.uid = usr[p].uid
                                             /\ e.gid = usr[p].gid})
                      \cup {PasswdOf(usr[p])}
    BY DEF PasswdMod, Then
<1>2. Unique(passwd)
    BY DEF AccountsInv, NamesAndIdsUnique
<1>3. PICK e \in passwd :
         e.name = usr[p].name /\ e.uid = usr[p].uid /\ e.gid = usr[p].gid
    BY <1>1, UserAtWork DEF UserReady, UserSteps
<1>4. passwd' = (passwd \ {e}) \cup {PasswdOf(usr[p])}
    BY <1>1, <1>2, <1>3 DEF Unique
<1>5. User(PasswdOf(usr[p])) = User(e)
    BY <1>3 DEF User, PasswdOf
<1>6. QED
    BY <1>4, <1>5, IdentityOf

LEMMA AddToGroupImplements ==
    ASSUME AccountsInv, NEW p \in Proc, AddToGroup(p), UNCHANGED passwd
    PROVE  \E g \in Groups' \ Groups : Abstract!AddGroup(g)
<1>1. pc[p] = "group_add" /\ group' = group \cup {EntryOf(obj[p])}
    BY DEF AddToGroup, Then
<1>2. obj[p].name \notin Names(group) /\ obj[p].gid \notin Gids
    BY <1>1 DEF AccountsInv, Ready, GroupReady
<1>3. PICK e : e = EntryOf(obj[p])
    OBVIOUS
<1>4. \A g \in group : g.name # e.name /\ g.gid # e.gid
    BY <1>2, <1>3 DEF EntryOf, Names, Gids
<1>5. Groups' = Groups \cup {Group(e)} /\ Users' = Users
    BY <1>1, <1>3, IdentityOf
<1>6. \A g \in Groups : g.name # Group(e).name /\ g.gid # Group(e).gid
    BY <1>4, IdentityOf
<1>7. QED
    BY <1>5, <1>6 DEF Abstract!AddGroup

LEMMA DeleteFromGroupImplements ==
    ASSUME AccountsInv, NEW p \in Proc, DeleteFromGroup(p), UNCHANGED passwd
    PROVE  \/ UNCHANGED <<Users, Groups>>
           \/ \E g \in Groups : Abstract!RemoveGroup(g)
<1>1. pc[p] = "group_del" /\ group' = group \ GetGroup(obj[p])
    BY DEF DeleteFromGroup, Then
<1>2. /\ obj[p].name \in GroupName /\ obj[p].gid \in Nat
      /\ \A u \in passwd : u.gid # obj[p].gid
      /\ Unique(group)
    BY <1>1 DEF AccountsInv, Ready, GroupReady, GroupSteps, NamesAndIdsUnique
<1>3. \A e \in GetGroup(obj[p]) :
         e \in group /\ e.name = obj[p].name /\ e.gid = obj[p].gid
    BY <1>2, AccountAssumption DEF GetGroup
<1>4. Users' = Users
    BY IdentityOf
<1>5. CASE GetGroup(obj[p]) = {}
    BY <1>1, <1>4, <1>5, IdentityOf
<1>6. ASSUME NEW e \in GetGroup(obj[p])
      PROVE  \E g \in Groups : Abstract!RemoveGroup(g)
    <2>1. e \in group /\ group' = group \ {e}
        BY <1>1, <1>2, <1>3 DEF Unique
    <2>2. \A g \in group : g # e => Group(g) # Group(e)
        BY <1>2, <2>1, IdentityOf DEF Unique
    <2>3. Group(e) \in Groups /\ Groups' = Groups \ {Group(e)}
        BY <2>1, <2>2, IdentityOf
    <2>4. \A u \in Users : u.gid # Group(e).gid
        BY <1>2, <1>3, IdentityOf
    <2>5. QED
        BY <1>4, <2>3, <2>4 DEF Abstract!RemoveGroup
<1>7. QED
    BY <1>5, <1>6

LEMMA ModifyGroupImplements ==
    ASSUME AccountsInv, NEW p \in Proc, ModifyGroup(p), UNCHANGED passwd
    PROVE  UNCHANGED <<Users, Groups>>
<1>1. /\ pc[p] \in {"group_mod", "member_add"}
      /\ group' = (group \ GetGroup(obj[p])) \cup {EntryOf(obj[p])}
    BY DEF ModifyGroup, Then
<1>2. GroupReady(obj[p], pc[p]) /\ Unique(group)
    BY DEF AccountsInv, Ready, NamesAndIdsUnique
<1>3. PICK e \in group : e.name = obj[p].name /\ e.gid = obj[p].gid
    BY <1>1, <1>2 DEF GroupReady
<1>4. obj[p].name \in GroupName /\ obj[p].gid \in Nat
    BY <1>1, <1>2 DEF GroupReady, GroupSteps
<1>5. GetGroup(obj[p]) = {e}
    BY <1>2, <1>3, <1>4, AccountAssumption DEF GetGroup, Unique
<1>6. Group(EntryOf(obj[p])) = Group(e)
    BY <1>3 DEF Group, EntryOf
<1>7. QED
    BY <1>1, <1>3, <1>5, <1>6, IdentityOf

LEMMA StripGroupImplements ==
    ASSUME AccountsInv, NEW name, UNCHANGED passwd,
           group' = {[e EXCEPT !.mem = @ \ {name}] : e \in group}
    PROVE  UNCHANGED <<Users, Groups>>
<1>1. ASSUME NEW e \in group
      PROVE  Group([e EXCEPT !.mem = @ \ {name}]) = Group(e)
    <2>1. e \in GroupEntry
        BY DEF AccountsInv, TypeOK, FilesTypeOK
    <2>2. PICK f : f = [e EXCEPT !.mem = @ \ {name}]
        OBVIOUS
    <2>3. f.name = e.name /\ f.gid = e.gid
        BY <2>1, <2>2 DEF GroupEntry
    <2> QED BY <2>2, <2>3 DEF Group
<1>2. QED
    BY <1>1, IdentityOf

\* The steps that change passwd or group.
LEMMA WritersOfFiles ==
    ASSUME Next
    PROVE  \/ UNCHANGED <<passwd, group>>
           \/ \E p \in Proc :
                 \/ /\ PasswdAdd(p) \/ PasswdDel(p) \/ PasswdMod(p)
                    /\ UNCHANGED group
                 \/ /\ \/ AddToGroup(p) \/ DeleteFromGroup(p) \/ ModifyGroup(p)
                       \/ group' = {[e EXCEPT !.mem = @ \ {usr[p].name}] : e \in group}
                    /\ UNCHANGED passwd
<1>1. PICK p \in Proc : \/ HandleUser(p) \/ CallUser(p)
                        \/ HandleGroup(p) \/ BeginGroup(p)
                        \/ Proceed(p) \/ Die(p)
    BY DEF Next
<1>2. CASE \/ HandleUser(p) \/ CallUser(p) \/ HandleGroup(p) \/ BeginGroup(p)
           \/ Die(p)
    BY <1>2 DEF HandleUser, CallUser, HandleGroup, BeginGroup, Die, files
<1>3. CASE GroupStep(p)
    <2>1. CASE GroupReturns(p) /\ UNCHANGED files
        BY <2>1 DEF files
    <2>2. CASE UpdateGroupFiles(p)
        BY <2>2 DEF UpdateGroupFiles, AddToGshadow, DeleteFromGshadow, ModifyGshadow,
           GroupUpdateFails
    <2>3. CASE StripMembership(p, usr[p].name)
        BY <2>3 DEF StripMembership, StripGroup
    <2>4. QED
        BY <1>3, <2>1, <2>2, <2>3 DEF GroupStep
<1>4. CASE UserStep(p)
    <2>1. group' = group
        BY <1>4 DEF UserStep
    <2>2. CASE PasswdAdd(p) \/ PasswdDel(p) \/ PasswdMod(p)
        BY <2>1, <2>2
    <2>3. CASE ~ (PasswdAdd(p) \/ PasswdDel(p) \/ PasswdMod(p))
        <3>1. passwd' = passwd
            BY <1>4, <2>3 DEF UserStep, AddingUser, SetDefaultGroups,
               DeletePrimaryGroup, ShadowAdd, UserinfoAdd, HomeAdd, DeleteFromFiles,
               LockPassword, TerminateUser, UnlockPassword, UserinfoDel, ShadowDel,
               DeleteUpdateFails, HomeDel, ModifyUser, ShadowMod, UserUpdateFails,
               UserReturns
        <3>2. QED
            BY <2>1, <3>1
    <2>4. QED
        BY <2>2, <2>3
<1>5. QED
    BY <1>1, <1>2, <1>3, <1>4 DEF Proceed

LEMMA AccountsStep ==
    ASSUME AccountsInv, [Next]_vars
    PROVE  [Abstract!Next]_<<Users, Groups>>
<1>1. CASE UNCHANGED <<passwd, group>>
    BY <1>1 DEF Users, Groups
<1>2. ASSUME NEW p \in Proc, PasswdAdd(p) \/ PasswdDel(p) \/ PasswdMod(p),
             UNCHANGED group
      PROVE  [Abstract!Next]_<<Users, Groups>>
    BY <1>2, PasswdAddImplements, PasswdDelImplements, PasswdModImplements
       DEF Abstract!Next
<1>3. ASSUME NEW p \in Proc, UNCHANGED passwd,
             \/ AddToGroup(p) \/ DeleteFromGroup(p) \/ ModifyGroup(p)
             \/ group' = {[e EXCEPT !.mem = @ \ {usr[p].name}] : e \in group}
      PROVE  [Abstract!Next]_<<Users, Groups>>
    <2>1. PICK name : name = usr[p].name
        OBVIOUS
    <2>2. CASE group' = {[e EXCEPT !.mem = @ \ {name}] : e \in group}
        BY <1>3, <2>2, StripGroupImplements
    <2>3. CASE AddToGroup(p) \/ DeleteFromGroup(p) \/ ModifyGroup(p)
        BY <1>3, <2>3, AddToGroupImplements, DeleteFromGroupImplements,
           ModifyGroupImplements DEF Abstract!Next
    <2>4. QED
        BY <1>3, <2>1, <2>2, <2>3
<1>4. CASE UNCHANGED vars
    BY <1>4 DEF vars, Users, Groups
<1>5. QED
    BY <1>1, <1>2, <1>3, <1>4, WritersOfFiles

\* The users and groups that the files show to others change as Accounts says,
\* with failures and deaths anywhere: each update of passwd and group is one of
\* its steps or none, and no other step is seen.
THEOREM ImplementsAccounts == Spec => AccountsSpec
<1>1. Init => Users = {}
    BY DEF Init, FilesInit, Users
<1>2. AccountsInv /\ [Next]_vars => [Abstract!Next]_<<Users, Groups>>
    BY AccountsStep
<1>3. QED
    BY <1>1, <1>2, AccountsInvariant, PTL DEF Spec, AccountsSpec, Abstract!Spec

-----------------------------------------------------------------------------
(***************************************************************************)
(* Objects and the users they mean.                                        *)
(***************************************************************************)
Keeps(o, n) == n.name = o.name /\ n.uid = o.uid

\* A call fills the object only from entries that agree with it.
LEMMA CallKeepsUser ==
    ASSUME AccountsInv, NEW p \in Proc,
           CallUserDelete(p) \/ CallUserUpdate(p)
    PROVE  Keeps(usr[p], usr'[p])
<1>1. /\ usr[p] \in UserObject /\ usr[p].name # None
      /\ usr \in [Proc -> UserObject \cup {None}]
    BY AccountAssumption DEF CallUserDelete, CallUserUpdate, OnUser, AccountsInv,
           TypeOK, UserTypeOK, UserObject
<1>2. CASE usr' = usr
    BY <1>2 DEF Keeps
<1>3. ASSUME NEW e \in Entries(usr[p]), usr[p].uid # None
      PROVE  e[1].name = usr[p].name /\ e[1].uid = usr[p].uid
    BY <1>1, <1>3 DEF Entries, GetPasswd
<1>4. CASE CallUserDelete(p) /\ usr' # usr
    <2>1. PICK e \in Entries(usr[p]) :
             usr[p].uid # None /\ usr' = [usr EXCEPT ![p] = CopyUser(e[1], e[2])]
        BY <1>4 DEF CallUserDelete, SetUser
    <2>2. QED
        BY <1>1, <1>3, <2>1 DEF Keeps, CopyUser
<1>5. CASE CallUserUpdate(p) /\ usr' # usr
    <2>1. PICK e \in Entries(usr[p]) :
             \E o \in Updated(Merged(usr[p], e[1], e[2])) :
                usr' = [usr EXCEPT ![p] = o]
        BY <1>5 DEF CallUserUpdate, SetUser
    <2>2. PICK o \in Updated(Merged(usr[p], e[1], e[2])) :
             usr' = [usr EXCEPT ![p] = o]
        BY <2>1
    <2> DEFINE m == Merged(usr[p], e[1], e[2])
    <2>3. /\ e[1] \in PasswdEntry /\ e[2] \in ShadowEntry
        BY DEF Entries, GetPasswd, AccountsInv, TypeOK, FilesTypeOK
    <2>4. m \in UserObject /\ Keeps(usr[p], m)
        BY <1>1, <2>3 DEF Merged, UserObject, PasswdEntry, ShadowEntry, Keeps
    <2>5. o \in SecretSet(m) \/ o = [m EXCEPT !.secret = Placeholder]
        BY DEF Updated
    <2> HIDE DEF m
    <2>6. o.name = m.name /\ o.uid = m.uid
        BY <2>4, <2>5, UserSecretSet DEF UserObject
    <2>7. QED
        BY <1>1, <2>2, <2>4, <2>6 DEF Keeps
<1>6. QED
    BY <1>2, <1>4, <1>5

LEMMA HandleKeepsUser ==
    ASSUME AccountsInv, NEW p \in Proc, HandleUser(p)
    PROVE  usr[p] = None \/ usr'[p] = None \/ Keeps(usr[p], usr'[p])
<1>1. usr \in [Proc -> UserObject \cup {None}]
    BY DEF AccountsInv, TypeOK, UserTypeOK
<1>2. CASE NewUser(p) \/ LoadUser(p)
    BY <1>2 DEF NewUser, LoadUser
<1>3. CASE DropUser(p)
    BY <1>1, <1>3 DEF DropUser, SetUser
<1>4. CASE SetProperty(p)
    <2>1. usr[p] \in UserObject
        BY <1>1, <1>4 DEF SetProperty
    <2>2. \E v : usr'[p] \in {[usr[p] EXCEPT !.secret = v], [usr[p] EXCEPT !.info = v],
                              [usr[p] EXCEPT !.type = v]}
        BY <1>1, <1>4 DEF SetProperty, SetUser
    <2>3. QED
        BY <2>1, <2>2 DEF Keeps, UserObject
<1>5. QED
    BY <1>2, <1>3, <1>4 DEF HandleUser

LEMMA StepKeepsUser ==
    ASSUME AccountsInv, NEW p \in Proc, Proceed(p)
    PROVE  Keeps(usr[p], usr'[p])
<1>1. usr \in [Proc -> UserObject \cup {None}]
    BY DEF AccountsInv, TypeOK, UserTypeOK
<1>2. CASE usr' = usr
    BY <1>2 DEF Keeps
<1>3. CASE AddingUser(p) /\ usr' # usr
    <2>1. usr[p] \in UserObject
        <3>1. \/ pc[p] \in UserSteps
              \/ pc[p] \in Results /\ ret[p] = "set_group"
            BY <1>3 DEF AddingUser, SetGroup, SetGroupReturns, SetShadow, Resume,
               UserSteps
        <3>2. QED
            BY <3>1 DEF AccountsInv, Ready, UserReady
    <2>2. \/ \E gid : usr'[p] = [usr[p] EXCEPT !.gid = gid]
          \/ \E s \in SecretSet(usr[p]) : usr'[p] = s
        BY <1>1, <1>3 DEF AddingUser, SetGroup, SetGroupReturns, SetShadow, SetUser
    <2>3. QED
        BY <2>1, <2>2, UserSecretSet DEF Keeps, UserObject
<1>4. QED
    BY <1>2, <1>3 DEF Proceed, UserStep, SetDefaultGroups, DefaultGroup,
       DefaultGroupReturns, DefaultGroupsDone, DeletePrimaryGroup, DeleteFromFiles,
       HomeDel, ModifyUser, UserUpdateFails, UserReturns, GroupStep, userVars

\* An object that was ever filled from or written to the files means the same
\* user for ever, even when that user was deleted behind it and its name or its
\* uid belongs to another one by now.
THEOREM ObjectAlwaysKeepsItsUser == Spec => ObjectKeepsItsUser
<1>1. ASSUME AccountsInv, NEW p \in Proc, NEW q \in Proc,
             \/ HandleUser(p) \/ CallUser(p)
             \/ HandleGroup(p) \/ BeginGroup(p)
             \/ Proceed(p) \/ Die(p)
      PROVE  KeepsItsUser(q)
    <2>1. TypeOK
        BY <1>1 DEF AccountsInv
    <2>2. CASE q # p
        <3>1. \/ usr' = usr
              \/ \E o : usr' = [usr EXCEPT ![p] = o]
            BY <1>1 DEF HandleUser, NewUser, LoadUser, SetProperty, DropUser, CallUser,
               CallUserAdd, CallUserDelete, CallUserUpdate, HandleGroup, BeginGroup,
               Proceed, Die, UserStep, AddingUser, SetGroup, SetGroupReturns,
               SetShadow, SetDefaultGroups, DefaultGroup, DefaultGroupReturns,
               DefaultGroupsDone, DeletePrimaryGroup, DeleteFromFiles, HomeDel,
               ModifyUser, UserUpdateFails, UserReturns, GroupStep, userVars, SetUser
        <3>2. usr'[q] = usr[q]
            BY <2>1, <2>2, <3>1 DEF TypeOK, UserTypeOK
        <3>3. QED
            BY <3>2 DEF KeepsItsUser
    <2>3. CASE q = p /\ HandleUser(p)
        BY <1>1, <2>3, HandleKeepsUser DEF Keeps, KeepsItsUser
    <2>4. CASE q = p /\ CallUser(p)
        <3>1. CASE CallUserAdd(p)
            BY <2>1, <2>4, <3>1 DEF CallUserAdd, OnUser, Begin, TypeOK, GroupTypeOK,
               KeepsItsUser
        <3>2. CASE CallUserDelete(p) \/ CallUserUpdate(p)
            BY <1>1, <2>4, <3>2, CallKeepsUser DEF Keeps, KeepsItsUser
        <3>3. QED
            BY <2>4, <3>1, <3>2 DEF CallUser
    <2>5. CASE q = p /\ (HandleGroup(p) \/ BeginGroup(p))
        BY <2>5 DEF HandleGroup, BeginGroup, userVars, KeepsItsUser
    <2>6. CASE q = p /\ Proceed(p)
        BY <1>1, <2>6, StepKeepsUser DEF Keeps, KeepsItsUser
    <2>7. CASE q = p /\ Die(p)
        BY <2>1, <2>7 DEF Die, SetUser, TypeOK, UserTypeOK, KeepsItsUser
    <2>8. QED
        BY <1>1, <2>2, <2>3, <2>4, <2>5, <2>6, <2>7
<1>2. AccountsInv /\ [Next]_vars => [\A p \in Proc : KeepsItsUser(p)]_vars
    BY <1>1 DEF Next
<1>3. QED
    BY <1>2, AccountsInvariant, PTL DEF Spec, ObjectKeepsItsUser

=============================================================================
