---------------------------- MODULE GumdDaemonUser ----------------------------
(***************************************************************************)
(* src/daemon/core/gumd-daemon-user.c.  A process holds at most one user   *)
(* object, usr[p].  Adding and deleting a user calls the operations of     *)
(* GumdDaemonGroup on groups of its own; ret[p] is where they return to.   *)
(***************************************************************************)
EXTENDS GumdDaemonGroup

CONSTANT RemHome   \* the values of rem_home_dir that callers pass

VARIABLES
    usr,       \* the user object of each process
    todo,      \* the default groups that gumd_daemon_user_add still has to do
    userinfo,  \* the uids that have a file in the userinfo directory
    homes      \* the owner of the home directory of each name, None: no directory

UserObject == [name : UserName, uid : Nat \cup {None}, gid : Nat \cup {None},
               type : UserType, secret : Secret \cup {Placeholder, None},
               pwd : Password \cup {None}, info : Info]

Root == 0

UserTypeOK ==
    /\ usr \in [Proc -> UserObject \cup {None}]
    /\ todo \in [Proc -> Seq(GroupName)]
    /\ userinfo \subseteq Nat
    /\ homes \in [UserName -> Nat \cup {None}]

UserInit ==
    /\ usr = [p \in Proc |-> None]
    /\ todo = [p \in Proc |-> <<>>]
    /\ userinfo = {}
    /\ homes = [n \in UserName |-> None]

-----------------------------------------------------------------------------
(***************************************************************************)
(* Objects.                                                                *)
(***************************************************************************)
PasswdOf(o) == [name |-> o.name, uid |-> o.uid, gid |-> o.gid,
                type |-> o.type, info |-> o.info]

ShadowOf(o) == [name |-> o.name, pwd |-> o.pwd]

\* _copy_passwd_data: what an object becomes that is filled from the files.
CopyUser(u, s) == [name |-> u.name, uid |-> u.uid, gid |-> u.gid, type |-> u.type,
                   secret |-> Placeholder, pwd |-> s.pwd, info |-> u.info]

\* Mutant of Entries: only the name of the object is compared.
MutEntries(o) ==
    {e \in passwd \X shadow : e[1].name = o.name /\ e[2].name = o.name}

\* The passwd and the shadow entry of an object; both have to be there.
Entries(o) == {e \in GetPasswd(o) \X shadow : e[1].name = e[2].name}

SetUser(p, o) == usr' = [usr EXCEPT ![p] = o]

\* A new object with its properties; a nickname has become a name, and what is
\* not given of the gecos fields and the shell has its default.
NewUser(p) ==
    /\ "user_add" \in Calls[p]
    /\ pc[p] = "idle"
    /\ usr[p] = None
    /\ \E name \in UserName, type \in UserType, info \in Info,
          secret \in Secret \cup {None} :
          SetUser(p, [name |-> name, uid |-> None, gid |-> None, type |-> type,
                      secret |-> secret, pwd |-> None, info |-> info])
    /\ UNCHANGED holder

\* gumd_daemon_user_new_by_uid and _by_name, both under the lock.
LoadUser(p) ==
    /\ {"user_delete", "user_update"} \cap Calls[p] # {}
    /\ pc[p] = "idle"
    /\ usr[p] = None
    /\ holder = NoProc
    /\ \E u \in passwd : \E s \in Named(shadow, u.name) :
          SetUser(p, CopyUser(u, s))
    /\ UNCHANGED holder

\* What gumd_daemon_user_update can change, and what it refuses to.
SetProperty(p) ==
    /\ "user_update" \in Calls[p]
    /\ pc[p] = "idle"
    /\ usr[p] # None
    /\ \/ \E secret \in Secret : SetUser(p, [usr[p] EXCEPT !.secret = secret])
       \/ \E info \in Info : SetUser(p, [usr[p] EXCEPT !.info = info])
       \/ \E type \in UserType : SetUser(p, [usr[p] EXCEPT !.type = type])
    /\ UNCHANGED holder

DropUser(p) ==
    /\ pc[p] = "idle"
    /\ usr[p] # None
    /\ SetUser(p, None)
    /\ UNCHANGED holder

HandleUser(p) ==
    /\ NewUser(p) \/ LoadUser(p) \/ SetProperty(p) \/ DropUser(p)
    /\ UNCHANGED <<passwd, shadow, group, gshadow, call, pc, ret, grp, obj,
                   todo, userinfo, homes>>

-----------------------------------------------------------------------------
(***************************************************************************)
(* gumd_daemon_user_add.  It undoes nothing when a later step fails.       *)
(***************************************************************************)
OnUser(p, c) ==
    /\ usr[p] # None
    /\ Begin(p, c)
    /\ ret' = [ret EXCEPT ![p] = "caller"]

\* The name has to be new and a uid free.
CallUserAdd(p) ==
    LET u == usr[p]
        taken == Named(passwd, u.name) # {} IN
    /\ OnUser(p, "user_add")
    /\ \/ /\ taken \/ FreeIds(UidRange[u.type], Uids) = {}
          /\ GoTo(p, "false")
          /\ UNCHANGED usr
       \/ /\ ~taken
          /\ \E uid \in FreeIds(UidRange[u.type], Uids) :
                SetUser(p, [u EXCEPT !.uid = uid])
          /\ GoTo(p, "set_group")
    /\ UNCHANGED <<obj, userinfo, todo>>

\* Mutant of SetGroup: the primary group is not made when it is missing.
MutSetGroup(p) ==
    /\ pc[p] = "set_group"
    /\ SetUser(p, [usr[p] EXCEPT !.gid = usr[p].uid])
    /\ GoTo(p, "set_shadow")
    /\ UNCHANGED <<ret, obj>>

\* The primary group: the configured one, made when it is missing, or one of
\* the user's own, with the uid as its preferred gid.
SetGroup(p) ==
    LET u == usr[p]
        name == IF PrimaryGroup = None THEN u.name ELSE PrimaryGroup
        type == IF u.type = "system" THEN "system" ELSE "user" IN
    /\ pc[p] = "set_group"
    /\ \/ /\ \E g \in Named(group, PrimaryGroup) :
                SetUser(p, [u EXCEPT !.gid = g.gid])
          /\ GoTo(p, "set_shadow")
          /\ UNCHANGED <<ret, obj>>
       \/ /\ Named(group, PrimaryGroup) = {}
          /\ StartAdd(p, [NewObject EXCEPT !.name = name, !.type = type], u.uid)
          /\ ret' = [ret EXCEPT ![p] = "set_group"]
          /\ UNCHANGED usr

\* A group operation is over; its object is gone and the user operation goes on.
Resume(p, step) ==
    /\ pc[p] \in Results
    /\ ret[p] = step
    /\ ret' = [ret EXCEPT ![p] = "caller"]
    /\ obj' = [obj EXCEPT ![p] = None]

\* Mutant of SetGroupReturns: the result of the group operation is ignored.
MutSetGroupReturns(p) ==
    /\ Resume(p, "set_group")
    /\ SetUser(p, [usr[p] EXCEPT !.gid = obj[p].gid])
    /\ GoTo(p, "set_shadow")

SetGroupReturns(p) ==
    /\ Resume(p, "set_group")
    /\ \/ /\ pc[p] = "true"
          /\ SetUser(p, [usr[p] EXCEPT !.gid = obj[p].gid])
          /\ GoTo(p, "set_shadow")
       \/ /\ pc[p] = "false"
          /\ UNCHANGED <<usr, pc>>

SetShadow(p) ==
    /\ pc[p] = "set_shadow"
    /\ \E s \in SecretSet(usr[p]) :
          /\ SetUser(p, s)
          /\ GoTo(p, IF s.pwd = None THEN "false" ELSE "passwd_add")
    /\ UNCHANGED <<ret, obj>>

AddingUser(p) ==
    /\ SetGroup(p) \/ SetGroupReturns(p) \/ SetShadow(p)
    /\ UNCHANGED <<passwd, shadow, todo, userinfo, homes>>

PasswdAdd(p) ==
    /\ Then(p, "passwd_add", "shadow_add")
    /\ passwd' = passwd \cup {PasswdOf(usr[p])}
    /\ UNCHANGED <<shadow, todo, userinfo, homes>>

\* an entry of that name that is already in shadow makes the update fail
ShadowAdd(p) ==
    LET taken == Named(shadow, usr[p].name) # {} IN
    /\ Then(p, "shadow_add", IF taken THEN "false" ELSE "userinfo_add")
    /\ shadow' = IF taken THEN shadow ELSE shadow \cup {ShadowOf(usr[p])}
    /\ UNCHANGED <<passwd, todo, userinfo, homes>>

DefaultGroups(type) ==
    CASE type = "system" -> <<>>
      [] type = "admin"  -> DefAdminGroups
      [] OTHER           -> DefUsrGroups

\* the result of _add_userinfo is ignored
UserinfoAdd(p) ==
    /\ Then(p, "userinfo_add", "def_groups")
    /\ todo' = [todo EXCEPT ![p] = DefaultGroups(usr[p].type)]
    /\ \/ userinfo' = userinfo \cup {usr[p].uid}
       \/ "userinfo" \in Faults /\ UNCHANGED userinfo
    /\ UNCHANGED <<passwd, shadow, homes>>

\* _create_home_dir: a directory that exists is taken as it is.  A failure may
\* leave none, one of root (chown failed) or an incomplete one of the user.
HomeAdd(p) ==
    LET u == usr[p]
        needed == u.type # "system" /\ homes[u.name] = None IN
    /\ pc[p] = "home_add"
    /\ \/ /\ ~needed
          /\ GoTo(p, "true")
          /\ UNCHANGED homes
       \/ /\ needed
          /\ GoTo(p, "true")
          /\ homes' = [homes EXCEPT ![u.name] = u.uid]
       \/ /\ needed /\ "home" \in Faults
          /\ GoTo(p, "false")
          /\ \E owner \in {None, Root, u.uid} :
                homes' = [homes EXCEPT ![u.name] = owner]
    /\ UNCHANGED <<passwd, shadow, todo, userinfo>>

\* Mutant of DefaultGroup: the index of the group is not increased.
MutDefaultGroup(p) ==
    /\ pc[p] = "def_groups"
    /\ todo[p] # <<>>
    /\ StartAddMember(p, [NewObject EXCEPT !.name = Head(todo[p])],
                      usr[p].uid, FALSE)
    /\ ret' = [ret EXCEPT ![p] = "def_groups"]
    /\ UNCHANGED <<usr, todo>>

\* _set_default_groups, one group after the other, whatever became of the last.
DefaultGroup(p) ==
    /\ pc[p] = "def_groups"
    /\ todo[p] # <<>>
    /\ StartAddMember(p, [NewObject EXCEPT !.name = Head(todo[p])],
                      usr[p].uid, FALSE)
    /\ ret' = [ret EXCEPT ![p] = "def_groups"]
    /\ todo' = [todo EXCEPT ![p] = Tail(@)]
    /\ UNCHANGED usr

DefaultGroupReturns(p) ==
    /\ Resume(p, "def_groups")
    /\ GoTo(p, "def_groups")
    /\ UNCHANGED <<usr, todo>>

DefaultGroupsDone(p) ==
    /\ todo[p] = <<>>
    /\ Then(p, "def_groups", "home_add")
    /\ UNCHANGED <<ret, obj, usr, todo>>

SetDefaultGroups(p) ==
    /\ DefaultGroup(p) \/ DefaultGroupReturns(p) \/ DefaultGroupsDone(p)
    /\ UNCHANGED <<passwd, shadow, userinfo, homes>>

-----------------------------------------------------------------------------
(***************************************************************************)
(* gumd_daemon_user_delete.                                                *)
(***************************************************************************)

\* Under the lock the effective uid is 0, so the test for self-destruction
\* only refuses root, which is not among the users of the model.
CallUserDelete(p) ==
    LET u == usr[p] IN
    /\ OnUser(p, "user_delete")
    /\ \/ /\ u.uid = None \/ Entries(u) = {}
          /\ GoTo(p, "false")
          /\ UNCHANGED usr
       \/ /\ u.uid # None
          /\ \E e \in Entries(u) : SetUser(p, CopyUser(e[1], e[2]))
          /\ GoTo(p, "lock_pwd")
    /\ UNCHANGED <<obj, userinfo, todo>>

\* gum_file_update with _lock_shadow_entry on the shadow entry of the user.
WithLocked(name, lock) ==
    {IF s.name = name THEN [s EXCEPT !.pwd = SetLocked(lock, @)] ELSE s :
        s \in shadow}

LockPassword(p) ==
    /\ Then(p, "lock_pwd", "terminate")
    /\ shadow' = WithLocked(usr[p].name, TRUE)
    /\ UNCHANGED <<passwd, userinfo>>

TerminateUser(p) ==
    /\ \/ Then(p, "terminate", "userinfo_del")
       \/ "terminate" \in Faults /\ Then(p, "terminate", "unlock_pwd")
    /\ UNCHANGED <<passwd, shadow, userinfo>>

\* Mutant of UnlockPassword: the user is left locked.
MutUnlockPassword(p) ==
    /\ Then(p, "unlock_pwd", "false")
    /\ UNCHANGED <<passwd, shadow, userinfo>>

\* After a failure: the entry is unlocked, or not, and FALSE returned.
UnlockPassword(p) ==
    /\ Then(p, "unlock_pwd", "false")
    /\ \/ shadow' = WithLocked(usr[p].name, FALSE)
       \/ "io" \in Faults /\ UNCHANGED shadow
    /\ UNCHANGED <<passwd, userinfo>>

\* Mutant of UserinfoDel: the file stays.
MutUserinfoDel(p) ==
    /\ Then(p, "userinfo_del", "passwd_del")
    /\ UNCHANGED <<passwd, shadow, userinfo>>

\* The result of g_remove is ignored: the delete goes on without a word when
\* the file stays.
UserinfoDel(p) ==
    /\ Then(p, "userinfo_del", "passwd_del")
    /\ \/ userinfo' = userinfo \ {usr[p].uid}
       \/ "userinfo" \in Faults /\ UNCHANGED userinfo
    /\ UNCHANGED <<passwd, shadow>>

PasswdDel(p) ==
    /\ Then(p, "passwd_del", "shadow_del")
    /\ passwd' = {u \in passwd : ~(u.name = usr[p].name /\ u.uid = usr[p].uid
                                   /\ u.gid = usr[p].gid)}
    /\ UNCHANGED <<shadow, userinfo>>

\* Mutant of ShadowDel: passwd alone is updated.
MutShadowDel(p) ==
    /\ Then(p, "shadow_del", "del_group")
    /\ UNCHANGED <<passwd, shadow, userinfo>>

ShadowDel(p) ==
    /\ Then(p, "shadow_del", "del_group")
    /\ shadow' = shadow \ Named(shadow, usr[p].name)
    /\ UNCHANGED <<passwd, userinfo>>

DeleteUpdateFails(p) ==
    /\ "io" \in Faults
    /\ \/ Then(p, "lock_pwd", "false")
       \/ Then(p, "passwd_del", "unlock_pwd")
       \/ Then(p, "shadow_del", "unlock_pwd")
    /\ UNCHANGED <<passwd, shadow, userinfo>>

DeleteFromFiles(p) ==
    /\ \/ LockPassword(p) \/ TerminateUser(p) \/ UnlockPassword(p)
       \/ UserinfoDel(p) \/ PasswdDel(p) \/ ShadowDel(p)
       \/ DeleteUpdateFails(p)
    /\ UNCHANGED <<ret, usr, obj, todo, homes>>

DelGroup(p) ==
    /\ pc[p] = "del_group"
    /\ StartDelete(p, [NewObject EXCEPT !.gid = usr[p].gid])
    /\ ret' = [ret EXCEPT ![p] = "del_group"]

DelGroupReturns(p) ==
    /\ Resume(p, "del_group")
    /\ GoTo(p, IF pc[p] = "true" THEN "strip_group" ELSE "false")

DeletePrimaryGroup(p) ==
    /\ DelGroup(p) \/ DelGroupReturns(p)
    /\ UNCHANGED <<passwd, shadow, usr, todo, userinfo, homes>>

\* The last step: the directory is kept as the caller wants, or a system user
\* has none; else it is removed, which fails when it is missing and may fail
\* when it is there.
HomeDel(p) ==
    LET u == usr[p]
        asked == TRUE \in RemHome /\ u.type # "system" IN
    /\ pc[p] = "home_del"
    /\ \/ /\ FALSE \in RemHome \/ u.type = "system"
          /\ GoTo(p, "true")
          /\ UNCHANGED homes
       \/ /\ asked /\ homes[u.name] # None
          /\ GoTo(p, "true")
          /\ homes' = [homes EXCEPT ![u.name] = None]
       \/ /\ asked
          /\ homes[u.name] = None \/ "home" \in Faults
          /\ GoTo(p, "false")
          /\ UNCHANGED homes
    /\ UNCHANGED <<passwd, shadow, ret, usr, obj, todo, userinfo>>

-----------------------------------------------------------------------------
(***************************************************************************)
(* gumd_daemon_user_update.                                                *)
(***************************************************************************)

\* The object before the update: its identity from passwd, its own password
\* and properties, the password from shadow when it has none.
Merged(o, u, s) ==
    [o EXCEPT !.gid = u.gid, !.pwd = IF @ = None THEN s.pwd ELSE @]

\* A secret that is new for the object is encrypted; then the object says "x".
Updated(o) ==
    IF o.secret \notin {None, Placeholder} /\ Encrypted(o.secret) # o.pwd
    THEN SecretSet(o)
    ELSE {[o EXCEPT !.secret = Placeholder]}

\* The icon goes to the userinfo file at once.  Then the update is refused when
\* the secret cannot be encrypted, the type differs or nothing changes; the
\* secret is gone from the object all the same.
CallUserUpdate(p) ==
    LET u == usr[p] IN
    /\ OnUser(p, "user_update")
    /\ \/ /\ u.uid = None \/ Entries(u) = {}
          /\ GoTo(p, "false")
          /\ UNCHANGED <<usr, userinfo>>
       \/ /\ u.uid # None
          /\ \E e \in Entries(u), icon \in BOOLEAN :
             \E o \in Updated(Merged(u, e[1], e[2])) :
                LET changed == \/ icon
                               \/ o.pwd # Merged(u, e[1], e[2]).pwd
                               \/ o.info # e[1].info
                    refused == o.pwd = None \/ o.type # e[1].type \/ ~changed
                IN  /\ SetUser(p, o)
                    /\ \/ icon /\ userinfo' = userinfo \cup {u.uid}
                       \/ (~icon \/ "userinfo" \in Faults) /\ UNCHANGED userinfo
                    /\ GoTo(p, IF refused THEN "false" ELSE "passwd_mod")
    /\ UNCHANGED <<obj, todo>>

PasswdMod(p) ==
    LET u == usr[p]
        its == {e \in passwd : e.name = u.name /\ e.uid = u.uid /\ e.gid = u.gid}
    IN  /\ Then(p, "passwd_mod", "shadow_mod")
        /\ passwd' = (passwd \ its) \cup {PasswdOf(u)}
        /\ UNCHANGED shadow

ShadowMod(p) ==
    /\ Then(p, "shadow_mod", "true")
    /\ shadow' = (shadow \ Named(shadow, usr[p].name)) \cup {ShadowOf(usr[p])}
    /\ UNCHANGED passwd

ModifyUser(p) ==
    /\ PasswdMod(p) \/ ShadowMod(p)
    /\ UNCHANGED <<ret, usr, obj, todo, userinfo, homes>>

-----------------------------------------------------------------------------
CallUser(p) ==
    /\ CallUserAdd(p) \/ CallUserDelete(p) \/ CallUserUpdate(p)
    /\ UNCHANGED <<passwd, shadow, group, gshadow, grp, homes>>

\* The operation returns; its object keeps what was set, also after a failure.
UserReturns(p) ==
    /\ call[p] \in UserCalls
    /\ ret[p] = "caller"
    /\ End(p)
    /\ UNCHANGED <<passwd, shadow, ret, usr, obj, todo, userinfo, homes>>

UserUpdateFails(p) ==
    /\ \E step \in {"passwd_add", "shadow_add", "passwd_mod", "shadow_mod"} :
          UpdateFails(p, step)
    /\ UNCHANGED <<passwd, shadow, ret, usr, obj, todo, userinfo, homes>>

\* The steps of a user operation outside the group operations it calls.
UserStep(p) ==
    \/ /\ \/ AddingUser(p)
          \/ SetDefaultGroups(p)
          \/ DeletePrimaryGroup(p)
          \/ /\ PasswdAdd(p) \/ ShadowAdd(p) \/ UserinfoAdd(p) \/ HomeAdd(p)
             /\ UNCHANGED <<ret, usr, obj>>
          \/ DeleteFromFiles(p)
          \/ HomeDel(p)
          \/ ModifyUser(p)
          \/ UserUpdateFails(p)
       /\ UNCHANGED <<group, gshadow, holder, call, grp>>
    \/ /\ UserReturns(p)
       /\ UNCHANGED <<group, gshadow, grp>>

=============================================================================
