----------------------------- MODULE GumdAccounts -----------------------------
(***************************************************************************)
(* The user and group operations together: processes that each hold a user *)
(* object and a group object, take the lock for one operation at a time    *)
(* and may die anywhere in it.                                             *)
(***************************************************************************)
EXTENDS GumdDaemonUser

files == <<passwd, shadow, group, gshadow>>

vars == <<passwd, shadow, group, gshadow, holder, call, pc, ret, grp, obj,
          usr, todo, userinfo, homes>>

TypeOK == FilesTypeOK /\ GroupTypeOK /\ UserTypeOK

Init == FilesInit /\ GroupInit /\ UserInit

\* What the group operations leave alone.
userVars == <<usr, todo, userinfo, homes>>

HandleGroup(p) ==
    /\ NewGroup(p) \/ LoadGroup(p) \/ SetGroupSecret(p) \/ DropGroup(p)
    /\ UNCHANGED <<files, userVars>>

BeginGroup(p) ==
    /\ CallGroup(p)
    /\ UNCHANGED <<files, userVars>>

\* The steps of a group operation, also of one that a user operation called.
GroupStep(p) ==
    /\ \/ GroupReturns(p) /\ UNCHANGED files
       \/ UpdateGroupFiles(p)
       \/ StripMembership(p, usr[p].name)
    /\ UNCHANGED userVars

\* The steps of an operation that has begun.
Proceed(p) == UserStep(p) \/ GroupStep(p)

\* A process dies in an operation: its objects are gone, the kernel frees the
\* lock, and the files stay as the last finished update left them.
Die(p) ==
    /\ "crash" \in Faults
    /\ pc[p] # "idle"
    /\ holder' = NoProc
    /\ call' = [call EXCEPT ![p] = "none"]
    /\ GoTo(p, "idle")
    /\ ret' = [ret EXCEPT ![p] = "caller"]
    /\ grp' = [grp EXCEPT ![p] = None]
    /\ obj' = [obj EXCEPT ![p] = None]
    /\ SetUser(p, None)
    /\ todo' = [todo EXCEPT ![p] = <<>>]
    /\ UNCHANGED <<files, userinfo, homes>>

Next ==
    \E p \in Proc :
        \/ HandleUser(p) \/ CallUser(p)
        \/ HandleGroup(p) \/ BeginGroup(p)
        \/ Proceed(p)
        \/ Die(p)

Spec == Init /\ [][Next]_vars

\* An operation runs to its end without waiting for anything but the kernel.
Fairness == \A p \in Proc : WF_vars(Proceed(p))

FairSpec == Spec /\ Fairness

-----------------------------------------------------------------------------
(***************************************************************************)
(* Properties of every behaviour, faults included.                         *)
(***************************************************************************)

\* Names and ids stay unique in every file, whatever was interrupted, refused
\* or retried: _set_uid and _set_gid look before the files are written, and
\* nobody else writes in between.
Unique(file) == \A e, f \in file : e.name = f.name => e = f

NamesAndIdsUnique ==
    /\ Unique(passwd) /\ Unique(shadow) /\ Unique(group) /\ Unique(gshadow)
    /\ \A u, v \in passwd : u.uid = v.uid => u = v
    /\ \A g, h \in group : g.gid = h.gid => g = h

\* Every user has a primary group that exists, at every instant: add makes the
\* group before the user, delete removes the user before the group, and a group
\* that is somebody else's primary group is not deleted.
PrimaryGroupExists == \A u \in passwd : \E g \in group : g.gid = u.gid

KeepsItsUser(p) ==
    LET o == usr[p] IN
    \/ None \in {o, usr'[p]} \/ o.uid = None \/ call'[p] = "user_add"
    \/ usr'[p].name = o.name /\ usr'[p].uid = o.uid

\* An object means the same user for ever.  Another process may delete that
\* user and add others that reuse its name or its uid: no call on the old object
\* turns it into one of them (the checks of _get_passwd).
ObjectKeepsItsUser == [][\A p \in Proc : KeepsItsUser(p)]_vars

\* An operation that returns TRUE has done its work in every file, although
\* any of its updates may have failed: what it added or updated is there as the
\* object says, what it deleted is in none of the files.  (Not the removal from
\* the groups of others: see DeletedIsNoMember.  Nor that of the userinfo file,
\* of which TRUE says nothing: _delete_userinfo ignores the result of g_remove.)
TrueMeansDone ==
    \A p \in Proc : pc[p] = "true" /\ ret[p] = "caller" =>
        LET u == usr[p]
            g == obj[p] IN
        /\ call[p] \in {"user_add", "user_update"} =>
              PasswdOf(u) \in passwd /\ ShadowOf(u) \in shadow
        /\ call[p] = "user_delete" =>
              /\ u.uid \notin Uids
              /\ u.name \notin Names(passwd) \cup Names(shadow)
        /\ call[p] \in GroupCalls \ {"group_delete"} =>
              /\ EntryOf(g) \in group
              /\ call[p] # "add_member" /\ HasGshadow => GshadowOf(g) \in gshadow
        /\ call[p] = "group_delete" =>
              \/ g.gid \in {v.gid : v \in passwd}
              \/ g.gid \notin Gids /\ g.name \notin Names(gshadow)

Users == {[name |-> u.name, uid |-> u.uid, gid |-> u.gid] : u \in passwd}

Groups == {[name |-> g.name, gid |-> g.gid] : g \in group}

\* Users and groups come and go as Accounts says: one at a time, a user after
\* its group and a group only without users.
Abstract == INSTANCE Accounts WITH users <- Users, groups <- Groups

AccountsSpec == Abstract!Spec

-----------------------------------------------------------------------------
(***************************************************************************)
(* A property of the behaviours in which userinfo files can be removed.    *)
(***************************************************************************)

\* A uid that is free has no userinfo file, so that the next user with that uid
\* does not inherit the icon of a deleted one.  The file goes before the user,
\* and an icon is written only for a user who is there; so a delete or an update
\* may stop at any step, after a failed update of a database file or because the
\* process dies.  A g_remove that fails does leave the file behind.
UserinfoHasUser == userinfo \subseteq Uids

-----------------------------------------------------------------------------
(***************************************************************************)
(* Properties of the behaviours in which no update of a file fails and no  *)
(* process dies.                                                           *)
(***************************************************************************)

\* Between operations the two files of users name the same users, and those of
\* groups the same groups with the same members.
FilesAgree ==
    holder = NoProc =>
        /\ Names(passwd) = Names(shadow)
        /\ HasGshadow => {<<g.name, g.mem>> : g \in group}
                             = {<<s.name, s.mem>> : s \in gshadow}

\* Between operations no group has a member, and no gshadow entry an
\* administrator, that is not a user: a later user of that name would come into
\* the groups of a deleted one.
NoDanglingMember ==
    holder = NoProc =>
        /\ \A g \in group : g.mem \subseteq Names(passwd)
        /\ \A s \in gshadow : s.adm \subseteq Names(passwd) \cap s.mem

\* A delete that fails gives the user back the password it had, when that was
\* not locked.
FailedDeleteRestores ==
    [][\A p \in Proc :
          pc[p] = "unlock_pwd" /\ pc'[p] = "false" /\ ~usr[p].pwd.locked
              => ShadowOf(usr[p]) \in shadow']_vars

\* Every operation returns, and with it the lock: none waits for another or
\* goes round in its default groups.
OperationsReturn == \A p \in Proc : pc[p] # "idle" ~> pc[p] = "idle"

-----------------------------------------------------------------------------
(***************************************************************************)
(* What comments and documents say and the code does not do.               *)
(***************************************************************************)

\* "Only secret can be updated" (gumd-daemon-group.c:973): an update of a group
\* leaves the members alone.
UpdateKeepsMembers ==
    [][\A p \in Proc : call[p] = "group_update" =>
          \A g \in group, h \in group' : g.gid = h.gid => g.mem = h.mem]_vars

\* "lock the user" (gumd-daemon-user.c:1829): while a delete is past that step
\* and the user is still in shadow, its password is locked.
LockedWhileDeleted ==
    \A p \in Proc :
        pc[p] \in {"terminate", "userinfo_del", "passwd_del", "shadow_del"} =>
            \A s \in Named(shadow, usr[p].name) : s.pwd.locked

\* "delete user from groups" (gumd-daemon-user.c:1799): a user whose delete
\* returns TRUE is in no group.
DeletedIsNoMember ==
    \A p \in Proc : pc[p] = "true" /\ call[p] = "user_delete" /\ ret[p] = "caller" =>
        \A g \in group : usr[p].name \notin g.mem

=============================================================================
