--------------------------- MODULE GumdFilesProofs ---------------------------
(***************************************************************************)
(* Proofs about the files of GumdAccounts: what TRUE promises, whichever   *)
(* of the Faults occur; that a free uid has no userinfo file, where these  *)
(* can be removed; and, where no update fails and no process dies, that    *)
(* the files agree, that no group keeps a member that is gone, and that a  *)
(* delete that fails gives the password back.                              *)
(***************************************************************************)
EXTENDS GumdAccountsProofs

-----------------------------------------------------------------------------
(***************************************************************************)
(* What an operation has done so far, at each of its steps.  This is what  *)
(* TRUE promises at the end, carried back to where each file was written.  *)
(***************************************************************************)

\* Which operation a step, or a return address, belongs to.
Belongs(c, step, back) ==
    /\ \/ step \in {"set_group", "set_shadow", "passwd_add", "shadow_add",
                    "userinfo_add", "def_groups", "home_add"}
       \/ back \in {"set_group", "def_groups"}
       => c = "user_add"
    /\ \/ step \in {"lock_pwd", "terminate", "unlock_pwd", "userinfo_del",
                    "passwd_del", "shadow_del", "del_group", "strip_group",
                    "strip_gshadow", "home_del"}
       \/ back = "del_group"
       => c = "user_delete"
    /\ step \in {"passwd_mod", "shadow_mod"} => c = "user_update"
    /\ back = "def_groups" => step \in {"member_add", "gshadow_mod", "true", "false"}
    /\ back = "del_group" => step \in {"group_del", "gshadow_del", "true", "false"}
    /\ back = "caller" =>
          /\ step \in {"group_add", "gshadow_add"} => c = "group_add"
          /\ step \in {"group_del", "gshadow_del"} => c = "group_delete"
          /\ step = "group_mod" => c \in {"group_update", "delete_member"}
          /\ step = "member_add" => c = "add_member"
          /\ step = "gshadow_mod" => c \in {"group_update", "add_member", "delete_member"}
    /\ step \in {"gshadow_add", "gshadow_del", "strip_gshadow"} => HasGshadow

\* The operation returns TRUE to its caller.
Succeeded(c, step, back, calls) == step = "true" /\ back = "caller" /\ c \in calls

\* An added or updated user is in passwd, and then in shadow, as the object says.
UserWritten(c, step, back, u) ==
    LET stored == \/ back = "def_groups"
                  \/ Succeeded(c, step, back, {"user_add", "user_update"})
        inShadow == step \in {"userinfo_add", "def_groups", "home_add"} \/ stored
    IN  /\ inShadow \/ step \in {"shadow_add", "shadow_mod"} => PasswdOf(u) \in passwd
        /\ inShadow => ShadowOf(u) \in shadow

\* A user that is being deleted is there until passwd_del, and goes from the
\* userinfo directory, when its file can be removed, passwd and shadow in this
\* order.
UserErased(c, step, back, u) ==
    LET noShadow == \/ step \in {"del_group", "strip_group", "strip_gshadow", "home_del"}
                    \/ back = "del_group"
                    \/ Succeeded(c, step, back, {"user_delete"})
        noPasswd == step = "shadow_del" \/ noShadow
        noUserinfo == step = "passwd_del" \/ noPasswd
    IN  /\ step \in {"lock_pwd", "terminate", "userinfo_del", "passwd_del"} =>
              \E e \in passwd : e.name = u.name /\ e.uid = u.uid /\ e.gid = u.gid
        /\ noUserinfo /\ "userinfo" \notin Faults => u.uid \notin userinfo
        /\ noPasswd => u.uid \notin Uids /\ u.name \notin Names(passwd)
        /\ noShadow => u.name \notin Names(shadow)

\* The same for groups.
GroupWritten(c, step, back, g) ==
    /\ \/ step \in {"gshadow_add", "gshadow_mod"}
       \/ Succeeded(c, step, back, GroupCalls \ {"group_delete"})
       => EntryOf(g) \in group
    /\ Succeeded(c, step, back, GroupCalls \ {"group_delete", "add_member"}) /\ HasGshadow
       => GshadowOf(g) \in gshadow

GroupErased(c, step, back, g) ==
    /\ step = "group_del" => \E e \in group : e.name = g.name /\ e.gid = g.gid
    /\ step = "gshadow_del" => g.gid \notin Gids
    /\ Succeeded(c, step, back, {"group_delete"}) =>
          \/ g.gid \in {v.gid : v \in passwd}
          \/ g.gid \notin Gids /\ g.name \notin Names(gshadow)

Done(p) ==
    /\ Belongs(call[p], pc[p], ret[p])
    /\ UserWritten(call[p], pc[p], ret[p], usr[p])
    /\ UserErased(call[p], pc[p], ret[p], usr[p])
    /\ GroupWritten(call[p], pc[p], ret[p], obj[p])
    /\ GroupErased(call[p], pc[p], ret[p], obj[p])

UserinfoKept == "userinfo" \notin Faults => UserinfoHasUser

DoneInv ==
    /\ UserinfoKept
    /\ ~HasGshadow => gshadow = {}
    /\ \A p \in Proc : Done(p)

-----------------------------------------------------------------------------
(***************************************************************************)
(* Lemmas about a step of one process.                                     *)
(***************************************************************************)

\* What an assignment to the entry of one process makes of it.
LEMMA Domains ==
    ASSUME AccountsInv
    PROVE  /\ DOMAIN pc = Proc /\ DOMAIN call = Proc /\ DOMAIN ret = Proc
           /\ DOMAIN obj = Proc /\ DOMAIN grp = Proc
           /\ DOMAIN usr = Proc /\ DOMAIN todo = Proc
  BY DEF AccountsInv, TypeOK, GroupTypeOK, UserTypeOK

\* A process between operations.
LEMMA Resting ==
    ASSUME AccountsInv, NEW q \in Proc, pc[q] = "idle"
    PROVE  call[q] = "none" /\ ret[q] = "caller"
  BY DEF AccountsInv, Ready, Control, UserCalls

LEMMA RestingIsDone ==
    ASSUME NEW q \in Proc, pc[q] = "idle", ret[q] = "caller"
    PROVE  Done(q)
  BY DEF Done, Belongs, UserWritten, UserErased, GroupWritten, GroupErased, Succeeded

\* When a process works, the others rest.
LEMMA OthersStayDone ==
    ASSUME AccountsInv', NEW p \in Proc, holder' \in {p, NoProc}, Done(p)',
           UserinfoKept', (~HasGshadow => gshadow = {})'
    PROVE  DoneInv'
<1>1. ASSUME NEW q \in Proc, q # p
      PROVE  Done(q)'
    <2>1. pc'[q] = "idle"
        BY <1>1, AccountAssumption DEF AccountsInv, OneAtWork
    <2>2. ret'[q] = "caller"
        BY <2>1 DEF AccountsInv, Ready, Control, UserCalls
    <2>3. QED
        BY <2>1, <2>2 DEF Done, Belongs, UserWritten, UserErased, GroupWritten,
           GroupErased, Succeeded
<1>2. QED
    BY <1>1 DEF DoneInv

\* What holds of the user operation at work.
LEMMA UserDone ==
    ASSUME AccountsInv, DoneInv, NEW p \in Proc, pc[p] \in UserSteps
    PROVE  /\ ret[p] = "caller" /\ Done(p)
           /\ UserReady(usr[p], pc[p], "caller")
           /\ DOMAIN pc = Proc
<1>1. Ready(p)
    BY DEF AccountsInv
<1>2. ret[p] = "caller"
    BY <1>1 DEF Ready, Control, UserSteps, GroupSteps, Results
<1>3. QED
    BY <1>1, <1>2, Domains DEF DoneInv, Ready

-----------------------------------------------------------------------------
(***************************************************************************)
(* The steps of a user operation on passwd, shadow and the userinfo files. *)
(***************************************************************************)
LEMMA AddedUserDone ==
    ASSUME AccountsInv, DoneInv, NEW p \in Proc,
           PasswdAdd(p) \/ ShadowAdd(p) \/ UserinfoAdd(p) \/ HomeAdd(p),
           UNCHANGED <<gshadow, call, ret, usr, obj>>
    PROVE  Done(p)' /\ UserinfoKept'
<1>1. pc[p] \in {"passwd_add", "shadow_add", "userinfo_add", "home_add"}
    BY DEF PasswdAdd, ShadowAdd, UserinfoAdd, HomeAdd, Then
<1>2. ret[p] = "caller" /\ Done(p) /\ DOMAIN pc = Proc
    BY <1>1, UserDone DEF UserSteps
<1>3. call[p] = "user_add"
    BY <1>1, <1>2 DEF Done, Belongs
<1>4. UserinfoKept
    BY DEF DoneInv
<1> USE DEF Then, GoTo
<1>5. Belongs(call[p], pc[p], ret[p])'
    BY <1>2, <1>3 DEF PasswdAdd, ShadowAdd, UserinfoAdd, HomeAdd, Belongs
<1>6. UserErased(call[p], pc[p], ret[p], usr[p])'
    BY <1>2, <1>3 DEF PasswdAdd, ShadowAdd, UserinfoAdd, HomeAdd, UserErased, Succeeded
<1>7. GroupWritten(call[p], pc[p], ret[p], obj[p])' /\ GroupErased(call[p], pc[p], ret[p], obj[p])'
    BY <1>2, <1>3 DEF PasswdAdd, ShadowAdd, UserinfoAdd, HomeAdd, GroupWritten,
       GroupErased, Succeeded, GroupCalls
<1>8. UserWritten(call[p], pc[p], ret[p], usr[p]) /\ PasswdOf(usr[p])' = PasswdOf(usr[p])
      /\ ShadowOf(usr[p])' = ShadowOf(usr[p])
    BY <1>2 DEF Done, PasswdOf, ShadowOf
<1>9. UserWritten(call[p], pc[p], ret[p], usr[p])'
    BY <1>2, <1>3, <1>8 DEF PasswdAdd, ShadowAdd, UserinfoAdd, HomeAdd, UserWritten, Succeeded
<1>10. UserinfoKept'
    <2>1. pc[p] = "userinfo_add" => usr[p].uid \in Uids
        BY <1>8 DEF UserWritten, PasswdOf, Uids
    <2>2. QED
        BY <1>4, <2>1 DEF PasswdAdd, ShadowAdd, UserinfoAdd, HomeAdd, UserinfoKept,
           UserinfoHasUser, Uids
<1>11. QED
    BY <1>5, <1>6, <1>7, <1>9, <1>10 DEF Done

LEMMA DeletedUserDone ==
    ASSUME AccountsInv, DoneInv, NEW p \in Proc, DeleteFromFiles(p),
           UNCHANGED <<gshadow, call>>
    PROVE  Done(p)' /\ UserinfoKept'
<1>1. /\ pc[p] \in UserSteps
      /\ pc[p] \in {"lock_pwd", "terminate", "unlock_pwd", "userinfo_del",
                    "passwd_del", "shadow_del"}
      /\ UNCHANGED <<ret, usr, obj>>
    BY DEF DeleteFromFiles, LockPassword, TerminateUser, UnlockPassword, UserinfoDel,
       PasswdDel, ShadowDel, DeleteUpdateFails, Then, UserSteps
<1>2. ret[p] = "caller" /\ Done(p) /\ DOMAIN pc = Proc
    BY <1>1, UserDone
<1>3. call[p] = "user_delete"
    BY <1>1, <1>2 DEF Done, Belongs
<1>4. UserinfoKept /\ UserErased(call[p], pc[p], ret[p], usr[p]) /\ NamesAndIdsUnique
    BY <1>2 DEF DoneInv, Done, AccountsInv
<1> USE DEF Then, GoTo, DeleteFromFiles
<1>5. pc'[p] \in {"false", "terminate", "userinfo_del", "unlock_pwd", "passwd_del",
                 "shadow_del", "del_group"}
    BY <1>2 DEF LockPassword, TerminateUser, UnlockPassword, UserinfoDel,
       PasswdDel, ShadowDel, DeleteUpdateFails
<1>6. Belongs(call[p], pc[p], ret[p])' /\ UserWritten(call[p], pc[p], ret[p], usr[p])'
    BY <1>1, <1>2, <1>3, <1>5 DEF Belongs, UserWritten, Succeeded
<1>7. GroupWritten(call[p], pc[p], ret[p], obj[p])' /\ GroupErased(call[p], pc[p], ret[p], obj[p])'
    BY <1>1, <1>2, <1>3, <1>5 DEF GroupWritten, GroupErased, Succeeded
<1>8. CASE PasswdDel(p)
    <2>1. PICK e \in passwd :
             /\ e.name = usr[p].name /\ e.uid = usr[p].uid
             /\ passwd' = passwd \ {e}
        <3>1. PICK e \in passwd :
                 e.name = usr[p].name /\ e.uid = usr[p].uid /\ e.gid = usr[p].gid
            BY <1>4, <1>8 DEF PasswdDel, UserErased
        <3>2. passwd' = passwd \ {e}
            BY <1>4, <1>8, <3>1 DEF PasswdDel, NamesAndIdsUnique, Unique
        <3>3. QED
            BY <3>1, <3>2
    <2>2. /\ "userinfo" \notin Faults => usr[p].uid \notin userinfo
          /\ userinfo' = userinfo
        BY <1>4, <1>8 DEF PasswdDel, UserErased
    <2>3. usr[p].uid \notin Uids' /\ usr[p].name \notin Names(passwd)'
        BY <1>4, <2>1 DEF NamesAndIdsUnique, Unique, Uids, Names
    <2>4. UserinfoKept'
        BY <1>4, <2>1, <2>2 DEF UserinfoKept, UserinfoHasUser, Uids
    <2>5. UserErased(call[p], pc[p], ret[p], usr[p])'
        BY <1>1, <1>2, <1>3, <1>8, <2>2, <2>3 DEF PasswdDel, UserErased, Succeeded
    <2>6. QED
        BY <1>6, <1>7, <2>4, <2>5 DEF Done
<1>9. CASE ~ PasswdDel(p)
    <2>1. passwd' = passwd /\ userinfo' \subseteq userinfo
        BY <1>9 DEF LockPassword, TerminateUser, UnlockPassword, UserinfoDel,
           ShadowDel, DeleteUpdateFails
    <2>2. UserErased(call[p], pc[p], ret[p], usr[p])'
        BY <1>1, <1>2, <1>3, <1>4, <1>9, <2>1 DEF LockPassword, TerminateUser,
           UnlockPassword, UserinfoDel, ShadowDel, DeleteUpdateFails, UserErased,
           Succeeded, Uids, Names, Named
    <2>3. QED
        BY <1>4, <1>6, <1>7, <2>1, <2>2 DEF Done, UserinfoKept, UserinfoHasUser, Uids
<1>10. QED
    BY <1>8, <1>9

LEMMA ModifiedUserDone ==
    ASSUME AccountsInv, DoneInv, NEW p \in Proc,
           ModifyUser(p) \/ UserUpdateFails(p) \/ HomeDel(p), UNCHANGED <<gshadow, call>>
    PROVE  Done(p)' /\ UserinfoKept'
<1>1. /\ pc[p] \in {"passwd_mod", "shadow_mod", "passwd_add", "shadow_add", "home_del"}
      /\ pc[p] = "home_del" => HomeDel(p)
      /\ UNCHANGED <<ret, usr, obj, userinfo>>
    BY DEF ModifyUser, PasswdMod, ShadowMod, UserUpdateFails, UpdateFails, HomeDel, Then
<1>2. /\ ret[p] = "caller" /\ Done(p) /\ DOMAIN pc = Proc
      /\ UserReady(usr[p], pc[p], "caller")
    BY <1>1, UserDone DEF UserSteps
<1>3. UserinfoKept
    BY DEF DoneInv
<1>4. CASE UserUpdateFails(p)
    BY <1>1, <1>2, <1>3, <1>4 DEF UserUpdateFails, UpdateFails, GoTo, Done, Belongs,
       UserWritten, UserErased, GroupWritten, GroupErased, Succeeded, UserinfoKept,
       UserinfoHasUser, Uids
<1>5. CASE HomeDel(p)
    BY <1>1, <1>2, <1>3, <1>5 DEF HomeDel, GoTo, Done, Belongs, UserWritten,
       UserErased, GroupWritten, GroupErased, Succeeded, UserinfoKept, UserinfoHasUser,
       Uids, Names, GroupCalls
<1>6. CASE ModifyUser(p)
    <2>1. call[p] = "user_update"
        BY <1>2, <1>6 DEF ModifyUser, PasswdMod, ShadowMod, Then, Done, Belongs
    <2>2. /\ pc'[p] \in {"shadow_mod", "true"}
          /\ PasswdOf(usr[p]) \in passwd'
          /\ pc'[p] = "true" => ShadowOf(usr[p]) \in shadow'
        BY <1>2, <1>6 DEF ModifyUser, PasswdMod, ShadowMod, Then, GoTo, Done, UserWritten
    <2>3. UserinfoKept'
        <3>1. CASE PasswdMod(p)
            <4>1. Uids \subseteq Uids'
                <5>1. PasswdOf(usr[p]) \in passwd' /\ PasswdOf(usr[p]).uid = usr[p].uid
                    BY <2>2 DEF PasswdOf
                <5>2. \A e \in passwd : e \in passwd' \/ e.uid = usr[p].uid
                    BY <3>1 DEF PasswdMod
                <5>3. QED
                    BY <5>1, <5>2 DEF Uids
            <4>2. QED
                BY <1>1, <1>3, <4>1 DEF UserinfoKept, UserinfoHasUser
        <3>2. CASE ShadowMod(p)
            BY <1>1, <1>3, <3>2 DEF ShadowMod, UserinfoKept, UserinfoHasUser, Uids
        <3>3. QED
            BY <1>6, <3>1, <3>2 DEF ModifyUser
    <2>4. Belongs(call[p], pc[p], ret[p])' /\ UserErased(call[p], pc[p], ret[p], usr[p])'
        BY <1>1, <1>2, <2>1, <2>2 DEF Belongs, UserErased, Succeeded
    <2>5. GroupWritten(call[p], pc[p], ret[p], obj[p])' /\ GroupErased(call[p], pc[p], ret[p], obj[p])'
        BY <1>1, <1>2, <2>1, <2>2 DEF GroupWritten, GroupErased, Succeeded, GroupCalls
    <2>6. UserWritten(call[p], pc[p], ret[p], usr[p])'
        BY <1>1, <1>2, <2>1, <2>2 DEF UserWritten, Succeeded, PasswdOf, ShadowOf
    <2>7. QED
        BY <2>3, <2>4, <2>5, <2>6 DEF Done
<1>7. QED
    BY <1>4, <1>5, <1>6

-----------------------------------------------------------------------------
(***************************************************************************)
(* The operations begin.                                                   *)
(***************************************************************************)
LEMMA CallUserDone ==
    ASSUME AccountsInv, DoneInv, NEW p \in Proc, CallUser(p)
    PROVE  Done(p)' /\ UserinfoKept'
<1>1. /\ UNCHANGED <<passwd, shadow, group, gshadow>>
      /\ ret' = [ret EXCEPT ![p] = "caller"] /\ usr[p] # None
    BY DEF CallUser, CallUserAdd, CallUserDelete, CallUserUpdate, OnUser
<1>2. DOMAIN pc = Proc /\ DOMAIN call = Proc /\ DOMAIN ret = Proc /\ DOMAIN usr = Proc
    BY Domains
<1>3. UserinfoKept
    BY DEF DoneInv
<1> USE DEF OnUser, Begin, GoTo, SetUser
<1>4. CASE CallUserAdd(p)
    <2>1. call'[p] = "user_add" /\ pc'[p] \in {"false", "set_group"} /\ ret'[p] = "caller"
        BY <1>1, <1>2, <1>4 DEF CallUserAdd
    <2>2. UserinfoKept'
        BY <1>1, <1>3, <1>4 DEF CallUserAdd, UserinfoKept, UserinfoHasUser, Uids
    <2>3. QED
        BY <2>1, <2>2 DEF Done, Belongs, UserWritten, UserErased, GroupWritten,
           GroupErased, Succeeded
<1>5. CASE CallUserDelete(p)
    <2>1. call'[p] = "user_delete" /\ pc'[p] \in {"false", "lock_pwd"} /\ ret'[p] = "caller"
        BY <1>1, <1>2, <1>5 DEF CallUserDelete
    <2>2. pc'[p] = "lock_pwd" => \E e \in passwd : /\ e.name = usr'[p].name
                                                   /\ e.uid = usr'[p].uid
                                                   /\ e.gid = usr'[p].gid
        BY <1>2, <1>5 DEF CallUserDelete, Entries, GetPasswd, CopyUser
    <2>3. UserinfoKept'
        BY <1>1, <1>3, <1>5 DEF CallUserDelete, UserinfoKept, UserinfoHasUser, Uids
    <2>4. QED
        BY <1>1, <2>1, <2>2, <2>3 DEF Done, Belongs, UserWritten, UserErased,
           GroupWritten, GroupErased, Succeeded
<1>6. CASE CallUserUpdate(p)
    <2>1. call'[p] = "user_update" /\ pc'[p] \in {"false", "passwd_mod"} /\ ret'[p] = "caller"
        BY <1>1, <1>2, <1>6 DEF CallUserUpdate
    <2>2. \/ userinfo' = userinfo
          \/ userinfo' = userinfo \cup {usr[p].uid} /\ usr[p].uid \in Uids
        BY <1>6 DEF CallUserUpdate, Entries, GetPasswd, Uids
    <2>3. UserinfoKept'
        BY <1>1, <1>3, <2>2 DEF UserinfoKept, UserinfoHasUser, Uids
    <2>4. QED
        BY <2>1, <2>3 DEF Done, Belongs, UserWritten, UserErased, GroupWritten,
           GroupErased, Succeeded
<1>7. QED
    BY <1>4, <1>5, <1>6 DEF CallUser

\* A delete of a group finds it, and keeps the primary group of a user.
LEMMA StartDeleteDone ==
    ASSUME AccountsInv, NEW p \in Proc, NEW g \in GroupObject, StartDelete(p, g)
    PROVE  /\ pc'[p] \in {"group_del", "true", "false"}
           /\ pc'[p] = "group_del" => \E e \in group : /\ e.name = obj'[p].name
                                                       /\ e.gid = obj'[p].gid
           /\ pc'[p] = "true" => obj'[p].gid \in {v.gid : v \in passwd}
<1>1. DOMAIN pc = Proc /\ DOMAIN obj = Proc
    BY Domains
<1>2. CASE Refuse(p, g)
    BY <1>1, <1>2 DEF Refuse, GoTo
<1>3. ASSUME NEW e \in GetGroup(g),
             obj' = [obj EXCEPT ![p] = CopyGroup(g, e)],
             GoTo(p, IF \E u \in passwd : u.gid = e.gid THEN "true" ELSE "group_del")
      PROVE  /\ pc'[p] \in {"group_del", "true"}
             /\ e.name = obj'[p].name /\ e.gid = obj'[p].gid /\ e \in group
             /\ pc'[p] = "true" => obj'[p].gid \in {v.gid : v \in passwd}
    <2>1. e \in group
        BY DEF GetGroup
    <2>2. CopyGroup(g, e).name = e.name /\ CopyGroup(g, e).gid = e.gid
        BY <2>1, CopyGroupType DEF AccountsInv, TypeOK
    <2>3. obj'[p].name = e.name /\ obj'[p].gid = e.gid
        BY <1>1, <1>3, <2>2
    <2>4. QED
        BY <1>1, <1>3, <2>1, <2>3 DEF GoTo
<1>4. QED
    BY <1>2, <1>3 DEF StartDelete

\* Any other start goes to a step at which nothing is written yet.
LEMMA StartedStep ==
    ASSUME AccountsInv, NEW p \in Proc, NEW g, NEW steps, Started(p, g, steps)
    PROVE  pc'[p] \in steps
  BY Domains DEF Started

\* Where the operations on a group of the caller go first.
LEMMA BeginGroupGoes ==
    ASSUME AccountsInv, NEW p \in Proc, BeginGroup(p)
    PROVE  \/ CallGroupAdd(p) /\ call'[p] = "group_add" /\ pc'[p] \in {"group_add", "false"}
           \/ CallGroupUpdate(p) /\ call'[p] = "group_update" /\ pc'[p] \in {"group_mod", "false"}
           \/ CallAddMember(p) /\ call'[p] = "add_member" /\ pc'[p] \in {"member_add", "false"}
           \/ CallDeleteMember(p) /\ call'[p] = "delete_member" /\ pc'[p] \in {"group_mod", "false"}
           \/ CallGroupDelete(p) /\ call'[p] = "group_delete" /\ pc'[p] \in {"group_del", "true", "false"}
<1>1. grp[p] # None
    BY DEF BeginGroup, CallGroup, CallGroupAdd, CallGroupDelete, CallGroupUpdate,
           CallAddMember, CallDeleteMember, OnOwnGroup
<1>2. /\ FilesTypeOK /\ grp[p] \in GroupObject /\ grp[p].name \in GroupName
    BY <1>1 DEF AccountsInv, TypeOK, GroupTypeOK, Ready, OwnGroup
<1>3. CASE CallGroupAdd(p)
    <2>1. grp[p].type \in GroupType
        BY <1>2, <1>3 DEF CallGroupAdd, GroupObject
    <2>2. pc'[p] \in {"group_add", "false"}
        BY <1>2, <1>3, <2>1, StartAddReady, StartedStep DEF CallGroupAdd
    <2>3. QED
        BY <1>3, <2>2, Domains DEF CallGroupAdd, OnOwnGroup, Begin
<1>4. CASE CallGroupUpdate(p)
    <2>1. pc'[p] \in {"group_mod", "false"}
        BY <1>2, <1>4, StartUpdateReady, StartedStep DEF CallGroupUpdate
    <2>2. QED
        BY <1>4, <2>1, Domains DEF CallGroupUpdate, OnOwnGroup, Begin
<1>5. CASE CallAddMember(p)
    <2>1. pc'[p] \in {"member_add", "false"}
        BY <1>2, <1>5, StartAddMemberReady, StartedStep DEF CallAddMember
    <2>2. QED
        BY <1>5, <2>1, Domains DEF CallAddMember, OnOwnGroup, Begin
<1>6. CASE CallDeleteMember(p)
    <2>1. pc'[p] \in {"group_mod", "false"}
        BY <1>2, <1>6, StartDeleteMemberReady, StartedStep DEF CallDeleteMember
    <2>2. QED
        BY <1>6, <2>1, Domains DEF CallDeleteMember, OnOwnGroup, Begin
<1>7. CASE CallGroupDelete(p)
    <2>1. pc'[p] \in {"group_del", "true", "false"}
        BY <1>2, <1>7, StartDeleteDone DEF CallGroupDelete
    <2>2. QED
        BY <1>7, <2>1, Domains DEF CallGroupDelete, OnOwnGroup, Begin
<1>8. QED
    BY <1>3, <1>4, <1>5, <1>6, <1>7 DEF BeginGroup, CallGroup

LEMMA BeginGroupDone ==
    ASSUME AccountsInv, DoneInv, NEW p \in Proc, BeginGroup(p)
    PROVE  Done(p)' /\ UserinfoKept'
<1>1. /\ UNCHANGED <<files, userVars>> /\ grp[p] # None
      /\ ret' = [ret EXCEPT ![p] = "caller"]
    BY DEF BeginGroup, CallGroup, CallGroupAdd, CallGroupDelete, CallGroupUpdate,
           CallAddMember, CallDeleteMember, OnOwnGroup
<1>2. /\ FilesTypeOK /\ grp[p] \in GroupObject /\ grp[p].name \in GroupName
    BY <1>1 DEF AccountsInv, TypeOK, GroupTypeOK, Ready, OwnGroup
<1>3. ret'[p] = "caller" /\ UserinfoKept'
    BY <1>1, Domains DEF DoneInv, UserinfoKept, UserinfoHasUser, Uids, files, userVars
<1>4. CASE CallGroupDelete(p)
    <2>1. call'[p] = "group_delete"
        BY <1>4, Domains DEF CallGroupDelete, OnOwnGroup, Begin
    <2>2. /\ pc'[p] \in {"group_del", "true", "false"}
          /\ pc'[p] = "group_del" => \E e \in group : /\ e.name = obj'[p].name
                                                      /\ e.gid = obj'[p].gid
          /\ pc'[p] = "true" => obj'[p].gid \in {v.gid : v \in passwd}
        BY <1>2, <1>4, StartDeleteDone DEF CallGroupDelete
    <2>3. QED
        BY <1>1, <1>3, <2>1, <2>2 DEF Done, Belongs, UserWritten, UserErased,
           GroupWritten, GroupErased, Succeeded, files
<1>5. CASE ~ CallGroupDelete(p)
    BY <1>3, <1>5, BeginGroupGoes DEF Done, Belongs, UserWritten, UserErased, GroupWritten,
       GroupErased, Succeeded
<1>6. QED
    BY <1>4, <1>5

\* A group object of a user operation is new: it brings no members along.
Fresh(g) == g.mem = None /\ g.smem = None /\ g.sadm = None

\* A user operation calls a group operation.
CallsGroup(p) ==
    \E g \in GroupObject :
        /\ Fresh(g)
        /\ \/ /\ pc[p] = "set_group" /\ ret'[p] = "set_group"
              /\ g.name \in GroupName /\ g.type \in GroupType
              /\ usr[p].uid \in Nat
              /\ StartAdd(p, g, usr[p].uid)
           \/ /\ pc[p] = "def_groups" /\ ret'[p] = "def_groups"
              /\ StartAddMember(p, g, usr[p].uid, FALSE)
           \/ /\ pc[p] = "del_group" /\ ret'[p] = "del_group"
              /\ g.gid = usr[p].gid /\ g.name = None
              /\ StartDelete(p, g)

LEMMA UserCallsGroup ==
    ASSUME AccountsInv, NEW p \in Proc, SetGroup(p) \/ DefaultGroup(p) \/ DelGroup(p)
    PROVE  \/ CallsGroup(p)
           \/ pc[p] = "set_group" /\ pc'[p] = "set_shadow" /\ UNCHANGED <<ret, obj>>
<1>1. DOMAIN pc = Proc /\ DOMAIN ret = Proc
    BY Domains
<1>2. Fresh(NewObject) /\ NewObject.name = None
    BY DEF Fresh, NewObject
<1>3. CASE SetGroup(p)
    <2> DEFINE name == IF PrimaryGroup = None THEN usr[p].name ELSE PrimaryGroup
               type == IF usr[p].type = "system" THEN "system" ELSE "user"
               g == [NewObject EXCEPT !.name = name, !.type = type]
    <2>1. pc[p] = "set_group" /\ usr[p].name \in UserName /\ usr[p].uid \in Nat
        BY <1>3, UserAtWork DEF SetGroup, UserSteps
    <2>2. name \in GroupName /\ type \in GroupType
        BY <2>1, AccountAssumption DEF GroupType
    <2>3. g \in GroupObject /\ g.name \in GroupName /\ g.type \in GroupType /\ Fresh(g)
        <3> HIDE DEF name, type
        <3>1. QED
            BY <1>2, <2>2, NewObjectType DEF GroupObject, Fresh
    <2>4. CASE GoTo(p, "set_shadow") /\ UNCHANGED <<ret, obj>>
        BY <1>1, <2>1, <2>4 DEF GoTo
    <2>5. CASE StartAdd(p, g, usr[p].uid) /\ ret' = [ret EXCEPT ![p] = "set_group"]
        <3> HIDE DEF g
        <3>1. QED
            BY <1>1, <2>1, <2>3, <2>5 DEF CallsGroup
    <2>6. QED
        BY <1>3, <2>4, <2>5 DEF SetGroup
<1>4. CASE DefaultGroup(p)
    <2> DEFINE g == [NewObject EXCEPT !.name = Head(todo[p])]
    <2>1. /\ pc[p] = "def_groups" /\ StartAddMember(p, g, usr[p].uid, FALSE)
          /\ ret' = [ret EXCEPT ![p] = "def_groups"] /\ todo[p] # <<>>
        BY <1>4 DEF DefaultGroup
    <2>2. g \in GroupObject /\ Fresh(g)
        <3>1. todo[p] \in Seq(GroupName)
            BY DEF AccountsInv, TypeOK, UserTypeOK
        <3>2. Head(todo[p]) \in GroupName
            BY <2>1, <3>1
        <3>3. QED
            BY <1>2, <3>2, NewObjectType DEF GroupObject, Fresh
    <2> HIDE DEF g
    <2>3. QED
        BY <1>1, <2>1, <2>2 DEF CallsGroup
<1>5. CASE DelGroup(p)
    <2> DEFINE g == [NewObject EXCEPT !.gid = usr[p].gid]
    <2>1. /\ pc[p] = "del_group" /\ StartDelete(p, g)
          /\ ret' = [ret EXCEPT ![p] = "del_group"]
        BY <1>5 DEF DelGroup
    <2>2. usr[p].gid \in Nat \cup {None}
        BY <2>1, UserAtWork DEF UserObject, UserSteps
    <2>3. g \in GroupObject /\ Fresh(g) /\ g.gid = usr[p].gid /\ g.name = None
        BY <1>2, <2>2, NewObjectType DEF GroupObject, Fresh
    <2> HIDE DEF g
    <2>4. QED
        BY <1>1, <2>1, <2>3 DEF CallsGroup
<1>6. QED
    BY <1>3, <1>4, <1>5

\* Where it goes.
LEMMA CallsGroupGoes ==
    ASSUME AccountsInv, NEW p \in Proc, CallsGroup(p)
    PROVE  \/ /\ pc[p] = "set_group" /\ ret'[p] = "set_group"
              /\ pc'[p] \in {"group_add", "false"}
           \/ /\ pc[p] = "def_groups" /\ ret'[p] = "def_groups"
              /\ pc'[p] \in {"member_add", "false"}
           \/ /\ pc[p] = "del_group" /\ ret'[p] = "del_group"
              /\ pc'[p] \in {"group_del", "true", "false"}
              /\ pc'[p] = "group_del" => \E e \in group : /\ e.name = obj'[p].name
                                                          /\ e.gid = obj'[p].gid
<1>1. FilesTypeOK
    BY DEF AccountsInv, TypeOK
<1>2. PICK g \in GroupObject :
         \/ /\ pc[p] = "set_group" /\ ret'[p] = "set_group"
            /\ g.name \in GroupName /\ g.type \in GroupType
            /\ usr[p].uid \in Nat
            /\ StartAdd(p, g, usr[p].uid)
         \/ /\ pc[p] = "def_groups" /\ ret'[p] = "def_groups"
            /\ StartAddMember(p, g, usr[p].uid, FALSE)
         \/ /\ pc[p] = "del_group" /\ ret'[p] = "del_group"
            /\ StartDelete(p, g)
    BY DEF CallsGroup
<1>3. CASE /\ pc[p] = "set_group" /\ ret'[p] = "set_group"
           /\ g.name \in GroupName /\ g.type \in GroupType
           /\ usr[p].uid \in Nat
           /\ StartAdd(p, g, usr[p].uid)
    <2>1. Started(p, g, {"group_add", "false"})
        BY <1>1, <1>3, StartAddReady
    <2>2. QED
        BY <1>3, <2>1, StartedStep
<1>4. CASE /\ pc[p] = "def_groups" /\ ret'[p] = "def_groups"
           /\ StartAddMember(p, g, usr[p].uid, FALSE)
    <2>1. Started(p, g, {"member_add", "false"})
        BY <1>1, <1>4, StartAddMemberReady
    <2>2. QED
        BY <1>4, <2>1, StartedStep
<1>5. CASE /\ pc[p] = "del_group" /\ ret'[p] = "del_group"
           /\ StartDelete(p, g)
    BY <1>5, StartDeleteDone
<1>6. QED
    BY <1>2, <1>3, <1>4, <1>5

\* Where a user operation goes that adds a user or goes on after its groups.
LEMMA AddingUserGoes ==
    ASSUME AccountsInv, NEW p \in Proc, AddingUser(p), ~ CallsGroup(p)
    PROVE  /\ ret'[p] = "caller" /\ pc'[p] \in {"set_shadow", "passwd_add", "false"}
           /\ obj'[p] \in {obj[p], None}
<1>1. DOMAIN pc = Proc /\ DOMAIN ret = Proc /\ DOMAIN obj = Proc
    BY Domains
<1>2. pc[p] \in UserSteps => ret[p] = "caller"
    BY DEF AccountsInv, Ready, Control, UserSteps, GroupSteps, Results
<1>3. CASE SetGroup(p)
    BY <1>2, <1>3, UserCallsGroup DEF UserSteps
<1>4. CASE SetGroupReturns(p)
    BY <1>1, <1>4 DEF SetGroupReturns, Resume, GoTo, Results
<1>5. CASE SetShadow(p)
    BY <1>1, <1>2, <1>5 DEF SetShadow, GoTo, UserSteps
<1>6. QED
    BY <1>3, <1>4, <1>5 DEF AddingUser

LEMMA DefaultGroupsGo ==
    ASSUME AccountsInv, NEW p \in Proc, SetDefaultGroups(p), ~ CallsGroup(p)
    PROVE  /\ ret'[p] = "caller" /\ obj'[p] \in {obj[p], None}
           /\ \/ ret[p] = "def_groups" /\ pc'[p] = "def_groups"
              \/ pc[p] = "def_groups" /\ pc'[p] = "home_add"
<1>1. DOMAIN pc = Proc /\ DOMAIN ret = Proc /\ DOMAIN obj = Proc
    BY Domains
<1>2. pc[p] \in UserSteps => ret[p] = "caller"
    BY DEF AccountsInv, Ready, Control, UserSteps, GroupSteps, Results
<1>3. CASE DefaultGroup(p)
    BY <1>3, UserCallsGroup DEF DefaultGroup
<1>4. QED
    BY <1>1, <1>2, <1>3 DEF SetDefaultGroups, DefaultGroupReturns, DefaultGroupsDone,
       Resume, Then, GoTo, UserSteps

LEMMA DeletedGroupGoes ==
    ASSUME AccountsInv, NEW p \in Proc, DeletePrimaryGroup(p), ~ CallsGroup(p)
    PROVE  /\ ret[p] = "del_group" /\ ret'[p] = "caller" /\ obj'[p] = None
           /\ pc[p] \in Results
           /\ pc'[p] = IF pc[p] = "true" THEN "strip_group" ELSE "false"
<1>1. ~ DelGroup(p)
    BY UserCallsGroup DEF DelGroup
<1>2. QED
    BY <1>1, Domains DEF DeletePrimaryGroup, DelGroupReturns, Resume, GoTo

\* The primary group and the secret of a new user: no file of users is written.
LEMMA AddingUserDone ==
    ASSUME AccountsInv, DoneInv, NEW p \in Proc, AddingUser(p),
           UNCHANGED <<group, gshadow, call>>
    PROVE  Done(p)' /\ UserinfoKept'
<1>1. UNCHANGED <<passwd, shadow, userinfo>> /\ UserinfoKept'
    BY DEF AddingUser, DoneInv, UserinfoKept, UserinfoHasUser, Uids
<1>2. /\ DOMAIN pc = Proc /\ DOMAIN ret = Proc /\ Done(p)
      /\ pc[p] \in UserSteps => ret[p] = "caller"
    BY Domains, UserDone DEF DoneInv
<1>3. call[p] = "user_add"
    BY <1>2 DEF AddingUser, SetGroup, SetGroupReturns, SetShadow, Resume, Done, Belongs
<1>4. \/ ret'[p] = "caller" /\ pc'[p] \in {"set_shadow", "passwd_add", "false"}
      \/ ret'[p] = "set_group" /\ pc'[p] \in {"group_add", "false"}
    <2>1. pc[p] \in {"set_group", "set_shadow"} \cup Results
        BY DEF AddingUser, SetGroup, SetGroupReturns, SetShadow, Resume
    <2>2. CASE CallsGroup(p)
        BY <2>1, <2>2, CallsGroupGoes DEF Results
    <2>3. CASE ~ CallsGroup(p)
        BY <2>3, AddingUserGoes
    <2>4. QED
        BY <2>2, <2>3
<1>5. QED
    BY <1>1, <1>2, <1>3, <1>4 DEF Done, Belongs, UserWritten, UserErased,
       GroupWritten, GroupErased, Succeeded, GroupCalls

\* The default groups: the new user stays written.
LEMMA AddedToGroupsDone ==
    ASSUME AccountsInv, DoneInv, NEW p \in Proc, SetDefaultGroups(p),
           UNCHANGED <<group, gshadow, call>>
    PROVE  Done(p)' /\ UserinfoKept'
<1>1. UNCHANGED <<passwd, shadow, userinfo, usr>> /\ UserinfoKept'
    BY DEF SetDefaultGroups, DefaultGroup, DefaultGroupReturns, DefaultGroupsDone,
       DoneInv, UserinfoKept, UserinfoHasUser, Uids
<1>2. /\ DOMAIN pc = Proc /\ DOMAIN ret = Proc /\ Done(p)
      /\ pc[p] \in UserSteps => ret[p] = "caller"
    BY Domains, UserDone DEF DoneInv
<1>3. pc[p] = "def_groups" \/ ret[p] = "def_groups"
    BY DEF SetDefaultGroups, DefaultGroup, DefaultGroupReturns, DefaultGroupsDone,
       Resume, Then
<1>4. call[p] = "user_add" /\ PasswdOf(usr[p]) \in passwd /\ ShadowOf(usr[p]) \in shadow
    BY <1>2, <1>3 DEF Done, Belongs, UserWritten
<1>5. \/ ret'[p] = "caller" /\ pc'[p] \in {"def_groups", "home_add"}
      \/ ret'[p] = "def_groups" /\ pc'[p] \in {"member_add", "false"}
    <2>1. pc[p] \in {"def_groups"} \cup Results
        BY DEF SetDefaultGroups, DefaultGroup, DefaultGroupReturns, DefaultGroupsDone,
           Resume, Then
    <2>2. CASE CallsGroup(p)
        BY <2>1, <2>2, CallsGroupGoes DEF Results
    <2>3. CASE ~ CallsGroup(p)
        BY <2>3, DefaultGroupsGo
    <2>4. QED
        BY <2>2, <2>3
<1>6. PasswdOf(usr[p])' \in passwd' /\ ShadowOf(usr[p])' \in shadow'
    BY <1>1, <1>4 DEF PasswdOf, ShadowOf
<1>7. QED
    BY <1>1, <1>2, <1>4, <1>5, <1>6 DEF Done, Belongs, UserWritten, UserErased,
       GroupWritten, GroupErased, Succeeded, GroupCalls

\* The primary group of a deleted user: the user stays erased.
LEMMA DeletedGroupDone ==
    ASSUME AccountsInv, DoneInv, NEW p \in Proc, DeletePrimaryGroup(p),
           UNCHANGED <<group, gshadow, call>>
    PROVE  Done(p)' /\ UserinfoKept'
<1>1. UNCHANGED <<passwd, shadow, userinfo, usr>> /\ UserinfoKept'
    BY DEF DeletePrimaryGroup, DoneInv, UserinfoKept, UserinfoHasUser, Uids
<1>2. /\ DOMAIN pc = Proc /\ DOMAIN ret = Proc /\ Done(p)
      /\ pc[p] \in UserSteps => ret[p] = "caller"
    BY Domains, UserDone DEF DoneInv
<1>3. pc[p] = "del_group" \/ ret[p] = "del_group"
    BY DEF DeletePrimaryGroup, DelGroup, DelGroupReturns, Resume
<1>4. /\ call[p] = "user_delete" /\ usr[p].uid \notin Uids
      /\ "userinfo" \notin Faults => usr[p].uid \notin userinfo
      /\ usr[p].name \notin Names(passwd) \cup Names(shadow)
    BY <1>2, <1>3 DEF Done, Belongs, UserErased
<1>5. CASE CallsGroup(p)
    BY <1>1, <1>2, <1>3, <1>4, <1>5, CallsGroupGoes DEF Done, Belongs, UserWritten,
       UserErased, GroupWritten, GroupErased, Succeeded, GroupCalls, Uids, Names
<1>6. CASE ~ CallsGroup(p)
    BY <1>1, <1>2, <1>4, <1>6, DeletedGroupGoes DEF Done, Belongs, UserWritten,
       UserErased, GroupWritten, GroupErased, Succeeded, GroupCalls, Uids, Names
<1>7. QED
    BY <1>5, <1>6

-----------------------------------------------------------------------------
(***************************************************************************)
(* The steps on group and gshadow.                                         *)
(***************************************************************************)

\* The one entry a group object that is ready means.
LEMMA OneGroupMeant ==
    ASSUME AccountsInv, NEW g \in GroupObject, g.name \in GroupName, g.gid \in Nat,
           NEW e \in group, e.name = g.name, e.gid = g.gid
    PROVE  GetGroup(g) = {e}
<1>1. g.gid # None /\ g.name # None
    BY AccountAssumption
<1>2. QED
    BY <1>1 DEF GetGroup, AccountsInv, NamesAndIdsUnique, Unique

LEMMA GroupAtWork ==
    ASSUME AccountsInv, NEW p \in Proc, pc[p] \in GroupSteps
    PROVE  /\ GroupReady(obj[p], pc[p])
           /\ obj[p] \in GroupObject /\ obj[p].name \in GroupName /\ obj[p].gid \in Nat
           /\ EntryOf(obj[p]).name = obj[p].name /\ EntryOf(obj[p]).gid = obj[p].gid
           /\ GshadowOf(obj[p]).name = obj[p].name
<1>1. GroupReady(obj[p], pc[p])
    BY DEF AccountsInv, Ready
<1>2. obj[p] \in GroupObject /\ obj[p].name \in GroupName /\ obj[p].gid \in Nat
    BY <1>1 DEF GroupReady
<1>3. QED
    BY <1>1, <1>2, EntryTypes

LEMMA GroupFilesDone ==
    ASSUME AccountsInv, DoneInv, NEW p \in Proc, UpdateGroupFiles(p), UNCHANGED userVars
    PROVE  Done(p)' /\ UserinfoKept' /\ (~HasGshadow => gshadow = {})'
<1> DEFINE g == obj[p]
<1>1. UNCHANGED <<passwd, shadow, userinfo, usr, call, ret, obj>> /\ UserinfoKept'
    BY DEF UpdateGroupFiles, userVars, DoneInv, UserinfoKept, UserinfoHasUser, Uids
<1>2. pc[p] \in GroupSteps
    BY DEF UpdateGroupFiles, AddToGroup, AddToGshadow, DeleteFromGroup,
           DeleteFromGshadow, ModifyGroup, ModifyGshadow, GroupUpdateFails,
           UpdateFails, Then, GroupSteps
<1>3. DOMAIN pc = Proc /\ Done(p) /\ (~HasGshadow => gshadow = {})
    BY Domains DEF DoneInv
<1>4. /\ GroupReady(g, pc[p]) /\ g \in GroupObject /\ g.name \in GroupName /\ g.gid \in Nat
      /\ EntryOf(g).name = g.name /\ EntryOf(g).gid = g.gid /\ GshadowOf(g).name = g.name
    BY <1>2, GroupAtWork
<1>5. /\ Belongs(call[p], pc[p], ret[p])
      /\ GroupWritten(call[p], pc[p], ret[p], g) /\ GroupErased(call[p], pc[p], ret[p], g)
    BY <1>3 DEF Done
<1>6. pc'[p] \in {"gshadow_add", "gshadow_del", "gshadow_mod", "true", "false"}
    BY <1>3 DEF UpdateGroupFiles, AddToGroup, AddToGshadow, DeleteFromGroup,
           DeleteFromGshadow, ModifyGroup, ModifyGshadow, GroupUpdateFails,
           UpdateFails, Then, GoTo
\* what the step leaves of the user
<1>7. \/ ret[p] # "caller" /\ call[p] \notin GroupCalls
      \/ ret[p] = "caller" /\ call[p] \in GroupCalls
    BY <1>2, <1>5 DEF AccountsInv, Ready, Control, Belongs, GroupSteps, UserCalls, GroupCalls
<1>8. UserWritten(call[p], pc[p], ret[p], usr[p])'
    <2>1. ret[p] = "def_groups" => PasswdOf(usr[p]) \in passwd /\ ShadowOf(usr[p]) \in shadow
        BY <1>3 DEF Done, UserWritten
    <2>2. QED
        BY <1>1, <1>6, <1>7, <2>1 DEF UserWritten, Succeeded, PasswdOf, ShadowOf, GroupCalls
<1>9. UserErased(call[p], pc[p], ret[p], usr[p])'
    <2>1. ret[p] = "del_group" =>
             /\ "userinfo" \notin Faults => usr[p].uid \notin userinfo
             /\ usr[p].uid \notin Uids
             /\ usr[p].name \notin Names(passwd) \cup Names(shadow)
        BY <1>3 DEF Done, UserErased
    <2>2. QED
        BY <1>1, <1>6, <1>7, <2>1 DEF UserErased, Succeeded, Uids, Names, GroupCalls
<1> HIDE DEF g
<1> USE DEF Then, GoTo
<1>10. CASE AddToGroup(p)
    <2>1. /\ pc[p] = "group_add" /\ gshadow' = gshadow
          /\ pc'[p] = IF HasGshadow THEN "gshadow_add" ELSE "true"
          /\ group' = group \cup {EntryOf(g)} /\ EntryOf(obj'[p]) = EntryOf(g) /\ obj'[p] = g
        BY <1>1, <1>3, <1>10 DEF AddToGroup, g
    <2>2. Belongs(call[p], pc[p], ret[p])'
        BY <1>1, <1>5, <2>1 DEF Belongs
    <2>3. GroupWritten(call[p], pc[p], ret[p], obj[p])' /\ GroupErased(call[p], pc[p], ret[p], obj[p])'
        BY <1>1, <1>5, <2>1 DEF GroupWritten, GroupErased, Succeeded, Belongs, EntryOf
    <2>4. QED
        BY <1>1, <1>3, <1>8, <1>9, <2>1, <2>2, <2>3 DEF Done
<1>11. CASE AddToGshadow(p)
    <2>1. /\ pc[p] = "gshadow_add" /\ group' = group /\ obj'[p] = g
          /\ \/ pc'[p] = "false" /\ gshadow' = gshadow
             \/ pc'[p] = "true" /\ gshadow' = gshadow \cup {GshadowOf(g)}
        BY <1>1, <1>3, <1>11 DEF AddToGshadow, g
    <2>2. HasGshadow /\ EntryOf(g) \in group
        BY <1>5, <2>1 DEF Belongs, GroupWritten
    <2>3. EntryOf(obj[p])' \in group' /\ (pc'[p] = "true" => GshadowOf(obj[p])' \in gshadow')
        BY <2>1, <2>2 DEF EntryOf, GshadowOf
    <2>4. Belongs(call[p], pc[p], ret[p])'
        BY <1>1, <1>5, <2>1 DEF Belongs
    <2>5. GroupWritten(call[p], pc[p], ret[p], obj[p])' /\ GroupErased(call[p], pc[p], ret[p], obj[p])'
        BY <1>1, <1>5, <2>1, <2>3 DEF GroupWritten, GroupErased, Succeeded, Belongs
    <2>6. QED
        BY <1>1, <1>8, <1>9, <2>2, <2>4, <2>5 DEF Done
<1>12. CASE DeleteFromGroup(p)
    <2>1. /\ pc[p] = "group_del" /\ gshadow' = gshadow /\ obj'[p] = g
          /\ group' = group \ GetGroup(g)
          /\ pc'[p] = IF HasGshadow THEN "gshadow_del" ELSE "true"
        BY <1>1, <1>3, <1>12 DEF DeleteFromGroup, g
    <2>2. PICK e \in group : e.name = g.name /\ e.gid = g.gid
        BY <1>5, <2>1 DEF GroupErased
    <2>3. group' = group \ {e}
        BY <1>4, <2>1, <2>2, OneGroupMeant
    <2>4. g.gid \notin Gids'
        BY <2>2, <2>3 DEF AccountsInv, NamesAndIdsUnique, Gids
    <2>5. ~HasGshadow => g.name \notin Names(gshadow)'
        BY <1>3, <2>1 DEF Names
    <2>6. Belongs(call[p], pc[p], ret[p])'
        BY <1>1, <1>5, <2>1 DEF Belongs
    <2>7. GroupWritten(call[p], pc[p], ret[p], obj[p])' /\ GroupErased(call[p], pc[p], ret[p], obj[p])'
        BY <1>1, <1>5, <2>1, <2>4, <2>5 DEF GroupWritten, GroupErased, Succeeded, Belongs
    <2>8. QED
        BY <1>1, <1>3, <1>8, <1>9, <2>1, <2>6, <2>7 DEF Done
<1>13. CASE DeleteFromGshadow(p)
    <2>1. /\ pc[p] = "gshadow_del" /\ group' = group /\ obj'[p] = g
          /\ gshadow' = gshadow \ Named(gshadow, g.name) /\ pc'[p] \in {"true", "false"}
        BY <1>1, <1>3, <1>13 DEF DeleteFromGshadow, g
    <2>2. g.gid \notin Gids' /\ g.name \notin Names(gshadow)'
        BY <1>5, <2>1 DEF GroupErased, Gids, Names, Named
    <2>3. Belongs(call[p], pc[p], ret[p])'
        BY <1>1, <1>5, <2>1 DEF Belongs
    <2>4. GroupWritten(call[p], pc[p], ret[p], obj[p])' /\ GroupErased(call[p], pc[p], ret[p], obj[p])'
        BY <1>1, <1>5, <2>1, <2>2 DEF GroupWritten, GroupErased, Succeeded, Belongs
    <2>5. QED
        BY <1>1, <1>3, <1>8, <1>9, <2>1, <2>3, <2>4 DEF Done
<1>14. CASE ModifyGroup(p)
    <2>1. /\ gshadow' = gshadow /\ obj'[p] = g /\ EntryOf(g) \in group'
          /\ \/ pc[p] = "group_mod" /\ pc'[p] = IF HasGshadow THEN "gshadow_mod" ELSE "true"
             \/ pc[p] = "member_add" /\ pc'[p] \in {"gshadow_mod", "true"}
        BY <1>1, <1>3, <1>14 DEF ModifyGroup, g
    <2>2. EntryOf(obj[p])' \in group'
        BY <2>1 DEF EntryOf
    <2>3. Belongs(call[p], pc[p], ret[p])'
        BY <1>1, <1>5, <2>1 DEF Belongs
    <2>4. GroupWritten(call[p], pc[p], ret[p], obj[p])' /\ GroupErased(call[p], pc[p], ret[p], obj[p])'
        BY <1>1, <1>5, <2>1, <2>2 DEF GroupWritten, GroupErased, Succeeded, Belongs
    <2>5. QED
        BY <1>1, <1>3, <1>8, <1>9, <2>1, <2>3, <2>4 DEF Done
<1>15. CASE ModifyGshadow(p)
    <2>1. /\ pc[p] = "gshadow_mod" /\ group' = group /\ obj'[p] = g
          /\ \/ pc'[p] = "false" /\ gshadow' = gshadow
             \/ /\ pc'[p] = "true" /\ Named(gshadow, g.name) # {}
                /\ gshadow' = (gshadow \ Named(gshadow, g.name)) \cup {GshadowOf(g)}
        BY <1>1, <1>3, <1>15 DEF ModifyGshadow, g
    <2>2. EntryOf(g) \in group /\ ((~HasGshadow => gshadow = {})')
        BY <1>3, <1>5, <2>1 DEF GroupWritten, Named
    <2>3. EntryOf(obj[p])' \in group' /\ (pc'[p] = "true" => GshadowOf(obj[p])' \in gshadow')
        BY <2>1, <2>2 DEF EntryOf, GshadowOf
    <2>4. Belongs(call[p], pc[p], ret[p])'
        BY <1>1, <1>5, <2>1 DEF Belongs
    <2>5. GroupWritten(call[p], pc[p], ret[p], obj[p])' /\ GroupErased(call[p], pc[p], ret[p], obj[p])'
        BY <1>1, <1>5, <2>1, <2>3 DEF GroupWritten, GroupErased, Succeeded, Belongs
    <2>6. QED
        BY <1>1, <1>8, <1>9, <2>2, <2>4, <2>5 DEF Done
<1>16. CASE GroupUpdateFails(p)
    <2>1. pc'[p] = "false" /\ UNCHANGED gshadow
        BY <1>3, <1>16 DEF GroupUpdateFails, UpdateFails
    <2>2. Belongs(call[p], pc[p], ret[p])'
        BY <1>1, <1>5, <2>1 DEF Belongs
    <2>3. GroupWritten(call[p], pc[p], ret[p], obj[p])' /\ GroupErased(call[p], pc[p], ret[p], obj[p])'
        BY <2>1 DEF GroupWritten, GroupErased, Succeeded
    <2>4. QED
        BY <1>1, <1>3, <1>8, <1>9, <2>1, <2>2, <2>3 DEF Done
<1>17. QED
    BY <1>10, <1>11, <1>12, <1>13, <1>14, <1>15, <1>16 DEF UpdateGroupFiles

LEMMA StrippedDone ==
    ASSUME AccountsInv, DoneInv, NEW p \in Proc, StripMembership(p, usr[p].name),
           UNCHANGED userVars
    PROVE  Done(p)' /\ UserinfoKept' /\ (~HasGshadow => gshadow = {})'
<1>1. UNCHANGED <<passwd, shadow, userinfo, usr, call, ret, obj>> /\ UserinfoKept'
    BY DEF StripMembership, userVars, DoneInv, UserinfoKept, UserinfoHasUser, Uids
<1>2. pc[p] \in {"strip_group", "strip_gshadow"}
    BY DEF StripMembership, StripGroup, StripGshadow, Then, UpdateFails
<1>3. ret[p] = "caller" /\ Done(p) /\ DOMAIN pc = Proc
    BY <1>2, UserDone DEF UserSteps
<1>4. /\ pc'[p] \in {"strip_gshadow", "home_del", "false"}
      /\ pc'[p] = "strip_gshadow" => HasGshadow
    BY <1>3 DEF StripMembership, StripGroup, StripGshadow, Then, GoTo, UpdateFails
<1>5. (~HasGshadow => gshadow = {})'
    <2>1. ~HasGshadow => gshadow = {}
        BY DEF DoneInv
    <2>2. gshadow = {} => gshadow' = {}
        BY DEF StripMembership, StripGroup, StripGshadow
    <2>3. QED
        BY <2>1, <2>2
<1>6. QED
    BY <1>1, <1>2, <1>3, <1>4, <1>5 DEF Done, Belongs, UserWritten, UserErased,
       GroupWritten, GroupErased, Succeeded, Uids, Names

-----------------------------------------------------------------------------
(***************************************************************************)
(* TRUE means done, whichever of the Faults occur.                         *)
(***************************************************************************)
LEMMA DoneInvInit == Init => DoneInv
<1> SUFFICES ASSUME Init
             PROVE  DoneInv
    OBVIOUS
<1>1. UserinfoKept /\ (~HasGshadow => gshadow = {})
    BY DEF Init, FilesInit, UserInit, UserinfoKept, UserinfoHasUser
<1>2. \A p \in Proc : Done(p)
    BY RestingIsDone DEF Init, GroupInit
<1>3. QED
    BY <1>1, <1>2 DEF DoneInv

\* Between operations a process may do with its objects what it likes.
LEMMA HandleDone ==
    ASSUME AccountsInv, DoneInv, NEW p \in Proc, HandleUser(p) \/ HandleGroup(p)
    PROVE  DoneInv'
<1>1. /\ pc[p] = "idle"
      /\ UNCHANGED <<passwd, shadow, group, gshadow, call, pc, ret, obj, userinfo>>
      /\ \A q \in Proc : q # p => usr'[q] = usr[q]
    BY Domains DEF HandleUser, NewUser, LoadUser, SetProperty, DropUser, SetUser,
       HandleGroup, NewGroup, LoadGroup, SetGroupSecret, DropGroup, UsesGroup,
       files, userVars
<1>2. ASSUME NEW q \in Proc
      PROVE  Done(q)'
    <2>1. CASE q = p
        <3>1. ret[p] = "caller"
            BY <1>1, Resting
        <3>2. QED
            BY <1>1, <2>1, <3>1 DEF Done, Belongs, UserWritten, UserErased,
               GroupWritten, GroupErased, Succeeded
    <2>2. CASE q # p
        <3>1. Done(q)
            BY DEF DoneInv
        <3>2. QED
            BY <1>1, <2>2, <3>1 DEF Done, Belongs, UserWritten, UserErased,
               GroupWritten, GroupErased, Succeeded, PasswdOf, ShadowOf, EntryOf,
               GshadowOf, Uids, Gids, Names
    <2>3. QED
        BY <2>1, <2>2
<1>3. QED
    BY <1>1, <1>2 DEF DoneInv, UserinfoKept, UserinfoHasUser, Uids

\* The steps that give the lock back.
LEMMA EndDone ==
    ASSUME AccountsInv, DoneInv, NEW p \in Proc,
           UserReturns(p) \/ (GroupReturns(p) /\ UNCHANGED userVars) \/ Die(p),
           UNCHANGED files
    PROVE  Done(p)' /\ UserinfoKept'
<1>1. pc[p] # "idle" /\ pc'[p] = "idle" /\ ret'[p] = "caller"
    <2>1. UserReturns(p) \/ GroupReturns(p) => ret' = ret /\ ret[p] = "caller"
        BY DEF UserReturns, GroupReturns, AccountsInv, Ready, Control, UserCalls, GroupCalls
    <2>2. QED
        BY <2>1, Domains DEF UserReturns, GroupReturns, End, Die, GoTo, Results
<1>2. UserinfoKept'
    BY DEF UserReturns, Die, userVars, files, DoneInv, UserinfoKept, UserinfoHasUser, Uids
<1>3. QED
    BY <1>1, <1>2 DEF Done, Belongs, UserWritten, UserErased, GroupWritten,
       GroupErased, Succeeded

\* One process works; it has the lock, or gives it back.
Works(p) == CallUser(p) \/ BeginGroup(p) \/ Proceed(p) \/ Die(p)

LEMMA WorkerHasLock ==
    ASSUME AccountsInv, NEW p \in Proc, Works(p)
    PROVE  holder' \in {p, NoProc}
<1>1. pc[p] # "idle" => holder = p
    BY DEF AccountsInv, OneAtWork
<1>2. CASE CallUser(p) \/ BeginGroup(p)
    BY <1>2 DEF CallUser, CallUserAdd, CallUserDelete, CallUserUpdate, OnUser,
       BeginGroup, CallGroup, CallGroupAdd, CallGroupDelete, CallGroupUpdate,
       CallAddMember, CallDeleteMember, OnOwnGroup, Begin
<1>3. CASE UserStep(p)
    <2>1. CASE UserReturns(p)
        BY <2>1 DEF UserReturns, End
    <2>2. CASE ~ UserReturns(p)
        <3>1. holder' = holder
            BY <1>3, <2>2 DEF UserStep
        <3>2. pc[p] # "idle"
            BY <1>3, <2>2 DEF UserStep, AddingUser, SetGroup, SetGroupReturns, SetShadow,
               Resume, Results, SetDefaultGroups, DefaultGroup, DefaultGroupReturns,
               DefaultGroupsDone, DeletePrimaryGroup, DelGroup, DelGroupReturns,
               PasswdAdd, ShadowAdd, UserinfoAdd, HomeAdd, DeleteFromFiles,
               LockPassword, TerminateUser, UnlockPassword, UserinfoDel, PasswdDel,
               ShadowDel, DeleteUpdateFails, HomeDel, ModifyUser, PasswdMod, ShadowMod,
               UserUpdateFails, UpdateFails, Then
        <3>3. QED
            BY <1>1, <3>1, <3>2
    <2>3. QED
        BY <2>1, <2>2
<1>4. CASE GroupStep(p)
    <2>1. CASE GroupReturns(p)
        BY <2>1 DEF GroupReturns, End
    <2>2. CASE UpdateGroupFiles(p)
        BY <1>1, <2>2 DEF UpdateGroupFiles, AddToGroup, AddToGshadow, DeleteFromGroup,
           DeleteFromGshadow, ModifyGroup, ModifyGshadow, GroupUpdateFails,
           UpdateFails, Then, GroupSteps
    <2>3. CASE StripMembership(p, usr[p].name)
        BY <1>1, <2>3 DEF StripMembership, StripGroup, StripGshadow, Then, UpdateFails
    <2>4. QED
        BY <1>4, <2>1, <2>2, <2>3 DEF GroupStep
<1>5. CASE Die(p)
    BY <1>5 DEF Die
<1>6. QED
    BY <1>2, <1>3, <1>4, <1>5 DEF Works, Proceed

LEMMA WorkDone ==
    ASSUME AccountsInv, AccountsInv', DoneInv, NEW p \in Proc, Works(p)
    PROVE  DoneInv'
<1>1. holder' \in {p, NoProc}
    BY WorkerHasLock
<1>2. Done(p)' /\ UserinfoKept' /\ (~HasGshadow => gshadow = {})'
    <2>0. ~HasGshadow => gshadow = {}
        BY DEF DoneInv
    <2>1. CASE CallUser(p)
        BY <2>0, <2>1, CallUserDone DEF CallUser
    <2>2. CASE BeginGroup(p)
        BY <2>0, <2>2, BeginGroupDone DEF BeginGroup, files
    <2>3. CASE Die(p)
        BY <2>0, <2>3, EndDone DEF Die, files
    <2>4. CASE GroupStep(p)
        <3>1. UNCHANGED userVars
            BY <2>4 DEF GroupStep
        <3>2. CASE GroupReturns(p) /\ UNCHANGED files
            BY <2>0, <3>1, <3>2, EndDone DEF files
        <3>3. CASE UpdateGroupFiles(p)
            BY <3>1, <3>3, GroupFilesDone
        <3>4. CASE StripMembership(p, usr[p].name)
            BY <3>1, <3>4, StrippedDone
        <3>5. QED
            BY <2>4, <3>2, <3>3, <3>4 DEF GroupStep
    <2>5. CASE UserStep(p)
        <3>1. CASE UserReturns(p) /\ UNCHANGED <<group, gshadow, grp>>
            BY <2>0, <3>1, EndDone DEF UserReturns, files
        <3>2. CASE UNCHANGED <<group, gshadow, holder, call, grp>>
            <4>1. CASE AddingUser(p) \/ SetDefaultGroups(p) \/ DeletePrimaryGroup(p)
                BY <2>0, <3>2, <4>1, AddingUserDone, AddedToGroupsDone, DeletedGroupDone
            <4>2. CASE /\ PasswdAdd(p) \/ ShadowAdd(p) \/ UserinfoAdd(p) \/ HomeAdd(p)
                       /\ UNCHANGED <<ret, usr, obj>>
                BY <2>0, <3>2, <4>2, AddedUserDone
            <4>3. CASE DeleteFromFiles(p)
                BY <2>0, <3>2, <4>3, DeletedUserDone
            <4>4. CASE HomeDel(p) \/ ModifyUser(p) \/ UserUpdateFails(p)
                BY <2>0, <3>2, <4>4, ModifiedUserDone
            <4>5. QED
                BY <2>5, <3>1, <4>1, <4>2, <4>3, <4>4 DEF UserStep
        <3>3. QED
            BY <2>5, <3>1, <3>2 DEF UserStep
    <2>6. QED
        BY <2>1, <2>2, <2>3, <2>4, <2>5 DEF Works, Proceed
<1>3. QED
    BY <1>1, <1>2, OthersStayDone

\* A step of the system is the work of one process or a process that handles
\* its objects.
LEMMA StepKinds ==
    ASSUME [Next]_vars
    PROVE  \/ UNCHANGED vars
           \/ \E p \in Proc : HandleUser(p) \/ HandleGroup(p) \/ Works(p)
  BY DEF Next, Works

LEMMA DoneInvNext == AccountsInv /\ AccountsInv' /\ DoneInv /\ [Next]_vars => DoneInv'
<1> SUFFICES ASSUME AccountsInv, AccountsInv', DoneInv, [Next]_vars
             PROVE  DoneInv'
    OBVIOUS
<1>1. CASE UNCHANGED vars
    BY <1>1 DEF vars, DoneInv, UserinfoKept, UserinfoHasUser, Done, Belongs, UserWritten,
       UserErased, GroupWritten, GroupErased, Succeeded, PasswdOf, ShadowOf, EntryOf,
       GshadowOf, Uids, Gids, Names
<1>2. QED
    BY <1>1, StepKinds, HandleDone, WorkDone

THEOREM DoneInvariant == Spec => []DoneInv
<1>1. QED
    BY AccountsInvariant, DoneInvInit, DoneInvNext, PTL DEF Spec

\* As long as userinfo files can be removed, a uid that is free has none, in
\* whatever step a delete or an update stops (gumd_daemon_user_delete,
\* gumd_daemon_user_update).
THEOREM UserinfoAlwaysHasUser ==
    ASSUME "userinfo" \notin Faults
    PROVE  Spec => []UserinfoHasUser
<1>1. DoneInv => UserinfoHasUser
    BY DEF DoneInv, UserinfoKept
<1>2. QED
    BY <1>1, DoneInvariant, PTL

\* An operation that returns TRUE has done its work in every file, although any
\* of its updates may have failed (gumd-daemon-user.c, gumd-daemon-group.c).
THEOREM TrueAlwaysMeansDone == Spec => []TrueMeansDone
<1>1. AccountsInv /\ DoneInv => TrueMeansDone
    <2> SUFFICES ASSUME AccountsInv, DoneInv, NEW p \in Proc, pc[p] = "true", ret[p] = "caller"
                 PROVE  LET u == usr[p]
                            g == obj[p] IN
                        /\ call[p] \in {"user_add", "user_update"} =>
                              PasswdOf(u) \in passwd /\ ShadowOf(u) \in shadow
                        /\ call[p] = "user_delete" =>
                              /\ u.uid \notin Uids
                              /\ u.name \notin Names(passwd) \cup Names(shadow)
                        /\ call[p] \in GroupCalls \ {"group_delete"} =>
                              /\ EntryOf(g) \in group
                              /\ call[p] # "add_member" /\ HasGshadow => GshadowOf(g) \in gshadow
                        /\ call[p] = "group_delete" =>
                              \/ g.gid \in {v.gid : v \in passwd}
                              \/ g.gid \notin Gids /\ g.name \notin Names(gshadow)
        BY DEF TrueMeansDone
    <2>1. Done(p)
        BY DEF DoneInv
    <2>2. QED
        BY <2>1 DEF Done, UserWritten, UserErased, GroupWritten, GroupErased, Succeeded
<1>2. QED
    BY <1>1, AccountsInvariant, DoneInvariant, PTL

-----------------------------------------------------------------------------
(***************************************************************************)
(* A delete that fails gives the password back, when updates succeed.      *)
(***************************************************************************)
LockedEntry(u) == [name |-> u.name, pwd |-> [u.pwd EXCEPT !.locked = TRUE]]

\* The password that the object of a delete remembers, in shadow.
PasswordKept(step, u) ==
    /\ step = "lock_pwd" => ShadowOf(u) \in shadow
    /\ step \in {"terminate", "unlock_pwd"} =>
          /\ u.pwd \in Password
          /\ ~u.pwd.locked => LockedEntry(u) \in shadow

PasswordInv == \A p \in Proc : PasswordKept(pc[p], usr[p])

\* When a process works, the others rest after it.
LEMMA OthersRest ==
    ASSUME AccountsInv, AccountsInv', NEW p \in Proc, Works(p), NEW q \in Proc, q # p
    PROVE  pc'[q] = "idle"
  BY WorkerHasLock, AccountAssumption DEF AccountsInv, OneAtWork

\* The steps of a delete around its lock of the password come one from another.
LEMMA PasswordSteps ==
    ASSUME AccountsInv, NEW p \in Proc, Works(p),
           pc'[p] \in {"lock_pwd", "terminate", "unlock_pwd"}
    PROVE  CallUser(p) \/ DeleteFromFiles(p)
<1>1. DOMAIN pc = Proc
    BY Domains
<1>2. CASE BeginGroup(p)
    BY <1>2, BeginGroupGoes
<1>3. CASE Die(p) \/ UserReturns(p) \/ GroupReturns(p)
    BY <1>1, <1>3 DEF Die, UserReturns, GroupReturns, End, GoTo
<1>4. CASE UpdateGroupFiles(p)
    BY <1>1, <1>4 DEF UpdateGroupFiles, AddToGroup, AddToGshadow, DeleteFromGroup,
       DeleteFromGshadow, ModifyGroup, ModifyGshadow, GroupUpdateFails, UpdateFails,
       Then, GoTo
<1>5. CASE StripMembership(p, usr[p].name)
    BY <1>1, <1>5 DEF StripMembership, StripGroup, StripGshadow, UpdateFails, Then, GoTo
<1>6. CASE AddingUser(p) \/ SetDefaultGroups(p) \/ DeletePrimaryGroup(p)
    BY <1>6, AddingUserGoes, DefaultGroupsGo, DeletedGroupGoes, CallsGroupGoes
<1>7. CASE \/ PasswdAdd(p) \/ ShadowAdd(p) \/ UserinfoAdd(p) \/ HomeAdd(p)
           \/ HomeDel(p) \/ ModifyUser(p) \/ UserUpdateFails(p)
    BY <1>1, <1>7 DEF PasswdAdd, ShadowAdd, UserinfoAdd, HomeAdd, HomeDel, ModifyUser,
       PasswdMod, ShadowMod, UserUpdateFails, UpdateFails, Then, GoTo
<1>8. QED
    BY <1>2, <1>3, <1>4, <1>5, <1>6, <1>7 DEF Works, Proceed, UserStep, GroupStep

\* What an update of the lock makes of an entry of that name.
LEMMA EntryLocked ==
    ASSUME NEW name, NEW pwd, NEW lock, [name |-> name, pwd |-> pwd] \in shadow
    PROVE  [name |-> name, pwd |-> SetLocked(lock, pwd)] \in WithLocked(name, lock)
<1> DEFINE s == [name |-> name, pwd |-> pwd]
           t == IF s.name = name THEN [s EXCEPT !.pwd = SetLocked(lock, @)] ELSE s
<1>1. t = [name |-> name, pwd |-> SetLocked(lock, pwd)]
    OBVIOUS
<1>2. t \in WithLocked(name, lock)
    BY DEF WithLocked
<1>3. QED
    BY <1>1, <1>2

LEMMA LockingKeepsPassword ==
    ASSUME "io" \notin Faults, AccountsInv, PasswordInv, NEW p \in Proc,
           CallUser(p) \/ DeleteFromFiles(p)
    PROVE  PasswordKept(pc[p], usr[p])'
<1>1. DOMAIN pc = Proc /\ DOMAIN usr = Proc /\ FilesTypeOK
    BY Domains DEF AccountsInv, TypeOK
<1>2. PasswordKept(pc[p], usr[p])
    BY DEF PasswordInv
<1> USE DEF Then, GoTo, SetUser
<1>3. CASE CallUserAdd(p) \/ CallUserUpdate(p)
    <2>1. pc'[p] \notin {"lock_pwd", "terminate", "unlock_pwd"}
        BY <1>1, <1>3 DEF CallUserAdd, CallUserUpdate
    <2>2. QED
        BY <2>1 DEF PasswordKept
<1>4. CASE CallUserDelete(p) /\ UNCHANGED shadow
    <2>1. pc'[p] \in {"false", "lock_pwd"}
        BY <1>1, <1>4 DEF CallUserDelete
    <2>2. pc'[p] = "lock_pwd" => ShadowOf(usr'[p]) \in shadow
        <3> SUFFICES ASSUME pc'[p] = "lock_pwd"
                     PROVE  ShadowOf(usr'[p]) \in shadow
            OBVIOUS
        <3>1. PICK e \in Entries(usr[p]) : usr'[p] = CopyUser(e[1], e[2])
            BY <1>1, <1>4 DEF CallUserDelete
        <3>2. e[2] \in shadow /\ e[1].name = e[2].name
            BY DEF Entries
        <3>3. e[2] = [name |-> e[2].name, pwd |-> e[2].pwd]
            BY <1>1, <3>2 DEF FilesTypeOK, ShadowEntry
        <3>4. QED
            BY <3>1, <3>2, <3>3 DEF CopyUser, ShadowOf
    <2>3. QED
        BY <1>4, <2>1, <2>2 DEF PasswordKept, ShadowOf
<1>5. CASE LockPassword(p) /\ UNCHANGED usr
    <2> DEFINE u == usr[p]
    <2>1. pc[p] = "lock_pwd" /\ pc'[p] = "terminate" /\ shadow' = WithLocked(u.name, TRUE)
        BY <1>1, <1>5 DEF LockPassword
    <2>2. ShadowOf(u) \in shadow
        BY <1>2, <2>1 DEF PasswordKept
    <2>3. u.pwd \in Password
        BY <1>1, <2>2 DEF FilesTypeOK, ShadowEntry, ShadowOf
    <2>4. ~u.pwd.locked => LockedEntry(u) \in shadow'
        <3> SUFFICES ASSUME ~u.pwd.locked
                     PROVE  LockedEntry(u) \in shadow'
            OBVIOUS
        <3>1. [name |-> u.name, pwd |-> SetLocked(TRUE, u.pwd)] \in shadow'
            BY <2>1, <2>2, EntryLocked DEF ShadowOf
        <3>2. SetLocked(TRUE, u.pwd) = [u.pwd EXCEPT !.locked = TRUE]
            BY <2>3 DEF SetLocked, Password
        <3>3. QED
            BY <3>1, <3>2 DEF ShadowOf, LockedEntry
    <2>5. QED
        BY <1>5, <2>1, <2>3, <2>4 DEF PasswordKept, LockedEntry
<1>6. CASE TerminateUser(p) /\ UNCHANGED usr
    BY <1>1, <1>2, <1>6 DEF TerminateUser, PasswordKept, LockedEntry
<1>7. CASE UnlockPassword(p) \/ UserinfoDel(p) \/ PasswdDel(p) \/ ShadowDel(p)
    <2>1. pc'[p] \notin {"lock_pwd", "terminate", "unlock_pwd"}
        BY <1>1, <1>7 DEF UnlockPassword, UserinfoDel, PasswdDel, ShadowDel
    <2>2. QED
        BY <2>1 DEF PasswordKept
<1>8. QED
    BY <1>3, <1>4, <1>5, <1>6, <1>7 DEF CallUser, DeleteFromFiles, DeleteUpdateFails

LEMMA PasswordInvNext ==
    ASSUME "io" \notin Faults, AccountsInv, AccountsInv', PasswordInv, [Next]_vars
    PROVE  PasswordInv'
<1>1. CASE UNCHANGED vars
    BY <1>1 DEF vars, PasswordInv, PasswordKept, ShadowOf, LockedEntry
<1>2. ASSUME NEW p \in Proc, HandleUser(p) \/ HandleGroup(p)
      PROVE  PasswordInv'
    <2>1. /\ pc[p] = "idle" /\ pc' = pc /\ shadow' = shadow
          /\ \A q \in Proc : q # p => usr'[q] = usr[q]
        BY <1>2, Domains DEF HandleUser, NewUser, LoadUser, SetProperty, DropUser, SetUser,
           HandleGroup, NewGroup, LoadGroup, SetGroupSecret, DropGroup, UsesGroup,
           files, userVars
    <2>2. QED
        BY <2>1 DEF PasswordInv, PasswordKept, ShadowOf, LockedEntry
<1>3. ASSUME NEW p \in Proc, Works(p)
      PROVE  PasswordInv'
    <2>1. ASSUME NEW q \in Proc, q # p
          PROVE  PasswordKept(pc[q], usr[q])'
        BY <1>3, <2>1, OthersRest DEF PasswordKept
    <2>2. PasswordKept(pc[p], usr[p])'
        <3>1. CASE pc'[p] \in {"lock_pwd", "terminate", "unlock_pwd"}
            BY <1>3, <3>1, PasswordSteps, LockingKeepsPassword
        <3>2. CASE pc'[p] \notin {"lock_pwd", "terminate", "unlock_pwd"}
            BY <3>2 DEF PasswordKept
        <3>3. QED
            BY <3>1, <3>2
    <2>3. QED
        BY <2>1, <2>2 DEF PasswordInv
<1>4. QED
    BY <1>1, <1>2, <1>3, StepKinds

\* The step that ends the delete unlocks the entry.
LEMMA UnlockRestores ==
    ASSUME "io" \notin Faults, AccountsInv, AccountsInv', PasswordInv, [Next]_vars,
           NEW p \in Proc, pc[p] = "unlock_pwd", pc'[p] = "false", ~usr[p].pwd.locked
    PROVE  ShadowOf(usr[p]) \in shadow'
<1>1. Works(p)
    <2>1. PICK q \in Proc : HandleUser(q) \/ HandleGroup(q) \/ Works(q)
        BY StepKinds DEF vars
    <2>2. pc' # pc
        OBVIOUS
    <2>3. Works(q)
        BY <2>1, <2>2 DEF HandleUser, HandleGroup, NewGroup, LoadGroup, SetGroupSecret,
           DropGroup
    <2>4. QED
        BY <2>3, OthersRest
<1>2. UnlockPassword(p)
    <2>1. CallsGroup(p) => pc[p] # "unlock_pwd"
        BY DEF CallsGroup
    <2>2. ~ (AddingUser(p) \/ SetDefaultGroups(p) \/ DeletePrimaryGroup(p))
        BY DEF AddingUser, SetGroup, SetGroupReturns, SetShadow, SetDefaultGroups,
           DefaultGroup, DefaultGroupReturns, DefaultGroupsDone, DeletePrimaryGroup,
           DelGroup, DelGroupReturns, Resume, Results, Then
    <2>3. ~ (CallUser(p) \/ BeginGroup(p) \/ Die(p))
        BY Domains DEF CallUser, CallUserAdd, CallUserDelete, CallUserUpdate, OnUser,
           BeginGroup, CallGroup, CallGroupAdd, CallGroupDelete, CallGroupUpdate,
           CallAddMember, CallDeleteMember, OnOwnGroup, Begin, Die, GoTo
    <2>4. ~ GroupStep(p)
        BY DEF GroupStep, GroupReturns, End, Results, UpdateGroupFiles, AddToGroup,
           AddToGshadow, DeleteFromGroup, DeleteFromGshadow, ModifyGroup, ModifyGshadow,
           GroupUpdateFails, GroupSteps, UpdateFails, Then, StripMembership, StripGroup,
           StripGshadow
    <2>5. QED
        BY <1>1, <2>2, <2>3, <2>4 DEF Works, Proceed, UserStep, UserReturns, End, Results,
           PasswdAdd, ShadowAdd, UserinfoAdd, HomeAdd, HomeDel, ModifyUser, PasswdMod,
           ShadowMod, UserUpdateFails, UpdateFails, Then, DeleteFromFiles, LockPassword,
           TerminateUser, UserinfoDel, PasswdDel, ShadowDel, DeleteUpdateFails
<1>3. usr[p].pwd \in Password /\ LockedEntry(usr[p]) \in shadow
    BY DEF PasswordInv, PasswordKept
<1>4. shadow' = WithLocked(usr[p].name, FALSE)
    BY <1>2 DEF UnlockPassword
<1>5. [name |-> usr[p].name,
       pwd |-> SetLocked(FALSE, [usr[p].pwd EXCEPT !.locked = TRUE])] \in shadow'
    BY <1>3, <1>4, EntryLocked DEF LockedEntry
<1>6. SetLocked(FALSE, [usr[p].pwd EXCEPT !.locked = TRUE]) = usr[p].pwd
    BY <1>3 DEF SetLocked, Password
<1>7. QED
    BY <1>5, <1>6 DEF LockedEntry, ShadowOf

\* A delete that fails gives the user back the password it had, when that was
\* not locked and the updates of the files succeed (gumd_daemon_user_delete).
\* The process may die, and everything else may fail.
THEOREM FailedDeleteAlwaysRestores ==
    ASSUME "io" \notin Faults
    PROVE  Spec => FailedDeleteRestores
<1>1. Init => PasswordInv
    BY DEF Init, GroupInit, PasswordInv, PasswordKept
<1>2. AccountsInv /\ AccountsInv' /\ PasswordInv /\ [Next]_vars => PasswordInv'
    BY PasswordInvNext
<1>3. Spec => []PasswordInv
    BY <1>1, <1>2, AccountsInvariant, PTL DEF Spec
<1>4. AccountsInv /\ AccountsInv' /\ PasswordInv /\ [Next]_vars =>
        [\A p \in Proc :
            pc[p] = "unlock_pwd" /\ pc'[p] = "false" /\ ~usr[p].pwd.locked
              => ShadowOf(usr[p]) \in shadow']_vars
    BY UnlockRestores
<1>5. QED
    BY <1>3, <1>4, AccountsInvariant, PTL DEF Spec, FailedDeleteRestores

-----------------------------------------------------------------------------
(***************************************************************************)
(* The files agree, when updates succeed and nobody dies.                  *)
(***************************************************************************)

\* passwd and shadow name the same users, but for the one that is being added
\* or deleted.
UsersAgree(step, u) ==
    /\ step = "shadow_add" =>
          Names(passwd) = Names(shadow) \cup {u.name} /\ u.name \notin Names(shadow)
    /\ step = "shadow_del" => Names(shadow) = Names(passwd) \cup {u.name}
    /\ step \notin {"shadow_add", "shadow_del"} => Names(passwd) = Names(shadow)

\* Every group in G of a name outside X is in S, with the same members but
\* for Y, and the other way round.
Match(G, S, X, Y) ==
    /\ \A e \in G : e.name \notin X =>
          \E x \in S : x.name = e.name /\ x.mem \ Y = e.mem
    /\ \A x \in S : x.name \notin X =>
          \E e \in G : e.name = x.name /\ e.mem = x.mem \ Y

Listed(X, Y) == Match(group, gshadow, X, Y)

GroupsAgree(step, u, g) ==
    LET half == {"gshadow_add", "gshadow_del", "gshadow_mod"}
    IN  /\ Listed(IF step \in half THEN {g.name} ELSE {},
                  IF step = "strip_gshadow" THEN {u.name} ELSE {})
        /\ step = "gshadow_add" => g.name \notin Names(gshadow)
        /\ step = "gshadow_del" => g.name \notin Names(group) /\ g.name \in Names(gshadow)
        /\ step = "gshadow_mod" => g.name \in Names(gshadow)

Agreed(step, u, g) ==
    UsersAgree(step, u) /\ (HasGshadow => GroupsAgree(step, u, g))

\* The group object of a caller, and the one at work, has the same members for
\* both files.
SameMembers(p) ==
    /\ grp[p] # None => grp[p].mem = grp[p].smem
    /\ call[p] \in GroupCalls \/ pc[p] \in GroupSteps => obj[p].mem = obj[p].smem

AgreeInv ==
    /\ holder = NoProc => Agreed("idle", None, None)
    /\ \A p \in Proc : pc[p] # "idle" => Agreed(pc[p], usr[p], obj[p])
    /\ HasGshadow => \A p \in Proc : SameMembers(p)

\* The steps at which an update is half done.
HalfDone == {"shadow_add", "shadow_del", "gshadow_add", "gshadow_del", "gshadow_mod",
             "strip_gshadow"}

LEMMA WholeAgrees ==
    ASSUME NEW s, NEW u, NEW g, s \notin HalfDone
    PROVE  Agreed(s, u, g) <=> Agreed("idle", None, None)
  BY DEF Agreed, UsersAgree, GroupsAgree, HalfDone

\* What the object of a group takes over from the entries of one name.
LEMMA CopiedEntry ==
    ASSUME AccountsInv, NEW g \in GroupObject, NEW e \in group, NEW x \in gshadow,
           x.name = e.name
    PROVE  LET c == CopyGroup(g, e) IN
           /\ c \in GroupObject /\ c.name = e.name /\ c.gid = e.gid
           /\ c.mem = e.mem /\ c.smem = x.mem /\ c.sadm = x.adm
<1>1. FilesTypeOK
    BY DEF AccountsInv, TypeOK
<1>2. Named(gshadow, e.name) = {x}
    BY DEF Named, AccountsInv, NamesAndIdsUnique, Unique
<1> DEFINE c == [g EXCEPT !.name = e.name, !.gid = e.gid,
                          !.secret = Placeholder, !.mem = e.mem]
<1>3. c \in GroupObject /\ c.mem = e.mem
    BY <1>1 DEF FilesTypeOK, GroupEntry, GroupObject, Members
<1>4. CopyGroup(g, e) = [c EXCEPT !.pwd = x.pwd, !.smem = x.mem, !.sadm = x.adm]
    BY <1>2 DEF CopyGroup
<1> HIDE DEF c
<1>5. /\ CopyGroup(g, e).mem = e.mem /\ CopyGroup(g, e).smem = x.mem
      /\ CopyGroup(g, e).sadm = x.adm
    BY <1>3, <1>4 DEF GroupObject
<1>6. QED
    BY <1>1, <1>5, CopyGroupType

LEMMA CopiedSame ==
    ASSUME AccountsInv, HasGshadow, Agreed("idle", None, None),
           NEW g \in GroupObject, NEW e \in group
    PROVE  LET c == CopyGroup(g, e) IN
           c \in GroupObject /\ c.mem = e.mem /\ c.smem = e.mem
<1>1. PICK x \in gshadow : x.name = e.name /\ x.mem \ {} = e.mem
    BY DEF Agreed, GroupsAgree, Listed, Match
<1>2. x.mem = e.mem
    BY <1>1
<1>3. QED
    BY <1>1, <1>2, CopiedEntry

\* A group operation starts with an object that has the same members in both
\* places, when the object it is called on has.
LEMMA StartSame ==
    ASSUME AccountsInv, HasGshadow, Agreed("idle", None, None), NEW p \in Proc,
           NEW g \in GroupObject, g.mem = g.smem, NEW uid, NEW admin, NEW preferred,
           \/ g.type \in GroupType /\ preferred \in Nat \cup {None}
                 /\ StartAdd(p, g, preferred)
           \/ StartDelete(p, g) \/ StartUpdate(p, g)
           \/ StartAddMember(p, g, uid, admin) \/ StartDeleteMember(p, g, uid)
    PROVE  \E o : o.mem = o.smem /\ obj' = [obj EXCEPT ![p] = o]
<1>1. ASSUME Refuse(p, g)
      PROVE  \E o : o.mem = o.smem /\ obj' = [obj EXCEPT ![p] = o]
    BY <1>1 DEF Refuse
<1>2. CASE g.type \in GroupType /\ preferred \in Nat \cup {None} /\ StartAdd(p, g, preferred)
    <2>1. CASE ~ Refuse(p, g)
        <3>0. PICK gid \in FreeGids(g.type, preferred) :
                 \E s \in SecretSet([g EXCEPT !.gid = gid]) :
                    \/ Refuse(p, s)
                    \/ obj' = [obj EXCEPT ![p] = [s EXCEPT !.smem = s.mem]]
            BY <1>2, <2>1 DEF StartAdd
        <3>1. PICK s \in SecretSet([g EXCEPT !.gid = gid]) :
                 \/ Refuse(p, s)
                 \/ obj' = [obj EXCEPT ![p] = [s EXCEPT !.smem = s.mem]]
            BY <3>0
        <3>2. gid \in Nat
            BY <1>2, FreeGidIsFree
        <3> DEFINE n == [g EXCEPT !.gid = gid]
        <3>3. n \in GroupObject /\ n.mem = n.smem
            BY <3>2 DEF GroupObject
        <3> HIDE DEF n
        <3>4. s \in GroupObject /\ s.mem = s.smem
            BY <3>1, <3>3, GroupSecretSet DEF n
        <3> DEFINE o == [s EXCEPT !.smem = s.mem]
        <3>5. o.mem = o.smem
            BY <3>4 DEF GroupObject
        <3> HIDE DEF o
        <3>6. obj' = [obj EXCEPT ![p] = s] \/ obj' = [obj EXCEPT ![p] = o]
            BY <3>1 DEF Refuse, o
        <3>7. QED
            BY <3>4, <3>5, <3>6
    <2>2. QED
        BY <1>1, <2>1
<1>3. CASE StartDelete(p, g)
    <2>1. ASSUME NEW e \in GetGroup(g), obj' = [obj EXCEPT ![p] = CopyGroup(g, e)]
          PROVE  \E o : o.mem = o.smem /\ obj' = [obj EXCEPT ![p] = o]
        <3>1. e \in group
            BY DEF GetGroup
        <3>2. CopyGroup(g, e).mem = CopyGroup(g, e).smem
            BY <3>1, CopiedSame
        <3>3. QED
            BY <2>1, <3>2
    <2>2. QED
        BY <1>1, <1>3, <2>1 DEF StartDelete
<1>4. CASE StartUpdate(p, g)
    <2>1. ASSUME NEW e \in GetGroup(g), g.gid # None, NEW s \in SecretSet(Completed(g, e)),
                 obj' = [obj EXCEPT ![p] = s]
          PROVE  \E o : o.mem = o.smem /\ obj' = [obj EXCEPT ![p] = o]
        <3>1. e \in group
            BY DEF GetGroup
        <3> DEFINE c == CopyGroup(g, e)
        <3>2. c \in GroupObject /\ c.mem = c.smem
            BY <3>1, CopiedSame
        <3>3. e.name \in GroupName
            BY <3>1 DEF AccountsInv, TypeOK, FilesTypeOK, GroupEntry
        <3>4. Completed(g, e) =
                 [g EXCEPT !.name = e.name, !.mem = IF @ = None THEN c.mem ELSE @,
                           !.smem = IF @ = None THEN c.smem ELSE @,
                           !.sadm = IF @ = None THEN c.sadm ELSE @]
            BY DEF Completed
        <3> HIDE DEF c
        <3>5. Completed(g, e) \in GroupObject
            BY <3>2, <3>3, <3>4 DEF GroupObject
        <3>6. Completed(g, e).mem = Completed(g, e).smem
            BY <3>2, <3>4 DEF GroupObject
        <3>7. s.mem = s.smem
            BY <3>5, <3>6, GroupSecretSet
        <3>8. QED
            BY <2>1, <3>7
    <2>2. QED
        BY <1>1, <1>4, <2>1 DEF StartUpdate
<1>5. ASSUME NEW e \in GetGroup(g), NEW m, NEW a,
             obj' = [obj EXCEPT ![p] = [CopyGroup(g, e) EXCEPT !.mem = m, !.smem = m, !.sadm = a]]
      PROVE  \E o : o.mem = o.smem /\ obj' = [obj EXCEPT ![p] = o]
    <2>1. CopyGroup(g, e) \in GroupObject
        BY CopiedSame DEF GetGroup
    <2> DEFINE o == [CopyGroup(g, e) EXCEPT !.mem = m, !.smem = m, !.sadm = a]
    <2>2. o.mem = o.smem
        BY <2>1 DEF GroupObject
    <2> HIDE DEF o
    <2>3. QED
        BY <1>5, <2>2 DEF o
<1>6. CASE StartAddMember(p, g, uid, admin)
    <2>1. CASE ~ Refuse(p, g)
        <3>1. PICK u \in passwd, e \in GetGroup(g) :
                 obj' = [obj EXCEPT ![p] =
                    [CopyGroup(g, e) EXCEPT
                        !.mem = e.mem \cup {u.name}, !.smem = e.mem \cup {u.name},
                        !.sadm = IF admin /\ Named(gshadow, e.name) # {}
                                 THEN @ \cup {u.name} ELSE @]]
            BY <1>6, <2>1 DEF StartAddMember
        <3>2. QED
            BY <1>5, <3>1
    <2>2. QED
        BY <1>1, <2>1
<1>7. CASE StartDeleteMember(p, g, uid)
    <2>1. CASE ~ Refuse(p, g)
        <3>1. PICK u \in passwd, e \in GetGroup(g) :
                 obj' = [obj EXCEPT ![p] =
                    [CopyGroup(g, e) EXCEPT
                        !.mem = e.mem \ {u.name}, !.smem = e.mem \ {u.name},
                        !.sadm = IF Named(gshadow, e.name) # {}
                                 THEN @ \ {u.name} ELSE @]]
            BY <1>7, <2>1 DEF StartDeleteMember
        <3>2. QED
            BY <1>5, <3>1
    <2>2. QED
        BY <1>1, <2>1
<1>8. QED
    BY <1>2, <1>3, <1>4, <1>6, <1>7

\* Where no update is half done, a step that writes no file keeps the files
\* as they agree.
LEMMA QuietAgrees ==
    ASSUME NEW p \in Proc, Agreed(pc[p], usr[p], obj[p]), UNCHANGED files,
           pc[p] \notin HalfDone, pc'[p] \notin HalfDone
    PROVE  Agreed(pc[p], usr[p], obj[p])' /\ Agreed("idle", None, None)'
  BY DEF Agreed, UsersAgree, GroupsAgree, HalfDone, Listed, Match, Names, files

LEMMA NameAdded ==
    ASSUME NEW file, NEW e
    PROVE  Names(file \cup {e}) = Names(file) \cup {e.name}
  BY DEF Names

\* The steps on passwd and shadow.
LEMMA UserFilesAgree ==
    ASSUME AccountsInv, DoneInv, NEW p \in Proc, Agreed(pc[p], usr[p], obj[p]),
           \/ PasswdAdd(p) \/ ShadowAdd(p) \/ PasswdMod(p) \/ ShadowMod(p)
           \/ LockPassword(p) \/ UnlockPassword(p) \/ PasswdDel(p) \/ ShadowDel(p),
           UNCHANGED <<group, gshadow, usr, obj>>
    PROVE  Agreed(pc[p], usr[p], obj[p])'
<1> DEFINE u == usr[p]
<1>1. /\ pc[p] \in {"passwd_add", "shadow_add", "passwd_mod", "shadow_mod", "lock_pwd",
                    "unlock_pwd", "passwd_del", "shadow_del"}
      /\ pc'[p] \in {"shadow_add", "false", "userinfo_add", "shadow_mod", "true",
                     "terminate", "shadow_del", "del_group"}
    BY Domains DEF PasswdAdd, ShadowAdd, PasswdMod, ShadowMod, LockPassword,
       UnlockPassword, PasswdDel, ShadowDel, Then, GoTo
<1>2. HasGshadow => GroupsAgree(pc[p], usr[p], obj[p])'
    BY <1>1 DEF Agreed, GroupsAgree, Listed, Names
<1>3. Done(p) /\ ret[p] = "caller" /\ UserReady(u, pc[p], "caller")
    BY <1>1, UserDone DEF UserSteps
<1>4. UsersAgree(pc[p], u) /\ usr'[p] = u /\ DOMAIN pc = Proc
    BY Domains DEF Agreed
<1> HIDE DEF u
<1> USE DEF Then, GoTo
<1>5. CASE PasswdAdd(p)
    <2>1. u.name \notin Names(passwd)
        BY <1>3, <1>5 DEF PasswdAdd, UserReady
    <2>2. Names(passwd)' = Names(passwd) \cup {u.name}
        <3>1. Names(passwd)' = Names(passwd')
            BY DEF Names
        <3>2. PasswdOf(u).name = u.name /\ passwd' = passwd \cup {PasswdOf(u)}
            BY <1>5 DEF PasswdAdd, PasswdOf, u
        <3>3. QED
            BY <3>1, <3>2, NameAdded
    <2>3. pc[p] = "passwd_add" /\ pc'[p] = "shadow_add" /\ shadow' = shadow
        BY <1>4, <1>5 DEF PasswdAdd
    <2>4. QED
        BY <1>2, <1>4, <2>1, <2>2, <2>3 DEF Agreed, UsersAgree, Names
<1>6. CASE ShadowAdd(p)
    <2>1. pc[p] = "shadow_add" /\ Named(shadow, u.name) = {}
        BY <1>4, <1>6 DEF ShadowAdd, UsersAgree, Named, Names
    <2>2. pc'[p] = "userinfo_add" /\ passwd' = passwd /\ shadow' = shadow \cup {ShadowOf(u)}
        BY <1>4, <1>6, <2>1 DEF ShadowAdd, u
    <2>3. Names(shadow)' = Names(shadow) \cup {u.name}
        <3>1. Names(shadow)' = Names(shadow')
            BY DEF Names
        <3>2. ShadowOf(u).name = u.name
            BY DEF ShadowOf
        <3>3. QED
            BY <2>2, <3>1, <3>2, NameAdded
    <2>4. QED
        BY <1>2, <1>4, <2>1, <2>2, <2>3 DEF Agreed, UsersAgree, Names
<1>7. CASE PasswdMod(p)
    <2>1. /\ pc[p] = "passwd_mod" /\ pc'[p] = "shadow_mod" /\ shadow' = shadow
          /\ passwd' = (passwd \ {e \in passwd : e.name = u.name /\ e.uid = u.uid
                                                   /\ e.gid = u.gid}) \cup {PasswdOf(u)}
        BY <1>4, <1>7 DEF PasswdMod, u
    <2>2. u.name \in Names(passwd)
        BY <1>3, <2>1 DEF UserReady, Names
    <2>3. PasswdOf(u) \in passwd' /\ PasswdOf(u).name = u.name
        BY <2>1 DEF PasswdOf
    <2>4. Names(passwd)' = Names(passwd)
        BY <2>1, <2>2, <2>3 DEF Names
    <2>5. QED
        BY <1>2, <1>4, <2>1, <2>4 DEF Agreed, UsersAgree, Names
<1>8. CASE ShadowMod(p)
    <2>1. /\ pc[p] = "shadow_mod" /\ pc'[p] = "true" /\ passwd' = passwd
          /\ shadow' = (shadow \ Named(shadow, u.name)) \cup {ShadowOf(u)}
        BY <1>4, <1>8 DEF ShadowMod, u
    <2>2. PasswdOf(u) \in passwd
        BY <1>3, <2>1 DEF Done, UserWritten, u
    <2>3. u.name \in Names(shadow)
        BY <1>4, <2>1, <2>2 DEF UsersAgree, Names, PasswdOf
    <2>4. ShadowOf(u) \in shadow' /\ ShadowOf(u).name = u.name
        BY <2>1 DEF ShadowOf
    <2>5. Names(shadow)' = Names(shadow)
        BY <2>1, <2>3, <2>4 DEF Names, Named
    <2>6. QED
        BY <1>2, <1>4, <2>1, <2>5 DEF Agreed, UsersAgree, Names
<1>9. CASE LockPassword(p) \/ UnlockPassword(p)
    <2>1. /\ pc[p] \in {"lock_pwd", "unlock_pwd"} /\ pc'[p] \in {"terminate", "false"}
          /\ passwd' = passwd
        BY <1>4, <1>9 DEF LockPassword, UnlockPassword
    <2>2. Names(shadow)' = Names(shadow)
        <3>1. PICK lock : shadow' = WithLocked(u.name, lock) \/ shadow' = shadow
            BY <1>9 DEF LockPassword, UnlockPassword, u
        <3>2. \A s \in shadow : [s EXCEPT !.pwd = SetLocked(lock, @)].name = s.name
            BY DEF AccountsInv, TypeOK, FilesTypeOK, ShadowEntry
        <3>3. CASE shadow' = WithLocked(u.name, lock)
            <4>1. \A t \in shadow' : \E s \in shadow : t.name = s.name
                BY <3>2, <3>3 DEF WithLocked
            <4>2. \A s \in shadow : \E t \in shadow' : t.name = s.name
                BY <3>2, <3>3 DEF WithLocked
            <4>3. QED
                BY <4>1, <4>2 DEF Names
        <3>4. QED
            BY <3>1, <3>3 DEF Names
    <2>3. QED
        BY <1>2, <1>4, <2>1, <2>2 DEF Agreed, UsersAgree, Names
<1>10. CASE PasswdDel(p)
    <2>1. /\ pc[p] = "passwd_del" /\ pc'[p] = "shadow_del" /\ shadow' = shadow
          /\ passwd' = {e \in passwd : ~(e.name = u.name /\ e.uid = u.uid /\ e.gid = u.gid)}
        BY <1>4, <1>10 DEF PasswdDel, u
    <2>2. PICK e \in passwd : e.name = u.name /\ e.uid = u.uid /\ e.gid = u.gid
        BY <1>3, <2>1 DEF Done, UserErased, u
    <2>3. passwd' = passwd \ {e}
        BY <2>1, <2>2 DEF AccountsInv, NamesAndIdsUnique, Unique
    <2>4. Names(passwd) = Names(passwd)' \cup {u.name}
        BY <2>2, <2>3 DEF Names
    <2>5. QED
        BY <1>2, <1>4, <2>1, <2>4 DEF Agreed, UsersAgree, Names
<1>11. CASE ShadowDel(p)
    <2>1. /\ pc[p] = "shadow_del" /\ pc'[p] = "del_group" /\ passwd' = passwd
          /\ shadow' = shadow \ Named(shadow, u.name)
        BY <1>4, <1>11 DEF ShadowDel, u
    <2>2. u.name \notin Names(passwd)
        BY <1>3, <2>1 DEF Done, UserErased, u
    <2>3. Names(shadow)' = Names(shadow) \ {u.name}
        BY <2>1 DEF Names, Named
    <2>4. QED
        BY <1>2, <1>4, <2>1, <2>2, <2>3 DEF Agreed, UsersAgree, Names
<1>12. QED
    BY <1>5, <1>6, <1>7, <1>8, <1>9, <1>10, <1>11

\* An update of the entries of one name leaves the others matched.
LEMMA MatchButOne ==
    ASSUME NEW G, NEW S, NEW H, NEW T, NEW n, NEW X, X \subseteq {n},
           Match(G, S, X, {}),
           \A e : e.name # n => (e \in G <=> e \in H) /\ (e \in S <=> e \in T)
    PROVE  Match(H, T, {n}, {})
  BY DEF Match

\* When the entry of that name is the same in both, all are matched.
LEMMA MatchOneMore ==
    ASSUME NEW G, NEW S, NEW n, Match(G, S, {n}, {}),
           NEW e \in G, NEW x \in S, e.name = n, x.name = n, e.mem = x.mem,
           \A f \in G : f.name = n => f = e, \A y \in S : y.name = n => y = x
    PROVE  Match(G, S, {}, {})
  BY DEF Match

\* The steps on group and gshadow.
LEMMA GroupFilesAgree ==
    ASSUME "io" \notin Faults, AccountsInv, DoneInv, NEW p \in Proc,
           Agreed(pc[p], usr[p], obj[p]), HasGshadow => SameMembers(p),
           UpdateGroupFiles(p), UNCHANGED userVars
    PROVE  Agreed(pc[p], usr[p], obj[p])'
<1> DEFINE g == obj[p]
<1>1. /\ pc[p] \in GroupSteps /\ UNCHANGED <<passwd, shadow, usr, obj, ret>>
      /\ pc'[p] \in {"gshadow_add", "gshadow_del", "gshadow_mod", "true", "false"}
    BY Domains DEF UpdateGroupFiles, AddToGroup, AddToGshadow, DeleteFromGroup,
       DeleteFromGshadow, ModifyGroup, ModifyGshadow, GroupUpdateFails, UpdateFails,
       Then, GoTo, GroupSteps, userVars
<1>2. UsersAgree(pc[p], usr[p])'
    BY <1>1 DEF Agreed, UsersAgree, Names, GroupSteps
<1>3. CASE ~ HasGshadow
    BY <1>2, <1>3 DEF Agreed
<1>4. CASE HasGshadow
    <2>1. /\ GroupReady(g, pc[p]) /\ g \in GroupObject /\ g.name \in GroupName /\ g.gid \in Nat
          /\ EntryOf(g).name = g.name /\ EntryOf(g).gid = g.gid /\ GshadowOf(g).name = g.name
        BY <1>1, GroupAtWork
    <2>2. GroupWritten(call[p], pc[p], ret[p], g) /\ DOMAIN pc = Proc
        BY Domains DEF DoneInv, Done
    <2>3. EntryOf(g).mem = GshadowOf(g).mem
        BY <1>1, <1>4 DEF SameMembers, EntryOf, GshadowOf
    <2>4. /\ GroupsAgree(pc[p], usr[p], g)
          /\ \A e, f \in group : e.name = f.name => e = f
          /\ \A e, f \in gshadow : e.name = f.name => e = f
        BY <1>4 DEF Agreed, AccountsInv, NamesAndIdsUnique, Unique
    <2>5. pc[p] # "strip_gshadow"
        BY <1>1 DEF GroupSteps
    <2> HIDE DEF g
    <2> USE DEF Then, GoTo
    <2>6. ASSUME AddToGroup(p)
          PROVE  GroupsAgree(pc[p], usr[p], obj[p])'
        <3>1. /\ pc[p] = "group_add" /\ pc'[p] = "gshadow_add" /\ gshadow' = gshadow
              /\ group' = group \cup {EntryOf(g)}
            BY <1>4, <2>2, <2>6 DEF AddToGroup, g
        <3>2. Match(group, gshadow, {}, {}) /\ g.name \notin Names(group)
            BY <2>1, <2>4, <3>1 DEF GroupsAgree, GroupReady, Listed
        <3>3. g.name \notin Names(gshadow')
            BY <3>1, <3>2 DEF Match, Names
        <3>4. Match(group', gshadow', {g.name}, {})
            BY <2>1, <3>1, <3>2, MatchButOne
        <3>5. QED
            BY <1>1, <3>1, <3>3, <3>4 DEF GroupsAgree, Listed, Match, g, Names
    <2>7. ASSUME AddToGshadow(p)
          PROVE  GroupsAgree(pc[p], usr[p], obj[p])'
        <3>1. /\ pc[p] = "gshadow_add" /\ Match(group, gshadow, {g.name}, {})
              /\ g.name \notin Names(gshadow)
            BY <2>4, <2>7 DEF AddToGshadow, GroupsAgree, Listed
        <3>2. /\ pc'[p] = "true" /\ group' = group
              /\ gshadow' = gshadow \cup {GshadowOf(g)}
            BY <2>2, <2>7, <3>1 DEF AddToGshadow, g, Named, Names
        <3>3. EntryOf(g) \in group
            BY <2>2, <3>1 DEF GroupWritten
        <3>4. Match(group', gshadow', {g.name}, {})
            BY <2>1, <3>1, <3>2, MatchButOne
        <3>5. Match(group', gshadow', {}, {})
            BY <2>1, <2>3, <2>4, <3>1, <3>2, <3>3, <3>4, MatchOneMore DEF Names
        <3>6. QED
            BY <3>2, <3>5 DEF GroupsAgree, Listed, Match
    <2>8. ASSUME DeleteFromGroup(p)
          PROVE  GroupsAgree(pc[p], usr[p], obj[p])'
        <3>1. /\ pc[p] = "group_del" /\ pc'[p] = "gshadow_del" /\ gshadow' = gshadow
              /\ group' = group \ GetGroup(g)
            BY <1>4, <2>2, <2>8 DEF DeleteFromGroup, g
        <3>2. Match(group, gshadow, {}, {})
            BY <2>4, <3>1 DEF GroupsAgree, Listed
        <3>3. PICK e \in group : e.name = g.name /\ e.gid = g.gid
            BY <3>1 DEF DoneInv, Done, GroupErased, g
        <3>4. group' = group \ {e}
            BY <2>1, <3>1, <3>3, OneGroupMeant
        <3>5. g.name \notin Names(group') /\ g.name \in Names(gshadow')
            BY <2>4, <3>1, <3>2, <3>3, <3>4 DEF Names, Match
        <3>6. Match(group', gshadow', {g.name}, {})
            BY <3>1, <3>2, <3>3, <3>4, MatchButOne
        <3>7. QED
            BY <1>1, <3>1, <3>5, <3>6 DEF GroupsAgree, Listed, Match, g, Names
    <2>9. ASSUME DeleteFromGshadow(p)
          PROVE  GroupsAgree(pc[p], usr[p], obj[p])'
        <3>1. /\ pc[p] = "gshadow_del" /\ Match(group, gshadow, {g.name}, {})
              /\ g.name \notin Names(group) /\ g.name \in Names(gshadow)
            BY <2>4, <2>9 DEF DeleteFromGshadow, GroupsAgree, Listed
        <3>2. /\ pc'[p] = "true" /\ group' = group
              /\ gshadow' = gshadow \ Named(gshadow, g.name)
            BY <2>2, <2>9, <3>1 DEF DeleteFromGshadow, g, Named, Names
        <3>3. Match(group', gshadow', {}, {})
            BY <3>1, <3>2 DEF Match, Named, Names
        <3>4. QED
            BY <3>2, <3>3 DEF GroupsAgree, Listed, Match
    <2>10. ASSUME ModifyGroup(p)
          PROVE  GroupsAgree(pc[p], usr[p], obj[p])'
        <3>1. /\ pc[p] \in {"group_mod", "member_add"} /\ gshadow' = gshadow
              /\ group' = (group \ GetGroup(g)) \cup {EntryOf(g)}
              /\ pc'[p] = IF pc[p] = "group_mod" \/ Named(gshadow, g.name) # {}
                          THEN "gshadow_mod" ELSE "true"
            BY <1>4, <2>2, <2>10 DEF ModifyGroup, g
        <3>2. Match(group, gshadow, {}, {})
            BY <2>4, <3>1 DEF GroupsAgree, Listed
        <3>3. PICK e \in group : e.name = g.name /\ e.gid = g.gid
            BY <2>1, <3>1 DEF GroupReady
        <3>4. group' = (group \ {e}) \cup {EntryOf(g)}
            BY <2>1, <3>1, <3>3, OneGroupMeant
        <3>5. g.name \in Names(gshadow')
            BY <3>1, <3>2, <3>3 DEF Names, Match
        <3>6. pc'[p] = "gshadow_mod"
            BY <3>1, <3>5 DEF Named, Names
        <3>7. Match(group', gshadow', {g.name}, {})
            BY <2>1, <3>1, <3>2, <3>3, <3>4, MatchButOne
        <3>8. QED
            BY <1>1, <3>5, <3>6, <3>7 DEF GroupsAgree, Listed, Match, g, Names
    <2>11. ASSUME ModifyGshadow(p)
          PROVE  GroupsAgree(pc[p], usr[p], obj[p])'
        <3>1. /\ pc[p] = "gshadow_mod" /\ Match(group, gshadow, {g.name}, {})
              /\ g.name \in Names(gshadow)
            BY <2>4, <2>11 DEF ModifyGshadow, GroupsAgree, Listed
        <3>2. /\ pc'[p] = "true" /\ group' = group
              /\ gshadow' = (gshadow \ Named(gshadow, g.name)) \cup {GshadowOf(g)}
            BY <2>2, <2>11, <3>1 DEF ModifyGshadow, g, Named, Names
        <3>3. EntryOf(g) \in group
            BY <2>2, <3>1 DEF GroupWritten
        <3>4. Match(group', gshadow', {g.name}, {})
            <4>1. \A x : x.name # g.name => (x \in gshadow <=> x \in gshadow')
                BY <2>1, <3>2 DEF Named
            <4>2. Match(group, gshadow', {g.name}, {})
                BY <3>1, <4>1, MatchButOne
            <4>3. QED
                BY <3>2, <4>2
        <3>5. Match(group', gshadow', {}, {})
            BY <2>1, <2>3, <2>4, <3>2, <3>3, <3>4, MatchOneMore DEF Named
        <3>6. QED
            BY <3>2, <3>5 DEF GroupsAgree, Listed, Match
    <2>12. GroupsAgree(pc[p], usr[p], obj[p])'
        <3>1. ~ GroupUpdateFails(p)
            BY DEF GroupUpdateFails, UpdateFails
        <3>2. QED
            BY <2>6, <2>7, <2>8, <2>9, <2>10, <2>11, <3>1 DEF UpdateGroupFiles
    <2>13. QED
        BY <1>2, <1>4, <2>12 DEF Agreed
<1>5. QED
    BY <1>3, <1>4

LEMMA StripAgrees ==
    ASSUME "io" \notin Faults, AccountsInv, NEW p \in Proc,
           Agreed(pc[p], usr[p], obj[p]), StripMembership(p, usr[p].name),
           UNCHANGED userVars
    PROVE  Agreed(pc[p], usr[p], obj[p])'
<1> DEFINE n == usr[p].name
<1>1. /\ UNCHANGED <<passwd, shadow, usr, obj>> /\ DOMAIN pc = Proc
      /\ pc[p] \in {"strip_group", "strip_gshadow"}
      /\ pc'[p] \in {"strip_gshadow", "home_del"}
    BY Domains DEF StripMembership, StripGroup, StripGshadow, UpdateFails, Then, GoTo,
       userVars
<1>2. UsersAgree(pc[p], usr[p])'
    BY <1>1 DEF Agreed, UsersAgree, Names
<1>3. CASE ~ HasGshadow
    BY <1>2, <1>3 DEF Agreed
<1>4. CASE HasGshadow /\ StripGroup(p, n) /\ UNCHANGED gshadow
    <2>1. /\ pc[p] = "strip_group" /\ pc'[p] = "strip_gshadow"
          /\ group' = {[e EXCEPT !.mem = @ \ {n}] : e \in group}
        BY <1>1, <1>4 DEF StripGroup, Then, GoTo
    <2>2. Match(group, gshadow, {}, {})
        BY <1>4, <2>1 DEF Agreed, GroupsAgree, Listed
    <2>3. \A e \in group : [e EXCEPT !.mem = @ \ {n}].name = e.name
                          /\ [e EXCEPT !.mem = @ \ {n}].mem = e.mem \ {n}
        BY DEF AccountsInv, TypeOK, FilesTypeOK, GroupEntry
    <2> HIDE DEF n
    <2>4. Match(group', gshadow', {}, {n})
        <3>1. ASSUME NEW e \in group'
              PROVE  \E x \in gshadow : x.name = e.name /\ x.mem \ {n} = e.mem
            <4>1. PICK f \in group : e.name = f.name /\ e.mem = f.mem \ {n}
                BY <2>1, <2>3
            <4>2. QED
                BY <2>2, <4>1 DEF Match
        <3>2. ASSUME NEW x \in gshadow
              PROVE  \E e \in group' : e.name = x.name /\ e.mem = x.mem \ {n}
            <4>1. PICK f \in group : f.name = x.name /\ f.mem = x.mem \ {}
                BY <2>2 DEF Match
            <4>2. [f EXCEPT !.mem = @ \ {n}] \in group'
                BY <2>1
            <4>3. QED
                BY <2>3, <4>1, <4>2
        <3>3. QED
            BY <1>4, <3>1, <3>2 DEF Match
    <2>5. GroupsAgree(pc[p], usr[p], obj[p])'
        BY <1>1, <2>1, <2>4 DEF GroupsAgree, Listed, n
    <2>6. QED
        BY <1>2, <2>5 DEF Agreed
<1>5. CASE HasGshadow /\ StripGshadow(p, n) /\ UNCHANGED group
    <2>1. /\ pc[p] = "strip_gshadow" /\ pc'[p] = "home_del"
          /\ gshadow' = {[x EXCEPT !.mem = @ \ {n}, !.adm = @ \ {n}] : x \in gshadow}
        BY <1>1, <1>5 DEF StripGshadow, Then, GoTo, UpdateFails
    <2>2. Match(group, gshadow, {}, {n})
        BY <1>5, <2>1 DEF Agreed, GroupsAgree, Listed
    <2>3. \A x \in gshadow : [x EXCEPT !.mem = @ \ {n}, !.adm = @ \ {n}].name = x.name
                   /\ [x EXCEPT !.mem = @ \ {n}, !.adm = @ \ {n}].mem = x.mem \ {n}
        BY DEF AccountsInv, TypeOK, FilesTypeOK, GshadowEntry
    <2> HIDE DEF n
    <2>4. Match(group', gshadow', {}, {})
        <3>1. ASSUME NEW e \in group
              PROVE  \E x \in gshadow' : x.name = e.name /\ x.mem = e.mem
            <4>1. PICK y \in gshadow : y.name = e.name /\ y.mem \ {n} = e.mem
                BY <2>2 DEF Match
            <4>2. [y EXCEPT !.mem = @ \ {n}, !.adm = @ \ {n}] \in gshadow'
                BY <2>1
            <4>3. QED
                BY <2>3, <4>1, <4>2
        <3>2. ASSUME NEW x \in gshadow'
              PROVE  \E e \in group : e.name = x.name /\ e.mem = x.mem
            <4>1. PICK y \in gshadow : x.name = y.name /\ x.mem = y.mem \ {n}
                BY <2>1, <2>3
            <4>2. QED
                BY <2>2, <4>1 DEF Match
        <3>3. QED
            BY <1>5, <3>1, <3>2 DEF Match
    <2>5. GroupsAgree(pc[p], usr[p], obj[p])'
        BY <1>1, <2>1, <2>4 DEF GroupsAgree, Listed
    <2>6. QED
        BY <1>2, <2>5 DEF Agreed
<1>6. QED
    BY <1>3, <1>4, <1>5 DEF StripMembership

\* An operation that begins to work has found nobody at work.
LEMMA FoundNobody ==
    ASSUME AccountsInv, NEW p \in Proc, Works(p), pc[p] = "idle"
    PROVE  holder = NoProc
<1>1. CASE UserStep(p)
    BY <1>1 DEF UserStep, UserReturns, End, AddingUser, SetGroup, SetGroupReturns,
       SetShadow, Resume, Results, SetDefaultGroups, DefaultGroup,
       DefaultGroupReturns, DefaultGroupsDone, DeletePrimaryGroup, DelGroup,
       DelGroupReturns, PasswdAdd, ShadowAdd, UserinfoAdd, HomeAdd,
       DeleteFromFiles, LockPassword, TerminateUser, UnlockPassword, UserinfoDel,
       PasswdDel, ShadowDel, DeleteUpdateFails, HomeDel, ModifyUser, PasswdMod,
       ShadowMod, UserUpdateFails, UpdateFails, Then
<1>2. CASE GroupStep(p)
    BY <1>2 DEF GroupStep, GroupReturns, End, Results, UpdateGroupFiles,
       AddToGroup, AddToGshadow, DeleteFromGroup, DeleteFromGshadow, ModifyGroup,
       ModifyGshadow, GroupUpdateFails, UpdateFails, Then, GroupSteps,
       StripMembership, StripGroup, StripGshadow
<1>3. CASE CallUser(p) \/ BeginGroup(p)
    BY <1>3 DEF CallUser, CallUserAdd, CallUserDelete, CallUserUpdate, OnUser,
       BeginGroup, CallGroup, CallGroupAdd, CallGroupDelete, CallGroupUpdate,
       CallAddMember, CallDeleteMember, OnOwnGroup, Begin
<1>4. QED
    BY <1>1, <1>2, <1>3 DEF Works, Proceed, Die

\* An operation that works has found the files in agreement.
LEMMA AgreedAtWork ==
    ASSUME AccountsInv, AgreeInv, NEW p \in Proc, Works(p)
    PROVE  Agreed(pc[p], usr[p], obj[p])
<1>1. CASE pc[p] # "idle"
    BY <1>1 DEF AgreeInv
<1>2. CASE pc[p] = "idle"
    <2>1. Agreed("idle", None, None)
        BY <1>2, FoundNobody DEF AgreeInv
    <2>2. QED
        BY <1>2, <2>1, WholeAgrees DEF HalfDone
<1>3. QED
    BY <1>1, <1>2

WritesUsers(p) ==
    /\ \/ PasswdAdd(p) \/ ShadowAdd(p) \/ PasswdMod(p) \/ ShadowMod(p)
       \/ LockPassword(p) \/ UnlockPassword(p) \/ PasswdDel(p) \/ ShadowDel(p)
    /\ UNCHANGED <<group, gshadow, usr, obj, ret, call, grp, holder>>

\* What a step writes.
LEMMA WorkWrites ==
    ASSUME Faults \cap {"io", "crash"} = {}, AccountsInv, NEW p \in Proc, Works(p)
    PROVE  \/ UNCHANGED files /\ pc[p] \notin HalfDone /\ pc'[p] \notin HalfDone
           \/ WritesUsers(p)
           \/ UpdateGroupFiles(p) /\ UNCHANGED userVars
           \/ StripMembership(p, usr[p].name) /\ UNCHANGED userVars
<1> DEFINE Quiet == UNCHANGED files /\ pc[p] \notin HalfDone /\ pc'[p] \notin HalfDone
<1>1. DOMAIN pc = Proc /\ "io" \notin Faults /\ "crash" \notin Faults
    BY Domains
<1> USE DEF HalfDone
<1>2. CASE BeginGroup(p)
    <2>1. UNCHANGED files /\ pc[p] = "idle"
        BY <1>2 DEF BeginGroup, CallGroup, CallGroupAdd, CallGroupDelete, CallGroupUpdate,
           CallAddMember, CallDeleteMember, OnOwnGroup, Begin
    <2>2. Quiet
        BY <1>2, <2>1, BeginGroupGoes
    <2>3. QED
        BY <2>2
<1>3. CASE CallUser(p)
    <2>1. Quiet
        BY <1>1, <1>3 DEF CallUser, CallUserAdd, CallUserDelete, CallUserUpdate, OnUser,
           Begin, GoTo, files
    <2>2. QED
        BY <2>1
<1>4. CASE UserReturns(p) /\ UNCHANGED <<group, gshadow>>
    <2>1. Quiet
        BY <1>1, <1>4 DEF UserReturns, End, GoTo, files, Results
    <2>2. QED
        BY <2>1
<1>5. CASE GroupReturns(p) /\ UNCHANGED files
    <2>1. Quiet
        BY <1>1, <1>5 DEF GroupReturns, End, GoTo, Results
    <2>2. QED
        BY <2>1
<1>6. CASE /\ AddingUser(p) \/ SetDefaultGroups(p) \/ DeletePrimaryGroup(p)
           /\ UNCHANGED <<group, gshadow>>
    <2>1. UNCHANGED files
        BY <1>6 DEF AddingUser, SetDefaultGroups, DeletePrimaryGroup, files
    <2>2. pc[p] \in {"set_group", "set_shadow", "def_groups", "del_group"} \cup Results
        BY <1>6 DEF AddingUser, SetGroup, SetGroupReturns, SetShadow, Resume,
           SetDefaultGroups, DefaultGroup, DefaultGroupReturns, DefaultGroupsDone, Then,
           DeletePrimaryGroup, DelGroup, DelGroupReturns
    <2>3. pc'[p] \notin HalfDone
        <3>1. CASE CallsGroup(p)
            BY <3>1, CallsGroupGoes
        <3>2. CASE ~ CallsGroup(p)
            BY <1>6, <3>2, AddingUserGoes, DefaultGroupsGo, DeletedGroupGoes
        <3>3. QED
            BY <3>1, <3>2
    <2>4. QED
        BY <2>1, <2>2, <2>3 DEF Results
<1>7. CASE \/ UserinfoAdd(p) /\ UNCHANGED <<group, gshadow>>
           \/ HomeAdd(p) /\ UNCHANGED <<group, gshadow>>
           \/ HomeDel(p) /\ UNCHANGED <<group, gshadow>>
           \/ TerminateUser(p) /\ UNCHANGED <<group, gshadow>>
           \/ UserinfoDel(p) /\ UNCHANGED <<group, gshadow>>
    <2>1. Quiet
        BY <1>1, <1>7 DEF UserinfoAdd, HomeAdd, HomeDel, TerminateUser, UserinfoDel,
           Then, GoTo, files
    <2>2. QED
        BY <2>1
<1>8. CASE UserStep(p)
    <2>1. ~ DeleteUpdateFails(p) /\ ~ UserUpdateFails(p)
        BY <1>1 DEF DeleteUpdateFails, UserUpdateFails, UpdateFails
    <2>2. QED
        BY <1>4, <1>6, <1>7, <1>8, <2>1 DEF UserStep, DeleteFromFiles, ModifyUser, WritesUsers
<1>9. CASE GroupStep(p)
    BY <1>5, <1>9 DEF GroupStep
<1>10. QED
    BY <1>1, <1>2, <1>3, <1>8, <1>9 DEF Works, Proceed, Die

\* A step that begins or ends the use of a group object.
LEMMA StartedSame ==
    ASSUME AccountsInv, HasGshadow, AgreeInv, NEW p \in Proc,
           BeginGroup(p) \/ CallsGroup(p), Agreed(pc[p], usr[p], obj[p])
    PROVE  obj'[p].mem = obj'[p].smem
<1>1. DOMAIN obj = Proc /\ SameMembers(p)
    BY Domains DEF AgreeInv
<1>2. CASE BeginGroup(p)
    <2>1. grp[p] # None /\ holder = NoProc
        BY <1>2 DEF BeginGroup, CallGroup, CallGroupAdd, CallGroupDelete, CallGroupUpdate,
           CallAddMember, CallDeleteMember, OnOwnGroup, Begin
    <2>2. /\ grp[p] \in GroupObject /\ grp[p].mem = grp[p].smem
          /\ Agreed("idle", None, None)
        BY <1>1, <2>1 DEF AccountsInv, TypeOK, GroupTypeOK, AgreeInv, SameMembers
    <2>3. CASE CallGroupAdd(p)
        <3>1. grp[p].type \in GroupType
            BY <2>2, <2>3 DEF CallGroupAdd, GroupObject
        <3>2. StartAdd(p, grp[p], None)
            BY <2>3 DEF CallGroupAdd
        <3>3. \E o : o.mem = o.smem /\ obj' = [obj EXCEPT ![p] = o]
            BY <2>2, <3>1, <3>2, StartSame
        <3>4. QED
            BY <1>1, <3>3
    <2>4. CASE ~ CallGroupAdd(p)
        <3>1. \E uid, admin : \/ StartDelete(p, grp[p]) \/ StartUpdate(p, grp[p])
                              \/ StartAddMember(p, grp[p], uid, admin)
                              \/ StartDeleteMember(p, grp[p], uid)
            BY <1>2, <2>4 DEF BeginGroup, CallGroup, CallGroupDelete, CallGroupUpdate,
               CallAddMember, CallDeleteMember
        <3>2. \E o : o.mem = o.smem /\ obj' = [obj EXCEPT ![p] = o]
            BY <2>2, <3>1, StartSame
        <3>3. QED
            BY <1>1, <3>2
    <2>5. QED
        BY <2>3, <2>4
<1>3. CASE CallsGroup(p)
    <2>1. PICK g \in GroupObject :
            /\ g.mem = g.smem /\ pc[p] \in {"set_group", "def_groups", "del_group"}
            /\ \/ usr[p].uid \in Nat /\ g.type \in GroupType /\ StartAdd(p, g, usr[p].uid)
               \/ StartAddMember(p, g, usr[p].uid, FALSE) \/ StartDelete(p, g)
        BY <1>3 DEF CallsGroup, Fresh
    <2>2. Agreed("idle", None, None)
        BY <2>1, WholeAgrees DEF HalfDone
    <2>3. \E o : o.mem = o.smem /\ obj' = [obj EXCEPT ![p] = o]
        BY <2>1, <2>2, StartSame
    <2>4. QED
        BY <1>1, <2>3
<1>4. QED
    BY <1>2, <1>3

\* Where the group object at work comes from.
LEMMA ObjectFrom ==
    ASSUME Faults \cap {"io", "crash"} = {}, AccountsInv, DoneInv, NEW p \in Proc, Works(p)
    PROVE  /\ grp' = grp \/ GroupReturns(p)
           /\ \/ BeginGroup(p) \/ CallsGroup(p)
              \/ UNCHANGED <<obj, call>> /\ (pc'[p] \in GroupSteps => pc[p] \in GroupSteps)
              \/ call'[p] \notin GroupCalls /\ pc'[p] \notin GroupSteps
<1>1. DOMAIN pc = Proc /\ DOMAIN call = Proc /\ "crash" \notin Faults /\ Done(p)
    BY Domains DEF DoneInv
<1>2. CASE CallUser(p) \/ BeginGroup(p)
    BY <1>1, <1>2 DEF CallUser, CallUserAdd, CallUserDelete, CallUserUpdate, OnUser,
       Begin, GoTo, GroupSteps, GroupCalls, BeginGroup, CallGroup, CallGroupAdd,
       CallGroupDelete, CallGroupUpdate, CallAddMember, CallDeleteMember, OnOwnGroup
<1>3. CASE UserReturns(p) /\ UNCHANGED grp
    BY <1>1, <1>3 DEF UserReturns, End, GoTo, GroupSteps, GroupCalls
<1>4. CASE GroupReturns(p)
    BY <1>1, <1>4 DEF GroupReturns, End, GoTo, GroupSteps, GroupCalls
<1>5. CASE UpdateGroupFiles(p) \/ StripMembership(p, usr[p].name)
    BY <1>1, <1>5 DEF UpdateGroupFiles, AddToGroup, AddToGshadow, DeleteFromGroup,
       DeleteFromGshadow, ModifyGroup, ModifyGshadow, GroupUpdateFails, UpdateFails,
       Then, GoTo, GroupSteps, StripMembership, StripGroup, StripGshadow
<1>6. CASE /\ AddingUser(p) \/ SetDefaultGroups(p) \/ DeletePrimaryGroup(p)
           /\ UNCHANGED <<call, grp>> /\ ~ CallsGroup(p)
    <2>1. pc'[p] \notin GroupSteps
        BY <1>6, AddingUserGoes, DefaultGroupsGo, DeletedGroupGoes DEF GroupSteps
    <2>2. call[p] \notin GroupCalls
        BY <1>1, <1>6 DEF AddingUser, SetGroup, SetGroupReturns, SetShadow, Resume,
           SetDefaultGroups, DefaultGroup, DefaultGroupReturns, DefaultGroupsDone, Then,
           DeletePrimaryGroup, DelGroup, DelGroupReturns, Done, Belongs, GroupCalls
    <2>3. QED
        BY <1>6, <2>1, <2>2
<1>7. CASE /\ \/ (PasswdAdd(p) \/ ShadowAdd(p) \/ UserinfoAdd(p) \/ HomeAdd(p))
                    /\ UNCHANGED <<ret, usr, obj>>
              \/ DeleteFromFiles(p) \/ HomeDel(p) \/ ModifyUser(p) \/ UserUpdateFails(p)
           /\ UNCHANGED <<call, grp>>
    BY <1>1, <1>7 DEF PasswdAdd, ShadowAdd, UserinfoAdd, HomeAdd, DeleteFromFiles,
       LockPassword, TerminateUser, UnlockPassword, UserinfoDel, PasswdDel, ShadowDel,
       DeleteUpdateFails, HomeDel, ModifyUser, PasswdMod, ShadowMod, UserUpdateFails,
       UpdateFails, Then, GoTo, GroupSteps
<1>8. CASE UserStep(p)
    BY <1>3, <1>6, <1>7, <1>8 DEF UserStep
<1>9. CASE GroupStep(p)
    <2>1. CASE UpdateGroupFiles(p) \/ StripMembership(p, usr[p].name)
        BY <1>5, <2>1 DEF UpdateGroupFiles, StripMembership
    <2>2. QED
        BY <1>4, <1>9, <2>1 DEF GroupStep
<1>10. QED
    BY <1>1, <1>2, <1>8, <1>9 DEF Works, Proceed, Die, BeginGroup, CallUser

LEMMA MembersStaySame ==
    ASSUME Faults \cap {"io", "crash"} = {}, AccountsInv, AccountsInv', DoneInv, AgreeInv,
           HasGshadow, NEW p \in Proc, Works(p), NEW q \in Proc
    PROVE  SameMembers(q)'
<1>1. SameMembers(p) /\ SameMembers(q)
    BY DEF AgreeInv
<1>2. CASE q # p
    <2>1. pc'[q] = "idle"
        BY <1>2, OthersRest
    <2>2. call'[q] = "none"
        BY <2>1 DEF AccountsInv, Ready, Control
    <2>3. grp'[q] = grp[q]
        BY <1>2, ObjectFrom, Domains DEF GroupReturns
    <2>4. QED
        BY <1>1, <2>1, <2>2, <2>3 DEF SameMembers, GroupCalls, GroupSteps
<1>3. CASE q = p
    <2>1. grp'[p] # None => grp'[p].mem = grp'[p].smem
        BY <1>1, ObjectFrom, Domains DEF GroupReturns, SameMembers
    <2>2. call'[p] \in GroupCalls \/ pc'[p] \in GroupSteps => obj'[p].mem = obj'[p].smem
        <3>1. CASE BeginGroup(p) \/ CallsGroup(p)
            BY <3>1, StartedSame, AgreedAtWork
        <3>2. CASE ~ (BeginGroup(p) \/ CallsGroup(p))
            BY <1>1, <3>2, ObjectFrom DEF SameMembers
        <3>3. QED
            BY <3>1, <3>2
    <2>3. QED
        BY <1>3, <2>1, <2>2 DEF SameMembers
<1>4. QED
    BY <1>2, <1>3

LEMMA WorkAgrees ==
    ASSUME Faults \cap {"io", "crash"} = {}, AccountsInv, AccountsInv', DoneInv, AgreeInv,
           NEW p \in Proc, Works(p)
    PROVE  AgreeInv'
<1>1. Agreed(pc[p], usr[p], obj[p])
    BY AgreedAtWork
<1>2. /\ Agreed(pc[p], usr[p], obj[p])'
      /\ holder' = NoProc => Agreed("idle", None, None)'
    <2>1. CASE UNCHANGED files /\ pc[p] \notin HalfDone /\ pc'[p] \notin HalfDone
        BY <1>1, <2>1, QuietAgrees
    <2>2. CASE WritesUsers(p)
        <3>1. pc[p] \in UserSteps /\ holder' = holder
            BY <2>2 DEF WritesUsers, PasswdAdd, ShadowAdd, PasswdMod, ShadowMod,
               LockPassword, UnlockPassword, PasswdDel, ShadowDel, Then, UserSteps
        <3>2. holder' # NoProc
            BY <3>1, AccountAssumption DEF AccountsInv, OneAtWork, UserSteps
        <3>3. QED
            BY <1>1, <2>2, <3>2, UserFilesAgree DEF WritesUsers
    <2>3. CASE \/ UpdateGroupFiles(p) /\ UNCHANGED userVars
               \/ StripMembership(p, usr[p].name) /\ UNCHANGED userVars
        <3>1. pc[p] # "idle" /\ holder' = holder
            BY <2>3 DEF UpdateGroupFiles, AddToGroup, AddToGshadow, DeleteFromGroup,
               DeleteFromGshadow, ModifyGroup, ModifyGshadow, GroupUpdateFails,
               UpdateFails, Then, GroupSteps, StripMembership, StripGroup, StripGshadow
        <3>2. holder' # NoProc
            BY <3>1, AccountAssumption DEF AccountsInv, OneAtWork
        <3>3. HasGshadow => SameMembers(p)
            BY DEF AgreeInv
        <3>4. QED
            BY <1>1, <2>3, <3>2, <3>3, GroupFilesAgree, StripAgrees
    <2>4. QED
        BY <2>1, <2>2, <2>3, WorkWrites
<1>3. \A q \in Proc : pc'[q] # "idle" => q = p
    BY OthersRest
<1>4. QED
    BY <1>2, <1>3, MembersStaySame DEF AgreeInv

LEMMA StillAgreed ==
    ASSUME NEW q \in Proc, UNCHANGED files, pc'[q] = pc[q], usr'[q] = usr[q],
           obj'[q] = obj[q], Agreed(pc[q], usr[q], obj[q])
    PROVE  Agreed(pc[q], usr[q], obj[q])'
<1>1. UsersAgree(pc[q], usr[q])'
    BY DEF Agreed, UsersAgree, Names, files
<1>2. HasGshadow => GroupsAgree(pc[q], usr[q], obj[q])'
    <2>1. UNCHANGED <<group, gshadow>>
        BY DEF files
    <2>2. HasGshadow => GroupsAgree(pc[q], usr[q], obj[q])
        BY DEF Agreed
    <2>3. Names(group)' = Names(group) /\ Names(gshadow)' = Names(gshadow)
        BY <2>1 DEF Names
    <2>4. \A X, Y : Match(group', gshadow', X, Y) <=> Match(group, gshadow, X, Y)
        BY <2>1
    <2>5. QED
        BY <2>2, <2>3, <2>4 DEF GroupsAgree, Listed
<1>3. QED
    BY <1>1, <1>2 DEF Agreed

LEMMA HandleAgrees ==
    ASSUME AccountsInv, AgreeInv, NEW p \in Proc, HandleUser(p) \/ HandleGroup(p)
    PROVE  AgreeInv'
<1>1. /\ pc[p] = "idle" /\ UNCHANGED <<files, holder, call, pc, obj>>
      /\ \A q \in Proc : q # p => usr'[q] = usr[q] /\ grp'[q] = grp[q]
    BY Domains DEF HandleUser, NewUser, LoadUser, SetProperty, DropUser, SetUser,
       HandleGroup, NewGroup, LoadGroup, SetGroupSecret, DropGroup, UsesGroup,
       files, userVars
<1>2. holder' = NoProc => Agreed("idle", None, None)'
    BY <1>1 DEF AgreeInv, Agreed, UsersAgree, GroupsAgree, Listed, Match, Names, files
<1>3. ASSUME NEW q \in Proc, pc'[q] # "idle"
      PROVE  Agreed(pc[q], usr[q], obj[q])'
    <2>1. Agreed(pc[q], usr[q], obj[q]) /\ q # p
        BY <1>1, <1>3 DEF AgreeInv
    <2>2. QED
        BY <1>1, <2>1, StillAgreed
<1>4. ASSUME HasGshadow, NEW q \in Proc
      PROVE  SameMembers(q)'
    <2>1. SameMembers(q)
        BY <1>4 DEF AgreeInv
    <2>2. CASE q # p \/ grp' = grp
        BY <1>1, <2>1, <2>2 DEF SameMembers
    <2>3. CASE q = p /\ grp' # grp
        <3>1. call[p] = "none"
            BY <1>1, Resting
        <3>2. grp'[p] # None => grp'[p].mem = grp'[p].smem
            <4>1. DOMAIN grp = Proc /\ grp[p] \in GroupObject \cup {None}
                BY DEF AccountsInv, TypeOK, GroupTypeOK
            <4>2. CASE NewGroup(p) \/ DropGroup(p)
                BY <4>1, <4>2 DEF NewGroup, DropGroup, NewObject
            <4>3. CASE LoadGroup(p)
                <5>1. PICK e \in group : grp'[p] = CopyGroup(NewObject, e)
                    BY <4>1, <4>3 DEF LoadGroup
                <5>2. Agreed("idle", None, None)
                    BY <4>3 DEF LoadGroup, AgreeInv
                <5>3. QED
                    BY <1>4, <5>1, <5>2, CopiedSame, NewObjectType
            <4>4. CASE SetGroupSecret(p)
                <5>1. grp[p] # None /\ \E s : grp'[p] = [grp[p] EXCEPT !.secret = s]
                    BY <4>1, <4>4 DEF SetGroupSecret
                <5>2. grp[p] \in GroupObject /\ grp[p].mem = grp[p].smem
                    BY <2>1, <2>3, <4>1, <5>1 DEF SameMembers
                <5>3. QED
                    BY <5>1, <5>2 DEF GroupObject
            <4>5. QED
                BY <2>3, <4>2, <4>3, <4>4 DEF HandleUser, HandleGroup
        <3>3. QED
            BY <1>1, <2>3, <3>1, <3>2 DEF SameMembers, GroupCalls, GroupSteps
    <2>4. QED
        BY <2>2, <2>3
<1>5. QED
    BY <1>2, <1>3, <1>4 DEF AgreeInv

LEMMA AgreeInvInit == Init => AgreeInv
<1> SUFFICES ASSUME Init
             PROVE  AgreeInv
    OBVIOUS
<1>1. Names(passwd) = Names(shadow)
    BY DEF Init, FilesInit, Names
<1>2. HasGshadow => Match(group, gshadow, {}, {})
    <2> DEFINE I == DOMAIN InitialGroups
               entry(n) == [name |-> n, gid |-> InitialGroups[n], mem |-> {}]
               listed(n) == [name |-> n, pwd |-> DefaultPassword("user"), mem |-> {}, adm |-> {}]
    <2>1. group = {entry(n) : n \in I} /\ (HasGshadow => gshadow = {listed(n) : n \in I})
        BY DEF Init, FilesInit
    <2>2. \A n \in I : /\ entry(n).name = n /\ entry(n).mem = {}
                       /\ listed(n).name = n /\ listed(n).mem = {}
        OBVIOUS
    <2> HIDE DEF I, entry, listed
    <2>3. ASSUME HasGshadow, NEW e \in group
          PROVE  \E x \in gshadow : x.name = e.name /\ x.mem \ {} = e.mem
        <3>1. PICK n \in I : e = entry(n)
            BY <2>1
        <3>2. listed(n) \in gshadow
            BY <2>1, <2>3
        <3>3. QED
            BY <2>2, <3>1, <3>2
    <2>4. ASSUME HasGshadow, NEW x \in gshadow
          PROVE  \E e \in group : e.name = x.name /\ e.mem = x.mem \ {}
        <3>1. PICK n \in I : x = listed(n)
            BY <2>1, <2>4
        <3>2. entry(n) \in group
            BY <2>1
        <3>3. x.mem \ {} = {}
            BY <2>2, <3>1
        <3>4. entry(n).name = x.name /\ entry(n).mem = x.mem \ {}
            BY <2>2, <3>1, <3>3
        <3>5. QED
            BY <3>2, <3>4
    <2>5. QED
        BY <2>3, <2>4 DEF Match
<1>3. \A p \in Proc : pc[p] = "idle" /\ SameMembers(p)
    BY DEF Init, GroupInit, SameMembers, GroupCalls, GroupSteps
<1>4. QED
    BY <1>1, <1>2, <1>3 DEF AgreeInv, Agreed, UsersAgree, GroupsAgree, Listed

LEMMA AgreeInvNext ==
    ASSUME Faults \cap {"io", "crash"} = {}, AccountsInv, AccountsInv', DoneInv,
           AgreeInv, [Next]_vars
    PROVE  AgreeInv'
<1>1. CASE UNCHANGED vars
    <2>1. UNCHANGED <<files, holder, call, pc, usr, obj, grp>>
        BY <1>1 DEF vars, files
    <2>2. \A q \in Proc : pc'[q] # "idle" => Agreed(pc[q], usr[q], obj[q])'
        BY <2>1, StillAgreed DEF AgreeInv
    <2>3. holder' = NoProc => Agreed("idle", None, None)'
        BY <2>1 DEF AgreeInv, Agreed, UsersAgree, GroupsAgree, Listed, Match, Names, files
    <2>4. HasGshadow => \A q \in Proc : SameMembers(q)'
        BY <2>1 DEF AgreeInv, SameMembers
    <2>5. QED
        BY <2>2, <2>3, <2>4 DEF AgreeInv
<1>2. QED
    BY <1>1, StepKinds, HandleAgrees, WorkAgrees

THEOREM AgreeInvariant ==
    ASSUME Faults \cap {"io", "crash"} = {}
    PROVE  Spec => []AgreeInv
<1>1. AccountsInv /\ AccountsInv' /\ DoneInv /\ AgreeInv /\ [Next]_vars => AgreeInv'
    BY AgreeInvNext
<1>2. QED
    BY <1>1, AccountsInvariant, DoneInvariant, AgreeInvInit, PTL DEF Spec

\* Between operations passwd and shadow name the same users, group and gshadow
\* the same groups with the same members, when no update fails and no process
\* dies: the operations of gumd-daemon-user.c and gumd-daemon-group.c update
\* the two files of each pair alike, whatever else fails in between.
THEOREM FilesAlwaysAgree ==
    ASSUME Faults \cap {"io", "crash"} = {}
    PROVE  Spec => []FilesAgree
<1>1. AgreeInv => FilesAgree
    <2> SUFFICES ASSUME AgreeInv, holder = NoProc
                 PROVE  /\ Names(passwd) = Names(shadow)
                        /\ HasGshadow => {<<g.name, g.mem>> : g \in group}
                                            = {<<s.name, s.mem>> : s \in gshadow}
        BY DEF FilesAgree
    <2>1. Names(passwd) = Names(shadow) /\ (HasGshadow => Match(group, gshadow, {}, {}))
        BY DEF AgreeInv, Agreed, UsersAgree, GroupsAgree, Listed
    <2>2. ASSUME Match(group, gshadow, {}, {})
          PROVE  {<<g.name, g.mem>> : g \in group} = {<<s.name, s.mem>> : s \in gshadow}
        <3>1. \A g \in group : \E s \in gshadow : s.name = g.name /\ s.mem = g.mem
            BY <2>2 DEF Match
        <3>2. \A s \in gshadow : \E g \in group : s.name = g.name /\ s.mem = g.mem
            BY <2>2 DEF Match
        <3>3. QED
            BY <3>1, <3>2
    <2>3. QED
        BY <2>1, <2>2
<1>2. QED
    BY <1>1, AgreeInvariant, PTL

-----------------------------------------------------------------------------
(***************************************************************************)
(* No group has a member that is gone, when updates succeed, nobody dies   *)
(* and no caller writes back the members that an old object remembers.     *)
(***************************************************************************)
MembersKnown(G) == \A g \in group : g.mem \subseteq Names(passwd) \cup G

AdminsKnown(S) == \A s \in gshadow : s.adm \subseteq (Names(passwd) \cup S) \cap s.mem

\* The user that is deleted and still in the groups.
Leaving(step, back, u) ==
    IF step \in {"shadow_del", "del_group", "strip_group"} \/ back = "del_group"
    THEN {u.name} ELSE {}

FilesKnown(step, back, u) ==
    /\ MembersKnown(Leaving(step, back, u))
    /\ AdminsKnown(Leaving(step, back, u) \cup
                   IF step = "strip_gshadow" THEN {u.name} ELSE {})

\* The delete of a user always comes to the groups.
GroupsToCome(step, back, u) ==
    /\ step \in {"shadow_del", "del_group"} => u.gid \in Gids
    /\ ~ (step = "false" /\ back = "del_group")

\* What a group object writes.
WritesKnown(g) ==
    /\ EntryOf(g).mem \subseteq Names(passwd)
    /\ HasGshadow => GshadowOf(g).adm \subseteq EntryOf(g).mem

ObjectKnown(step, g) ==
    /\ step \in {"group_add", "gshadow_add"} => Fresh(g)
    /\ step \in {"group_mod", "member_add", "gshadow_mod"} => WritesKnown(g)

KnownAt(p) ==
    /\ FilesKnown(pc[p], ret[p], usr[p])
    /\ GroupsToCome(pc[p], ret[p], usr[p])
    /\ ObjectKnown(pc[p], obj[p])

MemberInv ==
    /\ holder = NoProc => FilesKnown("idle", "caller", None)
    /\ \A p \in Proc : pc[p] # "idle" => KnownAt(p)

\* A group object with one member more or less than its entry.
LEMMA CopyWrites ==
    ASSUME AccountsInv, HasGshadow => Match(group, gshadow, {}, {}),
           MembersKnown({}), AdminsKnown({}), NEW g \in GroupObject, NEW e \in group,
           NEW n, NEW m, NEW a,
           \/ /\ n \in Names(passwd) /\ m = e.mem \cup {n}
              /\ a \in {CopyGroup(g, e).sadm, CopyGroup(g, e).sadm \cup {n}}
           \/ /\ m = e.mem \ {n}
              /\ Named(gshadow, e.name) # {} => a = CopyGroup(g, e).sadm \ {n}
    PROVE  WritesKnown([CopyGroup(g, e) EXCEPT !.mem = m, !.smem = m, !.sadm = a])
<1> DEFINE c == CopyGroup(g, e)
           o == [c EXCEPT !.mem = m, !.smem = m, !.sadm = a]
<1>1. FilesTypeOK
    BY DEF AccountsInv, TypeOK
<1>2. c \in GroupObject
    BY <1>1, CopyGroupType
<1>3. o.mem = m /\ o.sadm = a
    BY <1>2 DEF GroupObject
<1>4. e.mem \in SUBSET UserName /\ Names(passwd) \subseteq UserName
    BY <1>1 DEF FilesTypeOK, GroupEntry, PasswdEntry, Names
<1>5. m \in SUBSET UserName /\ m \subseteq Names(passwd)
    BY <1>4 DEF MembersKnown
<1>6. HasGshadow => a \subseteq m
    <2> SUFFICES ASSUME HasGshadow
                 PROVE  a \subseteq m
        OBVIOUS
    <2>1. PICK x \in gshadow : x.name = e.name /\ x.mem \ {} = e.mem
        BY DEF Match
    <2>2. x.mem = e.mem /\ Named(gshadow, e.name) # {}
        BY <2>1 DEF Named
    <2>3. c.sadm = x.adm
        BY <2>1, CopiedEntry
    <2>4. x.adm \subseteq e.mem
        BY <2>2 DEF AdminsKnown
    <2>5. QED
        BY <2>2, <2>3, <2>4
<1> HIDE DEF c, o
<1>7. EntryOf(o).mem = m
    BY <1>3, <1>5, NoneIsNoList DEF EntryOf
<1>8. GshadowOf(o).adm \in {{}, a}
    BY <1>3 DEF GshadowOf
<1>9. WritesKnown(o)
    BY <1>5, <1>6, <1>7, <1>8 DEF WritesKnown
<1>10. QED
    BY <1>9 DEF o, c

LEMMA MembersStart ==
    ASSUME AccountsInv, HasGshadow => Match(group, gshadow, {}, {}),
           MembersKnown({}), AdminsKnown({}), NEW p \in Proc, NEW g \in GroupObject,
           NEW uid, NEW admin,
           StartAddMember(p, g, uid, admin) \/ StartDeleteMember(p, g, uid)
    PROVE  pc'[p] # "false" => WritesKnown(obj'[p])
<1>1. DOMAIN pc = Proc /\ DOMAIN obj = Proc
    BY Domains
<1>2. Refuse(p, g) => pc'[p] = "false"
    BY <1>1 DEF Refuse, GoTo
<1>3. CASE StartAddMember(p, g, uid, admin) /\ ~ Refuse(p, g)
    <2>1. PICK u \in passwd, e \in GetGroup(g) :
             obj'[p] = [CopyGroup(g, e) EXCEPT
                           !.mem = e.mem \cup {u.name}, !.smem = e.mem \cup {u.name},
                           !.sadm = IF admin /\ Named(gshadow, e.name) # {}
                                    THEN @ \cup {u.name} ELSE @]
        BY <1>1, <1>3 DEF StartAddMember
    <2> DEFINE c == CopyGroup(g, e)
               m == e.mem \cup {u.name}
               a == IF admin /\ Named(gshadow, e.name) # {} THEN c.sadm \cup {u.name} ELSE c.sadm
    <2>2. e \in group /\ u.name \in Names(passwd)
        BY DEF GetGroup, Names
    <2>3. a \in {c.sadm, c.sadm \cup {u.name}} /\ m = e.mem \cup {u.name}
        OBVIOUS
    <2>4. obj'[p] = [c EXCEPT !.mem = m, !.smem = m, !.sadm = a]
        BY <2>1
    <2> HIDE DEF m, a
    <2>5. WritesKnown([CopyGroup(g, e) EXCEPT !.mem = m, !.smem = m, !.sadm = a])
        BY <2>2, <2>3, CopyWrites
    <2>6. QED
        BY <2>4, <2>5
<1>4. CASE StartDeleteMember(p, g, uid) /\ ~ Refuse(p, g)
    <2>1. PICK u \in passwd, e \in GetGroup(g) :
             obj'[p] = [CopyGroup(g, e) EXCEPT
                           !.mem = e.mem \ {u.name}, !.smem = e.mem \ {u.name},
                           !.sadm = IF Named(gshadow, e.name) # {}
                                    THEN @ \ {u.name} ELSE @]
        BY <1>1, <1>4 DEF StartDeleteMember
    <2> DEFINE c == CopyGroup(g, e)
               m == e.mem \ {u.name}
               a == IF Named(gshadow, e.name) # {} THEN c.sadm \ {u.name} ELSE c.sadm
    <2>2. e \in group
        BY DEF GetGroup
    <2>3. (Named(gshadow, e.name) # {} => a = c.sadm \ {u.name}) /\ m = e.mem \ {u.name}
        OBVIOUS
    <2>4. obj'[p] = [c EXCEPT !.mem = m, !.smem = m, !.sadm = a]
        BY <2>1
    <2> HIDE DEF m, a
    <2>5. WritesKnown([CopyGroup(g, e) EXCEPT !.mem = m, !.smem = m, !.sadm = a])
        BY <2>2, <2>3, CopyWrites
    <2>6. QED
        BY <2>4, <2>5
<1>5. QED
    BY <1>2, <1>3, <1>4

\* A group that is made for a new user has no members.
LEMMA AddStart ==
    ASSUME AccountsInv, NEW p \in Proc, NEW g \in GroupObject, Fresh(g),
           g.type \in GroupType, NEW preferred \in Nat \cup {None}, StartAdd(p, g, preferred)
    PROVE  pc'[p] # "false" => Fresh(obj'[p])
<1>1. DOMAIN pc = Proc /\ DOMAIN obj = Proc
    BY Domains
<1>2. CASE Refuse(p, g)
    BY <1>1, <1>2 DEF Refuse, GoTo
<1>3. CASE ~ Refuse(p, g)
    <2>1. PICK gid \in FreeGids(g.type, preferred) :
             \E s \in SecretSet([g EXCEPT !.gid = gid]) :
                IF s.pwd = None
                THEN Refuse(p, s)
                ELSE obj'[p] = [s EXCEPT !.smem = s.mem]
        BY <1>1, <1>3 DEF StartAdd
    <2>2. gid \in Nat
        BY FreeGidIsFree
    <2> DEFINE n == [g EXCEPT !.gid = gid]
    <2>3. n \in GroupObject /\ Fresh(n)
        BY <2>2 DEF GroupObject, Fresh
    <2>4. PICK s \in SecretSet(n) :
             IF s.pwd = None THEN Refuse(p, s) ELSE obj'[p] = [s EXCEPT !.smem = s.mem]
        BY <2>1
    <2> HIDE DEF n
    <2>5. s \in GroupObject /\ Fresh(s)
        BY <2>3, GroupSecretSet DEF Fresh
    <2>6. CASE s.pwd = None
        BY <1>1, <2>4, <2>6 DEF Refuse, GoTo
    <2>7. CASE s.pwd # None
        BY <2>4, <2>5, <2>7 DEF Fresh, GroupObject
    <2>8. QED
        BY <2>6, <2>7
<1>4. QED
    BY <1>2, <1>3

\* The primary group of a deleted user is found.
LEMMA DeleteFindsGroup ==
    ASSUME AccountsInv, NEW p \in Proc, NEW g \in GroupObject, g.name = None,
           g.gid \in Gids, StartDelete(p, g)
    PROVE  pc'[p] # "false"
<1>1. g.gid \in Nat
    BY DEF AccountsInv, TypeOK, FilesTypeOK, GroupEntry, Gids
<1>2. g.gid # None
    BY <1>1, AccountAssumption
<1>3. GetGroup(g) # {}
    BY <1>2 DEF GetGroup, Gids
<1>4. QED
    BY <1>2, <1>3, Domains DEF StartDelete, GoTo

\* What holds when an operation works.
LEMMA KnownBefore ==
    ASSUME AccountsInv, MemberInv, NEW p \in Proc, Works(p)
    PROVE  KnownAt(p)
<1>1. CASE pc[p] = "idle"
    <2>1. FilesKnown("idle", "caller", None)
        BY <1>1, FoundNobody DEF MemberInv
    <2>2. ret[p] = "caller"
        BY <1>1, Resting
    <2>3. QED
        BY <1>1, <2>1, <2>2 DEF KnownAt, FilesKnown, GroupsToCome, ObjectKnown, Leaving
<1>2. QED
    BY <1>1 DEF MemberInv

\* A step that leaves the groups alone, and every name either with its user or
\* to be stripped.
LEMMA UsersStayKnown ==
    ASSUME NEW p \in Proc, FilesKnown(pc[p], ret[p], usr[p]), UNCHANGED <<group, gshadow>>,
           pc[p] # "strip_gshadow",
           Names(passwd) \cup Leaving(pc[p], ret[p], usr[p])
               \subseteq Names(passwd') \cup Leaving(pc'[p], ret'[p], usr'[p])
    PROVE  FilesKnown(pc[p], ret[p], usr[p])'
<1> DEFINE X == Names(passwd) \cup Leaving(pc[p], ret[p], usr[p])
           Y == Names(passwd') \cup Leaving(pc'[p], ret'[p], usr'[p])
<1>1. /\ \A g \in group' : g.mem \subseteq X
      /\ \A s \in gshadow' : s.adm \subseteq X \cap s.mem
    BY DEF FilesKnown, MembersKnown, AdminsKnown
<1>2. X \subseteq Y
    OBVIOUS
<1> HIDE DEF X, Y
<1>3. /\ \A g \in group' : g.mem \subseteq Y
      /\ \A s \in gshadow' : s.adm \subseteq Y \cap s.mem
    BY <1>1, <1>2
<1>4. QED
    BY <1>3 DEF FilesKnown, MembersKnown, AdminsKnown, Leaving, Names, Y

\* The steps of a user operation, and the returns.
LEMMA QuietKnown ==
    ASSUME Faults \cap {"io", "crash"} = {}, AccountsInv, DoneInv,
           NEW p \in Proc, KnownAt(p), UNCHANGED <<passwd, group, gshadow>>,
           \/ CallUser(p) \/ UserReturns(p) \/ GroupReturns(p)
           \/ AddingUser(p) /\ ~ CallsGroup(p)
           \/ SetDefaultGroups(p) /\ ~ CallsGroup(p)
           \/ DeletePrimaryGroup(p) /\ ~ CallsGroup(p)
           \/ /\ \/ UserinfoAdd(p) \/ ShadowAdd(p) \/ HomeAdd(p) \/ HomeDel(p)
                 \/ LockPassword(p) \/ TerminateUser(p) \/ UnlockPassword(p)
                 \/ UserinfoDel(p) \/ ShadowMod(p) \/ ShadowDel(p)
              /\ UNCHANGED <<ret, usr, obj>>
    PROVE  KnownAt(p)'
<1>1. /\ DOMAIN pc = Proc /\ DOMAIN call = Proc /\ DOMAIN ret = Proc /\ Control(p)
      /\ "io" \notin Faults /\ GroupsToCome(pc[p], ret[p], usr[p])
    BY Domains DEF AccountsInv, Ready, KnownAt
<1> DEFINE Still == /\ pc[p] # "strip_gshadow"
                    /\ Leaving(pc[p], ret[p], usr[p])
                          \subseteq Leaving(pc'[p], ret'[p], usr'[p])
                    /\ pc'[p] \in {"shadow_del", "del_group"} => usr'[p].gid \in Gids
                    /\ ~ (pc'[p] = "false" /\ ret'[p] = "del_group")
                    /\ pc'[p] \notin GroupSteps
<1>2. ASSUME CallUser(p)
      PROVE  Still
    <2>1. pc[p] = "idle" /\ ret'[p] = "caller"
          /\ pc'[p] \in {"false", "set_group", "lock_pwd", "passwd_mod"}
        BY <1>1, <1>2 DEF CallUser, CallUserAdd, CallUserDelete, CallUserUpdate, OnUser,
           Begin, GoTo
    <2>2. ret[p] = "caller"
        BY <2>1, Resting
    <2>3. Still
        BY <2>1, <2>2 DEF Leaving, GroupSteps
    <2>4. QED
        BY <2>3
<1>3. ASSUME UserReturns(p) \/ GroupReturns(p)
      PROVE  Still
    <2>1. ret[p] = "caller" /\ ret' = ret /\ pc[p] \in Results /\ pc'[p] = "idle"
        BY <1>1, <1>3 DEF UserReturns, GroupReturns, End, GoTo, Control, GroupCalls,
           UserCalls
    <2>2. Still
        BY <2>1 DEF Leaving, GroupSteps, Results
    <2>3. QED
        BY <2>2
<1>4. ASSUME AddingUser(p) /\ ~ CallsGroup(p)
      PROVE  Still
    <2>1. \/ pc[p] \in {"set_group", "set_shadow"}
          \/ pc[p] \in Results /\ ret[p] = "set_group"
        BY <1>4 DEF AddingUser, SetGroup, SetGroupReturns, SetShadow, Resume
    <2>2. pc[p] \in UserSteps => ret[p] = "caller"
        BY <1>1 DEF Control, UserSteps, GroupSteps, Results
    <2>3. ret'[p] = "caller" /\ pc'[p] \in {"set_shadow", "passwd_add", "false"}
        BY <1>4, AddingUserGoes
    <2>4. Still
        BY <2>1, <2>2, <2>3 DEF Leaving, GroupSteps, Results, UserSteps
    <2>5. QED
        BY <2>4
<1>5. ASSUME SetDefaultGroups(p) /\ ~ CallsGroup(p)
      PROVE  Still
    <2>1. \/ pc[p] = "def_groups"
          \/ pc[p] \in Results /\ ret[p] = "def_groups"
        BY <1>5 DEF SetDefaultGroups, DefaultGroup, DefaultGroupReturns, DefaultGroupsDone,
           Resume, Then
    <2>2. pc[p] \in UserSteps => ret[p] = "caller"
        BY <1>1 DEF Control, UserSteps, GroupSteps, Results
    <2>3. ret'[p] = "caller" /\ pc'[p] \in {"def_groups", "home_add"}
        BY <1>5, DefaultGroupsGo
    <2>4. Still
        BY <2>1, <2>2, <2>3 DEF Leaving, GroupSteps, Results, UserSteps
    <2>5. QED
        BY <2>4
<1>6. ASSUME DeletePrimaryGroup(p) /\ ~ CallsGroup(p)
      PROVE  Still
    <2>1. /\ ret[p] = "del_group" /\ ret'[p] = "caller" /\ pc[p] \in Results
          /\ pc'[p] = IF pc[p] = "true" THEN "strip_group" ELSE "false"
          /\ usr' = usr
        BY <1>6, DeletedGroupGoes DEF DeletePrimaryGroup
    <2>2. pc[p] = "true"
        BY <1>1, <2>1 DEF GroupsToCome, Results
    <2>3. Still
        BY <2>1, <2>2 DEF Leaving, GroupSteps
    <2>4. QED
        BY <2>3
<1>7. ASSUME /\ \/ UserinfoAdd(p) \/ ShadowAdd(p) \/ HomeAdd(p) \/ HomeDel(p)
                \/ LockPassword(p) \/ TerminateUser(p) \/ UnlockPassword(p)
                \/ UserinfoDel(p) \/ ShadowMod(p) \/ ShadowDel(p)
             /\ UNCHANGED <<ret, usr, obj>>
      PROVE  Still
    <2>1. \/ /\ pc[p] \in {"userinfo_add", "shadow_add", "home_add", "home_del", "lock_pwd",
                           "terminate", "unlock_pwd", "userinfo_del", "shadow_mod"}
             /\ pc'[p] \notin GroupSteps \cup {"shadow_del", "del_group"}
          \/ pc[p] = "shadow_del" /\ pc'[p] = "del_group"
        BY <1>1, <1>7 DEF UserinfoAdd, ShadowAdd, HomeAdd, HomeDel, LockPassword,
           TerminateUser, UnlockPassword, UserinfoDel, ShadowMod, ShadowDel, Then, GoTo,
           GroupSteps
    <2>2. ret[p] = "caller" /\ ret' = ret /\ usr' = usr
        BY <1>1, <1>7, <2>1 DEF Control, UserSteps, GroupSteps, Results
    <2>3. pc'[p] \in {"shadow_del", "del_group"} => usr'[p].gid \in Gids
        BY <1>1, <2>1, <2>2 DEF GroupsToCome
    <2>4. Still
        BY <2>1, <2>2, <2>3 DEF Leaving, GroupSteps
    <2>5. QED
        BY <2>4
<1>8. Still
    BY <1>2, <1>3, <1>4, <1>5, <1>6, <1>7
<1>9. FilesKnown(pc[p], ret[p], usr[p])'
    BY <1>8, UsersStayKnown DEF KnownAt
<1>10. GroupsToCome(pc[p], ret[p], usr[p])'
    BY <1>8 DEF GroupsToCome, Gids
<1>11. ObjectKnown(pc[p], obj[p])'
    BY <1>8 DEF ObjectKnown, GroupSteps
<1>12. QED
    BY <1>9, <1>10, <1>11 DEF KnownAt

\* The steps on passwd.
LEMMA PasswdKnown ==
    ASSUME AccountsInv, DoneInv, NEW p \in Proc, KnownAt(p),
           PasswdAdd(p) \/ PasswdMod(p) \/ PasswdDel(p),
           UNCHANGED <<group, gshadow, ret, usr, obj>>
    PROVE  KnownAt(p)'
<1> DEFINE u == usr[p]
<1>1. /\ DOMAIN pc = Proc /\ Control(p) /\ Done(p) /\ usr'[p] = u /\ ret'[p] = ret[p]
    BY Domains DEF AccountsInv, Ready, DoneInv
<1>2. \/ pc[p] \in {"passwd_add", "passwd_mod"} /\ pc'[p] \in {"shadow_add", "shadow_mod"}
      \/ pc[p] = "passwd_del" /\ pc'[p] = "shadow_del"
    BY <1>1 DEF PasswdAdd, PasswdMod, PasswdDel, Then, GoTo
<1>3. ret[p] = "caller"
    BY <1>1, <1>2 DEF Control, GroupSteps, Results
<1>4. PasswdOf(u).name = u.name
    BY DEF PasswdOf
<1>5. CASE PasswdAdd(p) \/ PasswdMod(p)
    <2>1. /\ PasswdOf(u) \in passwd'
          /\ \A e \in passwd : e \in passwd' \/ e.name = u.name
        BY <1>5 DEF PasswdAdd, PasswdMod
    <2>2. Names(passwd) \subseteq Names(passwd')
        BY <1>4, <2>1 DEF Names
    <2>3. pc[p] \in {"passwd_add", "passwd_mod"} /\ pc'[p] \in {"shadow_add", "shadow_mod"}
        BY <1>1, <1>5 DEF PasswdAdd, PasswdMod, Then, GoTo
    <2>4. FilesKnown(pc[p], ret[p], usr[p])'
        BY <1>1, <1>3, <2>2, <2>3, UsersStayKnown DEF KnownAt, Leaving
    <2>5. QED
        BY <2>3, <2>4 DEF KnownAt, GroupsToCome, ObjectKnown
<1>6. CASE PasswdDel(p)
    <2>1. /\ pc[p] = "passwd_del" /\ pc'[p] = "shadow_del"
          /\ \A e \in passwd : e \in passwd' \/ e.name = u.name
        BY <1>1, <1>6 DEF PasswdDel, Then, GoTo
    <2>2. Names(passwd) \subseteq Names(passwd') \cup {u.name}
        BY <2>1 DEF Names
    <2>3. FilesKnown(pc[p], ret[p], usr[p])'
        BY <1>1, <1>3, <2>1, <2>2, UsersStayKnown DEF KnownAt, Leaving
    <2>4. u.gid \in Gids
        BY <1>1, <2>1 DEF Done, UserErased, AccountsInv, PrimaryGroupExists, Gids
    <2>5. usr'[p].gid \in Gids'
        BY <1>1, <2>4 DEF Gids
    <2>6. QED
        BY <2>1, <2>3, <2>5 DEF KnownAt, GroupsToCome, ObjectKnown
<1>7. QED
    BY <1>5, <1>6

\* A group operation begins: its object brings only members that are users.
LEMMA StartedKnown ==
    ASSUME AccountsInv, DoneInv, AgreeInv, NEW p \in Proc,
           Agreed(pc[p], usr[p], obj[p]), KnownAt(p),
           Calls[p] \cap {"group_add", "group_update"} = {},
           UNCHANGED <<passwd, group, gshadow, usr>>,
           BeginGroup(p) \/ CallsGroup(p)
    PROVE  KnownAt(p)'
<1>1. /\ FilesKnown(pc[p], ret[p], usr[p]) /\ GroupsToCome(pc[p], ret[p], usr[p])
      /\ Control(p) /\ DOMAIN ret = Proc
    BY Domains DEF KnownAt, AccountsInv, Ready
<1>2. CASE BeginGroup(p)
    <2>1. /\ pc[p] = "idle" /\ ret' = [ret EXCEPT ![p] = "caller"] /\ grp[p] # None
          /\ call'[p] \in Calls[p]
        BY <1>2, Domains DEF BeginGroup, CallGroup, CallGroupAdd, CallGroupDelete,
           CallGroupUpdate, CallAddMember, CallDeleteMember, OnOwnGroup, Begin
    <2>2. ret[p] = "caller" /\ ret'[p] = "caller" /\ grp[p] \in GroupObject
        BY <1>1, <2>1, Resting DEF AccountsInv, TypeOK, GroupTypeOK
    <2>3. /\ MembersKnown({}) /\ AdminsKnown({})
          /\ HasGshadow => Match(group, gshadow, {}, {})
        BY <1>1, <2>1, <2>2 DEF FilesKnown, Leaving, Agreed, GroupsAgree, Listed
    <2>4. \/ /\ call'[p] \in {"add_member", "delete_member"}
             /\ pc'[p] \in {"member_add", "group_mod", "false"}
             /\ \E uid, admin : \/ StartAddMember(p, grp[p], uid, admin)
                                \/ StartDeleteMember(p, grp[p], uid)
          \/ pc'[p] \in {"group_del", "true", "false"}
        <3>1. call'[p] \notin {"group_add", "group_update"}
            BY <2>1
        <3>2. QED
            BY <1>2, <3>1, BeginGroupGoes DEF CallAddMember, CallDeleteMember
    <2>5. ObjectKnown(pc[p], obj[p])'
        <3>1. pc'[p] \in {"member_add", "group_mod"} => WritesKnown(obj'[p])
            BY <2>2, <2>3, <2>4, MembersStart
        <3>2. pc'[p] \in {"member_add", "group_mod"} => WritesKnown(obj[p])'
            BY <3>1 DEF WritesKnown, Names
        <3>3. QED
            BY <2>4, <3>2 DEF ObjectKnown
    <2>6. pc'[p] \in {"group_del", "member_add", "group_mod", "true", "false"}
        BY <2>4
    <2>7. FilesKnown(pc[p], ret[p], usr[p])'
        <3>1. Leaving(pc[p], ret[p], usr[p]) = {} /\ pc[p] # "strip_gshadow"
            BY <2>1, <2>2 DEF Leaving
        <3>2. QED
            BY <1>1, <3>1, UsersStayKnown
    <2>8. GroupsToCome(pc[p], ret[p], usr[p])'
        BY <2>2, <2>6 DEF GroupsToCome
    <2>9. QED
        BY <2>5, <2>7, <2>8 DEF KnownAt
<1>3. CASE CallsGroup(p)
    <2>1. PICK g \in GroupObject :
        /\ Fresh(g)
        /\ \/ /\ pc[p] = "set_group" /\ ret'[p] = "set_group"
              /\ g.type \in GroupType /\ usr[p].uid \in Nat
              /\ StartAdd(p, g, usr[p].uid)
           \/ /\ pc[p] = "def_groups" /\ ret'[p] = "def_groups"
              /\ StartAddMember(p, g, usr[p].uid, FALSE)
           \/ /\ pc[p] = "del_group" /\ ret'[p] = "del_group"
              /\ g.gid = usr[p].gid /\ g.name = None
              /\ StartDelete(p, g)
        BY <1>3 DEF CallsGroup
    <2>2. ret[p] = "caller" /\ usr'[p] = usr[p]
        BY <1>1, <2>1 DEF Control, GroupSteps, Results
    <2>3. CASE pc[p] = "set_group"
        <3>1. pc'[p] \in {"group_add", "false"} /\ ret'[p] = "set_group"
            BY <1>3, <2>3, CallsGroupGoes
        <3>2. pc'[p] # "false" => Fresh(obj'[p])
            BY <2>1, <2>3, AddStart
        <3>3. FilesKnown(pc[p], ret[p], usr[p])'
            BY <1>1, <2>2, <2>3, <3>1, UsersStayKnown DEF Leaving
        <3>4. ObjectKnown(pc[p], obj[p])' /\ GroupsToCome(pc[p], ret[p], usr[p])'
            BY <3>1, <3>2 DEF ObjectKnown, GroupsToCome, Fresh
        <3>5. QED
            BY <3>3, <3>4 DEF KnownAt
    <2>4. CASE pc[p] = "def_groups"
        <3>1. pc'[p] \in {"member_add", "false"} /\ ret'[p] = "def_groups"
            BY <1>3, <2>4, CallsGroupGoes
        <3>2. /\ MembersKnown({}) /\ AdminsKnown({})
              /\ HasGshadow => Match(group, gshadow, {}, {})
            BY <1>1, <2>2, <2>4 DEF FilesKnown, Leaving, Agreed, GroupsAgree, Listed
        <3>3. pc'[p] # "false" => WritesKnown(obj'[p])
            BY <2>1, <2>4, <3>2, MembersStart
        <3>4. FilesKnown(pc[p], ret[p], usr[p])'
            BY <1>1, <2>2, <2>4, <3>1, UsersStayKnown DEF Leaving
        <3>5. ObjectKnown(pc[p], obj[p])' /\ GroupsToCome(pc[p], ret[p], usr[p])'
            BY <3>1, <3>3 DEF ObjectKnown, GroupsToCome, WritesKnown, Names
        <3>6. QED
            BY <3>4, <3>5 DEF KnownAt
    <2>5. CASE pc[p] = "del_group"
        <3>1. pc'[p] # "false"
            BY <1>1, <2>1, <2>5, DeleteFindsGroup DEF GroupsToCome
        <3>2. pc'[p] \in {"group_del", "true"} /\ ret'[p] = "del_group"
            BY <1>3, <2>5, <3>1, CallsGroupGoes
        <3>3. FilesKnown(pc[p], ret[p], usr[p])'
            BY <1>1, <2>2, <2>5, <3>2, UsersStayKnown DEF Leaving
        <3>4. ObjectKnown(pc[p], obj[p])' /\ GroupsToCome(pc[p], ret[p], usr[p])'
            BY <3>2 DEF ObjectKnown, GroupsToCome
        <3>5. QED
            BY <3>3, <3>4 DEF KnownAt
    <2>6. QED
        BY <2>1, <2>3, <2>4, <2>5
<1>4. QED
    BY <1>2, <1>3

\* The steps on group and gshadow.
LEMMA GroupFilesKnown ==
    ASSUME "io" \notin Faults, AccountsInv, DoneInv, NEW p \in Proc,
           Agreed(pc[p], usr[p], obj[p]), HasGshadow => SameMembers(p), KnownAt(p),
           UpdateGroupFiles(p), UNCHANGED userVars
    PROVE  KnownAt(p)'
<1> DEFINE g == obj[p]
           L == IF ret[p] = "del_group" THEN {usr[p].name} ELSE {}
<1>1. /\ pc[p] \in GroupSteps /\ UNCHANGED <<passwd, usr, obj, ret>> /\ DOMAIN pc = Proc
      /\ pc'[p] \in {"gshadow_add", "gshadow_del", "gshadow_mod", "true", "false"}
    BY Domains DEF UpdateGroupFiles, AddToGroup, AddToGshadow, DeleteFromGroup,
       DeleteFromGshadow, ModifyGroup, ModifyGshadow, GroupUpdateFails, UpdateFails,
       Then, GoTo, GroupSteps, userVars
<1>2. Leaving(pc[p], ret[p], usr[p]) = L /\ Leaving(pc'[p], ret'[p], usr'[p]) = L
    BY <1>1 DEF Leaving, GroupSteps
<1>3. /\ \A e \in group : e.mem \subseteq Names(passwd) \cup L
      /\ \A s \in gshadow : s.adm \subseteq (Names(passwd) \cup L) \cap s.mem
      /\ ObjectKnown(pc[p], g)
    BY <1>1, <1>2 DEF KnownAt, FilesKnown, MembersKnown, AdminsKnown, GroupSteps
<1>4. Belongs(call[p], pc[p], ret[p]) /\ (~HasGshadow => gshadow = {})
    BY DEF DoneInv, Done
<1> DEFINE Kept == /\ \A e \in group' : e.mem \subseteq Names(passwd) \cup L
                   /\ \A s \in gshadow' : s.adm \subseteq (Names(passwd) \cup L) \cap s.mem
                   /\ ObjectKnown(pc'[p], g)
                   /\ pc'[p] = "false" => ret[p] # "del_group"
<1> HIDE DEF g, L
<1> USE DEF Then, GoTo
<1>5. ASSUME AddToGroup(p)
      PROVE  Kept
    <2>1. /\ pc[p] = "group_add" /\ pc'[p] \in {"gshadow_add", "true"}
          /\ gshadow' = gshadow /\ group' = group \cup {EntryOf(g)}
        BY <1>1, <1>5 DEF AddToGroup, g
    <2>2. Fresh(g)
        BY <1>3, <2>1 DEF ObjectKnown
    <2>3. EntryOf(g).mem = {}
        BY <2>2 DEF Fresh, EntryOf
    <2>4. QED
        BY <1>3, <2>1, <2>2, <2>3 DEF ObjectKnown
<1>6. ASSUME AddToGshadow(p)
      PROVE  Kept
    <2>1. /\ pc[p] = "gshadow_add" /\ pc'[p] \in {"false", "true"}
          /\ group' = group /\ gshadow' \in {gshadow, gshadow \cup {GshadowOf(g)}}
        BY <1>1, <1>6 DEF AddToGshadow, g
    <2>2. GshadowOf(g).adm = {}
        BY <1>3, <2>1 DEF ObjectKnown, Fresh, GshadowOf
    <2>3. ret[p] # "del_group"
        BY <1>4, <2>1 DEF Belongs
    <2>4. QED
        BY <1>3, <2>1, <2>2, <2>3 DEF ObjectKnown
<1>7. ASSUME DeleteFromGroup(p)
      PROVE  Kept
    <2>1. /\ pc'[p] \in {"gshadow_del", "true"} /\ gshadow' = gshadow
          /\ group' \subseteq group
        BY <1>1, <1>7 DEF DeleteFromGroup
    <2>2. QED
        BY <1>3, <2>1 DEF ObjectKnown
<1>8. ASSUME DeleteFromGshadow(p)
      PROVE  Kept
    <2>1. pc[p] = "gshadow_del" /\ HasGshadow
        BY <1>4, <1>8 DEF DeleteFromGshadow, Belongs
    <2>2. g.name \in Names(gshadow)
        BY <2>1 DEF Agreed, GroupsAgree, g
    <2>3. pc'[p] = "true" /\ group' = group /\ gshadow' \subseteq gshadow
        BY <1>1, <1>8, <2>2 DEF DeleteFromGshadow, Names, Named, g
    <2>4. QED
        BY <1>3, <2>3 DEF ObjectKnown
<1>9. ASSUME ModifyGroup(p)
      PROVE  Kept
    <2>1. /\ pc[p] \in {"group_mod", "member_add"} /\ pc'[p] \in {"gshadow_mod", "true"}
          /\ gshadow' = gshadow /\ group' = (group \ GetGroup(g)) \cup {EntryOf(g)}
        BY <1>1, <1>9 DEF ModifyGroup, g
    <2>2. WritesKnown(g)
        BY <1>3, <2>1 DEF ObjectKnown
    <2>3. EntryOf(g).mem \subseteq Names(passwd)
        BY <2>2 DEF WritesKnown
    <2>4. QED
        BY <1>3, <2>1, <2>2, <2>3 DEF ObjectKnown
<1>10. ASSUME ModifyGshadow(p)
      PROVE  Kept
    <2>1. /\ pc[p] = "gshadow_mod" /\ pc'[p] \in {"false", "true"} /\ group' = group
          /\ gshadow' = gshadow \/
             /\ Named(gshadow, g.name) # {}
             /\ gshadow' = (gshadow \ Named(gshadow, g.name)) \cup {GshadowOf(g)}
        BY <1>1, <1>10 DEF ModifyGshadow, g
    <2>2. WritesKnown(g) /\ ret[p] # "del_group"
        BY <1>3, <1>4, <2>1 DEF ObjectKnown, Belongs
    <2>3. CASE gshadow' = gshadow
        BY <1>3, <2>1, <2>2, <2>3 DEF ObjectKnown
    <2>4. CASE gshadow' # gshadow
        <3>1. HasGshadow
            BY <1>4, <2>1, <2>4 DEF Named
        <3>2. EntryOf(g).mem = GshadowOf(g).mem
            BY <1>1, <3>1 DEF SameMembers, EntryOf, GshadowOf, g
        <3>3. GshadowOf(g).adm \subseteq Names(passwd) \cap GshadowOf(g).mem
            BY <2>2, <3>1, <3>2 DEF WritesKnown
        <3>4. QED
            BY <1>3, <2>1, <2>2, <2>4, <3>3 DEF ObjectKnown
    <2>5. QED
        BY <2>3, <2>4
<1>11. Kept
    <2>1. ~ GroupUpdateFails(p)
        BY DEF GroupUpdateFails, UpdateFails
    <2>2. QED
        BY <1>5, <1>6, <1>7, <1>8, <1>9, <1>10, <2>1 DEF UpdateGroupFiles
<1>12. FilesKnown(pc[p], ret[p], usr[p])'
    <2>1. pc'[p] # "strip_gshadow"
        BY <1>1
    <2>2. QED
        BY <1>1, <1>2, <1>11, <2>1 DEF FilesKnown, MembersKnown, AdminsKnown, Names, Leaving
<1>13. GroupsToCome(pc[p], ret[p], usr[p])'
    BY <1>1, <1>11 DEF GroupsToCome
<1>14. ObjectKnown(pc[p], obj[p])'
    BY <1>1, <1>11 DEF ObjectKnown, WritesKnown, Names, g
<1>15. QED
    BY <1>12, <1>13, <1>14 DEF KnownAt

\* The steps that strip the user that is gone.
LEMMA StripKnown ==
    ASSUME "io" \notin Faults, AccountsInv, DoneInv, NEW p \in Proc, KnownAt(p),
           StripMembership(p, usr[p].name), UNCHANGED userVars
    PROVE  KnownAt(p)'
<1> DEFINE n == usr[p].name
<1>1. /\ UNCHANGED <<passwd, usr, obj, ret>> /\ DOMAIN pc = Proc
      /\ pc[p] \in {"strip_group", "strip_gshadow"}
      /\ pc'[p] \in {"strip_gshadow", "home_del"}
    BY Domains DEF StripMembership, StripGroup, StripGshadow, UpdateFails, Then, GoTo,
       userVars
<1>2. ret[p] = "caller" /\ (~HasGshadow => gshadow = {})
    BY <1>1 DEF AccountsInv, Ready, Control, GroupSteps, Results, DoneInv
<1>3. Leaving(pc'[p], ret'[p], usr'[p]) = {}
    BY <1>1, <1>2 DEF Leaving
<1>4. FilesKnown(pc[p], ret[p], usr[p])
    BY DEF KnownAt
<1> HIDE DEF n
<1> USE DEF Then, GoTo
<1>5. FilesKnown(pc[p], ret[p], usr[p])'
    <2>1. CASE StripGroup(p, n) /\ UNCHANGED gshadow
        <3>1. /\ pc[p] = "strip_group" /\ (HasGshadow => pc'[p] = "strip_gshadow")
              /\ group' = {[e EXCEPT !.mem = @ \ {n}] : e \in group}
            BY <1>1, <2>1 DEF StripGroup
        <3>2. /\ \A e \in group : e.mem \subseteq Names(passwd) \cup {n}
              /\ \A s \in gshadow : s.adm \subseteq (Names(passwd) \cup {n}) \cap s.mem
            BY <1>4, <3>1 DEF FilesKnown, MembersKnown, AdminsKnown, Leaving, n
        <3>3. \A e \in group' : e.mem \subseteq Names(passwd)
            <4>1. \A e \in group : [e EXCEPT !.mem = @ \ {n}].mem = e.mem \ {n}
                BY DEF AccountsInv, TypeOK, FilesTypeOK, GroupEntry
            <4>2. \A e \in group' : \E f \in group : e.mem = f.mem \ {n}
                BY <3>1, <4>1
            <4>3. QED
                BY <3>2, <4>2
        <3>4. CASE HasGshadow
            BY <1>1, <1>3, <2>1, <3>1, <3>2, <3>3, <3>4
               DEF FilesKnown, MembersKnown, AdminsKnown, Names, n, Leaving
        <3>5. CASE ~HasGshadow
            BY <1>1, <1>2, <1>3, <2>1, <3>3, <3>5
               DEF FilesKnown, MembersKnown, AdminsKnown, Names, Leaving
        <3>6. QED
            BY <3>4, <3>5
    <2>2. CASE StripGshadow(p, n) /\ UNCHANGED group
        <3>1. /\ pc[p] = "strip_gshadow" /\ pc'[p] = "home_del"
              /\ gshadow' = {[x EXCEPT !.mem = @ \ {n}, !.adm = @ \ {n}] : x \in gshadow}
            BY <1>1, <2>2 DEF StripGshadow, UpdateFails
        <3>2. /\ \A e \in group : e.mem \subseteq Names(passwd)
              /\ \A s \in gshadow : s.adm \subseteq (Names(passwd) \cup {n}) \cap s.mem
            BY <1>2, <1>4, <3>1 DEF FilesKnown, MembersKnown, AdminsKnown, Leaving, n
        <3>3. \A s \in gshadow' : s.adm \subseteq Names(passwd) \cap s.mem
            <4>1. \A x \in gshadow :
                     /\ [x EXCEPT !.mem = @ \ {n}, !.adm = @ \ {n}].mem = x.mem \ {n}
                     /\ [x EXCEPT !.mem = @ \ {n}, !.adm = @ \ {n}].adm = x.adm \ {n}
                BY DEF AccountsInv, TypeOK, FilesTypeOK, GshadowEntry
            <4>2. \A s \in gshadow' : \E x \in gshadow : /\ s.mem = x.mem \ {n}
                                                         /\ s.adm = x.adm \ {n}
                BY <3>1, <4>1
            <4>3. QED
                BY <3>2, <4>2
        <3>4. QED
            BY <1>1, <1>3, <2>2, <3>1, <3>2, <3>3
               DEF FilesKnown, MembersKnown, AdminsKnown, Names, Leaving
    <2>3. QED
        BY <2>1, <2>2 DEF StripMembership, n
<1>6. QED
    BY <1>1, <1>5 DEF KnownAt, GroupsToCome, ObjectKnown

LEMMA WorkKnown ==
    ASSUME Faults \cap {"io", "crash"} = {}, AccountsInv, DoneInv, AgreeInv, MemberInv,
           NEW p \in Proc, Calls[p] \cap {"group_add", "group_update"} = {}, Works(p)
    PROVE  KnownAt(p)'
<1>1. /\ KnownAt(p) /\ Agreed(pc[p], usr[p], obj[p]) /\ "io" \notin Faults
      /\ HasGshadow => SameMembers(p)
    BY KnownBefore, AgreedAtWork DEF AgreeInv
<1>2. CASE BeginGroup(p)
    BY <1>1, <1>2, StartedKnown DEF BeginGroup, files, userVars
<1>3. CASE CallUser(p)
    BY <1>1, <1>3, QuietKnown DEF CallUser
<1>4. CASE UserReturns(p) /\ UNCHANGED <<group, gshadow>>
    BY <1>1, <1>4, QuietKnown DEF UserReturns
<1>5. CASE GroupReturns(p) /\ UNCHANGED files
    BY <1>1, <1>5, QuietKnown DEF files
<1>6. CASE /\ AddingUser(p) \/ SetDefaultGroups(p) \/ DeletePrimaryGroup(p)
           /\ UNCHANGED <<group, gshadow>>
    <2>1. passwd' = passwd
        BY <1>6 DEF AddingUser, SetDefaultGroups, DeletePrimaryGroup
    <2>2. CASE CallsGroup(p)
        <3>1. usr' = usr
            <4>1. ASSUME AddingUser(p)
                  PROVE  usr' = usr
                <5>1. pc[p] \in UserSteps /\ ret'[p] # "caller"
                    BY <2>2, CallsGroupGoes DEF UserSteps
                <5>2. ret' # ret
                    BY <5>1 DEF AccountsInv, Ready, Control, UserSteps, GroupSteps, Results
                <5>3. QED
                    BY <4>1, <5>1, <5>2 DEF AddingUser, SetGroup, SetGroupReturns, SetShadow,
                       Resume, UserSteps, Results
            <4>2. QED
                BY <1>6, <4>1 DEF SetDefaultGroups, DefaultGroup, DefaultGroupReturns,
                   DefaultGroupsDone, DeletePrimaryGroup
        <3>2. QED
            BY <1>1, <1>6, <2>1, <2>2, <3>1, StartedKnown
    <2>3. CASE ~ CallsGroup(p)
        BY <1>1, <1>6, <2>1, <2>3, QuietKnown
    <2>4. QED
        BY <2>2, <2>3
<1>7. CASE /\ \/ /\ PasswdAdd(p) \/ ShadowAdd(p) \/ UserinfoAdd(p) \/ HomeAdd(p)
                 /\ UNCHANGED <<ret, usr, obj>>
              \/ DeleteFromFiles(p) \/ HomeDel(p) \/ ModifyUser(p) \/ UserUpdateFails(p)
           /\ UNCHANGED <<group, gshadow>>
    <2>1. ~ DeleteUpdateFails(p) /\ ~ UserUpdateFails(p)
        BY <1>1 DEF DeleteUpdateFails, UserUpdateFails, UpdateFails
    <2>2. UNCHANGED <<ret, usr, obj>>
        BY <1>7, <2>1 DEF DeleteFromFiles, HomeDel, ModifyUser
    <2>3. CASE PasswdAdd(p) \/ PasswdMod(p) \/ PasswdDel(p)
        BY <1>1, <1>7, <2>2, <2>3, PasswdKnown
    <2>4. CASE \/ UserinfoAdd(p) \/ ShadowAdd(p) \/ HomeAdd(p) \/ HomeDel(p)
               \/ LockPassword(p) \/ TerminateUser(p) \/ UnlockPassword(p)
               \/ UserinfoDel(p) \/ ShadowMod(p) \/ ShadowDel(p)
        <3>1. passwd' = passwd
            BY <2>4 DEF UserinfoAdd, ShadowAdd, HomeAdd, HomeDel, LockPassword,
               TerminateUser, UnlockPassword, UserinfoDel, ShadowMod, ShadowDel
        <3>2. QED
            BY <1>1, <1>7, <2>2, <2>4, <3>1, QuietKnown
    <2>5. QED
        BY <1>7, <2>1, <2>3, <2>4 DEF DeleteFromFiles, ModifyUser
<1>8. CASE UserStep(p)
    BY <1>4, <1>6, <1>7, <1>8 DEF UserStep
<1>9. CASE GroupStep(p)
    <2>1. CASE UpdateGroupFiles(p)
        BY <1>1, <1>9, <2>1, GroupFilesKnown DEF GroupStep
    <2>2. CASE StripMembership(p, usr[p].name)
        BY <1>1, <1>9, <2>2, StripKnown DEF GroupStep
    <2>3. QED
        BY <1>5, <1>9, <2>1, <2>2 DEF GroupStep
<1>10. QED
    BY <1>2, <1>3, <1>8, <1>9 DEF Works, Proceed, Die

LEMMA StillKnown ==
    ASSUME NEW q \in Proc, UNCHANGED files, pc'[q] = pc[q], ret'[q] = ret[q],
           usr'[q] = usr[q], obj'[q] = obj[q], KnownAt(q)
    PROVE  KnownAt(q)'
<1>1. FilesKnown(pc[q], ret[q], usr[q])'
    BY DEF KnownAt, FilesKnown, MembersKnown, AdminsKnown, Leaving, Names, files
<1>2. GroupsToCome(pc[q], ret[q], usr[q])'
    BY DEF KnownAt, GroupsToCome, Gids, files
<1>3. ObjectKnown(pc[q], obj[q])'
    BY DEF KnownAt, ObjectKnown, WritesKnown, Names, files
<1>4. QED
    BY <1>1, <1>2, <1>3 DEF KnownAt

LEMMA MemberInvInit == Init => MemberInv
<1> SUFFICES ASSUME Init
             PROVE  MemberInv
    OBVIOUS
<1>1. \A g \in group : g.mem = {}
    BY DEF Init, FilesInit
<1>2. \A s \in gshadow : s.adm = {}
    BY DEF Init, FilesInit
<1>3. \A p \in Proc : pc[p] = "idle"
    BY DEF Init, GroupInit
<1>4. QED
    BY <1>1, <1>2, <1>3 DEF MemberInv, FilesKnown, MembersKnown, AdminsKnown, Leaving

LEMMA MemberInvNext ==
    ASSUME Faults \cap {"io", "crash"} = {},
           \A p \in Proc : Calls[p] \cap {"group_add", "group_update"} = {},
           AccountsInv, AccountsInv', DoneInv, AgreeInv, MemberInv, [Next]_vars
    PROVE  MemberInv'
<1>1. CASE \/ UNCHANGED vars
           \/ \E p \in Proc : HandleUser(p) \/ HandleGroup(p)
    <2>1. /\ UNCHANGED <<files, holder, call, pc, ret, obj>>
          /\ \A q \in Proc : pc[q] # "idle" => usr'[q] = usr[q]
        BY <1>1, Domains DEF vars, files, HandleUser, NewUser, LoadUser, SetProperty, DropUser,
           SetUser, HandleGroup, NewGroup, LoadGroup, SetGroupSecret, DropGroup, UsesGroup,
           userVars
    <2>2. holder' = NoProc => FilesKnown("idle", "caller", None)'
        BY <2>1 DEF MemberInv, FilesKnown, MembersKnown, AdminsKnown, Leaving, Names, files
    <2>3. ASSUME NEW q \in Proc, pc'[q] # "idle"
          PROVE  KnownAt(q)'
        BY <2>1, <2>3, StillKnown DEF MemberInv
    <2>4. QED
        BY <2>2, <2>3 DEF MemberInv
<1>2. ASSUME NEW p \in Proc, Works(p)
      PROVE  MemberInv'
    <2>1. KnownAt(p)' /\ \A q \in Proc : pc'[q] # "idle" => q = p
        BY <1>2, WorkKnown, OthersRest
    <2>2. ASSUME holder' = NoProc
          PROVE  FilesKnown("idle", "caller", None)'
        <3>1. pc'[p] = "idle" /\ ret'[p] = "caller"
            BY <2>2, AccountAssumption
               DEF AccountsInv, OneAtWork, Ready, Control, UserCalls
        <3>2. QED
            BY <2>1, <3>1 DEF KnownAt, FilesKnown, MembersKnown, AdminsKnown, Leaving, Names
    <2>3. QED
        BY <2>1, <2>2 DEF MemberInv
<1>3. QED
    BY <1>1, <1>2, StepKinds

\* Between operations no group has a member, and no gshadow entry an
\* administrator, that is not a user (gumd_daemon_group_delete_user_membership):
\* when no update fails and no process dies, and nobody adds or updates a group
\* through an object that remembers its members of an earlier time.
THEOREM NoMemberDangles ==
    ASSUME Faults \cap {"io", "crash"} = {},
           \A p \in Proc : Calls[p] \cap {"group_add", "group_update"} = {}
    PROVE  Spec => []NoDanglingMember
<1>1. /\ AccountsInv /\ AccountsInv' /\ DoneInv /\ AgreeInv /\ MemberInv /\ [Next]_vars
         => MemberInv'
      /\ MemberInv => NoDanglingMember
    BY MemberInvNext
       DEF MemberInv, FilesKnown, MembersKnown, AdminsKnown, Leaving, NoDanglingMember
<1>2. QED
    BY <1>1, AccountsInvariant, DoneInvariant, AgreeInvariant, MemberInvInit, PTL DEF Spec

=============================================================================
