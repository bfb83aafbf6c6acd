--------------------------- MODULE GumdDaemonGroup ---------------------------
(***************************************************************************)
(* src/daemon/core/gumd-daemon-group.c.  A process holds at most one group *)
(* object of its own, grp[p]; the calls of gumd-daemon-user.c make further *)
(* ones for as long as they last.  A call looks up what it needs when it   *)
(* gets the lock and then updates one file per step.                       *)
(***************************************************************************)
EXTENDS AccountFiles

CONSTANT Calls   \* process -> the calls it makes, a bound on the behaviours

VARIABLES
    call,  \* the call each process is in, or "none"
    pc,    \* the next step of that call; "true" and "false" are its results
    ret,   \* who called the group operation at work: "caller", or a step of a
           \* user operation
    grp,   \* the group object of each process
    obj    \* the group object that the operation at work uses

GroupCalls == {"group_add", "group_delete", "group_update",
               "add_member", "delete_member"}

UserCalls == {"user_add", "user_delete", "user_update"}

GroupSteps == {"group_add", "gshadow_add", "group_del", "gshadow_del",
               "group_mod", "gshadow_mod", "member_add"}

UserSteps == {"set_group", "set_shadow", "passwd_add", "shadow_add",
              "userinfo_add", "def_groups", "home_add",
              "lock_pwd", "terminate", "unlock_pwd", "userinfo_del",
              "passwd_del", "shadow_del", "del_group", "strip_group",
              "strip_gshadow", "home_del", "passwd_mod", "shadow_mod"}

Results == {"true", "false"}

Members == (SUBSET UserName) \cup {None}

GroupObject == [name : GroupName \cup {None}, gid : Nat \cup {None},
                type : GroupType \cup {None},
                secret : Secret \cup {Placeholder, None},
                mem : Members, pwd : Password \cup {None},
                smem : Members, sadm : Members]

\* gumd_daemon_group_new: an object without properties.
NewObject ==
    [name |-> None, gid |-> None, type |-> None, secret |-> None,
     mem |-> None, pwd |-> None, smem |-> None, sadm |-> None]

GroupTypeOK ==
    /\ call \in [Proc -> GroupCalls \cup UserCalls \cup {"none"}]
    /\ pc \in [Proc -> GroupSteps \cup UserSteps \cup Results \cup {"idle"}]
    /\ ret \in [Proc -> {"caller", "set_group", "def_groups", "del_group"}]
    /\ grp \in [Proc -> GroupObject \cup {None}]
    /\ obj \in [Proc -> GroupObject \cup {None}]

GroupInit ==
    /\ call = [p \in Proc |-> "none"]
    /\ pc = [p \in Proc |-> "idle"]
    /\ ret = [p \in Proc |-> "caller"]
    /\ grp = [p \in Proc |-> None]
    /\ obj = [p \in Proc |-> None]

-----------------------------------------------------------------------------
(***************************************************************************)
(* Control.                                                                *)
(***************************************************************************)
GoTo(p, step) == pc' = [pc EXCEPT ![p] = step]

\* A public operation starts with gum_lock_pwdf_lock.  When the lock is taken
\* it returns FALSE (or waits) and nothing has changed.
Begin(p, c) ==
    /\ c \in Calls[p]
    /\ pc[p] = "idle"
    /\ holder = NoProc
    /\ holder' = p
    /\ call' = [call EXCEPT ![p] = c]

\* The last gum_lock_pwdf_unlock; the inner ones of nested operations only
\* count (GumLock).
End(p) ==
    /\ pc[p] \in Results
    /\ holder' = NoProc
    /\ call' = [call EXCEPT ![p] = "none"]
    /\ GoTo(p, "idle")

\* A gum_file_update that fails: its file stays and the operation returns FALSE.
UpdateFails(p, step) ==
    /\ "io" \in Faults
    /\ pc[p] = step
    /\ GoTo(p, "false")

-----------------------------------------------------------------------------
(***************************************************************************)
(* Objects.                                                                *)
(***************************************************************************)
EntryOf(g) ==
    [name |-> g.name, gid |-> g.gid, mem |-> IF g.mem = None THEN {} ELSE g.mem]

GshadowOf(g) ==
    [name |-> g.name, pwd |-> g.pwd,
     mem |-> IF g.smem = None THEN {} ELSE g.smem,
     adm |-> IF g.sadm = None THEN {} ELSE g.sadm]

\* _copy_group_data: the object takes over the entries of e in both files.
CopyGroup(g, e) ==
    LET c == [g EXCEPT !.name = e.name, !.gid = e.gid,
                       !.secret = Placeholder, !.mem = e.mem]
    IN  IF Named(gshadow, e.name) = {} THEN c
        ELSE LET s == CHOOSE s \in Named(gshadow, e.name) : TRUE
             IN  [c EXCEPT !.pwd = s.pwd, !.smem = s.mem, !.sadm = s.adm]

\* _set_secret of a group or a user: the objects it can leave behind, with the
\* secret encrypted or, after a failure, without a password.
SecretSet(o) ==
    IF o.secret = None
    THEN {[o EXCEPT !.secret = Placeholder, !.pwd = DefaultPassword(o.type)]}
    ELSE {[o EXCEPT !.secret = Placeholder, !.pwd = Encrypted(o.secret)]}
         \cup {[o EXCEPT !.pwd = None] : f \in Faults \cap {"encrypt"}}

-----------------------------------------------------------------------------
(***************************************************************************)
(* The object of the caller.                                               *)
(***************************************************************************)
UsesGroup(p, c) == c \in Calls[p] /\ pc[p] = "idle"

NewGroup(p) ==
    /\ UsesGroup(p, "group_add")
    /\ grp[p] = None
    /\ \E name \in GroupName, type \in GroupType, secret \in Secret \cup {None} :
          grp' = [grp EXCEPT ![p] = [NewObject EXCEPT !.name = name,
                                       !.type = type, !.secret = secret]]
    /\ UNCHANGED <<holder, call, pc, ret, obj>>

\* gumd_daemon_group_new_by_gid and _by_name, both under the lock.
LoadGroup(p) ==
    /\ \E c \in GroupCalls \ {"group_add"} : UsesGroup(p, c)
    /\ grp[p] = None
    /\ holder = NoProc
    /\ \E e \in group : grp' = [grp EXCEPT ![p] = CopyGroup(NewObject, e)]
    /\ UNCHANGED <<holder, call, pc, ret, obj>>

SetGroupSecret(p) ==
    /\ UsesGroup(p, "group_update")
    /\ grp[p] # None
    /\ \E secret \in Secret : grp' = [grp EXCEPT ![p].secret = secret]
    /\ UNCHANGED <<holder, call, pc, ret, obj>>

DropGroup(p) ==
    /\ pc[p] = "idle"
    /\ grp[p] # None
    /\ grp' = [grp EXCEPT ![p] = None]
    /\ UNCHANGED <<holder, call, pc, ret, obj>>

-----------------------------------------------------------------------------
(***************************************************************************)
(* How the operations start: the checks and lookups before the first file  *)
(* is written.  g is the object the operation is called on.                *)
(***************************************************************************)
Refuse(p, g) ==
    /\ obj' = [obj EXCEPT ![p] = g]
    /\ GoTo(p, "false")

\* gumd_daemon_group_add, up to the update of the group file.
StartAdd(p, g, preferred) ==
    \/ /\ Named(group, g.name) # {} \/ FreeGids(g.type, preferred) = {}
       /\ Refuse(p, g)
    \/ /\ Named(group, g.name) = {}
       /\ \E gid \in FreeGids(g.type, preferred) :
          \E s \in SecretSet([g EXCEPT !.gid = gid]) :
             IF s.pwd = None
             THEN Refuse(p, s)
             ELSE /\ obj' = [obj EXCEPT ![p] = [s EXCEPT !.smem = s.mem]]
                  /\ GoTo(p, "group_add")

\* Mutant of StartDelete: the group of a remaining user is deleted as well.
MutStartDelete(p, g) ==
    \/ /\ g.gid = None \/ GetGroup(g) = {}
       /\ Refuse(p, g)
    \/ /\ g.gid # None
       /\ \E e \in GetGroup(g) :
             /\ obj' = [obj EXCEPT ![p] = CopyGroup(g, e)]
             /\ GoTo(p, "group_del")

\* gumd_daemon_group_delete: the primary group of a remaining user is kept, and
\* the operation still returns TRUE.  The group of the process itself (getegid;
\* the daemon runs with the gid of the group gumd) is not in the model, and with
\* it the refusal to delete it is left out.
StartDelete(p, g) ==
    \/ /\ g.gid = None \/ GetGroup(g) = {}
       /\ Refuse(p, g)
    \/ /\ g.gid # None
       /\ \E e \in GetGroup(g) :
             /\ obj' = [obj EXCEPT ![p] = CopyGroup(g, e)]
             /\ GoTo(p, IF \E u \in passwd : u.gid = e.gid
                        THEN "true" ELSE "group_del")

\* gumd_daemon_group_update: what the object lacks comes from the files, what
\* it has stays.
Completed(g, e) ==
    LET c == CopyGroup(g, e)
        Or(own, other) == IF own = None THEN other ELSE own
    IN  [g EXCEPT !.name = e.name, !.mem = Or(@, c.mem),
                  !.smem = Or(@, c.smem), !.sadm = Or(@, c.sadm)]

StartUpdate(p, g) ==
    LET noChange ==
          \/ g.secret \in {None, Placeholder}
          \/ \E s \in Named(gshadow, g.name) : s.pwd = Encrypted(g.secret)
    IN \/ /\ g.gid = None \/ GetGroup(g) = {} \/ noChange
          /\ Refuse(p, g)
       \/ /\ g.gid # None /\ ~noChange
          /\ \E e \in GetGroup(g) : \E s \in SecretSet(Completed(g, e)) :
                /\ obj' = [obj EXCEPT ![p] = s]
                /\ GoTo(p, IF s.pwd = None THEN "false" ELSE "group_mod")

\* gumd_daemon_group_add_member.  The members of the group file go to gshadow.
StartAddMember(p, g, uid, admin) ==
    LET found == {u \in passwd : u.uid = uid}
        free == {e \in GetGroup(g) : \A u \in found : u.name \notin e.mem}
    IN \/ /\ found = {} \/ free = {}
          /\ Refuse(p, g)
       \/ \E u \in found, e \in free :
             LET c == CopyGroup(g, e)
                 asAdmin == admin /\ Named(gshadow, e.name) # {}
             IN  /\ obj' = [obj EXCEPT ![p] =
                       [c EXCEPT !.mem = e.mem \cup {u.name},
                                 !.smem = e.mem \cup {u.name},
                                 !.sadm = IF asAdmin THEN @ \cup {u.name} ELSE @]]
                 /\ GoTo(p, "member_add")

\* gumd_daemon_group_delete_member
StartDeleteMember(p, g, uid) ==
    LET found == {u \in passwd : u.uid = uid}
        its == {e \in GetGroup(g) : \E u \in found : u.name \in e.mem}
    IN \/ its = {} /\ Refuse(p, g)
       \/ \E u \in found, e \in its :
             LET c == CopyGroup(g, e)
                 listed == Named(gshadow, e.name) # {}
             IN  /\ obj' = [obj EXCEPT ![p] =
                       [c EXCEPT !.mem = e.mem \ {u.name},
                                 !.smem = e.mem \ {u.name},
                                 !.sadm = IF listed THEN @ \ {u.name} ELSE @]]
                 /\ GoTo(p, "group_mod")

-----------------------------------------------------------------------------
(***************************************************************************)
(* The operations on the caller's own object.                              *)
(***************************************************************************)
OnOwnGroup(p, c) ==
    /\ grp[p] # None
    /\ Begin(p, c)
    /\ ret' = [ret EXCEPT ![p] = "caller"]
    /\ UNCHANGED grp

\* an object without a group type is refused before the lock
CallGroupAdd(p) ==
    /\ OnOwnGroup(p, "group_add")
    /\ grp[p].type # None
    /\ StartAdd(p, grp[p], None)

CallGroupDelete(p) ==
    /\ OnOwnGroup(p, "group_delete")
    /\ StartDelete(p, grp[p])

CallGroupUpdate(p) ==
    /\ OnOwnGroup(p, "group_update")
    /\ StartUpdate(p, grp[p])

\* the ids a caller may name
KnownUids == UNION {UidRange[t].min .. UidRange[t].max : t \in UserType}

CallAddMember(p) ==
    /\ OnOwnGroup(p, "add_member")
    /\ \E uid \in KnownUids, admin \in BOOLEAN :
          StartAddMember(p, grp[p], uid, admin)

CallDeleteMember(p) ==
    /\ OnOwnGroup(p, "delete_member")
    /\ \E uid \in KnownUids : StartDeleteMember(p, grp[p], uid)

\* The operation returns to its caller, whose object carries what was set.
GroupReturns(p) ==
    /\ call[p] \in GroupCalls
    /\ End(p)
    /\ grp' = [grp EXCEPT ![p] = obj[p]]
    /\ obj' = [obj EXCEPT ![p] = None]
    /\ UNCHANGED ret

CallGroup(p) ==
    \/ CallGroupAdd(p) \/ CallGroupDelete(p) \/ CallGroupUpdate(p)
    \/ CallAddMember(p) \/ CallDeleteMember(p)

-----------------------------------------------------------------------------
(***************************************************************************)
(* The updates of the two files, one step each.                            *)
(***************************************************************************)
Then(p, from, to) == pc[p] = from /\ GoTo(p, to)

AddToGroup(p) ==
    /\ Then(p, "group_add", IF HasGshadow THEN "gshadow_add" ELSE "true")
    /\ group' = group \cup {EntryOf(obj[p])}
    /\ UNCHANGED gshadow

\* an entry of that name that is already in gshadow makes the update fail
AddToGshadow(p) ==
    LET taken == Named(gshadow, obj[p].name) # {} IN
    /\ Then(p, "gshadow_add", IF taken THEN "false" ELSE "true")
    /\ gshadow' = IF taken THEN gshadow ELSE gshadow \cup {GshadowOf(obj[p])}
    /\ UNCHANGED group

\* Mutant of DeleteFromGroup: the gshadow entry is left.
MutDeleteFromGroup(p) ==
    /\ Then(p, "group_del", "true")
    /\ group' = group \ GetGroup(obj[p])
    /\ UNCHANGED gshadow

DeleteFromGroup(p) ==
    /\ Then(p, "group_del", IF HasGshadow THEN "gshadow_del" ELSE "true")
    /\ group' = group \ GetGroup(obj[p])
    /\ UNCHANGED gshadow

\* an entry that is not there makes the update fail
DeleteFromGshadow(p) ==
    LET its == Named(gshadow, obj[p].name) IN
    /\ Then(p, "gshadow_del", IF its = {} THEN "false" ELSE "true")
    /\ gshadow' = gshadow \ its
    /\ UNCHANGED group

\* add_member goes on to gshadow when the group has an entry there, the others
\* when there is a gshadow file.
ModifyGroup(p) ==
    /\ \/ Then(p, "group_mod", IF HasGshadow THEN "gshadow_mod" ELSE "true")
       \/ Then(p, "member_add", IF Named(gshadow, obj[p].name) # {}
                                THEN "gshadow_mod" ELSE "true")
    /\ group' = (group \ GetGroup(obj[p])) \cup {EntryOf(obj[p])}
    /\ UNCHANGED gshadow

ModifyGshadow(p) ==
    LET its == Named(gshadow, obj[p].name) IN
    /\ Then(p, "gshadow_mod", IF its = {} THEN "false" ELSE "true")
    /\ gshadow' = IF its = {} THEN gshadow
                  ELSE (gshadow \ its) \cup {GshadowOf(obj[p])}
    /\ UNCHANGED group

GroupUpdateFails(p) ==
    /\ \E step \in GroupSteps : UpdateFails(p, step)
    /\ UNCHANGED <<group, gshadow>>

UpdateGroupFiles(p) ==
    /\ \/ AddToGroup(p) \/ AddToGshadow(p)
       \/ DeleteFromGroup(p) \/ DeleteFromGshadow(p)
       \/ ModifyGroup(p) \/ ModifyGshadow(p)
       \/ GroupUpdateFails(p)
    /\ UNCHANGED <<passwd, shadow, holder, call, ret, grp, obj>>

-----------------------------------------------------------------------------
(***************************************************************************)
(* gumd_daemon_group_delete_user_membership, for a user that is gone.      *)
(***************************************************************************)

\* Mutant of StripGroup: gshadow is skipped.
MutStripGroup(p, name) ==
    /\ Then(p, "strip_group", "home_del")
    /\ group' = {[e EXCEPT !.mem = @ \ {name}] : e \in group}

\* The group file.  When it cannot be opened the function is over; a failed
\* write or close is forgotten, because the result of gshadow replaces it.
StripGroup(p, name) ==
    LET next == IF HasGshadow THEN "strip_gshadow" ELSE "home_del" IN
    \/ /\ Then(p, "strip_group", next)
       /\ group' = {[e EXCEPT !.mem = @ \ {name}] : e \in group}
    \/ /\ "io" \in Faults
       /\ \/ Then(p, "strip_group", "false")
          \/ HasGshadow /\ Then(p, "strip_group", next)
       /\ UNCHANGED group

StripGshadow(p, name) ==
    \/ /\ Then(p, "strip_gshadow", "home_del")
       /\ gshadow' = {[e EXCEPT !.mem = @ \ {name}, !.adm = @ \ {name}] :
                         e \in gshadow}
    \/ /\ UpdateFails(p, "strip_gshadow")
       /\ UNCHANGED gshadow

StripMembership(p, name) ==
    /\ \/ StripGroup(p, name) /\ UNCHANGED gshadow
       \/ StripGshadow(p, name) /\ UNCHANGED group
    /\ UNCHANGED <<passwd, shadow, holder, call, ret, grp, obj>>

=============================================================================
