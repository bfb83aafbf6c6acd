------------------------------ MODULE Accounts ------------------------------
(***************************************************************************)
(* What gumd promises about the accounts of a system, whatever processes   *)
(* and failures do behind it: users and groups with a name and an id of    *)
(* their own, and one primary group per user that exists as long as the    *)
(* user.  Each step adds or removes one user or one group.                 *)
(***************************************************************************)
VARIABLES users,   \* records with a name, a uid and the gid of the primary group
          groups   \* records with a name and a gid

AddGroup(g) ==
    /\ \A h \in groups : h.name # g.name /\ h.gid # g.gid
    /\ groups' = groups \cup {g}
    /\ UNCHANGED users

RemoveGroup(g) ==
    /\ g \in groups
    /\ \A u \in users : u.gid # g.gid
    /\ groups' = groups \ {g}
    /\ UNCHANGED users

AddUser(u) ==
    /\ \A v \in users : v.name # u.name /\ v.uid # u.uid
    /\ \E g \in groups : g.gid = u.gid
    /\ users' = users \cup {u}
    /\ UNCHANGED groups

RemoveUser(u) ==
    /\ u \in users
    /\ users' = users \ {u}
    /\ UNCHANGED groups

Next ==
    \/ \E g \in groups' \ groups : AddGroup(g)
    \/ \E g \in groups : RemoveGroup(g)
    \/ \E u \in users' \ users : AddUser(u)
    \/ \E u \in users : RemoveUser(u)

Spec == users = {} /\ [][Next]_<<users, groups>>

=============================================================================
