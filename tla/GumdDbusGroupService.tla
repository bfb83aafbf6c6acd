------------------------- MODULE GumdDbusGroupService -------------------------
(***************************************************************************)
(* The group service on the message bus and its group adapters             *)
(* (src/src/daemon/dbus/gumd-dbus-group-service-adapter.c and              *)
(* gumd-dbus-group-adapter.c), and the groups of the daemon object         *)
(* (gumd-daemon.c).  Line for line they are the user service with groups   *)
(* in the place of users, so what they share is an instance of             *)
(* GumdDbusUserService; an adapter has two more requests, there is no list *)
(* of groups, and adding and deleting differ.                              *)
(***************************************************************************)
EXTENDS FiniteSets, Naturals

CONSTANTS Gid, Name, Object, None, Failures, Peer, Adapter, DaemonTimeout, GroupTimeout

VARIABLES
    database,       \* the name of the group with a gid: /etc/group
    object,         \* the GumdDaemonGroup objects; uid stands for their gid
    groups,         \* the hash table from gid to object
    known,          \* what a listener believes; group-added is never emitted
    bus, adapter,
    peer_groups,    \* the adapters in the list of the service
    caller_watchers,
    group_service   \* the disposable of the service

Same == INSTANCE GumdDbusUserService
           WITH Uid <- Gid, UserTimeout <- GroupTimeout, users <- groups,
                peer_users <- peer_groups, user_service <- group_service

groupServiceVars == <<database, object, groups, known, bus, adapter, peer_groups,
                      caller_watchers, group_service>>

GroupServiceInit == Same!ServiceInit

GroupObject(a) == adapter[a].user

-----------------------------------------------------------------------------
(***************************************************************************)
(* The daemon object                                                       *)
(***************************************************************************)

\* gumd_daemon_add_group: as for a user, but nobody is told.
AddGroup(o, g) ==
    /\ Same!Addable(o, g)
    /\ object' = [object EXCEPT ![o].uid = g]
    /\ database' = [database EXCEPT ![g] = object[o].name]
    /\ groups' = IF groups[g] = None THEN [groups EXCEPT ![g] = o] ELSE groups
    /\ UNCHANGED known

\* gumd_daemon_delete_group: the group that is a primary group is kept, which
\* counts as a success and is announced like one.
DeleteGroup(o) ==
    /\ Same!Exists(o)
    /\ \/ database' = [database EXCEPT ![object[o].uid] = None]
       \/ UNCHANGED database
    /\ known' = known \ {object[o].uid}
    /\ UNCHANGED <<object, groups>>

-----------------------------------------------------------------------------
(***************************************************************************)
(* Requests to the service                                                 *)
(***************************************************************************)

CreateNewGroup(p) == Same!CreateNewUser(p)

GetGroup(p, g) == Same!GetUser(p, g)

GetGroupByName(p, n) == Same!GetUserByName(p, n)

AnswerGroup(p) == Same!AnswerUser(p)

-----------------------------------------------------------------------------
(***************************************************************************)
(* Requests to an adapter                                                  *)
(***************************************************************************)

\* _handle_add_group.
HandleAddGroup(p, a) ==
    /\ Same!AsksAdapter(p, a)
    /\ \E g \in Gid : AddGroup(GroupObject(a), g)
                         \/ Same!AddUserFails(GroupObject(a), g)
    /\ Same!SetDisp(a, Same!Served(adapter[a].disp))
    /\ UNCHANGED <<bus, peer_groups, caller_watchers, group_service>>

\* _handle_delete_group: the adapter deletes itself later, also when the group
\* was kept.
HandleDeleteGroup(p, a) ==
    /\ Same!AsksAdapter(p, a)
    /\ \/ /\ DeleteGroup(GroupObject(a))
          /\ Same!SetDisp(a, Same!DeleteLater(Same!Served(adapter[a].disp)))
       \/ /\ Same!DeleteUserFails(GroupObject(a))
          /\ Same!SetDisp(a, Same!Served(adapter[a].disp))
    /\ UNCHANGED <<bus, peer_groups, caller_watchers, group_service>>

\* _handle_update_group.
HandleUpdateGroup(p, a) == Same!HandleUpdateUser(p, a)

\* _handle_add_group_member and _handle_delete_group_member, which concern
\* neither the object nor the cache.
HandleGroupMember(p, a) == Same!HandleUpdateUser(p, a)

\* A peer writes the property "groupname".
WriteGroupname(p, a, n) == Same!WriteUsername(p, a, n)

-----------------------------------------------------------------------------
GroupRequest(p) ==
    \/ CreateNewGroup(p)
    \/ \E g \in Gid : GetGroup(p, g)
    \/ \E n \in Name : GetGroupByName(p, n)
    \/ AnswerGroup(p)
    \/ \E a \in Adapter :
          \/ HandleAddGroup(p, a) \/ HandleDeleteGroup(p, a)
          \/ HandleUpdateGroup(p, a) \/ HandleGroupMember(p, a)
          \/ \E n \in Name : WriteGroupname(p, a, n)

\* An adapter whose timer or idle source is due, a peer that is lost.
GroupAdapterDue(a) == Same!AdapterDue(a)

GroupPeerLost(p) == Same!PeerLost(p)

\* _dispose, by its timer or its server.
GroupServiceEnds == Same!UserServiceEnds

GroupServiceNext ==
    \/ \E p \in Peer : GroupRequest(p) \/ GroupPeerLost(p) \/ Same!PeerVanishes(p)
    \/ \E a \in Adapter : GroupAdapterDue(a)
    \/ group_service # None /\ GroupServiceEnds /\ UNCHANGED bus

GroupServiceSpec == GroupServiceInit /\ [][GroupServiceNext]_groupServiceVars
=============================================================================
