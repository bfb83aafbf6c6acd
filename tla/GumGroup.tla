------------------------------- MODULE GumGroup -------------------------------
(***************************************************************************)
(* The group object of the client library (gum-group.c).  Its service is   *)
(* the proxy itself, which the objects of a thread share while one of them *)
(* has it (gum-group-service.c).                                           *)
(***************************************************************************)
EXTENDS GumCalls

\* gum_group_service_get_instance: the proxy that another object has, or a new
\* one if the service can be reached.
GroupServiceReached(g, up) ==
    up \/ \E h \in GroupObject \ {g} : Live(h) /\ object[h].service

\* An object without a proxy of the service is not returned; it is not freed
\* either, but nothing refers to it.
GroupUnmade(g) ==
    /\ Unmade(g)
    /\ made' = made \cup {g}
    /\ UNCHANGED <<object, sources, remote, call, inbox, told>>

GroupMakes(g, c, kind) ==
    \E up \in BOOLEAN : IF GroupServiceReached(g, up) THEN Made(g, c, kind, TRUE)
                        ELSE GroupUnmade(g)

gum_group_create(g, c) == GroupMakes(g, c, "create")
gum_group_get(g, c) == GroupMakes(g, c, "get")
gum_group_get_by_name(g, c) == GroupMakes(g, c, "get")

GroupMadeSync(g, kind, offline) ==
    \E up \in BOOLEAN :
        LET reached == ~offline /\ GroupServiceReached(g, up)
        IN SyncMade(g, kind, offline, reached, reached)

\* Here too an object that has no service is not returned.
gum_group_create_sync(g, offline) ==
    \E up \in BOOLEAN :
        IF offline \/ GroupServiceReached(g, up)
        THEN SyncMade(g, "create", offline, ~offline, ~offline)
        ELSE GroupUnmade(g)

gum_group_get_sync(g, offline) == GroupMadeSync(g, "get", offline)
gum_group_get_by_name_sync(g, offline) == GroupMadeSync(g, "get", offline)

\* _create_op: this _free_op leaves the source of the last operation alone.
GroupRequested(g, c, kind) == Requested(g, c, kind) /\ UNCHANGED sources

gum_group_add(g, c) == GroupRequested(g, c, "add")
gum_group_delete(g, c) == GroupRequested(g, c, "delete")
gum_group_update(g, c) == GroupRequested(g, c, "update")
gum_group_add_member(g, c) == GroupRequested(g, c, "update")
gum_group_delete_member(g, c) == GroupRequested(g, c, "update")

gum_group_add_sync(g) == SyncRequest(g, "add", TRUE)
gum_group_delete_sync(g) == SyncRequest(g, "delete", FALSE)
gum_group_update_sync(g) == SyncRequest(g, "update", TRUE)
gum_group_add_member_sync(g) == SyncRequest(g, "update", FALSE)
gum_group_delete_member_sync(g) == SyncRequest(g, "update", FALSE)

\* _trigger_callback
GroupTriggerCallback(g) ==
    /\ Live(g) /\ sources[g] > 0
    /\ sources' = [sources EXCEPT ![g] = @ - 1]
    /\ Tell(object[g].op.call, object[g].op.error)
    /\ object' = [object EXCEPT ![g].op.cb_id = FALSE]
    /\ UNCHANGED <<made, remote, call, inbox>>

\* _dispose: the source of the callback is removed, the call cancelled, and
\* the handler of unregistered disconnected.
GroupDispose(g) ==
    /\ Live(g)
    /\ object' = [object EXCEPT ![g] = None]
    /\ RemoveSource(g)
    /\ Cancel(g)
    /\ UNCHANGED <<made, remote, inbox, told>>

\* _on_new_group_cb, _on_get_group_cb and _on_get_group_by_name_cb
OnMakeGroupCb(c) ==
    /\ call[c].kind \in Makers
    /\ OnMade(call[c].object, c)

\* _on_group_add_cb, _on_group_delete_cb, _on_group_update_cb,
\* _on_group_add_member_cb and _on_group_delete_member_cb
OnGroupRequestCb(c) ==
    /\ call[c].kind \in Requests
    /\ OnRequested(call[c].object, c)
=============================================================================
