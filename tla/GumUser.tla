-------------------------------- MODULE GumUser --------------------------------
(***************************************************************************)
(* The user object of the client library (gum-user.c).  An online object   *)
(* is made with the user service, whose proxy it sends its constructor     *)
(* call with.                                                              *)
(***************************************************************************)
EXTENDS GumUserService

\* Without a proxy of the service the call is not sent, and never answered.
UserMakes(u, c, kind) ==
    /\ \E up \in BOOLEAN : ServiceUp(up) /\ Made(u, c, kind, ServiceReached(up))
    /\ UNCHANGED app

gum_user_create(u, c) == UserMakes(u, c, "create")
gum_user_get(u, c) == UserMakes(u, c, "get")
gum_user_get_by_name(u, c) == UserMakes(u, c, "get")

UserMadeSync(u, kind, offline) ==
    /\ service_sources["trigger"] < MaxSources
    /\ IF offline THEN SyncMade(u, kind, TRUE, FALSE, FALSE) /\ UNCHANGED serviceVars
       ELSE \E up \in BOOLEAN :
              /\ SyncMade(u, kind, FALSE, TRUE, ServiceReached(up))
              /\ IF object'[u] = None THEN ServiceUpAndDown(up) /\ UNCHANGED service_call
                 ELSE ServiceUp(up)
              /\ UNCHANGED app

gum_user_create_sync(u, offline) == UserMadeSync(u, "create", offline)
gum_user_get_sync(u, offline) == UserMadeSync(u, "get", offline)
gum_user_get_by_name_sync(u, offline) == UserMadeSync(u, "get", offline)

\* _create_op frees the last operation and removes its source.
UserRequested(u, c, kind) ==
    /\ Requested(u, c, kind)
    /\ RemoveSource(u)
    /\ UNCHANGED serviceVars

gum_user_add(u, c) == UserRequested(u, c, "add")
gum_user_delete(u, c) == UserRequested(u, c, "delete")
gum_user_update(u, c) == UserRequested(u, c, "update")

gum_user_add_sync(u) == SyncRequest(u, "add", TRUE) /\ UNCHANGED serviceVars
gum_user_delete_sync(u) == SyncRequest(u, "delete", FALSE) /\ UNCHANGED serviceVars
gum_user_update_sync(u) == SyncRequest(u, "update", TRUE) /\ UNCHANGED serviceVars

\* _trigger_callback
UserTriggerCallback(u) ==
    /\ Live(u) /\ sources[u] > 0
    /\ sources' = [sources EXCEPT ![u] = @ - 1]
    /\ Tell(object[u].op.call, object[u].op.error)
    /\ object' = [object EXCEPT ![u].op.cb_id = FALSE]
    /\ UNCHANGED <<made, remote, call, inbox, serviceVars>>

\* Mutant of UserDispose: the source of the callback stays in the main loop.
MutUserDispose(u) ==
    /\ Live(u)
    /\ object' = [object EXCEPT ![u] = None]
    /\ Cancel(u)
    /\ UNCHANGED sources
    /\ IF object[u].service THEN ServiceUnref(service)
       ELSE UNCHANGED <<service, service_sources, service_call>>
    /\ UNCHANGED <<made, remote, inbox, told, app>>

\* _dispose: the operation is freed, its call cancelled, the handler of
\* unregistered disconnected, and the reference to the service dropped.
UserDispose(u) ==
    /\ Live(u)
    /\ object' = [object EXCEPT ![u] = None]
    /\ RemoveSource(u)
    /\ Cancel(u)
    /\ IF object[u].service THEN ServiceUnref(service)
       ELSE UNCHANGED <<service, service_sources, service_call>>
    /\ UNCHANGED <<made, remote, inbox, told, app>>

\* _on_new_user_cb, _on_get_user_cb and _on_get_user_by_name_cb
OnMakeUserCb(c) ==
    /\ call[c].kind \in Makers
    /\ OnMade(call[c].object, c)

\* _on_user_add_cb, _on_user_delete_cb and _on_user_update_cb
OnUserRequestCb(c) ==
    /\ call[c].kind \in Requests
    /\ OnRequested(call[c].object, c)
=============================================================================
