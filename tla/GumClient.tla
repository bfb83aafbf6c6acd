------------------------------- MODULE GumClient -------------------------------
(***************************************************************************)
(* A program that uses the client library: it makes user and group objects *)
(* and the user service, makes calls on them, drops them, and runs its     *)
(* main loop, which delivers what GDBus has queued and runs the callbacks. *)
(***************************************************************************)
EXTENDS GumUser, GumGroup

CONSTANTS
    MaxCalls,   \* bound: the asynchronous calls in all
    Mixed       \* bound: may a program with groups use the service of users?

vars == <<callVars, serviceVars>>

ClientTypeOK == CallsTypeOK /\ ServiceTypeOK

Init == CallsInit /\ ServiceInit

Used ==
    {c \in Call : call[c] # None} \cup {c \in ServiceCall : service_call[c] # "unmade"}

\* The next call of a set; which number it has is of no matter.
NextOf(calls) ==
    {c \in calls : /\ c \notin Used
                   /\ Cardinality(Used) < MaxCalls
                   /\ \A d \in calls : d < c => d \in Used}

UserCalls(u) ==
    \/ \E c \in NextOf(Call) :
          \/ gum_user_create(u, c)
          \/ gum_user_get(u, c)
          \/ gum_user_get_by_name(u, c)
          \/ gum_user_add(u, c)
          \/ gum_user_delete(u, c)
          \/ gum_user_update(u, c)
    \/ \E offline \in BOOLEAN :
          \/ gum_user_create_sync(u, offline)
          \/ gum_user_get_sync(u, offline)
          \/ gum_user_get_by_name_sync(u, offline)
    \/ gum_user_add_sync(u)
    \/ gum_user_delete_sync(u)
    \/ gum_user_update_sync(u)
    \/ UserDispose(u)

GroupCalls(g) ==
    /\ Mixed \/ service = None
    /\ \/ \E c \in NextOf(Call) :
             \/ gum_group_create(g, c)
             \/ gum_group_get(g, c)
             \/ gum_group_get_by_name(g, c)
             \/ gum_group_add(g, c)
             \/ gum_group_delete(g, c)
             \/ gum_group_update(g, c)
             \/ gum_group_add_member(g, c)
             \/ gum_group_delete_member(g, c)
       \/ \E offline \in BOOLEAN :
             \/ gum_group_create_sync(g, offline)
             \/ gum_group_get_sync(g, offline)
             \/ gum_group_get_by_name_sync(g, offline)
       \/ gum_group_add_sync(g)
       \/ gum_group_delete_sync(g)
       \/ gum_group_update_sync(g)
       \/ gum_group_add_member_sync(g)
       \/ gum_group_delete_member_sync(g)
       \/ GroupDispose(g)
    /\ UNCHANGED serviceVars

ServiceCalls ==
    /\ Mixed \/ made \cap GroupObject = {}
    /\ \/ \E c \in NextOf(ServiceCall) :
             gum_user_service_create(c) \/ gum_user_service_get_user_list(c)
       \/ \E offline \in BOOLEAN : gum_user_service_create_sync(offline)
       \/ gum_user_service_get_user_list_sync
       \/ \E what \in {"service", "users"} : AppUnref(what)

\* The main loop takes the next message.
Deliver ==
    /\ inbox # <<>>
    /\ inbox' = Tail(inbox)
    /\ LET m == Head(inbox) IN
       \/ m.type # "reply" /\ DeliverSignal(m) /\ UNCHANGED serviceVars
       \/ m.type = "reply" /\ m.call \in ServiceCall /\ OnGetUserListCb(m.call)
       \/ /\ m.type = "reply" /\ m.call \in Call
          /\ IF call[m.call].object \in UserObject
             THEN OnMakeUserCb(m.call) \/ OnUserRequestCb(m.call)
             ELSE OnMakeGroupCb(m.call) \/ OnGroupRequestCb(m.call)
          /\ UNCHANGED serviceVars

ObjectCallback(o) ==
    \/ o \in UserObject /\ UserTriggerCallback(o)
    \/ o \in GroupObject /\ GroupTriggerCallback(o) /\ UNCHANGED serviceVars

Answered(c) == (Serve(c) \/ TimesOut(c)) /\ UNCHANGED serviceVars

ServiceCallbacks ==
    ServiceDbusProxyCallback \/ ServiceTriggerCallback \/ TriggerUserListCallback
        \/ FreedSourceRuns

Next ==
    \/ \E u \in UserObject : UserCalls(u)
    \/ \E g \in GroupObject : GroupCalls(g)
    \/ ServiceCalls
    \/ Deliver
    \/ \E o \in ClientObject : ObjectCallback(o)
    \/ ServiceCallbacks
    \/ \E c \in Call : Answered(c)
    \/ \E o \in ClientObject : AdapterGoes(o) /\ UNCHANGED serviceVars
    \/ \E c \in ServiceCall : ServeList(c)

\* The program keeps running its main loop, which comes to every source that
\* is ready; GDBus ends every call, with a timeout if need be.
Fairness ==
    /\ WF_vars(Deliver)
    /\ \A o \in ClientObject : WF_vars(ObjectCallback(o))
    /\ WF_vars(ServiceDbusProxyCallback)
    /\ WF_vars(ServiceTriggerCallback)
    /\ WF_vars(TriggerUserListCallback)
    /\ \A c \in Call : WF_vars(Answered(c))
    /\ \A c \in ServiceCall : WF_vars(ServeList(c))

Spec == Init /\ [][Next]_vars

FairSpec == Spec /\ Fairness

-----------------------------------------------------------------------------
(***************************************************************************)
(* Properties                                                              *)
(***************************************************************************)

Told == [ok |-> "told_ok", failed |-> "told_failed", again |-> "told_again"]

\* What AsyncCalls says of a call.
CallStatus(c) ==
    IF told[c] # "no" THEN Told[told[c]]
    ELSE IF call[c] = None THEN "new"
    ELSE IF call[c].answer \in {"cancelled", "unsent"} THEN "dropped"
    ELSE IF call[c].answer = "none" THEN "pending"
    ELSE call[c].answer

Calls == INSTANCE AsyncCalls WITH status <- [c \in Call |-> CallStatus(c)]

\* The callback of a call on an object is told the answer of that very call,
\* once, and never after the object was dropped (gum-user.c, gum-group.c).
CallsAreTold == Calls!Spec

\* An object has a source in the main loop exactly when its operation knows
\* it, so that dropping the object leaves none behind that would run on freed
\* memory (_free_op, _dispose).
SourcesAreKnown ==
    \A o \in ClientObject :
        sources[o] = IF Live(o) /\ object[o].op # None /\ object[o].op.cb_id THEN 1 ELSE 0

\* When the callback of an add is told that it was done, the new uid or gid can
\* be read from the object, unless the daemon has dropped it: the daemon
\* flushes the change before it replies, and the callback waits for the idle
\* source (_handle_add_user, _setup_idle_callback).
AddedIsKnown ==
    \A c \in Call :
        told[c] = "ok" /\ call[c].kind = "add" =>
            LET o == call[c].object
            IN Live(o) /\ object[o].proxy /\ object[o].op # None /\ object[o].op.call = c
                   => object[o].id

OnlineUsers == {u \in UserObject : Live(u) /\ object[u].service}

\* The singleton lives as long as something refers to it: the application, the
\* online user objects, the lists (_constructor, _dispose).  It may live longer:
\* a list that arrives after its callback was called by _trigger_callback is
\* forgotten with the next one, and its users keep the service.
ServiceIsReferredTo ==
    LET refs == Cardinality(OnlineUsers) + Cardinality(app)
    IN IF service = None THEN refs = 0
       ELSE service.refs >= refs + OpListRefs(service) /\ service.refs > 0

Sent(c) == call[c] # None /\ call[c].answer # "unsent"
GivenUp(c) == call[c] # None /\ call[c].answer = "cancelled"

\* Every call that was sent is told to its callback, unless the object or the
\* service is dropped before.
CallsAreAnswered ==
    /\ \A c \in Call : Sent(c) ~> (told[c] # "no" \/ GivenUp(c))
    /\ \A c \in ServiceCall :
          service_call[c] \in {"create", "none"} ~>
              (told[c] # "no" \/ service_call[c] = "cancelled")
=============================================================================
