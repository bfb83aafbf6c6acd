------------------------------- MODULE GumCalls -------------------------------
(***************************************************************************)
(* The calls of the client library (src/src/lib): the pending operation    *)
(* that a GumUser or GumGroup object keeps (GumUserOp, GumGroupOp), the    *)
(* idle source that runs its callback, and what GDBus and the daemon do    *)
(* with a call.                                                            *)
(*                                                                         *)
(* A client is one thread with a main loop.  GDBus puts replies and        *)
(* signals in its queue in the order in which the daemon sent them; a      *)
(* blocking call does not look at that queue.  Every asynchronous call has *)
(* a callback here, and an object is not used by another call before the   *)
(* callback of the last one was run, which is how                          *)
(* src/test/lib/client-test.c uses the library.                            *)
(***************************************************************************)
EXTENDS Naturals, Sequences, FiniteSets

CONSTANTS
    UserObject,     \* the GumUser objects; a place is used once
    GroupObject,    \* the GumGroup objects
    MaxMade,        \* bound: how many of them are made
    Call,           \* bound: the asynchronous calls of these objects, numbers
    ServiceCall,    \* bound: those of the user service, numbers
    MaxInbox,       \* bound: a blocking request needs room in the inbox
    None            \* NULL

ClientObject == UserObject \cup GroupObject

\* What a call does to the object behind it: get also stands for get_by_name,
\* update for add_member and delete_member.
Makers == {"create", "get"}
Requests == {"add", "delete", "update"}

\* The pending operation: whose callback, the error, whether cb_id is set.
Op == [call : Call, error : BOOLEAN, cb_id : BOOLEAN]

\* proxy: dbus_user or dbus_group is set; id: the uid or gid can be read from
\* the object; offline: it works on the files without the daemon; service:
\* dbus_service is set.
ObjectFields ==
    [proxy : BOOLEAN, id : BOOLEAN, offline : BOOLEAN, service : BOOLEAN,
     op : Op \cup {None}]

\* answer: what GDBus has for the client; served: the daemon is done with it.
CallFields ==
    [object : ClientObject, kind : Makers \cup Requests,
     answer : {"none", "ok", "failed", "unsent", "cancelled"}, served : BOOLEAN]

Message ==
    [type : {"reply"}, call : Call \cup ServiceCall] \cup
    [type : {"changed", "unregistered"}, object : ClientObject]

ASSUME CallsAssumption ==
    /\ UserObject \cap GroupObject = {}
    /\ Call \cup ServiceCall \subseteq Nat
    /\ Call \cap ServiceCall = {}
    /\ None \notin ObjectFields \cup CallFields \cup Op

VARIABLES
    object,     \* the objects; None before they are made and once they are freed
    made,       \* the objects that were made
    sources,    \* how many idle sources an object has in the main loop
    remote,     \* the D-Bus object behind it: none, new (of no user or group
                \* yet), added; of an offline object, the user or group itself
    call,       \* the calls that were made
    inbox,      \* what GDBus has queued for the main loop
    told        \* what the callback of a call was told; again: more than once

callVars == <<object, made, sources, remote, call, inbox, told>>

CallsTypeOK ==
    /\ object \in [ClientObject -> ObjectFields \cup {None}]
    /\ made \in SUBSET ClientObject
    /\ sources \in [ClientObject -> Nat]
    /\ remote \in [ClientObject -> {"none", "new", "added"}]
    /\ call \in [Call -> CallFields \cup {None}]
    /\ inbox \in Seq(Message)
    /\ told \in [Call \cup ServiceCall -> {"no", "ok", "failed", "again"}]

CallsInit ==
    /\ object = [o \in ClientObject |-> None]
    /\ made = {}
    /\ sources = [o \in ClientObject |-> 0]
    /\ remote = [o \in ClientObject |-> "none"]
    /\ call = [c \in Call |-> None]
    /\ inbox = <<>>
    /\ told = [c \in Call \cup ServiceCall |-> "no"]

Live(o) == object[o] # None

Unmade(o) == o \notin made /\ Cardinality(made) < MaxMade

\* The callback of the last call has been run.
Quiet(o) == object[o].op # None => told[object[o].op.call] # "no"

Reply(c) == [type |-> "reply", call |-> c]
Changed(o) == [type |-> "changed", object |-> o]
Unregistered(o) == [type |-> "unregistered", object |-> o]

\* A signal reaches a client that has a proxy for its object.
Signal(o, m) == IF Live(o) /\ object[o].proxy THEN <<m>> ELSE <<>>

Tell(c, failed) ==
    told' = [told EXCEPT ![c] = IF @ # "no" THEN "again"
                                ELSE IF failed THEN "failed" ELSE "ok"]

-----------------------------------------------------------------------------
(***************************************************************************)
(* The operation of an object                                              *)
(***************************************************************************)

NewOp(c) == [call |-> c, error |-> FALSE, cb_id |-> FALSE]

NewObject(offline, service, op) ==
    [proxy |-> FALSE, id |-> FALSE, offline |-> offline, service |-> service, op |-> op]

\* Mutant of SetupIdle: the error is not kept for the callback.
MutSetupIdle(op, failed) == [op EXCEPT !.cb_id = TRUE]

\* _setup_idle_callback of operation op; g_idle_add gives a new id, which
\* replaces the one that was stored.
SetupIdle(op, failed) == [op EXCEPT !.error = @ \/ failed, !.cb_id = TRUE]

\* Mutant of RemoveSource: a source that has run is removed once more.
MutRemoveSource(o) ==
    sources' = [sources EXCEPT ![o] = IF object[o].op # None THEN @ - 1 ELSE @]

\* g_source_remove of the source that cb_id names.
RemoveSource(o) ==
    sources' = [sources EXCEPT ![o] =
                   IF object[o].op # None /\ object[o].op.cb_id THEN @ - 1 ELSE @]

\* g_cancellable_cancel: no reply to a call of o is taken any more.  What the
\* daemon still does for it is of no concern to the client.
Cancel(o) ==
    call' = [c \in Call |-> IF call[c] = None THEN None
                            ELSE IF call[c].object # o THEN call[c]
                            ELSE [call[c] EXCEPT !.answer = "cancelled", !.served = TRUE]]

\* A new object whose constructor call is sent if the service can be reached.
Made(o, c, kind, sent) ==
    /\ Unmade(o)
    /\ call[c] = None
    /\ made' = made \cup {o}
    /\ object' = [object EXCEPT ![o] = NewObject(FALSE, TRUE, NewOp(c))]
    /\ call' = [call EXCEPT ![c] = [object |-> o, kind |-> kind, served |-> ~sent,
                                    answer |-> IF sent THEN "none" ELSE "unsent"]]
    /\ UNCHANGED <<sources, remote, inbox, told>>

\* A request for an object that has a proxy; without one the functions return
\* FALSE and nothing changes.  What becomes of the source of the last
\* operation is left to the caller, whose _free_op it is.
Requested(o, c, kind) ==
    /\ Live(o) /\ Quiet(o)
    /\ object[o].proxy
    /\ call[c] = None
    /\ object' = [object EXCEPT ![o].op = NewOp(c)]
    /\ call' = [call EXCEPT ![c] = [object |-> o, kind |-> kind, served |-> FALSE,
                                    answer |-> "none"]]
    /\ UNCHANGED <<made, remote, inbox, told>>

-----------------------------------------------------------------------------
(***************************************************************************)
(* GDBus and the daemon                                                    *)
(***************************************************************************)

\* What a call can do to the D-Bus object in that state; it can also fail and
\* leave it alone.
Outcomes(kind, state) ==
    CASE kind = "create" -> {"new"}
      [] kind = "get" -> {"added"}
      [] kind = "add" /\ state = "new" -> {"added"}
      [] kind = "delete" /\ state = "added" -> {"new"}
      [] kind = "update" /\ state = "added" -> {"added"}
      [] OTHER -> {}

\* _handle_add_user, _handle_add_group: g_dbus_interface_skeleton_flush sends
\* the new id before the reply.
Announce(o, kind) == IF kind = "add" THEN Signal(o, Changed(o)) ELSE <<>>

\* Mutant of ServedMessages: the reply overtakes the change of the properties.
MutServedMessages(c, o, kind) == <<Reply(c)>> \o Announce(o, kind)

ServedMessages(c, o, kind) == Announce(o, kind) \o <<Reply(c)>>

\* The daemon carries the call out; the reply of a call that GDBus has given
\* up is thrown away.
Serve(c) ==
    /\ call[c] # None /\ ~call[c].served
    /\ LET o == call[c].object
           kind == call[c].kind
           inTime == call[c].answer = "none"
           Answer(a) == IF inTime THEN a ELSE call[c].answer
       IN \/ \E s \in Outcomes(kind, remote[o]) :
                /\ remote' = [remote EXCEPT ![o] = s]
                /\ call' = [call EXCEPT ![c].served = TRUE, ![c].answer = Answer("ok")]
                /\ inbox' = inbox \o (IF inTime THEN ServedMessages(c, o, kind)
                                      ELSE Announce(o, kind))
          \/ /\ call' = [call EXCEPT ![c].served = TRUE,
                                     ![c].answer = Answer("failed")]
             /\ inbox' = IF inTime THEN Append(inbox, Reply(c)) ELSE inbox
             /\ UNCHANGED remote
    /\ UNCHANGED <<object, made, sources, told>>

\* GDBus gives a call up after 25 s (the timeout of -1); the daemon may still
\* carry it out.
TimesOut(c) ==
    /\ call[c] # None /\ call[c].answer = "none"
    /\ call' = [call EXCEPT ![c].answer = "failed"]
    /\ inbox' = Append(inbox, Reply(c))
    /\ UNCHANGED <<object, made, sources, remote, told>>

\* A disposable adapter is deleted: its timeout, or after a delete.
AdapterGoes(o) ==
    /\ Live(o) /\ ~object[o].offline
    /\ remote[o] # "none"
    /\ remote' = [remote EXCEPT ![o] = "none"]
    /\ inbox' = inbox \o Signal(o, Unregistered(o))
    /\ UNCHANGED <<object, made, sources, call, told>>

\* The cached properties of the proxy take the change; the handler of
\* unregistered gives the proxy up.
DeliverSignal(m) ==
    LET o == m.object IN
    /\ object' = IF ~Live(o) \/ ~object[o].proxy THEN object
                 ELSE IF m.type = "changed" THEN [object EXCEPT ![o].id = TRUE]
                 ELSE [object EXCEPT ![o].proxy = FALSE, ![o].id = FALSE]
    /\ UNCHANGED <<made, sources, remote, call, told>>

\* The reply to a call that makes an object, whose proxy is made then, with the
\* properties that the D-Bus object has by now; that this fails is not noticed
\* (the error is passed by value).  The reply of a cancelled call is ignored
\* (GUM_OPERATION_IS_NOT_CANCELLED).
OnMade(o, c) ==
    /\ IF call[c].answer = "cancelled" THEN UNCHANGED <<object, sources>>
       ELSE /\ \E proxy \in IF call[c].answer = "ok" THEN BOOLEAN ELSE {FALSE} :
                  object' = [object EXCEPT ![o] =
                     [object[o] EXCEPT !.proxy = proxy,
                                       !.id = proxy /\ remote[o] = "added",
                                       !.op = SetupIdle(@, call[c].answer = "failed")]]
            /\ sources' = [sources EXCEPT ![o] = @ + 1]
    /\ UNCHANGED <<made, remote, call, told>>

\* Mutant of OnRequested: a reply with an error schedules no callback.
MutOnRequested(o, c) ==
    /\ IF call[c].answer # "ok" THEN UNCHANGED <<object, sources>>
       ELSE /\ object' = [object EXCEPT ![o].op = SetupIdle(@, FALSE)]
            /\ sources' = [sources EXCEPT ![o] = @ + 1]
    /\ UNCHANGED <<made, remote, call, told>>

\* The reply to a request.
OnRequested(o, c) ==
    /\ IF call[c].answer = "cancelled" THEN UNCHANGED <<object, sources>>
       ELSE /\ object' = [object EXCEPT ![o].op = SetupIdle(@, call[c].answer = "failed")]
            /\ sources' = [sources EXCEPT ![o] = @ + 1]
    /\ UNCHANGED <<made, remote, call, told>>

-----------------------------------------------------------------------------
(***************************************************************************)
(* Blocking calls                                                          *)
(***************************************************************************)

\* A blocking request that the daemon, or for an offline object the library
\* itself, carries out; one that fails changes nothing.  The client may be told
\* of a failure all the same (a timeout), and _sync_properties, which reads the
\* properties afterwards in those that call it (syncs), may fail unnoticed.
SyncRequest(o, kind, syncs) ==
    /\ Live(o) /\ Quiet(o)
    /\ object[o].offline \/ object[o].proxy
    /\ Len(inbox) < MaxInbox
    /\ \E s \in Outcomes(kind, remote[o]), sync \in BOOLEAN :
          /\ remote' = [remote EXCEPT ![o] = s]
          /\ object' = [object EXCEPT ![o].id =
                           @ \/ object[o].offline \/ (sync /\ syncs)]
    /\ inbox' = IF object[o].offline THEN inbox ELSE inbox \o Announce(o, kind)
    /\ UNCHANGED <<made, sources, call, told>>

\* An object that was made by a blocking call; without a proxy of the service
\* it is of no use, and if the call fails it is freed before the function
\* returns.
SyncMade(o, kind, offline, service, reached) ==
    /\ Unmade(o)
    /\ made' = made \cup {o}
    /\ \/ \E s \in Outcomes(kind, "none"), proxy \in BOOLEAN :
             /\ offline \/ reached
             /\ remote' = [remote EXCEPT ![o] = s]
             /\ object' = [object EXCEPT ![o] =
                   [NewObject(offline, service, None) EXCEPT
                       !.proxy = ~offline /\ proxy,
                       !.id = s = "added" /\ (offline \/ proxy)]]
       \/ /\ ~offline /\ ~reached
          /\ object' = [object EXCEPT ![o] = NewObject(FALSE, service, None)]
          /\ UNCHANGED remote
       \/ /\ reached \/ (offline /\ kind # "create")
          /\ UNCHANGED <<object, remote>>
    /\ UNCHANGED <<sources, call, inbox, told>>
=============================================================================
