---------------------------- MODULE GumUserService ----------------------------
(***************************************************************************)
(* The user service of the client library (gum-user-service.c): a          *)
(* singleton that the application and every online GumUser object refer    *)
(* to.  It has one operation for all its callers, and every object that is *)
(* made runs the callback of its proxy (_service_dbus_proxy_callback),     *)
(* which schedules the callback of whatever operation it finds.            *)
(***************************************************************************)
EXTENDS GumCalls

CONSTANT MaxSources     \* bound: the idle sources for _trigger_callback

\* cb: the source that cb_id names; users: the list for the callback.
ServiceOp ==
    [call : ServiceCall, error : BOOLEAN, cb : {"none", "trigger", "list"},
     users : BOOLEAN]

\* proxy: dbus_service is set; proxy_cb: dbus_proxy_cb_id is.
ServiceFields ==
    [offline : BOOLEAN, proxy : BOOLEAN, proxy_cb : BOOLEAN, refs : Nat,
     op : ServiceOp \cup {None}]

ASSUME UserServiceAssumption == None \notin ServiceFields \cup ServiceOp

VARIABLES
    service,            \* the singleton, or None
    service_sources,    \* its idle sources in the main loop, by callback;
                        \* freed: those of a service that is no more
    service_call,       \* the calls of the service
    app                 \* what the application refers to: the service, a list

serviceVars == <<service, service_sources, service_call, app>>

ServiceTypeOK ==
    /\ service \in ServiceFields \cup {None}
    /\ service_sources \in [{"proxy", "trigger", "list", "freed"} -> Nat]
    /\ service_call \in [ServiceCall -> {"unmade", "create", "none", "ok", "failed",
                                         "cancelled"}]
    /\ app \in SUBSET {"service", "users"}

ServiceInit ==
    /\ service = None
    /\ service_sources = [k \in {"proxy", "trigger", "list", "freed"} |-> 0]
    /\ service_call = [c \in ServiceCall |-> "unmade"]
    /\ app = {}

ServiceQuiet ==
    (service # None /\ service.op # None) => told[service.op.call] # "no"

-----------------------------------------------------------------------------
(***************************************************************************)
(* References and the operation                                            *)
(***************************************************************************)

\* Mutant of Constructor: the singleton is handed out without a reference.
MutConstructor(offline) ==
    IF service = None
    THEN [offline |-> offline, proxy |-> FALSE, proxy_cb |-> FALSE, refs |-> 1, op |-> None]
    ELSE service

\* _constructor: offline is set by who makes the service, and only then.
Constructor(offline) ==
    IF service = None
    THEN [offline |-> offline, proxy |-> FALSE, proxy_cb |-> FALSE, refs |-> 1, op |-> None]
    ELSE [service EXCEPT !.refs = @ + 1]

\* The sources of s that its ids name.
NamedSource(s, kind) ==
    IF IF kind = "proxy" THEN s.proxy_cb ELSE s.op # None /\ s.op.cb = kind THEN 1 ELSE 0

\* _dispose removes the sources that the ids name, and cancels the calls.
ServiceDispose(s) ==
    LET left(k) == service_sources[k] - NamedSource(s, k) IN
    /\ service' = None
    /\ service_sources' =
          [k \in DOMAIN service_sources |->
              IF k = "freed"
              THEN service_sources[k] + left("proxy") + left("trigger") + left("list")
              ELSE 0]
    /\ service_call' = [c \in ServiceCall |-> IF service_call[c] = "unmade" THEN "unmade"
                                              ELSE "cancelled"]

ServiceUnref(s) ==
    IF s.refs = 1 THEN ServiceDispose(s)
    ELSE service' = [s EXCEPT !.refs = @ - 1] /\ UNCHANGED <<service_sources, service_call>>

\* _setup_idle_callback, for the callback that is called kind.
SetupServiceIdle(s, failed, kind) ==
    IF s.op = None THEN s
    ELSE [s EXCEPT !.op.error = @ \/ failed, !.op.cb = kind]

\* _service_dbus_proxy_callback: the id of the idle source is forgotten, also
\* when this is not that source.
ServiceDbusProxy(s, up) ==
    LET ready == s.proxy \/ up
    IN [SetupServiceIdle(s, ~ready, "trigger") EXCEPT !.proxy = ready, !.proxy_cb = FALSE]

\* The sources once it has run for s.
ServiceDbusProxySources(s) ==
    [service_sources EXCEPT !["trigger"] = IF s.op = None THEN @ ELSE @ + 1]

\* Every online GumUser object makes the service, or refers to it once more.
ServiceUp(up) ==
    LET s == Constructor(FALSE) IN
    /\ service' = ServiceDbusProxy(s, up)
    /\ service_sources' = ServiceDbusProxySources(s)
    /\ UNCHANGED service_call

\* An object that is made and freed at once.
ServiceUpAndDown(up) ==
    IF service = None THEN UNCHANGED <<service, service_sources>>
    ELSE /\ service' = ServiceDbusProxy(service, up)
         /\ service_sources' = ServiceDbusProxySources(service)

ServiceReached(up) == (service # None /\ service.proxy) \/ up

\* _create_op and the _free_op in it.
ServiceCreateOp(s, c) ==
    [s EXCEPT !.op = [call |-> c, error |-> FALSE, cb |-> "none", users |-> FALSE]]

FreeServiceOpSources(s) ==
    [k \in DOMAIN service_sources |->
        IF k \in {"trigger", "list"} THEN service_sources[k] - NamedSource(s, k)
        ELSE service_sources[k]]

\* A list that the operation still has goes with it.
OpListRefs(s) == IF s.op # None /\ s.op.users THEN 1 ELSE 0

-----------------------------------------------------------------------------
(***************************************************************************)
(* The application                                                         *)
(***************************************************************************)

gum_user_service_create(c) ==
    /\ "service" \notin app
    /\ ServiceQuiet
    /\ service_call[c] = "unmade"
    /\ LET s == Constructor(FALSE) IN
       /\ service' = [ServiceCreateOp(s, c) EXCEPT !.proxy_cb = TRUE,
                                                   !.refs = @ - OpListRefs(s)]
       /\ service_sources' = [FreeServiceOpSources(s) EXCEPT
                                 !["proxy"] = IF s.proxy_cb THEN @ ELSE @ + 1]
    /\ service_call' = [service_call EXCEPT ![c] = "create"]
    /\ app' = app \cup {"service"}
    /\ UNCHANGED callVars

gum_user_service_create_sync(offline) ==
    /\ "service" \notin app
    /\ service_sources["trigger"] < MaxSources
    /\ IF offline
       THEN service' = Constructor(TRUE) /\ UNCHANGED <<service_sources, service_call>>
       ELSE \E up \in BOOLEAN : ServiceUp(up)
    /\ app' = app \cup {"service"}
    /\ UNCHANGED callVars

gum_user_service_get_user_list(c) ==
    /\ "service" \in app /\ "users" \notin app
    /\ service.proxy
    /\ ServiceQuiet
    /\ service_call[c] = "unmade"
    /\ service' = [ServiceCreateOp(service, c) EXCEPT !.refs = @ - OpListRefs(service)]
    /\ service_sources' = FreeServiceOpSources(service)
    /\ service_call' = [service_call EXCEPT ![c] = "none"]
    /\ UNCHANGED <<callVars, app>>

\* The users of the list, made by gum_user_get_sync, run the callback of the
\* proxy.  Bound: a list has one user.
gum_user_service_get_user_list_sync ==
    /\ "service" \in app /\ "users" \notin app
    /\ service_sources["trigger"] < MaxSources
    /\ IF service.offline THEN UNCHANGED <<service, service_sources, service_call>>
       ELSE service.proxy /\ ServiceUp(TRUE)
    /\ app' = IF service.offline THEN app ELSE app \cup {"users"}
    /\ UNCHANGED callVars

\* The application drops a reference: to the service, or to the users of a list.
AppUnref(what) ==
    /\ what \in app
    /\ app' = app \ {what}
    /\ ServiceUnref(service)
    /\ UNCHANGED callVars

-----------------------------------------------------------------------------
(***************************************************************************)
(* The main loop                                                           *)
(***************************************************************************)

ServiceDbusProxyCallback ==
    /\ service # None /\ service_sources["proxy"] > 0
    /\ \E up \in BOOLEAN : service' = ServiceDbusProxy(service, up)
    /\ service_sources' = [ServiceDbusProxySources(service) EXCEPT !["proxy"] = @ - 1]
    /\ UNCHANGED <<callVars, service_call, app>>

\* For a list it calls the callback as if it were a GumUserServiceCb.
ServiceTriggerCallback ==
    /\ service # None /\ service_sources["trigger"] > 0
    /\ service_sources' = [service_sources EXCEPT !["trigger"] = @ - 1]
    /\ Tell(service.op.call, service.op.error)
    /\ service' = [service EXCEPT !.op.cb = "none"]
    /\ UNCHANGED <<object, made, sources, remote, call, inbox, service_call, app>>

\* The callback is handed the users.
TriggerUserListCallback ==
    /\ service # None /\ service_sources["list"] > 0
    /\ "users" \notin app
    /\ service_sources' = [service_sources EXCEPT !["list"] = @ - 1]
    /\ Tell(service.op.call, service.op.error)
    /\ service' = [service EXCEPT !.op.cb = "none", !.op.users = FALSE]
    /\ app' = IF service.op.users THEN app \cup {"users"} ELSE app
    /\ UNCHANGED <<object, made, sources, remote, call, inbox, service_call>>

\* A source that outlived its service finds that its object is not a service.
FreedSourceRuns ==
    /\ service_sources["freed"] > 0
    /\ service_sources' = [service_sources EXCEPT !["freed"] = @ - 1]
    /\ UNCHANGED <<callVars, service, service_call, app>>

\* The daemon answers a list call, or it times out.
ServeList(c) ==
    /\ service_call[c] = "none"
    /\ \E a \in {"ok", "failed"} : service_call' = [service_call EXCEPT ![c] = a]
    /\ inbox' = Append(inbox, Reply(c))
    /\ UNCHANGED <<object, made, sources, remote, call, told, service, service_sources, app>>

\* _on_get_user_list_cb: the users are made, and each runs the callback of the
\* proxy; then the callback for the list is scheduled.
OnGetUserListCb(c) ==
    /\ IF service_call[c] = "cancelled" THEN UNCHANGED <<service, service_sources>>
       ELSE \E found \in IF service_call[c] = "ok" THEN BOOLEAN ELSE {FALSE} :
              LET s == IF found THEN ServiceDbusProxy(Constructor(FALSE), TRUE) ELSE service
                  t == SetupServiceIdle(s, service_call[c] = "failed", "list")
              IN /\ service' = [t EXCEPT !.op.users = found]
                 /\ service_sources' =
                       [service_sources EXCEPT !["trigger"] = IF found THEN @ + 1 ELSE @,
                                               !["list"] = @ + 1]
    /\ UNCHANGED <<object, made, sources, remote, call, told, service_call, app>>
=============================================================================
