------------------------------- MODULE Front -------------------------------
(***************************************************************************)
(* What stands between a client and the installed app: the access-control  *)
(* config (internal/appauth) with the two ways it reaches a daemon (the    *)
(* answer to register-port and POST /_zibby_ops/auth), the readiness gate, *)
(* and the reverse proxy with its "starting up" page                       *)
(* (internal/api/mcp/server.go).  The app is a parameter of the actions:   *)
(* up says that some process of it is alive.                               *)
(***************************************************************************)
EXTENDS Naturals

CONSTANTS
    Requests,       \* requests a daemon serves concurrently
    Kinds,          \* what a request may be, see KindType
    Wires,          \* configs the operator may set, see WireType
    ReadyPath,      \* AGENT_OPS_READY_PATH is set
    AppPort,        \* AGENT_OPS_APP_PORT is set
    MaxChanges      \* bound: changes of the config by the operator

\* route: the entry of the mux, the bridges to an agent server split by whether
\* the port is in their range; clean: the mux finds an entry for its path as it
\* is, which is not so with a doubled slash, a dot segment or a missing last
\* slash; html: a GET or HEAD that accepts text/html; bare: its path is one of
\* AGENT_OPS_TRAILING_SLASH_PATHS; ip, cred: would its address and its
\* credentials pass (on the ops routes: its Origin and the bridge token).
KindType == [route : {"app", "health", "mcp", "bridge", "bad bridge"},
             clean : BOOLEAN, html : BOOLEAN, bare : BOOLEAN, ip : BOOLEAN,
             cred : BOOLEAN]

\* The JSON of a config: its IP list, and whether it asks for credentials.
WireType == [ips : {"empty", "private", "public"}, cred : BOOLEAN]

\* JSON null, a body that does not parse, and no body at all.
CONSTANTS Null, Malformed, Nothing

\* A resolved config; Open is the nil pointer.
Open == [ip |-> FALSE, cred |-> FALSE]
Config == [ip : BOOLEAN, cred : BOOLEAN]

ASSUME FrontAssumption ==
    /\ Kinds \subseteq KindType /\ Kinds # {}
    /\ Wires \subseteq WireType \cup {Null}
    /\ ReadyPath \in BOOLEAN /\ AppPort \in BOOLEAN
    /\ MaxChanges \in Nat
    /\ Null \notin WireType /\ Malformed \notin WireType
    /\ Nothing \notin WireType \cup {Null, Malformed} /\ Null # Malformed

VARIABLES
    stored,             \* the wire config the control plane has on record
    push, lost,         \* a POST under way, or Nothing; did one get lost
    changes,            \* changes so far
    access,             \* appauth's live config
    ready, healthy,     \* appReady, appEverHealthy
    gate, expired,      \* the poller of startReadinessGate: before its request,
                        \* before its test of the deadline, or not there; has
                        \* the deadline passed
    req                 \* by request: where it is and what it has seen

operator == <<stored, changes>>
gating   == <<ready, gate, expired>>
front    == <<operator, push, lost, access, gating, healthy, req>>

Replies == {"none", "401", "403", "starting up", "301", "308", "503", "502", "app",
            "app 5xx", "200", "400", "mcp", "unauthorized", "bridged"}

\* due: what the config in force when it arrived made of it; late: did it arrive
\* after some request had an answer of the app and the gate had passed.
Request == [at : {"none", "gate", "dial", "error", "done"}, kind : Kinds,
            due : {"none", "401", "403"}, late : BOOLEAN, reply : Replies]

NoRequest == [at |-> "none", kind |-> CHOOSE k \in Kinds : TRUE, due |-> "none",
              late |-> FALSE, reply |-> "none"]

FrontTypeOK ==
    /\ stored \in Wires \cup {Null} /\ changes \in 0 .. MaxChanges
    /\ push \in Wires \cup {Null, Malformed, Nothing} /\ lost \in BOOLEAN
    /\ access \in Config
    /\ ready \in BOOLEAN /\ healthy \in BOOLEAN
    /\ gate \in {"off", "get", "test"} /\ expired \in BOOLEAN
    /\ req \in [Requests -> Request]

\* The config may have been set, and its POST lost, before this daemon: what it
\* registers with is the config on record either way.
FrontInit ==
    /\ stored \in Wires \cup {Null} /\ changes = 0
    /\ push = Nothing /\ lost = FALSE
    /\ access = Open /\ ready = FALSE /\ healthy = FALSE
    /\ gate = "off" /\ expired = FALSE
    /\ req = [r \in Requests |-> NoRequest]

\* A daemon that starts knows nothing of the one before it.  Building its handler
\* starts the poller, if there is a path and a port to ask.
Forget ==
    /\ access' = Open /\ ready' = FALSE /\ healthy' = FALSE
    /\ gate' = (IF ReadyPath /\ AppPort THEN "get" ELSE "off")
    /\ expired' = FALSE
    /\ req' = [r \in Requests |-> NoRequest]

-----------------------------------------------------------------------------
(* Access control                                                          *)

\* The config a body stands for: ranges of private addresses are dropped, and
\* what sets no gate is no config.
Resolve(wire) ==
    IF wire = Null THEN Open
    ELSE [ip |-> wire.ips = "public", cred |-> wire.cred]

\* A body that does not parse leaves the config as it was.
Apply(wire) ==
    access' = IF wire = Malformed THEN access ELSE Resolve(wire)

\* What a request is due, on the routes of the app: the IP list first, then the
\* credentials.
Enforce(config, kind) ==
    IF kind.route # "app" THEN "none"
    ELSE IF config.ip /\ ~kind.ip THEN "403"
    ELSE IF config.cred /\ ~kind.cred THEN "401"
    ELSE "none"

\* The answer to register-port: null leaves the config alone.
ApplyRegistered(wire) ==
    IF wire = Null THEN UNCHANGED access ELSE Apply(wire)

\* The operator changes the config on record, and the control plane sends it to
\* the daemon; or somebody sends the daemon a body that does not parse.
SetConfig ==
    /\ push = Nothing /\ changes < MaxChanges
    /\ changes' = changes + 1
    /\ \/ \E w \in Wires \cup {Null} : stored' = w /\ push' = w
       \/ push' = Malformed /\ UNCHANGED stored
    /\ UNCHANGED <<lost, access, gating, healthy, req>>

\* Mutant: a daemon takes a config before it listens.
HandleSetAuthEarly(listening) ==
    /\ push # Nothing
    /\ Apply(push)
    /\ push' = Nothing
    /\ UNCHANGED <<operator, lost, gating, healthy, req>>

HandleSetAuth(listening) ==
    /\ push # Nothing /\ listening
    /\ Apply(push)
    /\ push' = Nothing
    /\ UNCHANGED <<operator, lost, gating, healthy, req>>

\* The POST is refused, or lost on the way.
PushLost ==
    /\ push # Nothing
    /\ push' = Nothing /\ lost' = (lost \/ push # Malformed)
    /\ UNCHANGED <<operator, access, gating, healthy, req>>

-----------------------------------------------------------------------------
(* The readiness gate                                                      *)

Opens == /\ ready' = TRUE /\ gate' = "off" /\ expired' = FALSE

\* One request for the readiness path.  An app that is up may answer with an
\* acceptable status; any app may refuse, answer with another one, or not answer
\* within the four seconds of the client.
Get(up) ==
    /\ gate = "get"
    /\ \/ up /\ Opens
       \/ gate' = "test" /\ UNCHANGED <<ready, expired>>
    /\ UNCHANGED <<operator, push, lost, access, healthy, req>>

\* Mutant: polls go on until the app passes.
TestNever ==
    /\ gate = "test"
    /\ gate' = "get" /\ UNCHANGED <<ready, expired>>
    /\ UNCHANGED <<operator, push, lost, access, healthy, req>>

\* After a request that failed: fail open, or sleep and ask again.
TestDeadline ==
    /\ gate = "test"
    /\ \/ expired /\ Opens
       \/ ~expired /\ gate' = "get" /\ UNCHANGED <<ready, expired>>
    /\ UNCHANGED <<operator, push, lost, access, healthy, req>>

Poll(up) == Get(up) \/ TestDeadline

\* Six minutes after the poller was started.
DeadlinePasses ==
    /\ gate # "off" /\ ~expired
    /\ expired' = TRUE
    /\ UNCHANGED <<operator, push, lost, access, ready, gate, healthy, req>>

-----------------------------------------------------------------------------
(* appReverseProxy, one request                                            *)

At(r, l) == req' = [req EXCEPT ![r].at = l]

Reply(r, answer) == req' = [req EXCEPT ![r].at = "done", ![r].reply = answer]

\* Some client has had an answer of the app, and the gate is open.
Live == /\ ready \/ ~ReadyPath
        /\ \E r \in Requests : req[r].reply = "app"

Arrives(r, kind, at, reply) ==
    req' = [req EXCEPT ![r] = [at |-> at, kind |-> kind,
                               due |-> Enforce(access, kind), late |-> Live,
                               reply |-> reply]]

\* The mux itself sends a client whose path is not clean to the clean one, before
\* any handler runs and on every route.
Redirect(r) ==
    /\ req[r].at = "none"
    /\ \E kind \in Kinds : ~kind.clean /\ Arrives(r, kind, "done", "301")
    /\ UNCHANGED <<operator, push, lost, access, gating, healthy>>

\* The routes of the mux that bring access control of their own, or none.
OpsReplies(kind) ==
    CASE kind.route = "health" -> {"200"}
      [] kind.route = "mcp" -> {IF ~kind.ip THEN "403"
                                ELSE IF ~kind.cred THEN "unauthorized" ELSE "mcp"}
      [] kind.route = "bridge" -> {"bridged", "502"}
      [] kind.route = "bad bridge" -> {"400"}

ArriveOps(r) ==
    /\ req[r].at = "none"
    /\ \E kind \in Kinds :
          /\ kind.clean /\ kind.route # "app"
          /\ \E reply \in OpsReplies(kind) : Arrives(r, kind, "done", reply)
    /\ UNCHANGED <<operator, push, lost, access, gating, healthy>>

\* The gate holds back what a browser shows.
HeldBack(kind) == ReadyPath /\ ~ready /\ kind.html

\* Mutant: the readiness gate comes first.
ArriveGateFirst(r) ==
    /\ req[r].at = "none"
    /\ \E kind \in {k \in Kinds : k.clean /\ k.route = "app"} :
          LET refused == Enforce(access, kind) IN
          CASE HeldBack(kind) -> Arrives(r, kind, "done", "starting up")
            [] ~HeldBack(kind) /\ refused # "none" ->
                  Arrives(r, kind, "done", refused)
            [] OTHER -> Arrives(r, kind, "gate", "none")
    /\ UNCHANGED <<operator, push, lost, access, gating, healthy>>

\* A request is let in or refused by the config it finds.
Arrive(r) ==
    /\ req[r].at = "none"
    /\ \E kind \in {k \in Kinds : k.clean /\ k.route = "app"} :
          LET refused == Enforce(access, kind) IN
          Arrives(r, kind, IF refused = "none" THEN "gate" ELSE "done", refused)
    /\ UNCHANGED <<operator, push, lost, access, gating, healthy>>

\* The readiness gate, the redirect of a bare path, the test for a port.
PassGate(r) ==
    /\ req[r].at = "gate"
    /\ LET kind == req[r].kind IN
       CASE HeldBack(kind) -> Reply(r, "starting up")
         [] ~HeldBack(kind) /\ kind.bare -> Reply(r, "308")
         [] ~HeldBack(kind) /\ ~kind.bare /\ ~AppPort -> Reply(r, "503")
         [] OTHER -> At(r, "dial")
    /\ UNCHANGED <<operator, push, lost, access, gating, healthy>>

\* ModifyResponse.  An app that is up may answer, answer with a 5xx, or have no
\* listener on its port.
Answered(r, up) ==
    /\ req[r].at = "dial" /\ up
    /\ \/ Reply(r, "app") /\ healthy' = TRUE
       \/ Reply(r, "app 5xx") /\ UNCHANGED healthy
    /\ UNCHANGED <<operator, push, lost, access, gating>>

\* Mutant: an error makes the app count as never healthy again.
DialFailsForgets(r) ==
    /\ req[r].at = "dial"
    /\ At(r, "error") /\ healthy' = FALSE
    /\ UNCHANGED <<operator, push, lost, access, gating>>

DialFails(r) ==
    /\ req[r].at = "dial"
    /\ At(r, "error")
    /\ UNCHANGED <<operator, push, lost, access, gating, healthy>>

\* The ErrorHandler of the proxy.
HandleError(r) ==
    /\ req[r].at = "error"
    /\ Reply(r, IF ~healthy /\ req[r].kind.html THEN "starting up" ELSE "502")
    /\ UNCHANGED <<operator, push, lost, access, gating, healthy>>

Serve(r, up) == \/ Redirect(r) \/ Arrive(r) \/ ArriveOps(r) \/ PassGate(r)
                \/ Answered(r, up) \/ DialFails(r) \/ HandleError(r)

-----------------------------------------------------------------------------

\* A gated app answers 401/403 for every clean path and in every state of the
\* app, and tells an address that is not on the list nothing of the credentials.
\* A path that is not clean gets the redirect of the mux, gated or not: it learns
\* nothing of the app, but it is not refused.
RefusedUniformly ==
    \A r \in Requests :
        req[r].at = "done" =>
            IF ~req[r].kind.clean THEN req[r].reply = "301"
            ELSE IF req[r].due # "none" THEN req[r].reply = req[r].due
            ELSE req[r].kind.route = "app" => req[r].reply \notin {"401", "403"}

\* Once a client has had an answer of the app, a request that comes in later
\* gets the real error of a crash, not the page that says it is starting up.
NoFalseStartingUp ==
    \A r \in Requests : req[r].late => req[r].reply # "starting up"
=============================================================================
