-------------------------------- MODULE Boot --------------------------------
(***************************************************************************)
(* The start of the daemon (internal/daemon, internal/bootstrap,           *)
(* internal/node, internal/zibby): the files it leaves on the state        *)
(* volume, the first-run install in its four modes, the probe of the app's *)
(* port, the registration of the container with the control plane and the  *)
(* bootstrap.done marker, over daemons that die, are signalled and are     *)
(* started again in the same container or in a new one.                    *)
(***************************************************************************)
EXTENDS Naturals

CONSTANTS
    Setups,         \* how an instance may be deployed, see SetupType
    MaxContainers,  \* bound: containers the instance ever has
    MaxBoots        \* bound: starts of the daemon

Modes == {"none", "script", "cheatsheet", "agent_script", "agent"}

\* mode: the bootstrap that env and config select; verify: verify_prompt is set;
\* env: the MCP token comes from the environment; outbound: mcp_clients are
\* configured; integrated: the control plane's address, the instance's id and
\* its token are all in the environment; port: AGENT_OPS_APP_PORT declares the
\* app's port, is absent so that the daemon scans /proc, or is no port.
SetupType == [mode : Modes, verify : BOOLEAN, env : BOOLEAN,
              outbound : BOOLEAN, integrated : BOOLEAN,
              port : {"declared", "scan", "invalid"}]

ASSUME BootAssumption ==
    /\ Setups \subseteq SetupType
    /\ MaxContainers \in Nat \ {0} /\ MaxBoots \in Nat

\* Tokens are numbered; 0 is the empty token, 1 the one in the environment.
EnvToken == 1

VARIABLES
    setup,                      \* never changes
    node, token, marker,        \* files: node.id, mcp.token, bootstrap.done
    box, app,                   \* the container; is there a listener where the
                                \* daemon looks for the app
    boots, minted,              \* starts so far; the newest token
    pc, schedOn, sigterm, tok,  \* the daemon: where Run is, schedulerGate
    seen, result, verdict,      \* MaybeRunFirstRun: probe, install, verifier
    tried, registered,          \* the container last named in a register-port
                                \* request, and the one the control plane has
    served                      \* the token MCP clients were last given

files   == <<node, token, marker>>
world   == <<box, app, boots, minted>>
local   == <<seen, result, verdict>>
control == <<tried, registered>>
vars    == <<setup, files, world, pc, schedOn, sigterm, tok, local, control,
             served>>

PCs == {"off", "node", "node write", "clients", "token", "token write",
        "first run", "probe", "install", "recheck", "verify", "register",
        "mark", "reregister", "serve"}

\* Where the daemon has installed its signal handler.
Handled == PCs \ {"off", "node", "node write", "clients"}

Init ==
    /\ setup \in Setups
    /\ node = "none" /\ token = "none" /\ marker = FALSE
    /\ box = 1 /\ app = FALSE /\ boots = 0 /\ minted = EnvToken
    /\ pc = "off" /\ schedOn = FALSE /\ sigterm = FALSE /\ tok = 0
    /\ seen = FALSE /\ result = "none" /\ verdict = "none"
    /\ tried = 0 /\ registered = 0 /\ served = 0

Exit == /\ pc' = "off"
        /\ UNCHANGED <<setup, files, world, schedOn, sigterm, tok, local,
                       control, served>>

Goto(l) == /\ pc' = l
           /\ UNCHANGED <<setup, files, world, schedOn, sigterm, tok>>

-----------------------------------------------------------------------------
(* daemon.Run up to the first run                                          *)

\* The toggle and the credential may differ from one start to the next.
Start ==
    /\ pc = "off" /\ boots < MaxBoots
    /\ boots' = boots + 1 /\ pc' = "node"
    /\ schedOn' \in BOOLEAN /\ sigterm' = FALSE /\ tok' = 0
    /\ seen' = FALSE /\ result' = "none" /\ verdict' = "none"
    /\ UNCHANGED <<setup, files, box, app, minted, control, served>>

\* os.WriteFile creates the file and then writes it: a daemon that dies between
\* the two leaves it empty.
NodeIdentity ==
    \/ /\ pc = "node" /\ node = "good"
       /\ Goto("clients") /\ UNCHANGED <<local, control, served>>
    \/ /\ pc = "node" /\ node = "empty"     \* corrupt id
       /\ Exit
    \/ /\ pc = "node" /\ node = "none"
       /\ node' = "empty" /\ pc' = "node write"
       /\ UNCHANGED <<setup, token, marker, world, schedOn, sigterm, tok,
                      local, control, served>>
    \/ /\ pc = "node write"
       /\ node' = "good" /\ pc' = "clients"
       /\ UNCHANGED <<setup, token, marker, world, schedOn, sigterm, tok,
                      local, control, served>>

\* bootMCPClients: a server that cannot be started or answers with an error is
\* skipped.
ConnectClients ==
    /\ pc = "clients"
    /\ Goto("token") /\ UNCHANGED <<local, control, served>>

\* Mutant: an empty file is taken for a token.
EnsureTokenEmpty ==
    \/ /\ pc = "token"
       /\ setup.env \/ token # "none"
       /\ tok' = IF setup.env THEN EnvToken
                 ELSE IF token = "empty" THEN 0 ELSE minted
       /\ pc' = "first run"
       /\ UNCHANGED <<setup, files, world, schedOn, sigterm, local, control,
                      served>>
    \/ /\ pc = "token" /\ ~setup.env /\ token = "none"
       /\ token' = "empty" /\ pc' = "token write"
       /\ UNCHANGED <<setup, node, marker, world, schedOn, sigterm, tok, local,
                      control, served>>
    \/ /\ pc = "token write"
       /\ token' = "good" /\ minted' = minted + 1 /\ tok' = minted'
       /\ pc' = "first run"
       /\ UNCHANGED <<setup, node, marker, box, app, boots, schedOn, sigterm,
                      local, control, served>>

EnsureToken ==
    \/ /\ pc = "token"
       /\ setup.env \/ token = "good"
       /\ tok' = IF setup.env THEN EnvToken ELSE minted
       /\ pc' = "first run"
       /\ UNCHANGED <<setup, files, world, schedOn, sigterm, local, control,
                      served>>
    \/ /\ pc = "token" /\ ~setup.env /\ token # "good"
       /\ token' = "empty" /\ pc' = "token write"
       /\ UNCHANGED <<setup, node, marker, world, schedOn, sigterm, tok, local,
                      control, served>>
    \/ /\ pc = "token write"
       /\ token' = "good" /\ minted' = minted + 1 /\ tok' = minted'
       /\ pc' = "first run"
       /\ UNCHANGED <<setup, node, marker, box, app, boots, schedOn, sigterm,
                      local, control, served>>

\* Any other step of Run fails: the store, the driver, Hydrate, a file.
StartFails ==
    /\ pc \in {"node", "node write", "clients", "token", "token write",
              "first run"}
    /\ Exit

-----------------------------------------------------------------------------
(* MaybeRunFirstRun                                                        *)

\* runInstall in Run, and the test for a configured bootstrap.
Installs == /\ schedOn \/ setup.mode = "script"
            /\ setup.mode # "none"

\* The daemon listens; MCP clients of this boot hold its token.
Serves == /\ pc' = "serve" /\ served' = tok
          /\ UNCHANGED <<setup, files, world, schedOn, sigterm, tok>>

\* Mutant: the marker alone lets the boot skip the install.
FirstRunTrustsMarker ==
    /\ pc = "first run"
    /\ \/ (~Installs \/ marker) /\ Serves
       \/ Installs /\ ~marker /\ Goto("install") /\ UNCHANGED served
    /\ UNCHANGED <<local, control>>

FirstRun ==
    /\ pc = "first run"
    /\ \/ ~Installs /\ Serves
       \/ Installs /\ marker /\ Goto("probe") /\ UNCHANGED served
       \/ Installs /\ ~marker /\ Goto("install") /\ UNCHANGED served
    /\ UNCHANGED <<local, control>>

\* Mutant: without a deadline, the probe ends only with an open port.
ProbeForever ==
    /\ pc = "probe" /\ app
    /\ seen' = TRUE
    /\ Goto("reregister")
    /\ UNCHANGED <<result, verdict, control, served>>

\* Mutant: an app that is up needs nothing more.
ProbeNoRegister ==
    /\ pc = "probe"
    /\ seen' = app
    /\ IF app THEN Serves ELSE Goto("install") /\ UNCHANGED served
    /\ UNCHANGED <<result, verdict, control>>

\* appIsListening polls for two minutes, or until the context is cancelled.
Probe ==
    /\ pc = "probe"
    /\ seen' = app
    /\ Goto(IF app THEN "reregister" ELSE "install")
    /\ UNCHANGED <<result, verdict, control, served>>

\* How an install ends.  "failed" is a run that RunNow reports without an error:
\* the agent's error, timeout and cancellation are only in its row.
Outcomes == IF setup.mode \in {"agent", "cheatsheet"}
              THEN {"ok", "failed", "error"} ELSE {"ok", "error"}

Install ==
    /\ pc = "install"
    /\ result' \in Outcomes
    /\ \/ /\ result' = "error" /\ setup.mode = "agent"
          /\ Goto("off")
       \/ /\ result' = "error" /\ setup.mode # "agent"
          /\ Goto("recheck")
       \/ /\ result' # "error"
          /\ Goto(IF setup.mode = "agent" /\ setup.verify THEN "verify"
                  ELSE "register")
    /\ UNCHANGED <<seen, verdict, control, served>>

\* An open port wins over a failed script or agent.
Recheck ==
    /\ pc = "recheck"
    /\ seen' = app
    /\ Goto(IF app THEN "register" ELSE "off")
    /\ UNCHANGED <<result, verdict, control, served>>

\* Mutant: a verifier that could not be run is skipped.
VerifyLenient ==
    /\ pc = "verify"
    /\ verdict' \in {"pass", "fail", "none"}
    /\ \/ verdict' \in {"pass", "none"} /\ Goto("register") /\ UNCHANGED served
       \/ verdict' = "fail" /\ Serves
    /\ UNCHANGED <<seen, result, control>>

\* An upsert or run that fails and an answer that does not parse all count as
\* a fail; the daemon serves without a marker.
Verify ==
    /\ pc = "verify"
    /\ verdict' \in {"pass", "fail"}
    /\ \/ verdict' = "pass" /\ Goto("register") /\ UNCHANGED served
       \/ verdict' = "fail" /\ Serves
    /\ UNCHANGED <<seen, result, control>>

\* resolveAppPort: the declared port, or a listener found in /proc.
Resolved == setup.port = "declared" \/ (setup.port = "scan" /\ app)

\* One POST, never repeated, whose answer may be an error.  A daemon that runs
\* standalone, knows no port, or has a cancelled context sends nothing.
RegisterPort ==
    IF setup.integrated /\ Resolved /\ ~sigterm
      THEN tried' = box /\ registered' \in {registered, box}
      ELSE UNCHANGED control

Register ==
    /\ pc = "register"
    /\ RegisterPort
    /\ Goto("mark")
    /\ UNCHANGED <<local, served>>

Reregister ==
    /\ pc = "reregister"
    /\ RegisterPort
    /\ Serves
    /\ UNCHANGED local

Mark ==
    \/ /\ pc = "mark"
       /\ marker' = TRUE /\ pc' = "serve" /\ served' = tok
       /\ UNCHANGED <<setup, node, token, world, schedOn, sigterm, tok, local,
                      control>>
    \/ /\ pc = "mark"
       /\ Exit

\* Run leaves its loop, after a signal or an error of the HTTP server.
Stop == pc = "serve" /\ Exit

-----------------------------------------------------------------------------
(* The world                                                               *)

Sigterm ==
    /\ pc \in Handled /\ ~sigterm
    /\ sigterm' = TRUE
    /\ UNCHANGED <<setup, files, world, pc, schedOn, tok, local, control,
                   served>>

\* The app runs in its own process group and outlives the daemon.
DaemonDies == pc # "off" /\ Exit

ContainerReplaced ==
    /\ box < MaxContainers
    /\ box' = box + 1 /\ app' = FALSE /\ pc' = "off"
    /\ UNCHANGED <<setup, files, boots, minted, schedOn, sigterm, tok, local,
                   control, served>>

AppFlips ==
    /\ app' = ~app
    /\ UNCHANGED <<setup, files, box, boots, minted, pc, schedOn, sigterm, tok,
                   local, control, served>>

-----------------------------------------------------------------------------
Daemon ==
    \/ NodeIdentity \/ ConnectClients \/ EnsureToken \/ StartFails
    \/ FirstRun \/ Probe \/ Install \/ Recheck \/ Verify
    \/ Register \/ Reregister \/ Mark

Next == Daemon \/ Start \/ Stop \/ Sigterm \/ DaemonDies \/ ContainerReplaced
        \/ AppFlips

Spec == Init /\ [][Next]_vars

\* Where Run waits for a process that nothing makes end: the initialize of an
\* outbound MCP server that starts and stays silent; a planner, which has no
\* deadline, or the script its supervisor called done; a run whose driver reads,
\* past TaskTimeout too, until no process holds the output of its agent.
Waiting == \/ pc = "clients" /\ setup.outbound
           \/ pc \in {"install", "verify"} /\ setup.mode # "script"

\* Every other call ends: the probe after two minutes, a script five seconds
\* after its timeout, the wait for a listener and the POST at their deadlines.
FairSpec == Spec /\ WF_vars(~Waiting /\ Daemon)

-----------------------------------------------------------------------------
(* Properties                                                              *)

TypeOK ==
    /\ setup \in Setups
    /\ {node, token} \subseteq {"none", "empty", "good"}
    /\ {marker, app, schedOn, sigterm, seen} \subseteq BOOLEAN
    /\ box \in 1 .. MaxContainers /\ boots \in 0 .. MaxBoots
    /\ minted \in EnvToken .. EnvToken + 1
    /\ pc \in PCs /\ tok \in 0 .. minted /\ served \in 0 .. minted
    /\ result \in {"none", "ok", "failed", "error"}
    /\ verdict \in {"none", "pass", "fail"}
    /\ tried \in 0 .. box /\ registered \in 0 .. tried

\* bootstrap.EnsureToken: MCP clients keep the token they were given, through
\* restarts, replaced containers and deaths in the middle of writing the file;
\* a served token is never the empty one.
TokenSurvives == [][pc' = "serve" => tok' # 0 /\ served \in {0, tok'}]_vars

\* bootstrap.MaybeRunFirstRun: no boot serves on the strength of a marker an
\* earlier container left: it saw the app's port open or ran the install itself.
NeverSkipsBlind ==
    pc = "serve" /\ Installs => seen \/ result # "none"

\* The marker-skip path must register again, because a replaced container has a
\* new address: an integrated daemon that knows its app's port and serves has
\* named the container it runs in to the control plane, unless its verifier
\* refused the install or a signal had cancelled it.  (A scanned app that is not
\* listening when the daemon looks is not registered before a later start.)
Reregistered ==
    pc = "serve" /\ Installs /\ verdict # "fail"
      /\ setup.integrated /\ setup.port = "declared" /\ ~sigterm
      => tried = box

\* With a verify_prompt the marker appears only once the verifier has passed,
\* whatever else goes wrong in between.  (A marker of an earlier start stays.)
MarkerVerified ==
    [][setup.mode = "agent" /\ setup.verify /\ marker' # marker
         => verdict = "pass"]_marker

\* Every boot comes to an end, in a daemon that serves or in an exit the
\* container runtime can restart, or is where it waits for a silent server or for
\* an agent: nowhere else does it stay, though the app never listens, a script
\* hangs, files cannot be written or the control plane does not answer.
BootEnds == pc \notin {"serve", "off"} ~> pc \in {"serve", "off"} \/ Waiting

\* The marker is not written on failure: only after an install that succeeded,
\* or with the app's port open, or with the verifier's word.
MarkerEarned ==
    [][marker' # marker => result = "ok" \/ seen \/ verdict = "pass"]_marker
=============================================================================
