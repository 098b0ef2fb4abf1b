------------------------------- MODULE Proxy --------------------------------
(***************************************************************************)
(* The shared ingress (internal/proxy/proxy.go, cli/proxy.go): `agent-ops   *)
(* proxy up` writes the Caddyfile and the file that maps hosts to          *)
(* upstreams, brings Caddy up, and then copies the control plane's table   *)
(* of routes to the map file, with a reload of Caddy after each change.    *)
(* systemd starts it again whenever it ends; Caddy is a service of its own. *)
(***************************************************************************)
EXTENDS Naturals

CONSTANTS
    Hosts, Upstreams,
    Modes,          \* what a row may say of its mode
    NoRow,          \* a host without a row
    Missing, Torn,  \* no file; a file that was truncated and not filled
    MaxChanges,     \* bound: changes of the table
    MaxStarts       \* bound: starts of the proxy

ASSUME ProxyAssumption ==
    /\ \A R \in SUBSET (Hosts \X Upstreams) : R \notin {Missing, Torn}
    /\ Missing # Torn /\ "whole" \notin {Missing, Torn}
    /\ MaxChanges \in Nat /\ MaxStarts \in Nat

VARIABLES
    table,          \* the control plane's rows, by host
    changes, starts,
    pc, next,       \* where the proxy is; the routes of this Sync
    caddyfile,      \* /etc/caddy/Caddyfile
    map,            \* /etc/caddy/upstreams.map
    caddy, serves,  \* is Caddy up, and with which routes
    unheard         \* history: the last reload of Caddy failed

files == <<caddyfile, map>>
vars  == <<table, changes, starts, pc, next, files, caddy, serves, unheard>>

Routes == SUBSET (Hosts \X Upstreams)

Rows == [upstream : Upstreams, active : BOOLEAN, mode : Modes]

ProxyTypeOK ==
    /\ table \in [Hosts -> Rows \cup {NoRow}]
    /\ changes \in 0 .. MaxChanges /\ starts \in 0 .. MaxStarts
    /\ pc \in {"off", "truncate config", "fill config", "ensure", "restart",
               "scan", "compare", "truncate", "fill", "reload", "wait"}
    /\ next \in Routes /\ serves \in Routes
    /\ caddyfile \in {Missing, Torn, "whole"}
    /\ map \in {Missing, Torn} \/ map \in Routes
    /\ caddy \in {"up", "down"} /\ unheard \in BOOLEAN

ProxyInit ==
    /\ table = [h \in Hosts |-> NoRow] /\ changes = 0 /\ starts = 0
    /\ pc = "off" /\ next = {}
    /\ caddyfile = Missing /\ map = Missing
    /\ caddy = "down" /\ serves = {} /\ unheard = FALSE

-----------------------------------------------------------------------------
(* Caddy                                                                   *)

\* An `import` of an empty map is fine, one of a missing map is not; a truncated
\* Caddyfile is an empty one, and serves nothing.
Loadable == caddyfile # Missing /\ map # Missing

Content(f) == IF f = Torn THEN {} ELSE f

ReadsFiles == serves' = IF caddyfile = Torn THEN {} ELSE Content(map)

CaddyStops ==
    /\ caddy = "up"
    /\ caddy' = "down" /\ serves' = {}
    /\ UNCHANGED <<table, changes, starts, pc, next, files, unheard>>

\* At a boot, or by an operator's hand.
CaddyStarts ==
    /\ caddy = "down" /\ Loadable
    /\ caddy' = "up" /\ ReadsFiles /\ unheard' = FALSE
    /\ UNCHANGED <<table, changes, starts, pc, next, files>>

-----------------------------------------------------------------------------
(* Setup                                                                   *)

Stays == UNCHANGED <<table, changes, starts>>

\* The lookups of two parameters are bounded; they change what the Caddyfile says
\* about certificates, not about routes.
Up ==
    /\ pc = "off" /\ starts < MaxStarts
    /\ starts' = starts + 1 /\ pc' = "truncate config"
    /\ UNCHANGED <<table, changes, next, files, caddy, serves, unheard>>

\* WriteConfig.  An error of it is logged, and skips nothing but its own rest.
TruncateConfig ==
    /\ pc = "truncate config"
    /\ \/ caddyfile' = Torn /\ pc' = "fill config"
       \/ UNCHANGED caddyfile /\ pc' = "ensure"
    /\ Stays /\ UNCHANGED <<next, map, caddy, serves, unheard>>

FillConfig ==
    /\ pc = "fill config" /\ pc' = "ensure"
    /\ caddyfile' \in {Torn, "whole"}
    /\ Stays /\ UNCHANGED <<next, map, caddy, serves, unheard>>

\* EnsureMapFile leaves a map that exists alone.
EnsureMapFile ==
    /\ pc = "ensure" /\ pc' = "restart"
    /\ map' \in IF map = Missing THEN {Missing, {}} ELSE {map}
    /\ Stays /\ UNCHANGED <<next, caddyfile, caddy, serves, unheard>>

\* Mutant: `systemctl enable --now`, which does nothing for a Caddy that is up.
ReloadOrRestartNot ==
    /\ pc = "restart" /\ pc' = "scan"
    /\ IF caddy = "down" /\ Loadable
         THEN caddy' = "up" /\ ReadsFiles
         ELSE UNCHANGED <<caddy, serves>>
    /\ unheard' = FALSE
    /\ Stays /\ UNCHANGED <<next, files>>

\* Reloads a Caddy that is up, starts one that is not.  A failure is logged, and
\* so is the verdict of is-active; a Caddy that cannot reload keeps its routes.
ReloadOrRestart ==
    /\ pc = "restart" /\ pc' = "scan"
    /\ \/ Loadable /\ caddy' = "up" /\ ReadsFiles /\ unheard' = FALSE
       \/ unheard' = TRUE /\ UNCHANGED <<caddy, serves>>
    /\ Stays /\ UNCHANGED <<next, files>>

-----------------------------------------------------------------------------
(* Sync                                                                    *)

\* parseDDBScan drops rows that are not active or not shared, an empty mode being
\* shared; RenderMapFile sorts what is left.
Rendered ==
    {<<h, table[h].upstream>> :
        h \in {i \in Hosts : table[i] # NoRow /\ table[i].active
                             /\ table[i].mode \in {"", "shared"}}}

Scan ==
    /\ pc = "scan" /\ pc' = "compare"
    /\ next' = Rendered
    /\ Stays /\ UNCHANGED <<files, caddy, serves, unheard>>

\* Its error ends this Sync.
ScanFails ==
    /\ pc = "scan" /\ pc' = "wait"
    /\ Stays /\ UNCHANGED <<next, files, caddy, serves, unheard>>

\* Mutant: an empty table is taken for a scan that went wrong.
CompareNonEmpty ==
    /\ pc = "compare"
    /\ pc' = IF Content(map) = next \/ next = {} THEN "wait" ELSE "truncate"
    /\ Stays /\ UNCHANGED <<next, files, caddy, serves, unheard>>

\* The map file is read; a missing one is as good as an empty one.
Compare ==
    /\ pc = "compare"
    /\ pc' = IF (IF map = Missing THEN {} ELSE Content(map)) = next
               THEN "wait" ELSE "truncate"
    /\ Stays /\ UNCHANGED <<next, files, caddy, serves, unheard>>

\* os.WriteFile; an error ends this Sync, before or after the truncation.
TruncateMap ==
    /\ pc = "truncate"
    /\ \/ map' = Torn /\ pc' = "fill"
       \/ UNCHANGED map /\ pc' = "wait"
    /\ Stays /\ UNCHANGED <<next, caddyfile, caddy, serves, unheard>>

FillMap ==
    /\ pc = "fill"
    /\ \/ map' = next /\ pc' = "reload"
       \/ UNCHANGED map /\ pc' = "wait"
    /\ Stays /\ UNCHANGED <<next, caddyfile, caddy, serves, unheard>>

\* `caddy reload` speaks to a Caddy that is up.  Nothing repeats one that failed:
\* the next Sync finds the map as it should be.
Reload ==
    /\ pc = "reload" /\ pc' = "wait"
    /\ \/ caddy = "up" /\ Loadable /\ ReadsFiles /\ unheard' = FALSE
       \/ unheard' = TRUE /\ UNCHANGED serves
    /\ Stays /\ UNCHANGED <<next, files, caddy>>

Tick ==
    /\ pc = "wait" /\ pc' = "scan"
    /\ Stays /\ UNCHANGED <<next, files, caddy, serves, unheard>>

\* A signal, or a reboot, in which Caddy may come back before the proxy does.
Dies ==
    /\ pc # "off" /\ pc' = "off" /\ next' = {}
    /\ Stays /\ UNCHANGED <<files, caddy, serves, unheard>>

ChangeRow ==
    /\ changes < MaxChanges /\ changes' = changes + 1
    /\ \E h \in Hosts, r \in Rows \cup {NoRow} : table' = [table EXCEPT ![h] = r]
    /\ UNCHANGED <<starts, pc, next, files, caddy, serves, unheard>>

Setup == TruncateConfig \/ FillConfig \/ EnsureMapFile \/ ReloadOrRestart

Sync == Scan \/ ScanFails \/ Compare \/ TruncateMap \/ FillMap \/ Reload

Next == Up \/ Setup \/ Sync \/ Tick \/ Dies \/ ChangeRow \/ CaddyStops
        \/ CaddyStarts

Spec == ProxyInit /\ [][Next]_vars

\* Restart=always and the ticker; the table and the disk do not refuse for ever.
FairSpec ==
    /\ Spec
    /\ WF_vars(Up) /\ WF_vars(Setup \/ Sync \/ Tick)
    /\ SF_vars(Scan) /\ SF_vars(TruncateMap /\ pc' = "fill")
    /\ SF_vars(FillMap /\ pc' = "reload")

-----------------------------------------------------------------------------

\* A host whose row is gone or paused gets a 502, and one whose row moved its new
\* upstream: between two ticks Caddy serves the routes of the map file, unless
\* its last reload failed.  (Nor is a torn map spoken of: when a write failed and
\* the table was then emptied, Sync finds nothing to change and reloads nothing.)
ServesMap ==
    (pc = "wait" /\ caddy = "up" /\ ~unheard /\ caddyfile = "whole"
     /\ map \notin {Missing, Torn})
        => serves = map

\* "The loop just keeps routes fresh": whatever scans, writes and starts failed
\* on the way, the map file comes to what the table says and stays at it.
MapFollows ==
    \A R \in Routes :
        <>[](Rendered = R) => <>[](Content(map) = R \/ (R = {} /\ map = Missing)
                                   \/ (pc = "off" /\ starts = MaxStarts))
=============================================================================
