---------------------------- MODULE ProxyProofs -----------------------------
(***************************************************************************)
(* Theorems about Proxy, for every set of hosts and upstreams, any number  *)
(* of changes of the table and of starts.                                  *)
(***************************************************************************)
EXTENDS Proxy, TLAPS

\* Where Caddy has been told of the map file since this process last wrote it:
\* from the end of Setup on, but for the lines between a write and its reload.
Told == {"scan", "compare", "truncate", "wait"}

\* What a Caddy that heard its last reload serves.
ServesInv ==
    /\ pc = "fill" => map = Torn
    /\ (pc \in Told /\ caddy = "up" /\ ~unheard /\ caddyfile = "whole"
        /\ map \notin {Missing, Torn})
           => serves = map

-----------------------------------------------------------------------------
(* Types                                                                   *)

FilesOK ==
    /\ caddyfile \in {Missing, Torn, "whole"}
    /\ map \in {Missing, Torn} \/ map \in Routes

LEMMA EmptyRoutes == {} \in Routes
  BY DEF Routes

LEMMA ReadsType == FilesOK /\ map # Missing /\ ReadsFiles => serves' \in Routes
  BY EmptyRoutes DEF FilesOK, ReadsFiles, Content

LEMMA RenderedType == ProxyTypeOK => Rendered \in Routes
  <1> SUFFICES ASSUME ProxyTypeOK PROVE Rendered \subseteq Hosts \X Upstreams
    BY DEF Routes
  <1>1. ASSUME NEW h \in Hosts, table[h] # NoRow PROVE table[h].upstream \in Upstreams
    <2>1. table[h] \in Rows
      BY <1>1 DEF ProxyTypeOK
    <2>2. QED
      BY <2>1 DEF Rows
  <1>2. ASSUME NEW p \in Rendered PROVE p \in Hosts \X Upstreams
    <2>1. PICK h \in Hosts : table[h] # NoRow /\ p = <<h, table[h].upstream>>
      BY DEF Rendered
    <2>2. QED
      BY <1>1, <2>1
  <1>3. QED
    BY <1>2

LEMMA InitType == ProxyInit => ProxyTypeOK
  <1> SUFFICES ASSUME ProxyInit PROVE ProxyTypeOK
    OBVIOUS
  <1> USE ProxyAssumption DEF ProxyInit
  <1>1. /\ table \in [Hosts -> Rows \cup {NoRow}]
        /\ changes \in 0 .. MaxChanges /\ starts \in 0 .. MaxStarts
    OBVIOUS
  <1>2. next \in Routes /\ serves \in Routes
    BY EmptyRoutes
  <1>3. unheard \in BOOLEAN
    OBVIOUS
  <1>4. QED
    BY <1>1, <1>2, <1>3 DEF ProxyTypeOK

LEMMA CountsOn ==
    ASSUME NEW m \in Nat, NEW k \in 0 .. m, k < m PROVE k + 1 \in 0 .. m
  OBVIOUS

LEMMA StepType == ProxyTypeOK /\ [Next]_vars => ProxyTypeOK'
  <1> SUFFICES ASSUME ProxyTypeOK, [Next]_vars PROVE ProxyTypeOK'
    OBVIOUS
  <1> USE ProxyAssumption DEF ProxyTypeOK, files, Stays
  <1>1. CASE Up
    <2>1. starts' \in 0 .. MaxStarts
      BY <1>1, CountsOn DEF Up
    <2>2. QED
      BY <1>1, <2>1 DEF Up
  <1>2. CASE TruncateConfig \/ FillConfig \/ EnsureMapFile
    BY <1>2, EmptyRoutes DEF TruncateConfig, FillConfig, EnsureMapFile
  <1>3. CASE ReloadOrRestart \/ Reload \/ CaddyStarts
    <2>1. serves' \in Routes
      BY <1>3, ReadsType DEF ReloadOrRestart, Reload, CaddyStarts, Loadable, FilesOK
    <2>2. QED
      BY <1>3, <2>1 DEF ReloadOrRestart, Reload, CaddyStarts
  <1>4. CASE Scan
    BY <1>4, RenderedType DEF Scan
  <1>5. CASE ScanFails \/ Compare \/ TruncateMap \/ FillMap \/ Tick
    BY <1>5 DEF ScanFails, Compare, TruncateMap, FillMap, Tick
  <1>6. CASE Dies \/ CaddyStops
    BY <1>6, EmptyRoutes DEF Dies, CaddyStops
  <1>7. CASE ChangeRow
    <2>1. changes' \in 0 .. MaxChanges
      BY <1>7, CountsOn DEF ChangeRow
    <2>2. table' \in [Hosts -> Rows \cup {NoRow}]
      BY <1>7 DEF ChangeRow
    <2>3. QED
      BY <1>7, <2>1, <2>2 DEF ChangeRow
  <1>8. CASE UNCHANGED vars
    BY <1>8 DEF vars
  <1>9. QED
    BY <1>1, <1>2, <1>3, <1>4, <1>5, <1>6, <1>7, <1>8 DEF Next, Setup, Sync

\* Every reachable state is well typed: the proxy never keeps for a route what
\* is no pair of a host and an upstream.
THEOREM ProxyTypeHolds == Spec => []ProxyTypeOK
  BY InitType, StepType, PTL DEF Spec

-----------------------------------------------------------------------------
(* What Caddy serves                                                       *)

\* A Caddy that has just read its files serves those.
LEMMA ReadsServe ==
    ASSUME ReadsFiles, caddyfile = "whole", map \notin {Missing, Torn}
    PROVE  serves' = map
  BY ProxyAssumption DEF ReadsFiles, Content

LEMMA StepServes == ServesInv /\ [Next]_vars => ServesInv'
  <1> SUFFICES ASSUME ServesInv, [Next]_vars PROVE ServesInv'
    OBVIOUS
  <1> USE DEF ServesInv, Told, files, Stays
  <1>1. CASE Up \/ TruncateConfig \/ FillConfig \/ EnsureMapFile \/ Dies
    BY <1>1 DEF Up, TruncateConfig, FillConfig, EnsureMapFile, Dies
  <1>2. CASE ReloadOrRestart \/ Reload
    BY <1>2, ReadsServe DEF ReloadOrRestart, Reload
  <1>3. CASE Scan \/ ScanFails \/ Compare \/ TruncateMap \/ FillMap \/ Tick
    BY <1>3 DEF Scan, ScanFails, Compare, TruncateMap, FillMap, Tick
  <1>4. CASE CaddyStarts
    BY <1>4, ReadsServe DEF CaddyStarts
  <1>5. CASE CaddyStops \/ ChangeRow \/ UNCHANGED vars
    BY <1>5 DEF CaddyStops, ChangeRow, vars
  <1>6. QED
    BY <1>1, <1>2, <1>3, <1>4, <1>5 DEF Next, Setup, Sync

\* Through deaths of the proxy, restarts of Caddy and failed writes, a Caddy whose
\* last reload went through serves what the map file says whenever the proxy is
\* between two ticks.
THEOREM ServesMapHolds == Spec => []ServesMap
  <1>1. ProxyInit => ServesInv
    BY DEF ProxyInit, ServesInv, Told
  <1>2. ServesInv => ServesMap
    BY DEF ServesInv, ServesMap, Told
  <1>3. QED
    BY <1>1, <1>2, StepServes, PTL DEF Spec
=============================================================================
