----------------------------- MODULE BootProofs -----------------------------
(***************************************************************************)
(* Theorems about Boot, for every set of setups and every number of        *)
(* containers and starts.                                                  *)
(***************************************************************************)
EXTENDS Boot, TLAPS

\* The token a daemon of this instance serves.
Mine == IF setup.env THEN EnvToken ELSE minted

\* Where the daemon has its token.
Past == PCs \ {"off", "node", "node write", "clients", "token", "token write"}

\* mcp.token is filled once; whoever was served was served its contents.
TokenInv ==
    /\ minted = IF token = "good" THEN EnvToken + 1 ELSE EnvToken
    /\ pc = "token write" => token = "empty" /\ ~setup.env
    /\ pc \in Past => tok = Mine
    /\ served \in {0, Mine}
    /\ pc \in Past \/ served # 0 => setup.env \/ token = "good"

\* What a boot knows on its way to serving.
PathInv ==
    /\ pc \in {"recheck", "verify", "register", "mark"} => result # "none"
    /\ pc = "recheck" => setup.mode # "agent"
    /\ pc = "reregister" => seen = TRUE
    /\ pc = "mark" /\ setup.integrated /\ setup.port = "declared" /\ ~sigterm
         => tried = box
    /\ pc \in {"register", "mark"} /\ setup.mode = "agent" /\ setup.verify
         => verdict = "pass"

IInv == TypeOK /\ TokenInv /\ PathInv /\ NeverSkipsBlind /\ Reregistered

-----------------------------------------------------------------------------
\* TypeOK in three parts, which different provers handle.
Flags == /\ marker \in BOOLEAN /\ app \in BOOLEAN /\ schedOn \in BOOLEAN
         /\ sigterm \in BOOLEAN /\ seen \in BOOLEAN

Symbols ==
    /\ setup \in Setups
    /\ node \in {"none", "empty", "good"} /\ token \in {"none", "empty", "good"}
    /\ pc \in PCs
    /\ result \in {"none", "ok", "failed", "error"}
    /\ verdict \in {"none", "pass", "fail"}

Counts ==
    /\ box \in Nat /\ boots \in Nat /\ minted \in Nat /\ tok \in Nat
    /\ served \in Nat /\ tried \in Nat /\ registered \in Nat
    /\ 1 <= box /\ box <= MaxContainers /\ boots <= MaxBoots
    /\ 1 <= minted /\ minted <= 2 /\ tok <= minted /\ served <= minted
    /\ tried <= box /\ registered <= tried

LEMMA Bounds == MaxContainers \in Nat /\ 1 <= MaxContainers /\ MaxBoots \in Nat
  <1>1. MaxContainers \in Nat /\ MaxContainers # 0 /\ MaxBoots \in Nat
    BY BootAssumption DEF BootAssumption
  <1>2. QED
    BY <1>1

\* For the numbers, as they are now and as a step leaves them.
LEMMA Interval ==
    ASSUME NEW lo \in Nat, NEW hi \in Nat, NEW x
    PROVE  x \in lo .. hi <=> x \in Nat /\ lo <= x /\ x <= hi
  OBVIOUS

LEMMA Numbers ==
    ASSUME NEW b, NEW n, NEW m, NEW o, NEW v, NEW t, NEW r
    PROVE  /\ b \in 1 .. MaxContainers /\ n \in 0 .. MaxBoots
           /\ m \in EnvToken .. EnvToken + 1 /\ o \in 0 .. m /\ v \in 0 .. m
           /\ t \in 0 .. b /\ r \in 0 .. t
           <=>
           /\ b \in Nat /\ n \in Nat /\ m \in Nat /\ o \in Nat /\ v \in Nat
           /\ t \in Nat /\ r \in Nat
           /\ 1 <= b /\ b <= MaxContainers /\ n <= MaxBoots
           /\ 1 <= m /\ m <= 2 /\ o <= m /\ v <= m /\ t <= b /\ r <= t
  <1>1. b \in 1 .. MaxContainers <=> b \in Nat /\ 1 <= b /\ b <= MaxContainers
    BY Interval, Bounds
  <1>2. n \in 0 .. MaxBoots <=> n \in Nat /\ n <= MaxBoots
    BY Bounds
  <1>3. m \in EnvToken .. EnvToken + 1 <=> m \in Nat /\ 1 <= m /\ m <= 2
    BY DEF EnvToken
  <1>4. ASSUME m \in Nat
        PROVE  /\ o \in 0 .. m <=> o \in Nat /\ o <= m
               /\ v \in 0 .. m <=> v \in Nat /\ v <= m
    BY <1>4
  <1>5. ASSUME b \in Nat PROVE t \in 0 .. b <=> t \in Nat /\ t <= b
    BY <1>5
  <1>6. ASSUME t \in Nat PROVE r \in 0 .. t <=> r \in Nat /\ r <= t
    BY <1>6
  <1>7. QED
    BY <1>1, <1>2, <1>3, <1>4, <1>5, <1>6, Zenon

LEMMA TypeParts ==
    /\ TypeOK <=> Flags /\ Symbols /\ Counts
    /\ TypeOK' <=> Flags' /\ Symbols' /\ Counts'
  <1>1. ({node, token} \subseteq {"none", "empty", "good"}
           <=> node \in {"none", "empty", "good"} /\ token \in {"none", "empty", "good"})
        /\ ({node, token}' \subseteq {"none", "empty", "good"}
           <=> node' \in {"none", "empty", "good"} /\ token' \in {"none", "empty", "good"})
    OBVIOUS
  <1>2. ({marker, app, schedOn, sigterm, seen} \subseteq BOOLEAN <=> Flags)
        /\ ({marker, app, schedOn, sigterm, seen}' \subseteq BOOLEAN <=> Flags')
    BY DEF Flags
  <1> DEFINE Ranges == /\ box \in 1 .. MaxContainers /\ boots \in 0 .. MaxBoots
                       /\ minted \in EnvToken .. EnvToken + 1
                       /\ tok \in 0 .. minted /\ served \in 0 .. minted
                       /\ tried \in 0 .. box /\ registered \in 0 .. tried
  <1>3. (Ranges <=> Counts) /\ (Ranges' <=> Counts')
    <2>1. Ranges <=> Counts
      BY Numbers, SMTT(30) DEF Counts
    <2>2. Ranges' <=> Counts'
      BY Numbers, SMTT(30) DEF Counts
    <2>3. QED
      BY <2>1, <2>2
  <1>4. TypeOK => Flags /\ Symbols /\ Counts
    BY <1>1, <1>2, <1>3, Zenon DEF TypeOK, Symbols
  <1>5. Flags /\ Symbols /\ Counts => TypeOK
    BY <1>1, <1>2, <1>3, Zenon DEF TypeOK, Symbols
  <1>6. TypeOK' => Flags' /\ Symbols' /\ Counts'
    BY <1>1, <1>2, <1>3, Zenon DEF TypeOK, Symbols
  <1>7. Flags' /\ Symbols' /\ Counts' => TypeOK'
    BY <1>1, <1>2, <1>3, Zenon DEF TypeOK, Symbols
  <1>8. QED
    BY <1>4, <1>5, <1>6, <1>7

LEMMA InitInv == Init => IInv
  <1> SUFFICES ASSUME Init PROVE IInv
    OBVIOUS
  <1>1. Flags
    BY DEF Init, Flags
  <1>2. Symbols /\ Counts
    BY Bounds DEF Init, Symbols, Counts, PCs, EnvToken
  <1>3. TokenInv
    BY DEF Init, TokenInv, Past, PCs, Mine, EnvToken
  <1>4. PathInv /\ NeverSkipsBlind /\ Reregistered
    BY DEF Init, PathInv, NeverSkipsBlind, Reregistered
  <1>5. QED
    BY <1>1, <1>2, <1>3, <1>4, TypeParts DEF IInv

LEMMA StepFlags == Flags /\ [Next]_vars => Flags'
  <1> SUFFICES ASSUME Flags, [Next]_vars PROVE Flags'
    OBVIOUS
  <1> USE DEF Flags, files, world, local, control
  <1>1. CASE NodeIdentity \/ ConnectClients
    BY <1>1 DEF NodeIdentity, ConnectClients, Goto, Exit
  <1>2. CASE EnsureToken
    BY <1>2 DEF EnsureToken
  <1>3. CASE StartFails \/ Stop \/ DaemonDies
    BY <1>3 DEF StartFails, Stop, DaemonDies, Exit
  <1>4. CASE FirstRun
    BY <1>4 DEF FirstRun, Goto, Serves
  <1>5. CASE Probe \/ Recheck
    BY <1>5 DEF Probe, Recheck, Goto
  <1>6. CASE Install
    BY <1>6 DEF Install, Outcomes, Goto
  <1>7. CASE Verify
    BY <1>7 DEF Verify, Goto, Serves
  <1>8. CASE Register \/ Reregister
    BY <1>8 DEF Register, Reregister, RegisterPort, Goto, Serves
  <1>9. CASE Mark
    BY <1>9 DEF Mark, Exit
  <1>10. CASE Start
    BY <1>10 DEF Start
  <1>11. CASE Sigterm \/ AppFlips
    BY <1>11 DEF Sigterm, AppFlips
  <1>12. CASE ContainerReplaced
    BY <1>12 DEF ContainerReplaced
  <1>13. CASE UNCHANGED vars
    BY <1>13 DEF vars
  <1>14. QED
    BY <1>1, <1>2, <1>3, <1>4, <1>5, <1>6, <1>7, <1>8, <1>9, <1>10, <1>11,
       <1>12, <1>13 DEF Next, Daemon

LEMMA StepSymbols == Symbols /\ [Next]_vars => Symbols'
  <1> SUFFICES ASSUME Symbols, [Next]_vars PROVE Symbols'
    OBVIOUS
  <1> USE DEF Symbols, PCs, files, world, local, control
  <1>1. CASE NodeIdentity \/ ConnectClients
    BY <1>1 DEF NodeIdentity, ConnectClients, Goto, Exit
  <1>2. CASE EnsureToken
    BY <1>2 DEF EnsureToken
  <1>3. CASE StartFails \/ Stop \/ DaemonDies
    BY <1>3 DEF StartFails, Stop, DaemonDies, Exit
  <1>4. CASE FirstRun
    BY <1>4 DEF FirstRun, Goto, Serves
  <1>5. CASE Probe \/ Recheck
    BY <1>5 DEF Probe, Recheck, Goto
  <1>6. CASE Install
    BY <1>6 DEF Install, Outcomes, Goto
  <1>7. CASE Verify
    BY <1>7 DEF Verify, Goto, Serves
  <1>8. CASE Register \/ Reregister
    BY <1>8 DEF Register, Reregister, RegisterPort, Goto, Serves
  <1>9. CASE Mark
    BY <1>9 DEF Mark, Exit
  <1>10. CASE Start
    BY <1>10 DEF Start
  <1>11. CASE Sigterm \/ AppFlips
    BY <1>11 DEF Sigterm, AppFlips
  <1>12. CASE ContainerReplaced
    BY <1>12 DEF ContainerReplaced
  <1>13. CASE UNCHANGED vars
    BY <1>13 DEF vars
  <1>14. QED
    BY <1>1, <1>2, <1>3, <1>4, <1>5, <1>6, <1>7, <1>8, <1>9, <1>10, <1>11,
       <1>12, <1>13 DEF Next, Daemon

LEMMA StepCounts == Counts /\ TokenInv /\ [Next]_vars => Counts'
  <1> SUFFICES ASSUME Counts, TokenInv, [Next]_vars PROVE Counts'
    OBVIOUS
  <1> USE Bounds DEF Counts, EnvToken, files, world, local, control
  <1>1. CASE NodeIdentity \/ ConnectClients
    BY <1>1 DEF NodeIdentity, ConnectClients, Goto, Exit
  <1>2. CASE EnsureToken
    <2>1. minted' = minted \/ (minted = 1 /\ minted' = 2)
      <3>1. CASE pc = "token write"
        <4>1. minted = 1
          BY <3>1 DEF TokenInv
        <4>2. minted' = minted + 1
          BY <1>2, <3>1 DEF EnsureToken
        <4>3. QED
          BY <4>1, <4>2
      <3>2. CASE pc # "token write"
        BY <1>2, <3>2 DEF EnsureToken
      <3>3. QED
        BY <3>1, <3>2
    <2>2. tok' \in {tok, 1, minted, minted'}
      BY <1>2 DEF EnsureToken
    <2>3. UNCHANGED <<box, boots, tried, registered, served>>
      BY <1>2 DEF EnsureToken
    <2>4. QED
      BY <2>1, <2>2, <2>3
  <1>3. CASE StartFails \/ Stop \/ DaemonDies
    BY <1>3 DEF StartFails, Stop, DaemonDies, Exit
  <1>4. CASE FirstRun
    BY <1>4 DEF FirstRun, Goto, Serves
  <1>5. CASE Probe \/ Recheck
    BY <1>5 DEF Probe, Recheck, Goto
  <1>6. CASE Install
    BY <1>6 DEF Install, Outcomes, Goto
  <1>7. CASE Verify
    BY <1>7 DEF Verify, Goto, Serves
  <1>8. CASE Register \/ Reregister
    BY <1>8 DEF Register, Reregister, RegisterPort, Goto, Serves
  <1>9. CASE Mark
    BY <1>9 DEF Mark, Exit
  <1>10. CASE Start
    BY <1>10 DEF Start
  <1>11. CASE Sigterm \/ AppFlips
    BY <1>11 DEF Sigterm, AppFlips
  <1>12. CASE ContainerReplaced
    BY <1>12 DEF ContainerReplaced
  <1>13. CASE UNCHANGED vars
    BY <1>13 DEF vars
  <1>14. QED
    BY <1>1, <1>2, <1>3, <1>4, <1>5, <1>6, <1>7, <1>8, <1>9, <1>10, <1>11,
       <1>12, <1>13 DEF Next, Daemon

LEMMA StepToken == TypeOK /\ TokenInv /\ [Next]_vars => TokenInv'
  <1> SUFFICES ASSUME TypeOK, TokenInv, [Next]_vars PROVE TokenInv'
    OBVIOUS
  <1> USE DEF TypeOK, TokenInv, PCs, Past, Mine, EnvToken, files, world, local,
              control
  <1>1. CASE NodeIdentity \/ ConnectClients
    BY <1>1 DEF NodeIdentity, ConnectClients, Goto, Exit
  <1>2. CASE EnsureToken
    BY <1>2 DEF EnsureToken
  <1>3. CASE StartFails \/ Stop \/ DaemonDies
    BY <1>3 DEF StartFails, Stop, DaemonDies, Exit
  <1>4. CASE FirstRun
    BY <1>4 DEF FirstRun, Goto, Serves
  <1>5. CASE Probe \/ Recheck
    BY <1>5 DEF Probe, Recheck, Goto
  <1>6. CASE Install
    BY <1>6 DEF Install, Goto
  <1>7. CASE Verify
    BY <1>7 DEF Verify, Goto, Serves
  <1>8. CASE Register \/ Reregister
    BY <1>8 DEF Register, Reregister, Goto, Serves
  <1>9. CASE Mark
    BY <1>9 DEF Mark, Exit
  <1>10. CASE Start
    BY <1>10 DEF Start
  <1>11. CASE Sigterm \/ AppFlips
    BY <1>11 DEF Sigterm, AppFlips
  <1>12. CASE ContainerReplaced
    BY <1>12 DEF ContainerReplaced
  <1>13. CASE UNCHANGED vars
    BY <1>13 DEF vars
  <1>14. QED
    BY <1>1, <1>2, <1>3, <1>4, <1>5, <1>6, <1>7, <1>8, <1>9, <1>10, <1>11,
       <1>12, <1>13 DEF Next, Daemon

LEMMA StepPath ==
    TypeOK /\ PathInv /\ NeverSkipsBlind /\ Reregistered /\ [Next]_vars
      => PathInv' /\ NeverSkipsBlind' /\ Reregistered'
  <1> SUFFICES ASSUME TypeOK, PathInv, NeverSkipsBlind, Reregistered,
                      [Next]_vars
               PROVE  PathInv' /\ NeverSkipsBlind' /\ Reregistered'
    OBVIOUS
  <1> USE DEF TypeOK, PathInv, NeverSkipsBlind, Reregistered, Installs, files,
              world, local, control
  <1>1. CASE NodeIdentity \/ ConnectClients \/ EnsureToken
    BY <1>1 DEF NodeIdentity, ConnectClients, EnsureToken, Goto, Exit
  <1>3. CASE StartFails \/ Stop \/ DaemonDies
    BY <1>3 DEF StartFails, Stop, DaemonDies, Exit
  <1>4. CASE FirstRun
    <2>1. UNCHANGED <<setup, schedOn, seen, result, verdict, tried, registered, box>>
      BY <1>4 DEF FirstRun, Goto, Serves
    <2>2. CASE pc' = "serve"
      <3>1. ~Installs
        BY <1>4, <2>2 DEF FirstRun, Goto
      <3>2. ~Installs'
        BY <2>1, <3>1
      <3>3. QED
        BY <2>2, <3>2
    <2>3. CASE pc' # "serve"
      <3>1. pc' \in {"probe", "install"}
        BY <1>4, <2>3 DEF FirstRun, Goto, Serves
      <3>2. QED
        BY <3>1
    <2>4. QED
      BY <2>2, <2>3
  <1>5. CASE Probe \/ Recheck
    BY <1>5 DEF Probe, Recheck, Goto
  <1>6. CASE Install
    BY <1>6 DEF Install, Outcomes, Goto
  <1>7. CASE Verify
    BY <1>7 DEF Verify, Goto, Serves
  <1>8. CASE Register \/ Reregister
    <2>1. ASSUME setup.integrated, setup.port = "declared", ~sigterm
          PROVE  tried' = box
      BY <1>8, <2>1, Zenon DEF Register, Reregister, RegisterPort, Resolved
    <2>2. CASE Register
      <3>1. /\ pc = "register" /\ pc' = "mark"
            /\ UNCHANGED <<setup, schedOn, sigterm, box, local>>
        BY <2>2 DEF Register, Goto
      <3>2. QED
        BY <2>1, <3>1
    <2>3. CASE Reregister
      <3>1. /\ pc = "reregister" /\ pc' = "serve"
            /\ UNCHANGED <<setup, schedOn, sigterm, box, local>>
        BY <2>3 DEF Reregister, Serves
      <3>2. QED
        BY <2>1, <3>1
    <2>4. QED
      BY <1>8, <2>2, <2>3
  <1>9. CASE Mark
    BY <1>9 DEF Mark, Exit
  <1>10. CASE Start
    BY <1>10 DEF Start
  <1>11. CASE Sigterm \/ AppFlips
    BY <1>11 DEF Sigterm, AppFlips
  <1>12. CASE ContainerReplaced
    BY <1>12 DEF ContainerReplaced
  <1>13. CASE UNCHANGED vars
    BY <1>13 DEF vars
  <1>14. QED
    BY <1>1, <1>3, <1>4, <1>5, <1>6, <1>7, <1>8, <1>9, <1>10, <1>11,
       <1>12, <1>13 DEF Next, Daemon

LEMMA StepInv == IInv /\ [Next]_vars => IInv'
  BY StepFlags, StepSymbols, StepCounts, StepToken, StepPath, TypeParts DEF IInv

-----------------------------------------------------------------------------
\* No boot serves on the strength of a stale marker: it saw the app's port open
\* or ran the install itself.
THEOREM NeverSkipsBlindHolds == Spec => []NeverSkipsBlind
  <1>1. IInv => NeverSkipsBlind
    BY DEF IInv
  <1>2. QED
    BY <1>1, InitInv, StepInv, PTL DEF Spec

\* An integrated daemon whose app declares its port, that no signal has cancelled
\* and that serves, has named the container it runs in to the control plane, on
\* every path but the one on which its verifier refused the install.
THEOREM ReregisteredHolds == Spec => []Reregistered
  <1>1. IInv => Reregistered
    BY DEF IInv
  <1>2. QED
    BY <1>1, InitInv, StepInv, PTL DEF Spec

\* MCP clients keep their token over any number of restarts, replaced
\* containers and deaths in the middle of writing it, and it is never empty.
THEOREM TokenSurvivesHolds == Spec => TokenSurvives
  <1>1. ASSUME IInv, [Next]_vars
        PROVE  [pc' = "serve" => tok' # 0 /\ served \in {0, tok'}]_vars
    <2> SUFFICES ASSUME pc' = "serve", Next PROVE tok' # 0 /\ served \in {0, tok'}
      BY <1>1
    <2>1. TokenInv /\ TokenInv'
      BY <1>1, StepInv DEF IInv
    <2>2. tok' = Mine' /\ Mine' # 0
      <3>1. pc' \in Past
        BY DEF Past, PCs
      <3>2. tok' = Mine'
        BY <2>1, <3>1 DEF TokenInv
      <3>3. minted' = EnvToken + 1 \/ minted' = EnvToken
        BY <2>1 DEF TokenInv
      <3>4. Mine' = EnvToken \/ Mine' = minted'
        BY DEF Mine, EnvToken
      <3>5. QED
        BY <3>2, <3>3, <3>4 DEF EnvToken
    <2>3. UNCHANGED <<setup, minted>>
      BY DEF Next, Daemon, NodeIdentity, ConnectClients, EnsureToken,
             StartFails, FirstRun, Probe, Install, Recheck, Verify, Register, Reregister, Mark,
             Start, Stop, Sigterm, DaemonDies, ContainerReplaced, AppFlips,
             Goto, Exit, Serves, files, world
    <2>4. QED
      BY <2>1, <2>2, <2>3 DEF TokenInv, Mine
  <1>2. QED
    BY <1>1, InitInv, StepInv, PTL DEF Spec, TokenSurvives

\* With a verify_prompt, the marker is written only after the verifier passed.
THEOREM MarkerVerifiedHolds == Spec => MarkerVerified
  <1>1. ASSUME IInv, [Next]_vars
        PROVE  [setup.mode = "agent" /\ setup.verify /\ marker' # marker
                  => verdict = "pass"]_marker
    <2> SUFFICES ASSUME Next, marker' # marker, setup.mode = "agent",
                        setup.verify
                 PROVE  verdict = "pass"
      BY <1>1 DEF vars, files
    <2>1. pc = "mark"
      BY DEF Next, Daemon, NodeIdentity, ConnectClients, EnsureToken,
             StartFails, FirstRun, Probe, Install, Recheck, Verify, Register, Reregister, Mark,
             Start, Stop, Sigterm, DaemonDies, ContainerReplaced, AppFlips,
             Goto, Exit, Serves, files
    <2>2. QED
      BY <1>1, <2>1 DEF IInv, PathInv
  <1>2. QED
    BY <1>1, InitInv, StepInv, PTL DEF Spec, MarkerVerified

\* Whatever starts, kills and replacements the instance goes through, every
\* variable stays in the range its code gives it; tokens, and containers sent
\* and routed to, in the order of their numbers.
THEOREM BootTypeHolds == Spec => []TypeOK
  <1>1. IInv => TypeOK
    BY DEF IInv
  <1>2. QED
    BY <1>1, InitInv, StepInv, PTL DEF Spec

-----------------------------------------------------------------------------
(* Where the marker is earned                                              *)

\* The instance has no bootstrap whose run can fail without an error and
\* without a verifier: the two the run boot_marker is about.
Judged ==
    \A s \in Setups : s.mode \in {"agent", "cheatsheet"}
                        => s.mode = "agent" /\ s.verify

\* What an install on its way to the marker has to show for itself.
EarnedInv ==
    /\ result = "failed" => setup.mode \in {"agent", "cheatsheet"}
    /\ pc \in {"register", "mark"} =>
          result \in {"ok", "failed"} \/ seen = TRUE \/ verdict = "pass"

LEMMA StepEarned == EarnedInv /\ [Next]_vars => EarnedInv'
  <1> SUFFICES ASSUME EarnedInv, [Next]_vars PROVE EarnedInv'
    OBVIOUS
  <1> USE DEF EarnedInv, files, world, local, control
  <1>1. CASE NodeIdentity \/ ConnectClients \/ EnsureToken
    BY <1>1 DEF NodeIdentity, ConnectClients, EnsureToken, Goto, Exit
  <1>2. CASE StartFails \/ Stop \/ DaemonDies
    BY <1>2 DEF StartFails, Stop, DaemonDies, Exit
  <1>3. CASE FirstRun
    BY <1>3 DEF FirstRun, Goto, Serves
  <1>4. CASE Probe
    BY <1>4 DEF Probe, Goto
  <1>5. CASE Recheck
    <2>1. app # TRUE => pc' # "register" /\ pc' # "mark"
      BY <1>5 DEF Recheck, Goto
    <2>2. QED
      BY <1>5, <2>1 DEF Recheck, Goto
  <1>6. CASE Install
    BY <1>6 DEF Install, Outcomes, Goto
  <1>7. CASE Verify
    BY <1>7 DEF Verify, Goto, Serves
  <1>8. CASE Register \/ Reregister
    BY <1>8 DEF Register, Reregister, RegisterPort, Goto, Serves
  <1>9. CASE Mark
    BY <1>9 DEF Mark, Exit
  <1>10. CASE Start
    BY <1>10 DEF Start
  <1>11. CASE Sigterm \/ AppFlips
    BY <1>11 DEF Sigterm, AppFlips
  <1>12. CASE ContainerReplaced
    BY <1>12 DEF ContainerReplaced
  <1>13. CASE UNCHANGED vars
    BY <1>13 DEF vars
  <1>14. QED
    BY <1>1, <1>2, <1>3, <1>4, <1>5, <1>6, <1>7, <1>8, <1>9, <1>10, <1>11,
       <1>12, <1>13 DEF Next, Daemon

\* The marker is written only after an install that succeeded, with the app's
\* port open, or with the verifier's word, in every mode but the two in which
\* the run boot_marker finds it written after a failure.
THEOREM MarkerEarnedElsewhere == ASSUME Judged PROVE Spec => MarkerEarned
  <1>1. Init => EarnedInv
    BY DEF Init, EarnedInv
  <1>2. ASSUME IInv, EarnedInv, [Next]_vars
        PROVE  [marker' # marker => result = "ok" \/ seen \/ verdict = "pass"]_marker
    <2> SUFFICES ASSUME Next, marker' # marker
                 PROVE  result = "ok" \/ seen = TRUE \/ verdict = "pass"
      BY <1>2 DEF vars, files
    <2>1. pc = "mark"
      BY DEF Next, Daemon, NodeIdentity, ConnectClients, EnsureToken,
             StartFails, FirstRun, Probe, Install, Recheck, Verify, Register, Reregister, Mark,
             Start, Stop, Sigterm, DaemonDies, ContainerReplaced, AppFlips,
             Goto, Exit, Serves, files
    <2>2. result = "failed" => setup.mode = "agent" /\ setup.verify
      BY <1>2 DEF EarnedInv, IInv, TypeOK, Judged
    <2>3. QED
      BY <1>2, <2>1, <2>2 DEF EarnedInv, IInv, PathInv
  <1>3. QED
    BY <1>1, <1>2, InitInv, StepInv, StepEarned, PTL DEF Spec, MarkerEarned
=============================================================================
