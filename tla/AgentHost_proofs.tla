-------------------------- MODULE AgentHost_proofs --------------------------
(***************************************************************************)
(* Proofs about PanelHardening and AgentHost, for every number of faults,  *)
(* commands and changes of the panel.                                      *)
(*                                                                         *)
(* ClosedInv is what a hardening on its way knows of the panel's settings; *)
(* it is an invariant of every step of the host because each of them is a  *)
(* step of a hardening, the end of one, or leaves the panel alone.         *)
(* RoleInv relates the services to the files that mark their roles, and    *)
(* InstallInv the copies of agent.json to an installation on its way.      *)
(* Together with TypeOK they are inductive.                                *)
(***************************************************************************)
EXTENDS AgentHost, TLAPS

\* Past the certificate files, and past the look at the port.
ClosedInv ==
  \A p \in sound :
    /\ place[p] \in {"relook", "bind", "bindWait", "finish"} => ~certs
    /\ place[p] \in {"bindWait", "finish"} => ~bindAll
    /\ result[p] = "ok" => ~certs /\ ~bindAll

\* A service has its unit for as long as it is not stopped; an uninstall stops it
\* first and has no installation beside it.
RoleInv ==
  /\ service # "off" => "agentUnit" \in marks
  /\ master # "off" => "masterUnit" \in marks
  /\ script = "unit" => "agentUnit" \in marks
  /\ installer = "unit" => "masterUnit" \in marks
  /\ uninstall # "idle" => script = "idle" /\ ~InstallerRuns
  /\ uninstall \notin {"idle", "agent"} => service = "off"
  /\ uninstall \in {"masterStopped", "masterUnitGone"} => master = "off"
  /\ NeverBoth

HasToken(c) == c.token = 1
Kept(c) == c.token = 1 /\ c.pass

\* From the stop of the old service on nobody holds an older copy.
InstallInv ==
  /\ script \in {"stopped", "pwd", "unit"} => service = "off"
  /\ script \in {"unit", "done"} => (file # Bad => file \in Configs /\ Kept(file))
  /\ script = "pwd" => (file # Bad => file \in Configs /\ HasToken(file))
  /\ script \in {"pwd", "unit", "done"} /\ setpwd \in {"loaded", "verified", "hardening"} =>
       HasToken(mem[Setpwd])
  /\ script \in {"unit", "done"} /\ setpwd \in {"loaded", "verified", "hardening"} =>
       mem[Setpwd].pass
  /\ setpwd = "hardening" => mem[Setpwd].pass
  /\ script = "pwd" /\ setpwd \in {"hardening", "done"} => (file # Bad => file.pass)
  /\ script = "done" /\ service \in {"loaded", "hardening", "serving"} => Kept(mem[Service])

HardenInv == HardenTypeOK /\ ClosedInv

-----------------------------------------------------------------------------
(***************************************************************************)
(* The hardening.                                                          *)
(***************************************************************************)
LEMMA PanelStatesUp == \A s, a \in BOOLEAN : Up(s, a) \in PanelStates
BY DEF PanelStates

LEMMA PanelStatesDown == Down \in PanelStates
BY DEF PanelStates

\* Where p goes and how it ends.
LEMMA GotoTyped ==
  ASSUME place \in [Hardeners -> Places], NEW p \in Hardeners, NEW there \in Places,
         place' = [place EXCEPT ![p] = there]
  PROVE  /\ place' \in [Hardeners -> Places]
         /\ place'[p] = there
         /\ \A q \in Hardeners \ {p} : place'[q] = place[q]
OBVIOUS

LEMMA EndTyped ==
  ASSUME result \in [Hardeners -> {"none", "ok", "error"}], NEW p \in Hardeners,
         NEW how \in {"none", "ok", "error"},
         result' = [result EXCEPT ![p] = how]
  PROVE  /\ result' \in [Hardeners -> {"none", "ok", "error"}]
         /\ result'[p] = how
         /\ \A q \in Hardeners \ {p} : result'[q] = result[q]
OBVIOUS

LEMMA PlacesList ==
  {"out", "fill", "look", "sslOff", "sslWait", "relook", "bind", "bindWait", "finish"} = Places
BY DEF Places

\* The panel restarts, or its user changes it and no hardening is sound any more.
LEMMA PanelKeeps == HardenInv /\ PanelStep => HardenInv'
<1> SUFFICES ASSUME HardenTypeOK, ClosedInv, PanelStep
             PROVE  HardenTypeOK' /\ ClosedInv'
  BY DEF HardenInv
<1>1. CASE PanelStops
  BY <1>1, PanelStatesDown DEF PanelStops, HardenTypeOK, ClosedInv, settings
<1>2. CASE PanelStarts
  BY <1>2, PanelStatesUp DEF PanelStarts, HardenTypeOK, ClosedInv, settings
<1>3. CASE AdminChanges
  <2>1. certs' \in BOOLEAN /\ bindAll' \in BOOLEAN
    BY <1>3, Zenon DEF AdminChanges, HardenTypeOK
  <2>2. admin' \in 0 .. MaxAdmin
    BY <1>3, AdminAssumption DEF AdminChanges, HardenTypeOK
  <2>3. /\ sound' = {}
        /\ UNCHANGED <<panel, place, https, result>>
    BY <1>3 DEF AdminChanges
  <2>4. HardenTypeOK'
    BY <2>1, <2>2, <2>3 DEF HardenTypeOK
  <2>5. ClosedInv'
    BY <2>3 DEF ClosedInv
  <2>6. QED
    BY <2>4, <2>5
<1>4. QED
  BY <1>1, <1>2, <1>3 DEF PanelStep

\* A process that is killed, and one that ends with an error.
LEMMA LeavingKeeps ==
  ASSUME HardenInv, NEW p \in Hardeners, NEW how \in {"none", "error"},
         place' = [place EXCEPT ![p] = "out"],
         result' = [result EXCEPT ![p] = how],
         certs' \in BOOLEAN, bindAll' \in BOOLEAN, certs' => certs, bindAll' => bindAll,
         UNCHANGED <<panel, https, sound, admin>>
  PROVE  HardenInv'
<1>1. HardenTypeOK /\ ClosedInv
  BY DEF HardenInv
<1>2. "out" \in Places
  BY PlacesList
<1>3. place' \in [Hardeners -> Places] /\ place'[p] = "out" /\ \A q \in Hardeners \ {p} : place'[q] = place[q]
  BY <1>1, <1>2, GotoTyped DEF HardenTypeOK
<1>4. /\ result' \in [Hardeners -> {"none", "ok", "error"}]
      /\ result'[p] = how
      /\ \A q \in Hardeners \ {p} : result'[q] = result[q]
  BY <1>1, EndTyped DEF HardenTypeOK
<1>5. HardenTypeOK'
  BY <1>1, <1>3, <1>4 DEF HardenTypeOK
<1>6. ClosedInv'
  BY <1>1, <1>3, <1>4 DEF HardenTypeOK, ClosedInv
<1>7. QED
  BY <1>5, <1>6 DEF HardenInv

\* p goes from one place to the next without a result, and knows there what it must.
LEMMA GoingKeeps ==
  ASSUME HardenInv, NEW p \in Hardeners, NEW there \in Places,
         place' = [place EXCEPT ![p] = there],
         certs' \in BOOLEAN, bindAll' \in BOOLEAN, certs' => certs, bindAll' => bindAll,
         https' \in [Hardeners -> BOOLEAN],
         sound' \subseteq sound,
         p \in sound' /\ there \in {"relook", "bind", "bindWait", "finish"} => ~certs',
         p \in sound' /\ there \in {"bindWait", "finish"} => ~bindAll',
         UNCHANGED <<panel, result, admin>>
  PROVE  HardenInv'
<1>1. HardenTypeOK /\ ClosedInv
  BY DEF HardenInv
<1>2. place' \in [Hardeners -> Places] /\ place'[p] = there /\ \A q \in Hardeners \ {p} : place'[q] = place[q]
  BY <1>1, GotoTyped DEF HardenTypeOK
<1>3. HardenTypeOK'
  BY <1>1, <1>2 DEF HardenTypeOK
<1>4. ClosedInv'
  <2>1. SUFFICES ASSUME NEW q \in sound'
                 PROVE  /\ place'[q] \in {"relook", "bind", "bindWait", "finish"} => ~certs'
                        /\ place'[q] \in {"bindWait", "finish"} => ~bindAll'
                        /\ result'[q] = "ok" => ~certs' /\ ~bindAll'
    BY DEF ClosedInv
  <2>2. q \in sound /\ q \in Hardeners /\ result' = result
    BY <1>1 DEF HardenTypeOK
  <2>3. result'[q] = "ok" => ~certs' /\ ~bindAll'
    <3>1. result[q] = "ok" => ~certs /\ ~bindAll
      BY <1>1, <2>2 DEF ClosedInv
    <3>2. QED
      BY <2>2, <3>1, Zenon
  <2>4. CASE q = p
    BY <1>2, <2>3, <2>4
  <2>5. CASE q # p
    BY <1>1, <1>2, <2>2, <2>3, <2>5 DEF ClosedInv
  <2>6. QED
    BY <2>4, <2>5
<1>5. QED
  BY <1>3, <1>4 DEF HardenInv

\* p is through, and its looks met a panel at rest or do not count.
LEMMA OkKeeps ==
  ASSUME HardenInv, NEW p \in Hardeners,
         place' = [place EXCEPT ![p] = "out"],
         result' = [result EXCEPT ![p] = "ok"],
         https' \in [Hardeners -> BOOLEAN],
         sound' \subseteq sound,
         p \in sound' => ~certs /\ ~bindAll,
         UNCHANGED <<certs, bindAll, panel, admin>>
  PROVE  HardenInv'
<1>1. HardenTypeOK /\ ClosedInv
  BY DEF HardenInv
<1>2. "out" \in Places
  BY PlacesList
<1>3. place' \in [Hardeners -> Places] /\ place'[p] = "out" /\ \A q \in Hardeners \ {p} : place'[q] = place[q]
  BY <1>1, <1>2, GotoTyped DEF HardenTypeOK
<1>4. /\ result' \in [Hardeners -> {"none", "ok", "error"}]
      /\ result'[p] = "ok"
      /\ \A q \in Hardeners \ {p} : result'[q] = result[q]
  BY <1>1, EndTyped DEF HardenTypeOK
<1>5. HardenTypeOK'
  BY <1>1, <1>3, <1>4 DEF HardenTypeOK
<1>6. ClosedInv'
  BY <1>1, <1>3, <1>4 DEF HardenTypeOK, ClosedInv
<1>7. QED
  BY <1>5, <1>6 DEF HardenInv

\* What a look at the port says of the settings.
LEMMA LookSays ==
  ASSUME HardenTypeOK, NEW p \in Hardeners, LookedAt(p), ~ListensExternally
  PROVE  sound' \subseteq sound /\ (p \in sound' => ~bindAll)
BY DEF LookedAt, ListensExternally, AtRest, Up, HardenTypeOK

\* Every step of a hardening.
LEMMA HardenKeeps ==
  ASSUME HardenInv, NEW p \in Hardeners,
         Begin(p) \/ HardenLoggedIn(p) \/ HardenSaving(p) \/ HardenQuietly(p)
  PROVE  HardenInv'
<1>1. HardenTypeOK /\ ClosedInv
  BY DEF HardenInv
<1>2. place \in [Hardeners -> Places] /\ https \in [Hardeners -> BOOLEAN] /\ sound \subseteq Hardeners
      /\ certs \in BOOLEAN /\ bindAll \in BOOLEAN
  BY <1>1 DEF HardenTypeOK
<1>3. CASE Begin(p)
  <2>1. "fill" \in Places
    BY PlacesList
  <2>2. place' \in [Hardeners -> Places] /\ place'[p] = "fill" /\ \A q \in Hardeners \ {p} : place'[q] = place[q]
    BY <1>2, <1>3, <2>1, GotoTyped DEF Begin, Goto
  <2>3. /\ result' \in [Hardeners -> {"none", "ok", "error"}]
        /\ result'[p] = "none"
        /\ \A q \in Hardeners \ {p} : result'[q] = result[q]
    BY <1>1, <1>3, EndTyped DEF HardenTypeOK, Begin
  <2>4. sound' = sound \cup {p} /\ UNCHANGED <<certs, bindAll, panel, https, admin>>
    BY <1>3 DEF Begin, settings
  <2>5. HardenTypeOK'
    BY <1>1, <2>2, <2>3, <2>4 DEF HardenTypeOK
  <2>6. ClosedInv'
    BY <1>1, <2>2, <2>3, <2>4 DEF HardenTypeOK, ClosedInv
  <2>7. QED
    BY <2>5, <2>6 DEF HardenInv
<1>4. CASE Fill(p)
  BY <1>2, <1>4, GoingKeeps, PlacesList DEF Fill, Goto, settings
<1>5. CASE Compliant(p)
  BY <1>1, <1>2, <1>5, LookSays, OkKeeps DEF Compliant, End, Goto, settings
<1>6. CASE NeedsWork(p)
  BY <1>2, <1>6, GoingKeeps, PlacesList DEF NeedsWork, Goto, settings
<1>7. CASE SslOff(p)
  BY <1>2, <1>7, GoingKeeps, PlacesList DEF SslOff, Goto
<1>8. CASE SslGone(p)
  BY <1>2, <1>8, GoingKeeps, PlacesList DEF SslGone, Goto, settings
<1>9. CASE Relook(p)
  <2>1. At(p, "relook") /\ UNCHANGED <<certs, bindAll, panel, https, result, admin>>
    BY <1>9 DEF Relook, settings
  <2>2. p \in sound => ~certs
    BY <1>1, <2>1 DEF At, ClosedInv
  <2>3. CASE ListensExternally
    BY <1>2, <1>9, <2>1, <2>2, <2>3, GoingKeeps, PlacesList DEF Relook, Goto
  <2>4. CASE ~ListensExternally
    BY <1>1, <1>2, <1>9, <2>1, <2>2, <2>4, LookSays, GoingKeeps, PlacesList DEF Relook, Goto
  <2>5. QED
    BY <2>3, <2>4
<1>10. CASE Bind(p)
  <2>1. p \in sound => ~certs
    BY <1>1, <1>10 DEF Bind, At, ClosedInv
  <2>2. QED
    BY <1>2, <1>10, <2>1, GoingKeeps, PlacesList DEF Bind, Goto
<1>11. CASE BindDone(p)
  <2>1. p \in sound => ~certs /\ ~bindAll
    BY <1>1, <1>11 DEF BindDone, At, ClosedInv
  <2>2. QED
    BY <1>2, <1>11, <2>1, GoingKeeps, PlacesList DEF BindDone, Goto, settings
<1>12. CASE Finish(p)
  <2>1. p \in sound => ~certs /\ ~bindAll
    BY <1>1, <1>12 DEF Finish, At, ClosedInv
  <2>2. QED
    BY <1>2, <1>12, <2>1, OkKeeps DEF Finish, End, Goto, settings
<1>13. CASE HardenFails(p)
  BY <1>2, <1>13, LeavingKeeps DEF HardenFails, Fails, End, Goto, settings
<1>14. CASE AnswerLost(p)
  <2>1. certs' \in BOOLEAN /\ bindAll' \in BOOLEAN /\ (certs' => certs) /\ (bindAll' => bindAll)
    <3>1. (certs' = FALSE /\ bindAll' = bindAll) \/ (bindAll' = FALSE /\ certs' = certs)
      BY <1>14 DEF AnswerLost
    <3>2. CASE certs' = FALSE /\ bindAll' = bindAll
      BY <1>2, <3>2, Zenon
    <3>3. CASE bindAll' = FALSE /\ certs' = certs
      BY <1>2, <3>3, Zenon
    <3>4. QED
      BY <3>1, <3>2, <3>3
  <2>2. /\ place' = [place EXCEPT ![p] = "out"]
        /\ result' = [result EXCEPT ![p] = "error"]
        /\ UNCHANGED <<panel, https, sound, admin>>
    BY <1>14 DEF AnswerLost, End, Goto
  <2>3. QED
    BY <2>1, <2>2, LeavingKeeps
<1>15. QED
  BY <1>3, <1>4, <1>5, <1>6, <1>7, <1>8, <1>9, <1>10, <1>11, <1>12, <1>13, <1>14
     DEF HardenLoggedIn, HardenSaving, HardenQuietly

-----------------------------------------------------------------------------
(***************************************************************************)
(* What a step of the host is to the panel and its hardenings.             *)
(***************************************************************************)
LEMMA TheHardeners == Service \in Hardeners /\ Setpwd \in Hardeners
BY HostAssumption

LEMMA KilledKeeps ==
  ASSUME HardenInv, NEW p \in Hardeners, Killed(p)
  PROVE  HardenInv'
BY LeavingKeeps DEF Killed, settings, HardenInv, HardenTypeOK

LEMMA UnchangedKeeps == HardenInv /\ UNCHANGED hardenVars => HardenInv'
BY DEF HardenInv, HardenTypeOK, ClosedInv, hardenVars

LEMMA RebootKeeps == HardenInv /\ Reboot => HardenInv'
<1> SUFFICES ASSUME HardenTypeOK, ClosedInv, Reboot
             PROVE  HardenTypeOK' /\ ClosedInv'
  BY DEF HardenInv
<1>1. place' = [p \in Hardeners |-> "out"] /\ result' = [p \in Hardeners |-> "none"]
      /\ panel' = Down /\ UNCHANGED <<certs, bindAll, https, sound, admin>>
  BY DEF Reboot, settings
<1>2. place' \in [Hardeners -> Places]
  BY <1>1, PlacesList
<1>3. HardenTypeOK'
  BY <1>1, <1>2, PanelStatesDown DEF HardenTypeOK
<1>4. ClosedInv'
  BY <1>1 DEF HardenTypeOK, ClosedInv
<1>5. QED
  BY <1>3, <1>4

LEMMA HostHardens == HardenInv /\ [Next]_vars => HardenInv'
<1> SUFFICES ASSUME HardenInv, [Next]_vars
             PROVE  HardenInv'
  OBVIOUS
<1>1. CASE PanelActs
  BY <1>1, PanelKeeps DEF PanelActs
<1>2. ASSUME NEW p \in Hardeners, HardenStep(p)
      PROVE  HardenInv'
  BY <1>2, HardenKeeps DEF HardenStep
<1>3. CASE ServiceNext
  <2>1. Begin(Service) \/ UNCHANGED hardenVars
    BY <1>3 DEF ServiceNext, ServiceLoads, ServiceChecks, ServiceServes, ApplyMasterTLS, ServiceRestarts
  <2>2. QED
    BY <2>1, TheHardeners, HardenKeeps, UnchangedKeeps
<1>4. CASE SetpwdNext
  <2>1. Begin(Setpwd) \/ UNCHANGED hardenVars
    BY <1>4 DEF SetpwdNext, SetpwdByHand, SetpwdLoads, SetpwdVerifies, SetpwdSaves, SetpwdEnds, SetpwdFails
  <2>2. QED
    BY <2>1, TheHardeners, HardenKeeps, UnchangedKeeps
<1>5. CASE ScriptNext
  <2>1. Killed(Service) \/ UNCHANGED hardenVars
    BY <1>5 DEF ScriptNext, ScriptChecks, ScriptStops, ScriptInstalls, ScriptAsks, ScriptWritesUnit,
                ScriptStarts, ScriptDies
  <2>2. QED
    BY <2>1, TheHardeners, KilledKeeps, UnchangedKeeps
<1>6. CASE MasterNext
  BY <1>6, UnchangedKeeps DEF MasterNext
<1>7. CASE UninstallNext
  <2>1. Killed(Service) \/ UNCHANGED hardenVars
    BY <1>7 DEF UninstallNext, UninstallStarts, UninstallStopsAgent, UninstallRemovesAgentUnit,
                UninstallRemovesConfig, UninstallStopsMaster, UninstallRemovesMasterUnit, UninstallRemovesState
  <2>2. QED
    BY <2>1, TheHardeners, KilledKeeps, UnchangedKeeps
<1>8. CASE MasterCrash
  BY <1>8, UnchangedKeeps DEF MasterCrash
<1>9. CASE Reboot
  BY <1>9, RebootKeeps
<1>10. ASSUME NEW p \in Hardeners, Crash(p)
       PROVE  HardenInv'
  BY <1>10, KilledKeeps DEF Crash
<1>11. CASE UNCHANGED vars
  BY <1>11, UnchangedKeeps DEF vars
<1>12. QED
  BY <1>1, <1>2, <1>3, <1>4, <1>5, <1>6, <1>7, <1>8, <1>9, <1>10, <1>11 DEF Next, FaultNext

LEMMA HardenInvInit == Init => HardenInv
<1> SUFFICES ASSUME HardenInit
             PROVE  HardenInv
  BY DEF Init
<1>1. panel \in PanelStates
  BY PanelStatesUp DEF HardenInit
<1>2. place \in [Hardeners -> Places]
  BY PlacesList DEF HardenInit
<1>3. HardenTypeOK
  BY <1>1, <1>2, AdminAssumption DEF HardenInit, HardenTypeOK
<1>4. ClosedInv
  BY DEF HardenInit, ClosedInv
<1>5. QED
  BY <1>3, <1>4 DEF HardenInv

\* A hardening that ended well, and met a panel at rest whenever it looked, leaves the
\* panel closed, through every restart, crash and installation on the host.
THEOREM Closed == Spec => []HardenedMeansClosed
<1>1. HardenInv => HardenedMeansClosed
  BY DEF HardenInv, ClosedInv, HardenedMeansClosed
<1>2. QED
  BY <1>1, HardenInvInit, HostHardens, PTL DEF Spec

-----------------------------------------------------------------------------
(***************************************************************************)
(* Types.                                                                  *)
(***************************************************************************)
LEMMA ConfigFields ==
  ASSUME NEW c \in Configs
  PROVE  c.token \in {0, 1} /\ c.pass \in BOOLEAN /\ c.tls \in BOOLEAN
BY DEF Configs

LEMMA EmptyIsConfig == EmptyConfig \in Configs
BY DEF EmptyConfig, Configs

LEMMA PassSet ==
  ASSUME NEW c \in Configs
  PROVE  /\ [c EXCEPT !.pass = TRUE] \in Configs
         /\ [c EXCEPT !.pass = TRUE].pass
         /\ [c EXCEPT !.pass = TRUE].token = c.token
BY DEF Configs

LEMMA TlsSet ==
  ASSUME NEW c \in Configs, NEW b \in BOOLEAN
  PROVE  /\ [c EXCEPT !.tls = b] \in Configs
         /\ [c EXCEPT !.tls = b].pass = c.pass
         /\ [c EXCEPT !.tls = b].token = c.token
BY DEF Configs

LEMMA TokenSet ==
  ASSUME NEW c \in Configs, NEW b \in BOOLEAN
  PROVE  /\ [c EXCEPT !.token = 1, !.tls = b] \in Configs
         /\ [c EXCEPT !.token = 1, !.tls = b].pass = c.pass
         /\ [c EXCEPT !.token = 1, !.tls = b].token = 1
BY DEF Configs

\* What LoadOrEmpty returns.
LEMMA LoadedTyped == file \in Configs \cup {Absent, Bad} /\ file # Bad => Loaded \in Configs
BY EmptyIsConfig DEF Loaded

\* The file after a process has been killed, and after a write.
LEMMA KilledFile == ASSUME NEW p, Killed(p) PROVE file' \in {file, Bad}
BY DEF Killed

LEMMA SavedFile == ASSUME NEW c, Save(c) PROVE file' \in {file, c, Bad}
BY DEF Save

LEMMA HostTypeInit == Init => HostTypeOK
<1> SUFFICES ASSUME Init
             PROVE  HostTypeOK
  OBVIOUS
<1>1. file \in Configs \cup {Absent, Bad}
  BY EmptyIsConfig, PassSet DEF Init
<1>2. mem \in [Hardeners -> Configs]
  BY EmptyIsConfig DEF Init
<1>3. marks \subseteq Marks
  BY DEF Init, Marks
<1>4. QED
  BY <1>1, <1>2, <1>3, BoundsAssumption DEF Init, HostTypeOK

LEMMA ServiceTyped == HostTypeOK /\ ServiceNext => HostTypeOK'
<1> SUFFICES ASSUME HostTypeOK, ServiceNext
             PROVE  HostTypeOK'
  OBVIOUS
<1>1. mem \in [Hardeners -> Configs] /\ file \in Configs \cup {Absent, Bad}
  BY DEF HostTypeOK
<1>2. mem' \in [Hardeners -> Configs] /\ file' \in Configs \cup {Absent, Bad}
  <2>1. CASE ApplyMasterTLS
    <3> DEFINE c == [mem[Service] EXCEPT !.tls = ~@]
    <3>1. c \in Configs
      BY <1>1, TheHardeners, TlsSet, ConfigFields
    <3>2. mem' = [mem EXCEPT ![Service] = c]
      BY <2>1 DEF ApplyMasterTLS
    <3>3. file' \in {file, mem'[Service], Bad}
      BY <2>1, SavedFile DEF ApplyMasterTLS
    <3> HIDE DEF c
    <3>4. QED
      BY <1>1, <3>1, <3>2, <3>3, TheHardeners
  <2>2. CASE ~ApplyMasterTLS
    BY <1>1, <2>2, TheHardeners
       DEF ServiceNext, ServiceLoads, ServiceChecks, ServiceServes, ServiceRestarts, Readable
  <2>3. QED
    BY <2>1, <2>2
<1>3. service' \in {"off", "failed", "start", "loaded", "hardening", "serving"}
  BY DEF HostTypeOK, ServiceNext, ServiceLoads, ServiceChecks, ServiceServes, ApplyMasterTLS, ServiceRestarts
<1>4. UNCHANGED <<marks, setpwd, script, installer, master, uninstall, faults, commands>>
  BY DEF ServiceNext
<1>5. QED
  BY <1>2, <1>3, <1>4 DEF HostTypeOK

LEMMA SetpwdTyped == HostTypeOK /\ SetpwdNext => HostTypeOK'
<1> SUFFICES ASSUME HostTypeOK, SetpwdNext
             PROVE  HostTypeOK'
  OBVIOUS
<1>1. mem \in [Hardeners -> Configs] /\ file \in Configs \cup {Absent, Bad} /\ commands \in 0 .. MaxCommands
  BY DEF HostTypeOK
<1>2. mem' \in [Hardeners -> Configs] /\ file' \in Configs \cup {Absent, Bad}
  <2>1. CASE SetpwdSaves
    <3> DEFINE c == [mem[Setpwd] EXCEPT !.pass = TRUE]
    <3>1. c \in Configs
      BY <1>1, TheHardeners, PassSet
    <3>2. mem' = [mem EXCEPT ![Setpwd] = c] /\ file' = mem'[Setpwd]
      BY <2>1 DEF SetpwdSaves
    <3> HIDE DEF c
    <3>3. QED
      BY <1>1, <3>1, <3>2, TheHardeners
  <2>2. CASE SetpwdLoads
    BY <1>1, <2>2, TheHardeners, LoadedTyped DEF SetpwdLoads
  <2>3. CASE ~SetpwdSaves /\ ~SetpwdLoads
    BY <1>1, <2>3 DEF SetpwdNext, SetpwdByHand, SetpwdVerifies, SetpwdEnds, SetpwdFails
  <2>4. QED
    BY <2>1, <2>2, <2>3
<1>3. setpwd' \in {"idle", "begin", "loaded", "verified", "hardening", "done", "error"}
  BY DEF SetpwdNext, SetpwdByHand, SetpwdLoads, SetpwdVerifies, SetpwdSaves, SetpwdEnds, SetpwdFails
<1>4. commands' \in 0 .. MaxCommands
  BY <1>1, BoundsAssumption
     DEF SetpwdNext, SetpwdByHand, SetpwdLoads, SetpwdVerifies, SetpwdSaves, SetpwdEnds, SetpwdFails, Command
<1>5. UNCHANGED <<marks, service, script, installer, master, uninstall, faults>>
  BY DEF SetpwdNext
<1>6. QED
  BY <1>2, <1>3, <1>4, <1>5 DEF HostTypeOK

LEMMA ScriptTyped == HostTypeOK /\ ScriptNext => HostTypeOK'
<1> SUFFICES ASSUME HostTypeOK, ScriptNext
             PROVE  HostTypeOK'
  OBVIOUS
<1>1. file \in Configs \cup {Absent, Bad} /\ commands \in 0 .. MaxCommands /\ marks \subseteq Marks
  BY DEF HostTypeOK
<1>2. file' \in Configs \cup {Absent, Bad}
  <2>1. CASE ScriptInstalls
    BY <1>1, <2>1, LoadedTyped, TokenSet DEF ScriptInstalls
  <2>2. CASE ScriptStops \/ ScriptStarts
    BY <1>1, <2>2, TheHardeners, KilledFile DEF ScriptStops, ScriptStarts
  <2>3. CASE ~ScriptInstalls /\ ~ScriptStops /\ ~ScriptStarts
    BY <1>1, <2>3 DEF ScriptNext, ScriptChecks, ScriptAsks, ScriptWritesUnit, ScriptDies
  <2>4. QED
    BY <2>1, <2>2, <2>3
<1>3. /\ script' \in {"idle", "checked", "stopped", "pwd", "unit", "done", "died"}
      /\ service' \in {"off", "failed", "start", "loaded", "hardening", "serving"}
      /\ setpwd' \in {"idle", "begin", "loaded", "verified", "hardening", "done", "error"}
      /\ mem' = mem
  BY DEF HostTypeOK, ScriptNext, ScriptChecks, ScriptStops, ScriptInstalls, ScriptAsks, ScriptWritesUnit,
         ScriptStarts, ScriptDies
<1>4. marks' \subseteq Marks
  BY <1>1 DEF ScriptNext, ScriptChecks, ScriptStops, ScriptInstalls, ScriptAsks, ScriptWritesUnit,
              ScriptStarts, ScriptDies, Marks
<1>5. commands' \in 0 .. MaxCommands
  <2>1. commands' = commands \/ (commands < MaxCommands /\ commands' = commands + 1)
    BY DEF ScriptNext, ScriptChecks, ScriptStops, ScriptInstalls, ScriptAsks,
           ScriptWritesUnit, ScriptStarts, ScriptDies, Command
  <2>2. QED
    BY <1>1, <2>1, BoundsAssumption
<1>6. UNCHANGED <<installer, master, uninstall, faults>>
  BY DEF ScriptNext
<1>7. QED
  BY <1>2, <1>3, <1>4, <1>5, <1>6 DEF HostTypeOK

LEMMA MasterTyped == HostTypeOK /\ MasterNext => HostTypeOK'
<1> SUFFICES ASSUME HostTypeOK, MasterNext
             PROVE  HostTypeOK'
  OBVIOUS
<1>1. commands \in 0 .. MaxCommands /\ marks \subseteq Marks
  BY DEF HostTypeOK
<1>2. /\ installer' \in {"idle", "checked", "unit", "done", "died"}
      /\ master' \in {"off", "failed", "start", "checked", "running"}
  BY DEF HostTypeOK, MasterNext, InstallerChecks, InstallerWritesUnit, InstallerStarts, MasterChecks,
         MasterRuns, MasterRestarts
<1>3. marks' \subseteq Marks
  BY <1>1 DEF MasterNext, InstallerChecks, InstallerWritesUnit, InstallerStarts, MasterChecks,
              MasterRuns, MasterRestarts, Marks
<1>4. commands' \in 0 .. MaxCommands
  BY <1>1, BoundsAssumption DEF MasterNext, InstallerChecks, InstallerWritesUnit, InstallerStarts,
                                MasterChecks, MasterRuns, MasterRestarts
<1>5. UNCHANGED <<file, mem, service, setpwd, script, uninstall, faults>>
  BY DEF MasterNext
<1>6. QED
  BY <1>2, <1>3, <1>4, <1>5 DEF HostTypeOK

LEMMA UninstallTyped == HostTypeOK /\ UninstallNext => HostTypeOK'
<1> SUFFICES ASSUME HostTypeOK, UninstallNext
             PROVE  HostTypeOK'
  OBVIOUS
<1>1. file \in Configs \cup {Absent, Bad} /\ commands \in 0 .. MaxCommands /\ marks \subseteq Marks
  BY DEF HostTypeOK
<1>2. file' \in Configs \cup {Absent, Bad}
  BY <1>1, TheHardeners, KilledFile
     DEF UninstallNext, UninstallStarts, UninstallStopsAgent, UninstallRemovesAgentUnit,
         UninstallRemovesConfig, UninstallStopsMaster, UninstallRemovesMasterUnit, UninstallRemovesState
<1>3. /\ script' \in {"idle", "checked", "stopped", "pwd", "unit", "done", "died"}
      /\ service' \in {"off", "failed", "start", "loaded", "hardening", "serving"}
      /\ master' \in {"off", "failed", "start", "checked", "running"}
      /\ uninstall' \in {"idle", "agent", "agentStopped", "agentUnitGone",
                         "master", "masterStopped", "masterUnitGone"}
  BY DEF HostTypeOK, UninstallNext, UninstallStarts, UninstallStopsAgent, UninstallRemovesAgentUnit,
         UninstallRemovesConfig, UninstallStopsMaster, UninstallRemovesMasterUnit, UninstallRemovesState
<1>4. marks' \subseteq Marks
  BY <1>1 DEF UninstallNext, UninstallStarts, UninstallStopsAgent, UninstallRemovesAgentUnit,
              UninstallRemovesConfig, UninstallStopsMaster, UninstallRemovesMasterUnit, UninstallRemovesState
<1>5. commands' \in 0 .. MaxCommands
  BY <1>1, BoundsAssumption
     DEF UninstallNext, UninstallStarts, UninstallStopsAgent, UninstallRemovesAgentUnit,
         UninstallRemovesConfig, UninstallStopsMaster, UninstallRemovesMasterUnit, UninstallRemovesState, Command
<1>6. UNCHANGED <<mem, setpwd, installer, faults>>
  BY DEF UninstallNext
<1>7. QED
  BY <1>2, <1>3, <1>4, <1>5, <1>6 DEF HostTypeOK

LEMMA FaultTyped == HostTypeOK /\ FaultNext => HostTypeOK'
<1> SUFFICES ASSUME HostTypeOK, FaultNext
             PROVE  HostTypeOK'
  OBVIOUS
<1>1. file \in Configs \cup {Absent, Bad} /\ faults \in 0 .. MaxFaults
  BY DEF HostTypeOK
<1>2. CASE MasterCrash
  BY <1>1, <1>2, BoundsAssumption DEF MasterCrash, Fault, HostTypeOK
<1>3. CASE Reboot
  <2>1. file' \in Configs \cup {Absent, Bad} /\ faults' \in 0 .. MaxFaults
    BY <1>1, <1>3, BoundsAssumption DEF Reboot, Fault
  <2>2. /\ service' \in {"off", "failed", "start", "loaded", "hardening", "serving"}
        /\ setpwd' \in {"idle", "begin", "loaded", "verified", "hardening", "done", "error"}
        /\ script' \in {"idle", "checked", "stopped", "pwd", "unit", "done", "died"}
        /\ installer' \in {"idle", "checked", "unit", "done", "died"}
        /\ master' \in {"off", "failed", "start", "checked", "running"}
        /\ uninstall' = "idle"
        /\ UNCHANGED <<marks, mem, commands>>
    BY <1>3 DEF Reboot, HostTypeOK
  <2>3. QED
    BY <2>1, <2>2 DEF HostTypeOK
<1>4. ASSUME NEW p \in Hardeners, Crash(p)
      PROVE  HostTypeOK'
  <2>1. file' \in Configs \cup {Absent, Bad} /\ faults' \in 0 .. MaxFaults
    BY <1>1, <1>4, KilledFile, BoundsAssumption DEF Crash, Fault
  <2>2. /\ service' \in {"off", "failed", "start", "loaded", "hardening", "serving"}
        /\ setpwd' \in {"idle", "begin", "loaded", "verified", "hardening", "done", "error"}
        /\ UNCHANGED <<marks, mem, script, installer, master, uninstall, commands>>
    BY <1>4 DEF Crash, HostTypeOK
  <2>3. QED
    BY <2>1, <2>2 DEF HostTypeOK
<1>5. QED
  BY <1>2, <1>3, <1>4 DEF FaultNext

LEMMA HostTyped == HostTypeOK /\ [Next]_vars => HostTypeOK'
<1> SUFFICES ASSUME HostTypeOK, [Next]_vars
             PROVE  HostTypeOK'
  OBVIOUS
<1>1. ASSUME NEW p \in Hardeners, HardenStep(p)
      PROVE  HostTypeOK'
  <2>1. mem \in [Hardeners -> Configs] /\ file \in Configs \cup {Absent, Bad}
    BY DEF HostTypeOK
  <2>2. file' \in {file, mem[p], Bad}
    BY <1>1, SavedFile DEF HardenStep
  <2>3. UNCHANGED <<marks, mem, processes, faults, commands>>
    BY <1>1 DEF HardenStep
  <2>4. QED
    BY <1>1, <2>1, <2>2, <2>3 DEF HostTypeOK, processes
<1>2. CASE PanelActs \/ UNCHANGED vars
  BY <1>2 DEF PanelActs, vars, hostVars, processes, HostTypeOK
<1>3. QED
  BY <1>1, <1>2, ServiceTyped, SetpwdTyped, ScriptTyped, MasterTyped, UninstallTyped, FaultTyped DEF Next

\* Every variable keeps its type.
THEOREM TypeCorrect == Spec => []TypeOK
<1>1. Init => HostTypeOK /\ HardenInv
  BY HostTypeInit, HardenInvInit
<1>2. HostTypeOK /\ HardenInv /\ [Next]_vars => (HostTypeOK /\ HardenInv)'
  BY HostTyped, HostHardens
<1>3. HostTypeOK /\ HardenInv => TypeOK
  BY DEF TypeOK, HardenInv
<1>4. QED
  BY <1>1, <1>2, <1>3, PTL DEF Spec

-----------------------------------------------------------------------------
(***************************************************************************)
(* Roles.                                                                  *)
(***************************************************************************)
LEMMA RoleInit == Init => RoleInv
BY DEF Init, HardenInit, RoleInv, InstallerRuns, NeverBoth

\* A service that passes its check sees no master, and a master sees no agent.
LEMMA RoleService == RoleInv /\ ServiceNext => RoleInv'
<1> SUFFICES ASSUME RoleInv, ServiceNext
             PROVE  RoleInv'
  OBVIOUS
<1>1. UNCHANGED <<marks, script, installer, master, uninstall>>
  BY DEF ServiceNext
<1>2. service # "off"
  BY DEF ServiceNext, ServiceLoads, ServiceChecks, ServiceServes, ApplyMasterTLS, ServiceRestarts
<1>3. service' \in {"hardening", "serving"} => service \in {"hardening", "serving"} \/ ~MasterPresent
  BY DEF ServiceNext, ServiceLoads, ServiceChecks, ServiceServes, ApplyMasterTLS, ServiceRestarts
<1>4. ~MasterPresent => "masterUnit" \notin marks
  BY DEF MasterPresent
<1>5. QED
  BY <1>1, <1>2, <1>3, <1>4 DEF RoleInv, InstallerRuns, NeverBoth

LEMMA RoleSetpwd == RoleInv /\ SetpwdNext => RoleInv'
BY DEF SetpwdNext, RoleInv, InstallerRuns, NeverBoth

LEMMA RoleScript == RoleInv /\ ScriptNext => RoleInv'
<1> SUFFICES ASSUME RoleInv, ScriptNext
             PROVE  RoleInv'
  OBVIOUS
<1>1. UNCHANGED <<installer, master, uninstall>>
  BY DEF ScriptNext
<1>2. uninstall = "idle"
  BY DEF RoleInv, ScriptNext, ScriptChecks, ScriptStops, ScriptInstalls, ScriptAsks, ScriptWritesUnit,
         ScriptStarts, ScriptDies, Command
<1>3. /\ "agentUnit" \in marks => "agentUnit" \in marks'
      /\ "masterUnit" \in marks => "masterUnit" \in marks'
      /\ service' \in {service, "off"} \/ (service' = "start" /\ script = "unit")
      /\ script' = "unit" => "agentUnit" \in marks'
  BY DEF RoleInv, ScriptNext, ScriptChecks, ScriptStops, ScriptInstalls, ScriptAsks, ScriptWritesUnit,
         ScriptStarts, ScriptDies
<1>4. QED
  BY <1>1, <1>2, <1>3 DEF RoleInv, InstallerRuns, NeverBoth

LEMMA RoleMaster == RoleInv /\ MasterNext => RoleInv'
<1> SUFFICES ASSUME RoleInv, MasterNext
             PROVE  RoleInv'
  OBVIOUS
<1>1. UNCHANGED <<service, script, uninstall>>
  BY DEF MasterNext
<1>2. /\ "agentUnit" \in marks => "agentUnit" \in marks'
      /\ "masterUnit" \in marks => "masterUnit" \in marks'
      /\ master' # "off" => master # "off" \/ installer = "unit"
      /\ installer' = "unit" => "masterUnit" \in marks'
  BY DEF RoleInv, MasterNext, InstallerChecks, InstallerWritesUnit, InstallerStarts, MasterChecks,
         MasterRuns, MasterRestarts
<1>3. master' \in {"checked", "running"} => master \in {"checked", "running"} \/ ~AgentPresent
  BY DEF MasterNext, InstallerChecks, InstallerWritesUnit, InstallerStarts, MasterChecks,
         MasterRuns, MasterRestarts
<1>4. ~AgentPresent => "agentUnit" \notin marks
  BY DEF AgentPresent
<1>5. uninstall # "idle" => installer' = installer
  BY DEF RoleInv, InstallerRuns, MasterNext, InstallerChecks, InstallerWritesUnit, InstallerStarts,
         MasterChecks, MasterRuns, MasterRestarts
<1>6. uninstall \in {"masterStopped", "masterUnitGone"} => master' = "off"
  BY DEF RoleInv, InstallerRuns, MasterNext, InstallerChecks, InstallerWritesUnit, InstallerStarts,
         MasterChecks, MasterRuns, MasterRestarts
<1>7. QED
  BY <1>1, <1>2, <1>3, <1>4, <1>5, <1>6 DEF RoleInv, InstallerRuns, NeverBoth

LEMMA RoleUninstall == RoleInv /\ UninstallNext => RoleInv'
<1> SUFFICES ASSUME RoleInv, UninstallNext
             PROVE  RoleInv'
  OBVIOUS
<1>1. installer' = installer
  BY DEF UninstallNext
<1>2. CASE UninstallStarts
  <2>1. UNCHANGED <<marks, service, master>> /\ script' = "idle" /\ ~InstallerRuns
    BY <1>2 DEF UninstallStarts
  <2>2. uninstall' \notin {"idle", "agent"} => "agentUnit" \notin marks
    BY <1>2 DEF UninstallStarts, AgentPresent
  <2>3. uninstall' \in {"agent", "master"}
    BY <1>2 DEF UninstallStarts
  <2>4. QED
    BY <1>1, <2>1, <2>2, <2>3 DEF RoleInv, InstallerRuns, NeverBoth
<1>3. CASE UninstallStopsAgent
  BY <1>1, <1>3 DEF UninstallStopsAgent, RoleInv, InstallerRuns, NeverBoth
<1>4. CASE UninstallRemovesAgentUnit
  BY <1>1, <1>4 DEF UninstallRemovesAgentUnit, RoleInv, InstallerRuns, NeverBoth
<1>5. CASE UninstallRemovesConfig
  BY <1>1, <1>5 DEF UninstallRemovesConfig, RoleInv, InstallerRuns, NeverBoth
<1>6. CASE UninstallStopsMaster
  BY <1>1, <1>6 DEF UninstallStopsMaster, RoleInv, InstallerRuns, NeverBoth
<1>7. CASE UninstallRemovesMasterUnit
  BY <1>1, <1>7 DEF UninstallRemovesMasterUnit, RoleInv, InstallerRuns, NeverBoth
<1>8. CASE UninstallRemovesState
  BY <1>1, <1>8 DEF UninstallRemovesState, RoleInv, InstallerRuns, NeverBoth
<1>9. QED
  BY <1>2, <1>3, <1>4, <1>5, <1>6, <1>7, <1>8 DEF UninstallNext

LEMMA RoleFault == RoleInv /\ FaultNext => RoleInv'
<1> SUFFICES ASSUME RoleInv, FaultNext
             PROVE  RoleInv'
  OBVIOUS
<1>1. CASE MasterCrash
  BY <1>1 DEF MasterCrash, RoleInv, InstallerRuns, NeverBoth
<1>2. CASE Reboot
  BY <1>2 DEF Reboot, RoleInv, ScriptRuns, InstallerRuns, NeverBoth
<1>3. ASSUME NEW p \in Hardeners, Crash(p)
      PROVE  RoleInv'
  BY <1>3 DEF Crash, RoleInv, InstallerRuns, NeverBoth
<1>4. QED
  BY <1>1, <1>2, <1>3 DEF FaultNext

LEMMA RoleStep == RoleInv /\ [Next]_vars => RoleInv'
<1> SUFFICES ASSUME RoleInv, [Next]_vars
             PROVE  RoleInv'
  OBVIOUS
<1>1. CASE UNCHANGED <<marks, processes>>
  BY <1>1 DEF processes, RoleInv, InstallerRuns, NeverBoth
<1>2. ASSUME PanelActs \/ (\E p \in Hardeners : HardenStep(p)) \/ UNCHANGED vars
      PROVE  UNCHANGED <<marks, processes>>
  BY <1>2 DEF PanelActs, HardenStep, vars, hostVars
<1>3. QED
  BY <1>1, <1>2, RoleService, RoleSetpwd, RoleScript, RoleMaster, RoleUninstall, RoleFault DEF Next

\* No host runs a checked agent and a checked master at once.
THEOREM OneRole == Spec => []NeverBoth
<1>1. RoleInv => NeverBoth
  BY DEF RoleInv
<1>2. QED
  BY <1>1, RoleInit, RoleStep, PTL DEF Spec

-----------------------------------------------------------------------------
(***************************************************************************)
(* Installation.                                                           *)
(***************************************************************************)
LEMMA InstallInit == Init => InstallInv
BY DEF Init, InstallInv

\* Only the file is left behind by what does not change a process or a copy.
LEMMA FileOnlyKeeps ==
  ASSUME InstallInv, file' \in {file, Bad}, UNCHANGED <<mem, service, setpwd, script>>
  PROVE  InstallInv'
BY DEF InstallInv

LEMMA InstallService == HostTypeOK /\ InstallInv /\ ServiceNext => InstallInv'
<1> SUFFICES ASSUME HostTypeOK, InstallInv, ServiceNext
             PROVE  InstallInv'
  OBVIOUS
<1>1. UNCHANGED <<setpwd, script>>
  BY DEF ServiceNext
<1>2. mem \in [Hardeners -> Configs] /\ Setpwd # Service /\ Bad \notin Configs
  BY HostAssumption, FileAssumption DEF HostTypeOK
<1>3. script \notin {"stopped", "pwd", "unit"}
  BY DEF InstallInv, ServiceNext, ServiceLoads, ServiceChecks, ServiceServes, ApplyMasterTLS, ServiceRestarts
<1>4. CASE ServiceLoads
  <2>1. CASE Readable /\ service' = "loaded" /\ mem' = [mem EXCEPT ![Service] = file] /\ file' = file
    <3>1. mem'[Service] = file /\ mem'[Setpwd] = mem[Setpwd] /\ file # Bad
      BY <1>2, <2>1, TheHardeners DEF Readable
    <3>2. QED
      BY <1>1, <1>3, <2>1, <3>1 DEF InstallInv
  <2>2. CASE service' = "failed" /\ UNCHANGED <<mem, file>>
    BY <1>1, <1>3, <2>2 DEF InstallInv
  <2>3. QED
    BY <1>4, <2>1, <2>2 DEF ServiceLoads
<1>5. CASE ApplyMasterTLS
  <2> DEFINE c == [mem[Service] EXCEPT !.tls = ~@]
  <2>1. c \in Configs /\ c.pass = mem[Service].pass /\ c.token = mem[Service].token
    BY <1>2, TheHardeners, TlsSet, ConfigFields
  <2>2. mem' = [mem EXCEPT ![Service] = c] /\ file' \in {file, mem'[Service], Bad}
        /\ service = "serving" /\ service' = service
    BY <1>5, SavedFile DEF ApplyMasterTLS
  <2> HIDE DEF c
  <2>3. mem'[Service] = c /\ mem'[Setpwd] = mem[Setpwd]
    BY <1>2, <2>2, TheHardeners
  <2>4. QED
    BY <1>1, <1>3, <2>1, <2>2, <2>3 DEF InstallInv, Kept, HasToken
<1>6. CASE ServiceChecks \/ ServiceServes \/ ServiceRestarts
  BY <1>1, <1>3, <1>6 DEF ServiceChecks, ServiceServes, ServiceRestarts, InstallInv
<1>7. QED
  BY <1>4, <1>5, <1>6 DEF ServiceNext

LEMMA InstallSetpwd == HostTypeOK /\ InstallInv /\ SetpwdNext => InstallInv'
<1> SUFFICES ASSUME HostTypeOK, InstallInv, SetpwdNext
             PROVE  InstallInv'
  OBVIOUS
<1>1. UNCHANGED <<service, script>>
  BY DEF SetpwdNext
<1>2. mem \in [Hardeners -> Configs] /\ Setpwd # Service /\ Bad \notin Configs
      /\ file \in Configs \cup {Absent, Bad}
  BY HostAssumption, FileAssumption DEF HostTypeOK
<1>3. CASE SetpwdByHand
  BY <1>1, <1>3 DEF SetpwdByHand, Command, ScriptRuns, InstallInv
<1>4. CASE SetpwdLoads
  <2>1. mem'[Setpwd] = Loaded /\ mem'[Service] = mem[Service]
    BY <1>2, <1>4, TheHardeners, LoadedTyped DEF SetpwdLoads
  <2>2. file \in Configs => Loaded = file
    BY FileAssumption DEF Loaded
  <2>3. QED
    BY <1>1, <1>4, <2>1, <2>2 DEF SetpwdLoads, InstallInv, Kept, HasToken
<1>5. CASE SetpwdSaves
  <2> DEFINE c == [mem[Setpwd] EXCEPT !.pass = TRUE]
  <2>1. c \in Configs /\ c.pass /\ c.token = mem[Setpwd].token
    BY <1>2, TheHardeners, PassSet
  <2>2. mem' = [mem EXCEPT ![Setpwd] = c] /\ file' = mem'[Setpwd]
        /\ setpwd = "verified" /\ setpwd' = "hardening"
    BY <1>5 DEF SetpwdSaves
  <2> HIDE DEF c
  <2>3. mem'[Setpwd] = c /\ mem'[Service] = mem[Service]
    BY <1>2, <2>2, TheHardeners
  <2>4. QED
    BY <1>1, <2>1, <2>2, <2>3 DEF InstallInv, Kept, HasToken
<1>6. CASE SetpwdVerifies \/ SetpwdEnds \/ SetpwdFails
  BY <1>1, <1>6 DEF SetpwdVerifies, SetpwdEnds, SetpwdFails, InstallInv
<1>7. QED
  BY <1>3, <1>4, <1>5, <1>6 DEF SetpwdNext

LEMMA InstallScript == HostTypeOK /\ InstallInv /\ ScriptNext => InstallInv'
<1> SUFFICES ASSUME HostTypeOK, InstallInv, ScriptNext
             PROVE  InstallInv'
  OBVIOUS
<1>1. file \in Configs \cup {Absent, Bad}
  BY DEF HostTypeOK
<1>2. CASE ScriptChecks
  BY <1>2 DEF ScriptChecks, InstallInv
<1>3. CASE ScriptStops
  <2>1. file' \in {file, Bad}
    BY <1>3, TheHardeners, KilledFile DEF ScriptStops
  <2>2. QED
    BY <1>3, <2>1 DEF ScriptStops, InstallInv
<1>4. CASE ScriptInstalls
  <2>1. file' \in Configs /\ HasToken(file')
    <3>1. Loaded \in Configs
      BY <1>1, <1>4, LoadedTyped DEF ScriptInstalls
    <3>2. PICK b \in BOOLEAN : file' = [Loaded EXCEPT !.token = 1, !.tls = b]
      BY <1>4 DEF ScriptInstalls
    <3>3. QED
      BY <3>1, <3>2, TokenSet DEF HasToken
  <2>2. QED
    BY <1>4, <2>1 DEF ScriptInstalls, InstallInv
<1>5. CASE ScriptAsks
  BY <1>5 DEF ScriptAsks, InstallInv
<1>6. CASE ScriptWritesUnit
  BY <1>6 DEF ScriptWritesUnit, InstallInv, Kept, HasToken
<1>7. CASE ScriptStarts
  <2>1. file' \in {file, Bad}
    BY <1>7, TheHardeners, KilledFile DEF ScriptStarts
  <2>2. QED
    BY <1>7, <2>1 DEF ScriptStarts, InstallInv
<1>8. CASE ScriptDies
  BY <1>8 DEF ScriptDies, InstallInv
<1>9. QED
  BY <1>2, <1>3, <1>4, <1>5, <1>6, <1>7, <1>8 DEF ScriptNext

LEMMA InstallUninstall == RoleInv /\ InstallInv /\ UninstallNext => InstallInv'
<1> SUFFICES ASSUME RoleInv, InstallInv, UninstallNext
             PROVE  InstallInv'
  OBVIOUS
<1>1. UNCHANGED <<mem, setpwd>>
  BY DEF UninstallNext
<1>2. script' = "idle"
  BY DEF RoleInv, UninstallNext, UninstallStarts, UninstallStopsAgent, UninstallRemovesAgentUnit,
         UninstallRemovesConfig, UninstallStopsMaster, UninstallRemovesMasterUnit, UninstallRemovesState
<1>3. QED
  BY <1>1, <1>2 DEF InstallInv

LEMMA InstallFault == InstallInv /\ FaultNext => InstallInv'
<1> SUFFICES ASSUME InstallInv, FaultNext
             PROVE  InstallInv'
  OBVIOUS
<1>1. CASE MasterCrash
  BY <1>1, FileOnlyKeeps DEF MasterCrash
<1>2. CASE Reboot
  <2>1. /\ setpwd' = "idle" /\ mem' = mem /\ file' \in {file, Bad}
        /\ script' \notin {"stopped", "pwd", "unit"}
        /\ script' = "done" => script = "done"
        /\ service' \in {"start", "off"}
    BY <1>2 DEF Reboot, ScriptRuns
  <2>2. QED
    BY <2>1 DEF InstallInv
<1>3. ASSUME NEW p \in Hardeners, Crash(p)
      PROVE  InstallInv'
  <2>1. file' \in {file, Bad} /\ UNCHANGED <<mem, script>>
    BY <1>3, KilledFile DEF Crash
  <2>2. \/ service # "off" /\ service' = "failed" /\ setpwd' = setpwd
        \/ service' = service /\ setpwd' = "error"
    BY <1>3 DEF Crash
  <2>3. QED
    BY <2>1, <2>2 DEF InstallInv
<1>4. QED
  BY <1>1, <1>2, <1>3 DEF FaultNext

LEMMA InstallStep == HostTypeOK /\ RoleInv /\ InstallInv /\ [Next]_vars => InstallInv'
<1> SUFFICES ASSUME HostTypeOK, RoleInv, InstallInv, [Next]_vars
             PROVE  InstallInv'
  OBVIOUS
<1>1. ASSUME NEW p \in Hardeners, HardenStep(p)
      PROVE  InstallInv'
  <2>1. UNCHANGED <<mem, service, setpwd, script>> /\ Hardening(p)
    BY <1>1 DEF HardenStep, processes
  <2>2. file' \in {file, mem[p], Bad}
    BY <1>1, SavedFile DEF HardenStep
  <2>3. mem[p] \in Configs
    BY <1>1 DEF HostTypeOK
  <2>4. CASE p = Service
    <3>1. service = "hardening"
      BY <2>1, <2>4 DEF Hardening
    <3>2. script \notin {"stopped", "pwd", "unit"} /\ (script = "done" => Kept(mem[p]))
      BY <2>4, <3>1 DEF InstallInv
    <3>3. QED
      BY <2>1, <2>2, <2>3, <3>1, <3>2 DEF InstallInv
  <2>5. CASE p = Setpwd
    <3>1. setpwd = "hardening"
      BY <2>1, <2>5, HostAssumption DEF Hardening
    <3>2. mem[p].pass /\ (script \in {"pwd", "unit", "done"} => HasToken(mem[p]))
      BY <2>5, <3>1 DEF InstallInv
    <3>3. QED
      BY <2>1, <2>2, <2>3, <3>1, <3>2 DEF InstallInv, Kept, HasToken
  <2>6. QED
    BY <1>1, <2>4, <2>5, HostAssumption
<1>2. CASE PanelActs \/ UNCHANGED vars
  BY <1>2, FileOnlyKeeps DEF PanelActs, vars, hostVars, processes
<1>3. CASE MasterNext
  BY <1>3, FileOnlyKeeps DEF MasterNext
<1>4. QED
  BY <1>1, <1>2, <1>3, InstallService, InstallSetpwd, InstallScript, InstallUninstall, InstallFault DEF Next

\* What an installation has written stays until the next one: no older copy of
\* agent.json takes it back.
THEOREM Installed == Spec => []InstallTakes
<1>1. Init => HostTypeOK /\ RoleInv /\ InstallInv
  BY HostTypeInit, RoleInit, InstallInit
<1>2. HostTypeOK /\ RoleInv /\ InstallInv /\ [Next]_vars => (HostTypeOK /\ RoleInv /\ InstallInv)'
  BY HostTyped, RoleStep, InstallStep
<1>3. InstallInv => InstallTakes
  BY DEF InstallInv, InstallTakes, Kept
<1>4. QED
  BY <1>1, <1>2, <1>3, PTL DEF Spec
=============================================================================
