----------------------------- MODULE AgentHost -----------------------------
(***************************************************************************)
(* A host on which 1pm runs as an agent: the commands and services that    *)
(* share ~/.1panel-agent/agent.json, the systemd units and the panel.      *)
(*                                                                         *)
(*   service    1pm-agent.service: "1pm agent run"                         *)
(*   setpwd     "1pm agent setpwd", run by hand or by the script           *)
(*   script     the agent script served by the master (master/install.go)  *)
(*   installer  install.sh, which makes the host a master                  *)
(*   master     1pm-master.service                                         *)
(*   uninstall  "1pm uninstall"                                            *)
(*                                                                         *)
(* agent.json is read when a command starts and written from that copy     *)
(* later, without a lock.  A host is an agent or a master, never both: each*)
(* side looks for the other's files, before it is installed and whenever   *)
(* it starts.                                                              *)
(*                                                                         *)
(* Assumed of the administrator: a script, a setpwd by hand and an         *)
(* uninstall are not run beside each other, nor install.sh beside an       *)
(* uninstall.  Left out: the names, the address of the master, the id; the *)
(* key that encrypts the password; downloads; the takeover of the panel's  *)
(* port (Takeover).  systemctl and the removal of files are assumed to     *)
(* succeed: an uninstall ignores the error of a stop.                      *)
(***************************************************************************)
EXTENDS PanelHardening

CONSTANTS
  Service, Setpwd,   \* the two processes that harden the panel
  Absent, Bad,       \* agent.json: no file; a file that does not parse
  MaxFaults,         \* bound: processes killed and reboots
  MaxCommands        \* bound: commands given by the administrator

ASSUME HostAssumption == Service # Setpwd /\ Hardeners = {Service, Setpwd}
ASSUME BoundsAssumption == MaxFaults \in Nat /\ MaxCommands \in Nat

VARIABLES
  file,       \* agent.json
  marks,      \* the other files of the host, and which units start at boot
  mem,        \* mem[p]: the copy of agent.json that p works on
  service, setpwd, script, installer, master, uninstall,
  faults, commands

processes == <<service, setpwd, script, installer, master, uninstall>>
hostVars == <<file, marks, mem, processes, faults, commands>>
vars == <<hardenVars, hostVars>>

Marks == {"agentUnit", "agentBoots", "masterUnit", "masterBoots", "masterState"}

\* Token 1 is the one the script brings; pass: a password the panel accepts is stored.
Configs == [token : {0, 1}, pass : BOOLEAN, tls : BOOLEAN]
EmptyConfig == [token |-> 0, pass |-> FALSE, tls |-> FALSE]

ASSUME FileAssumption == Absent # Bad /\ Absent \notin Configs /\ Bad \notin Configs

HostTypeOK ==
  /\ file \in Configs \cup {Absent, Bad}
  /\ marks \subseteq Marks
  /\ mem \in [Hardeners -> Configs]
  /\ service \in {"off", "failed", "start", "loaded", "hardening", "serving"}
  /\ setpwd \in {"idle", "begin", "loaded", "verified", "hardening", "done", "error"}
  /\ script \in {"idle", "checked", "stopped", "pwd", "unit", "done", "died"}
  /\ installer \in {"idle", "checked", "unit", "done", "died"}
  /\ master \in {"off", "failed", "start", "checked", "running"}
  /\ uninstall \in {"idle", "agent", "agentStopped", "agentUnitGone",
                    "master", "masterStopped", "masterUnitGone"}
  /\ faults \in 0 .. MaxFaults
  /\ commands \in 0 .. MaxCommands

TypeOK == HardenTypeOK /\ HostTypeOK

\* A host without 1pm, or one that is an agent since an earlier installation.
Init ==
  /\ HardenInit
  /\ \/ file = Absent /\ marks = {} /\ service = "off"
     \/ /\ file = [EmptyConfig EXCEPT !.pass = TRUE]
        /\ marks = {"agentUnit", "agentBoots"}
        /\ service = "start"
  /\ mem = [p \in Hardeners |-> EmptyConfig]
  /\ setpwd = "idle"
  /\ script = "idle"
  /\ installer = "idle"
  /\ master = "off"
  /\ uninstall = "idle"
  /\ faults = 0
  /\ commands = 0

-----------------------------------------------------------------------------
(* Roles and agent.json.                                                   *)

MasterPresent == {"masterUnit", "masterState"} \cap marks # {}

AgentPresent == "agentUnit" \in marks \/ file # Absent

\* Mutant: LoadOrEmpty without its default.
LoadedAsIs == file

\* What Load returns, or LoadOrEmpty: an error for a file that does not parse.
Readable == file \in Configs
Loaded == IF file = Absent THEN EmptyConfig ELSE file

\* config.Save of a copy.  os.WriteFile empties the file before it writes: an error
\* leaves it as it was or unreadable, and the process goes on with its copy.
Save(cfg) == file' \in {cfg, file, Bad}

\* p is in EnsureLocalPanelHardening.
Hardening(p) == IF p = Service THEN service = "hardening" ELSE setpwd = "hardening"

\* Where a process is about to write agent.json.
AtSave(p) ==
  \/ Hardening(p) /\ place[p] \in {"sslWait", "finish"}
  \/ p = Service /\ service = "serving"
  \/ p = Setpwd /\ setpwd = "verified"

\* A process that is killed leaves its hardening where it is; killed inside
\* os.WriteFile, it leaves the file truncated.
Killed(p) ==
  /\ \/ UNCHANGED file
     \/ AtSave(p) /\ file' = Bad
  /\ place' = [place EXCEPT ![p] = "out"]
  /\ result' = [result EXCEPT ![p] = "none"]
  /\ UNCHANGED <<settings, panel, https, sound, admin>>

ScriptRuns == script \in {"checked", "stopped", "pwd", "unit"}
SetpwdRuns == setpwd \in {"begin", "loaded", "verified", "hardening"}
InstallerRuns == installer \in {"checked", "unit"}

\* A command of the administrator.
Command ==
  /\ commands < MaxCommands
  /\ commands' = commands + 1
  /\ uninstall = "idle"
  /\ ~ScriptRuns

-----------------------------------------------------------------------------
(* EnsureLocalPanelHardening, in both processes.                           *)

\* A login needs the password that this process has read.
HardenStep(p) ==
  /\ Hardening(p)
  /\ \/ HardenQuietly(p) /\ UNCHANGED file
     \/ mem[p].pass /\ HardenLoggedIn(p) /\ UNCHANGED file
     \/ HardenSaving(p) /\ Save(mem[p])
  /\ UNCHANGED <<marks, mem, processes, faults, commands>>

-----------------------------------------------------------------------------
(* The agent service.                                                      *)

\* config.Load, and AutofillPanel: an error ends the process.
ServiceLoads ==
  /\ service = "start"
  /\ \/ Readable /\ service' = "loaded" /\ mem' = [mem EXCEPT ![Service] = file]
     \/ service' = "failed" /\ UNCHANGED mem
  /\ UNCHANGED <<hardenVars, file>>

\* Run: RefuseAgentIfMaster, then the hardening.
ServiceChecks ==
  /\ service = "loaded"
  /\ IF MasterPresent
     THEN service' = "failed" /\ UNCHANGED hardenVars
     ELSE service' = "hardening" /\ Begin(Service)
  /\ UNCHANGED <<file, mem>>

\* However the hardening ends, the agent connects and serves.
ServiceServes ==
  /\ service = "hardening"
  /\ place[Service] = "out"
  /\ service' = "serving"
  /\ UNCHANGED <<hardenVars, file, mem>>

\* applyMasterTLS: the whole configuration is written, as it was read at the start.
ApplyMasterTLS ==
  /\ service = "serving"
  /\ mem' = [mem EXCEPT ![Service].tls = ~@]
  /\ Save(mem'[Service])
  /\ UNCHANGED <<hardenVars, service>>

\* Restart=on-failure.
ServiceRestarts ==
  /\ service = "failed"
  /\ service' = "start"
  /\ UNCHANGED <<hardenVars, file, mem>>

-----------------------------------------------------------------------------
(* setpwd.                                                                 *)

SetpwdByHand ==
  /\ Command
  /\ ~SetpwdRuns
  /\ setpwd' = "begin"
  /\ UNCHANGED <<hardenVars, file, mem>>

\* LoadOrEmpty.
SetpwdLoads ==
  /\ setpwd = "begin"
  /\ file # Bad
  /\ setpwd' = "loaded"
  /\ mem' = [mem EXCEPT ![Setpwd] = Loaded]
  /\ UNCHANGED <<hardenVars, file, commands>>

\* AutofillPanel and a login with the password given.
SetpwdVerifies ==
  /\ setpwd = "loaded"
  /\ panel = Up(certs, panel.all)
  /\ setpwd' = "verified"
  /\ UNCHANGED <<hardenVars, file, mem, commands>>

\* The encrypted password is saved; then the panel is hardened.
SetpwdSaves ==
  /\ setpwd = "verified"
  /\ mem' = [mem EXCEPT ![Setpwd].pass = TRUE]
  /\ file' = mem'[Setpwd]
  /\ setpwd' = "hardening"
  /\ Begin(Setpwd)
  /\ UNCHANGED commands

\* A hardening that fails is only logged.
SetpwdEnds ==
  /\ setpwd = "hardening"
  /\ place[Setpwd] = "out"
  /\ setpwd' = "done"
  /\ UNCHANGED <<hardenVars, file, mem, commands>>

\* The save is the last thing that can fail.
SetpwdFails ==
  /\ setpwd \in {"begin", "loaded", "verified"}
  /\ setpwd' = "error"
  /\ \/ UNCHANGED file
     \/ setpwd = "verified" /\ file' = Bad
  /\ UNCHANGED <<hardenVars, mem, commands>>

-----------------------------------------------------------------------------
(* The agent script.                                                       *)

ScriptChecks ==
  /\ Command
  /\ ~SetpwdRuns
  /\ script' = IF MasterPresent THEN "died" ELSE "checked"
  /\ UNCHANGED <<hardenVars, file, marks, mem, service, setpwd>>

\* Mutant: the old service goes on.
ScriptStopsNothing ==
  /\ script = "checked"
  /\ script' = "stopped"
  /\ UNCHANGED <<hardenVars, file, marks, mem, service, setpwd, commands>>

\* The binary has been downloaded: systemctl stop.
ScriptStops ==
  /\ script = "checked"
  /\ script' = "stopped"
  /\ service' = "off"
  /\ Killed(Service)
  /\ UNCHANGED <<marks, mem, setpwd, commands>>

\* "1pm agent install": the role is looked at again, the fields are set, all is saved.
\* One step: a master that comes in between is met by the checks of the services.
ScriptInstalls ==
  /\ script = "stopped"
  /\ ~MasterPresent
  /\ file # Bad
  /\ \E tls \in BOOLEAN : file' = [Loaded EXCEPT !.token = 1, !.tls = tls]
  /\ script' = "pwd"
  /\ setpwd' = "idle"
  /\ UNCHANGED <<hardenVars, marks, mem, service, commands>>

\* save_panel_password: setpwd, and again after an error.
ScriptAsks ==
  /\ script = "pwd"
  /\ setpwd \in {"idle", "error"}
  /\ setpwd' = "begin"
  /\ UNCHANGED <<hardenVars, file, marks, mem, service, script, commands>>

ScriptWritesUnit ==
  /\ script = "pwd"
  /\ setpwd = "done"
  /\ marks' = marks \cup {"agentUnit"}
  /\ script' = "unit"
  /\ UNCHANGED <<hardenVars, file, mem, service, setpwd, commands>>

\* systemctl enable and restart.
ScriptStarts ==
  /\ script = "unit"
  /\ marks' = marks \cup {"agentBoots"}
  /\ script' = "done"
  /\ service' = "start"
  /\ Killed(Service)
  /\ UNCHANGED <<mem, setpwd, commands>>

\* set -e: a download, agent install with or without its save, or the last try of the
\* password fails.
ScriptDies ==
  /\ script \in {"checked", "stopped", "pwd"}
  /\ ~SetpwdRuns
  /\ script' = "died"
  /\ \/ UNCHANGED file
     \/ script = "stopped" /\ ~MasterPresent /\ file # Bad /\ file' = Bad
  /\ UNCHANGED <<hardenVars, marks, mem, service, setpwd, commands>>

-----------------------------------------------------------------------------
(* install.sh and the master service.                                      *)

InstallerChecks ==
  /\ commands < MaxCommands
  /\ commands' = commands + 1
  /\ uninstall = "idle"
  /\ ~InstallerRuns
  /\ installer' = IF AgentPresent THEN "died" ELSE "checked"
  /\ UNCHANGED <<marks, master>>

\* A running master is stopped, and the unit is written.
InstallerWritesUnit ==
  /\ installer = "checked"
  /\ installer' = "unit"
  /\ master' = "off"
  /\ marks' = marks \cup {"masterUnit"}
  /\ UNCHANGED commands

InstallerStarts ==
  /\ installer = "unit"
  /\ installer' = "done"
  /\ master' = "start"
  /\ marks' = marks \cup {"masterBoots"}
  /\ UNCHANGED commands

\* Mutant: New relies on the check of install.sh.
MasterChecksNothing ==
  /\ master = "start"
  /\ master' = "checked"
  /\ UNCHANGED <<marks, installer, commands>>

\* New: RefuseMasterIfAgent comes first.
MasterChecks ==
  /\ master = "start"
  /\ master' = IF AgentPresent THEN "failed" ELSE "checked"
  /\ UNCHANGED <<marks, installer, commands>>

\* The takeover writes master.json; any error ends the process.
MasterRuns ==
  /\ master = "checked"
  /\ \/ master' = "running" /\ marks' = marks \cup {"masterState"}
     \/ master' = "failed" /\ UNCHANGED marks
  /\ UNCHANGED <<installer, commands>>

MasterRestarts ==
  /\ master = "failed"
  /\ master' = "start"
  /\ UNCHANGED <<marks, installer, commands>>

-----------------------------------------------------------------------------
(* "1pm uninstall".                                                        *)

UninstallStarts ==
  /\ Command
  /\ ~InstallerRuns
  /\ ~SetpwdRuns
  /\ AgentPresent \/ MasterPresent
  /\ uninstall' = IF AgentPresent THEN "agent" ELSE "master"
  /\ script' = "idle"
  /\ UNCHANGED <<hardenVars, file, marks, service, master>>

\* agent.Clean: stop and disable, remove the unit, remove the directory.
UninstallStopsAgent ==
  /\ uninstall = "agent"
  /\ uninstall' = "agentStopped"
  /\ service' = "off"
  /\ Killed(Service)
  /\ marks' = marks \ {"agentBoots"}
  /\ UNCHANGED <<script, master, commands>>

UninstallRemovesAgentUnit ==
  /\ uninstall = "agentStopped"
  /\ uninstall' = "agentUnitGone"
  /\ marks' = marks \ {"agentUnit"}
  /\ UNCHANGED <<hardenVars, file, service, script, master, commands>>

UninstallRemovesConfig ==
  /\ uninstall = "agentUnitGone"
  /\ uninstall' = IF MasterPresent THEN "master" ELSE "idle"
  /\ file' = Absent
  /\ UNCHANGED <<hardenVars, marks, service, script, master, commands>>

\* master.Clean likewise.
UninstallStopsMaster ==
  /\ uninstall = "master"
  /\ uninstall' = "masterStopped"
  /\ master' = "off"
  /\ marks' = marks \ {"masterBoots"}
  /\ UNCHANGED <<hardenVars, file, service, script, commands>>

UninstallRemovesMasterUnit ==
  /\ uninstall = "masterStopped"
  /\ uninstall' = "masterUnitGone"
  /\ marks' = marks \ {"masterUnit"}
  /\ UNCHANGED <<hardenVars, file, service, script, master, commands>>

UninstallRemovesState ==
  /\ uninstall = "masterUnitGone"
  /\ uninstall' = "idle"
  /\ marks' = marks \ {"masterState"}
  /\ UNCHANGED <<hardenVars, file, service, script, master, commands>>

-----------------------------------------------------------------------------
(* Faults.                                                                 *)

Fault == faults < MaxFaults /\ faults' = faults + 1

\* The service or setpwd is killed.
Crash(p) ==
  /\ Fault
  /\ \/ /\ p = Service
        /\ service \in {"loaded", "hardening", "serving"}
        /\ service' = "failed"
        /\ UNCHANGED setpwd
     \/ /\ p = Setpwd
        /\ SetpwdRuns
        /\ setpwd' = "error"
        /\ UNCHANGED service
  /\ Killed(p)
  /\ UNCHANGED <<marks, mem, script, installer, master, uninstall, commands>>

MasterCrash ==
  /\ Fault
  /\ master \in {"checked", "running"}
  /\ master' = "failed"
  /\ UNCHANGED <<hardenVars, file, marks, mem, service, setpwd, script, installer, uninstall>>
  /\ UNCHANGED commands

\* The host restarts: commands are gone, enabled units are started.
Reboot ==
  /\ Fault
  /\ service' = IF {"agentUnit", "agentBoots"} \subseteq marks THEN "start" ELSE "off"
  /\ master' = IF {"masterUnit", "masterBoots"} \subseteq marks THEN "start" ELSE "off"
  /\ setpwd' = "idle"
  /\ script' = IF ScriptRuns THEN "died" ELSE script
  /\ installer' = IF InstallerRuns THEN "died" ELSE installer
  /\ uninstall' = "idle"
  /\ panel' = Down
  /\ place' = [p \in Hardeners |-> "out"]
  /\ result' = [p \in Hardeners |-> "none"]
  /\ \/ UNCHANGED file
     \/ /\ script = "stopped" \/ \E p \in Hardeners : AtSave(p)
        /\ file' = Bad
  /\ UNCHANGED <<settings, https, sound, admin, marks, mem, commands>>

-----------------------------------------------------------------------------
PanelActs == PanelStep /\ UNCHANGED hostVars

ServiceNext ==
  /\ ServiceLoads \/ ServiceChecks \/ ServiceServes \/ ApplyMasterTLS \/ ServiceRestarts
  /\ UNCHANGED <<marks, setpwd, script, installer, master, uninstall, faults, commands>>

SetpwdNext ==
  /\ \/ SetpwdByHand \/ SetpwdLoads \/ SetpwdVerifies \/ SetpwdSaves \/ SetpwdEnds
     \/ SetpwdFails
  /\ UNCHANGED <<marks, service, script, installer, master, uninstall, faults>>

ScriptNext ==
  /\ \/ ScriptChecks \/ ScriptStops \/ ScriptInstalls \/ ScriptAsks \/ ScriptWritesUnit
     \/ ScriptStarts \/ ScriptDies
  /\ UNCHANGED <<installer, master, uninstall, faults>>

MasterNext ==
  /\ \/ InstallerChecks \/ InstallerWritesUnit \/ InstallerStarts
     \/ MasterChecks \/ MasterRuns \/ MasterRestarts
  /\ UNCHANGED <<hardenVars, file, mem, service, setpwd, script, uninstall, faults>>

UninstallNext ==
  /\ \/ UninstallStarts \/ UninstallStopsAgent \/ UninstallRemovesAgentUnit
     \/ UninstallRemovesConfig \/ UninstallStopsMaster \/ UninstallRemovesMasterUnit
     \/ UninstallRemovesState
  /\ UNCHANGED <<mem, setpwd, installer, faults>>

FaultNext == MasterCrash \/ Reboot \/ \E p \in Hardeners : Crash(p)

Next ==
  \/ PanelActs
  \/ \E p \in Hardeners : HardenStep(p)
  \/ ServiceNext \/ SetpwdNext \/ ScriptNext \/ MasterNext \/ UninstallNext
  \/ FaultNext

Spec == Init /\ [][Next]_vars

-----------------------------------------------------------------------------
(* Properties.                                                             *)

\* An agent and a master that have passed their checks are never there together
\* (role/role.go: "one host cannot run master and agent at the same time"), whatever
\* the two installations, crashes, reboots and an uninstall do to each other: each
\* side has written its own file before it looks for the other's.
NeverBoth ==
  ~(service \in {"hardening", "serving"} /\ master \in {"checked", "running"})

\* Once the agent script has ended well, agent.json holds its token and a password the
\* panel has accepted, and so does every service started from it: no save of an older
\* copy, by the service that was running before or by setpwd, takes them back.  The
\* file may be destroyed by a process killed while it writes, or by a write that fails.
InstallTakes ==
  script = "done" =>
    /\ file # Bad => file \in Configs /\ file.token = 1 /\ file.pass
    /\ service \in {"loaded", "hardening", "serving"} =>
         mem[Service].token = 1 /\ mem[Service].pass
=============================================================================
