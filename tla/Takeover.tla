------------------------------ MODULE Takeover ------------------------------
(***************************************************************************)
(* The takeover of 1Panel's port and its undoing: New and EnsureTakeover   *)
(* (master/server.go, master/prepare.go), RotateToken where it rewrites    *)
(* master.json (master/token.go), and Clean (master/uninstall.go), with    *)
(* crashes between any two of their steps.                                 *)
(*                                                                         *)
(* The port 1Panel is configured to use and the port it listens on are two *)
(* things: "1panel update port" changes the first, a restart the second.   *)
(*                                                                         *)
(* Left out: the token itself, the release sources and the host name in    *)
(* master.json, a foreign process on the internal port, a "systemctl stop" *)
(* that fails, and the removal of the unit file and the binary.            *)
(***************************************************************************)
EXTENDS Integers

CONSTANTS
  Ports,      \* ports an administrator gives to 1Panel
  MaxFaults,  \* bound: crashes and commands or writes that fail
  MaxChanges, \* bound: changes of the port and restarts by the administrator
  Uninstalls  \* whether 1pm is uninstalled

MaxPort == 65535

ASSUME PortAssumption == \A p \in Ports : p \in Nat /\ 0 < p /\ p <= MaxPort
ASSUME BoundAssumption == MaxFaults \in Nat /\ MaxChanges \in Nat /\ Uninstalls \in BOOLEAN

VARIABLES
  dbPort,   \* the port 1Panel is configured to use, what user-info shows
  panelAt,  \* the port 1Panel listens on, 0 while it is down
  file,     \* master.json
  state,    \* the copy of it New works on
  seen,     \* the port EnsureTakeover has read
  pc,       \* progress of New
  service,  \* the unit is enabled: systemd starts the master again
  cleaner,  \* progress of Clean
  faults, changes,
  first,    \* history: the port of 1Panel before the takeover
  lost,     \* history: master.json was not written, or cut off
  hurt      \* history: Clean failed, was cut off, or 1Panel's port changed meanwhile

panelVars == <<dbPort, panelAt>>
masterVars == <<state, seen, pc, service>>
vars == <<panelVars, file, masterVars, cleaner, faults, changes, first, lost, hurt>>

Absent == [kind |-> "absent", orig |-> 0, internal |-> 0, token |-> FALSE]
Bad == [Absent EXCEPT !.kind = "bad"]
Empty == [Absent EXCEPT !.kind = "json"]

-----------------------------------------------------------------------------
(* panel/settings.go, config/master.go.                                    *)

\* Mutant: the result that overflows is not moved down.
InternalPortUp(p) == p + 10000

InternalPort(p) == IF p + 10000 > MaxPort THEN p - 10000 ELSE p + 10000

Port == 0 .. MaxPort
Files == [kind : {"absent", "bad", "json"}, orig : Port, internal : Port, token : BOOLEAN]

TypeOK ==
  /\ dbPort \in Port /\ panelAt \in Port
  /\ file \in Files /\ state \in Files /\ seen \in Port
  /\ pc \in {"off", "ports", "move", "restart", "wait", "token", "source", "serving"}
  /\ service \in BOOLEAN
  /\ cleaner \in {"idle", "restore", "restart", "remove", "done"}
  /\ faults \in 0 .. MaxFaults /\ changes \in 0 .. MaxChanges
  /\ first \in Port /\ lost \in BOOLEAN /\ hurt \in BOOLEAN

Init ==
  /\ dbPort \in Ports /\ panelAt = dbPort /\ first = dbPort
  /\ file = Absent /\ state = Empty /\ seen = 0
  /\ pc = "off" /\ service = TRUE /\ cleaner = "idle"
  /\ faults = 0 /\ changes = 0 /\ lost = FALSE /\ hurt = FALSE

Fault == faults < MaxFaults /\ faults' = faults + 1

\* SaveMaster: os.WriteFile may fail before it has emptied the file or after.
SaveMaster(m) ==
  \/ file' = m /\ UNCHANGED <<faults, lost>>
  \/ Fault /\ file' \in {file, Bad} /\ lost' = TRUE

\* LoadMasterOrEmpty, where the file can be read.
Loaded == IF file = Absent THEN Empty ELSE file

\* UpdateServerPort: it may fail, as it does when the port is in use.
UpdateServerPort(p) == dbPort' = p /\ UNCHANGED faults

\* restartPanel: a failure is only logged.  The panel is down until it boots.
RestartPanel ==
  \/ panelAt' = 0 /\ UNCHANGED faults
  \/ Fault /\ UNCHANGED panelAt

-----------------------------------------------------------------------------
(* New and EnsureTakeover.                                                 *)

\* systemd starts the master; a file that cannot be parsed ends it at once.
Start ==
  /\ pc = "off" /\ service /\ file # Bad
  /\ state' = Loaded
  /\ pc' = "ports"
  /\ UNCHANGED <<panelVars, file, seen, service, cleaner, faults, changes, first, lost, hurt>>

NeedsPorts == state.orig = 0 \/ state.internal = 0
WithPorts(m, p) ==
  [kind |-> "json", orig |-> p, internal |-> InternalPort(p), token |-> m.token]

\* Mutant: the ports are kept in memory until the token is saved.
RecordPortsUnsaved ==
  /\ pc = "ports"
  /\ seen' = dbPort
  /\ state' = IF NeedsPorts THEN WithPorts(state, dbPort) ELSE state
  /\ pc' = "move"
  /\ UNCHANGED <<panelVars, file, service, cleaner, faults, changes, first, lost, hurt>>

\* ReadSettings, whose failure ends the process (Crash); the first takeover records
\* the ports and saves them, and goes on when that fails.
RecordPorts ==
  /\ pc = "ports"
  /\ seen' = dbPort
  /\ IF NeedsPorts
     THEN /\ state' = WithPorts(state, dbPort)
          /\ SaveMaster(state')
     ELSE UNCHANGED <<state, file, faults, lost>>
  /\ pc' = "move"
  /\ UNCHANGED <<panelVars, service, cleaner, changes, first, hurt>>

\* Mutant: the panel is moved in the first takeover only.
MoveOnce ==
  /\ pc = "move"
  /\ IF state.token
     THEN pc' = "wait" /\ UNCHANGED <<dbPort, faults>>
     ELSE UpdateServerPort(state.internal) /\ pc' = "restart"
  /\ UNCHANGED <<panelAt, file, state, seen, service, cleaner, changes, first, lost, hurt>>

\* A panel configured for another port is moved; one that is not is left alone.
Move ==
  /\ pc = "move"
  /\ \/ /\ seen = state.internal
        /\ pc' = "wait"
        /\ UNCHANGED <<dbPort, faults>>
     \/ /\ seen # state.internal
        /\ UpdateServerPort(state.internal)
        /\ pc' = "restart"
     \/ /\ seen # state.internal
        /\ Fault
        /\ pc' = "off"
        /\ UNCHANGED dbPort
  /\ UNCHANGED <<panelAt, file, state, seen, service, cleaner, changes, first, lost, hurt>>

Restart ==
  /\ pc = "restart"
  /\ RestartPanel
  /\ pc' = "wait"
  /\ UNCHANGED <<dbPort, file, state, seen, service, cleaner, changes, first, lost, hurt>>

\* waitPort, which gives up after 45 s; the master then ends with an error.
WaitPort ==
  /\ pc = "wait"
  /\ pc' = IF panelAt = state.internal THEN "token" ELSE "off"
  /\ UNCHANGED <<panelVars, file, state, seen, service, cleaner, faults, changes, first, lost, hurt>>

\* The first start makes a token and saves it; a failure is ignored.
MakeToken ==
  /\ pc = "token"
  /\ IF state.token
     THEN UNCHANGED <<state, file, faults, lost>>
     ELSE /\ state' = [state EXCEPT !.token = TRUE]
          /\ SaveMaster(state')
  /\ pc' = "source"
  /\ UNCHANGED <<panelVars, seen, service, cleaner, changes, first, hurt>>

\* A release source that has changed is saved; then the master listens, unless
\* 1Panel is back on the port.
Serve ==
  /\ pc = "source"
  /\ SaveMaster(state) \/ UNCHANGED <<file, faults, lost>>
  /\ pc' = IF panelAt = state.orig THEN "off" ELSE "serving"
  /\ UNCHANGED <<panelVars, state, seen, service, cleaner, changes, first, hurt>>

\* Mutant: RotateToken saves a state that holds nothing but the token.
RotateFromNothing ==
  /\ pc = "serving" /\ file # Bad
  /\ SaveMaster([Empty EXCEPT !.token = TRUE])
  /\ UNCHANGED <<panelVars, masterVars, cleaner, changes, first, hurt>>

\* RotateToken loads master.json again and saves it with another token.
RotateToken ==
  /\ pc = "serving" /\ file # Bad
  /\ SaveMaster([Loaded EXCEPT !.token = TRUE])
  /\ UNCHANGED <<panelVars, masterVars, cleaner, changes, first, hurt>>

\* The process ends, in the middle of a write perhaps.
Ends ==
  /\ pc' = "off"
  /\ \/ UNCHANGED <<file, lost>>
     \/ /\ pc \in {"ports", "token", "source", "serving"}
        /\ file' = Bad
        /\ lost' = TRUE

Crash ==
  /\ pc # "off"
  /\ Fault
  /\ Ends
  /\ UNCHANGED <<panelVars, state, seen, service, cleaner, changes, first, hurt>>

-----------------------------------------------------------------------------
(* Clean.                                                                  *)

\* Mutant: the service is not stopped.
CleanLeavesRunning ==
  /\ Uninstalls /\ cleaner = "idle"
  /\ cleaner' = "restore"
  /\ UNCHANGED <<panelVars, file, masterVars, faults, changes, first, lost, hurt>>

CleanStops ==
  /\ Uninstalls /\ cleaner = "idle"
  /\ service' = FALSE
  /\ IF pc = "off" THEN UNCHANGED <<pc, file, lost>> ELSE Ends
  /\ cleaner' = "restore"
  /\ UNCHANGED <<panelVars, state, seen, faults, changes, first, hurt>>

\* A restore that fails, or a command that cannot be run, is only logged.
CleanRestores ==
  /\ cleaner = "restore"
  /\ LET known == file.orig > 0 IN
     \/ /\ known /\ dbPort # file.orig
        /\ UpdateServerPort(file.orig)
        /\ cleaner' = "restart"
        /\ UNCHANGED hurt
     \/ /\ known
        /\ Fault
        /\ cleaner' = "remove" /\ hurt' = TRUE
        /\ UNCHANGED dbPort
     \/ /\ ~known \/ dbPort = file.orig
        /\ cleaner' = "remove"
        /\ UNCHANGED <<dbPort, faults, hurt>>
  /\ UNCHANGED <<panelAt, file, masterVars, changes, first, lost>>

CleanRestarts ==
  /\ cleaner = "restart"
  /\ RestartPanel
  /\ hurt' = (hurt \/ faults' # faults)
  /\ cleaner' = "remove"
  /\ UNCHANGED <<dbPort, file, masterVars, changes, first, lost>>

CleanRemoves ==
  /\ cleaner = "remove"
  /\ file' = Absent
  /\ cleaner' = "done"
  /\ UNCHANGED <<panelVars, masterVars, faults, changes, first, lost, hurt>>

\* The uninstall is cut off; it can be run again, or 1pm be installed again.
CleanCrashes ==
  /\ cleaner \notin {"idle", "done"}
  /\ Fault
  /\ cleaner' = "idle" /\ hurt' = TRUE
  /\ UNCHANGED <<panelVars, file, masterVars, changes, first, lost>>

InstallAgain ==
  /\ cleaner = "idle" /\ ~service
  /\ service' = TRUE
  /\ UNCHANGED <<panelVars, file, state, seen, pc, cleaner, faults, changes, first, lost, hurt>>

-----------------------------------------------------------------------------
(* 1Panel and its administrator.                                           *)

\* The master listens on the port it found.
Taken(p) == pc = "serving" /\ p = state.orig

PanelBoots ==
  /\ panelAt = 0 /\ ~Taken(dbPort)
  /\ panelAt' = dbPort
  /\ UNCHANGED <<dbPort, file, masterVars, cleaner, faults, changes, first, lost, hurt>>

\* The settings page: 1Panel refuses a port in use, and restarts on the new one.
PortChanges ==
  /\ changes < MaxChanges /\ changes' = changes + 1
  /\ panelAt # 0
  /\ \E p \in Ports \ {panelAt} :
       /\ ~Taken(p)
       /\ dbPort' = p
       /\ first' = IF file = Absent /\ pc \in {"off", "ports"} THEN p ELSE first
  /\ panelAt' = 0
  /\ hurt' = (hurt \/ cleaner # "idle")
  /\ UNCHANGED <<file, masterVars, cleaner, faults, lost>>

PanelRestarts ==
  /\ changes < MaxChanges /\ changes' = changes + 1
  /\ panelAt # 0
  /\ panelAt' = 0
  /\ UNCHANGED <<dbPort, file, masterVars, cleaner, faults, first, lost, hurt>>

MasterStep ==
  Start \/ RecordPorts \/ Move \/ Restart \/ WaitPort \/ MakeToken \/ Serve

CleanStep == CleanRestores \/ CleanRestarts \/ CleanRemoves

Next ==
  \/ MasterStep \/ RotateToken \/ Crash
  \/ CleanStops \/ CleanStep \/ CleanCrashes \/ InstallAgain
  \/ PanelBoots \/ PortChanges \/ PanelRestarts

Spec == Init /\ [][Next]_vars

\* The unit restarts a master that fails (Restart=on-failure), and 1Panel boots.
FairSpec == Spec /\ WF_vars(MasterStep) /\ WF_vars(PanelBoots)

-----------------------------------------------------------------------------
(* Properties.                                                             *)

\* The users' port: as long as every write of master.json succeeded, a master that
\* serves does so on the port 1Panel had before the takeover, after any crash, any
\* failed command and any change of 1Panel's port (prepare.go:24).
PublicPortKept == ~lost /\ pc = "serving" => state.orig = first

\* The ports in master.json are written once: no later save changes or drops them,
\* RotateToken's and those of a later start included, whatever has failed before
\* (token.go:46).
PortsWrittenOnce ==
  [][file.orig # 0 /\ file' \notin {Bad, Absent} =>
       file'.orig = file.orig /\ file'.internal = file.internal]_vars

\* The takeover borrows a port as PortLease says.  A file that cannot be read records
\* nothing, and a master that does not serve has no port (server.go:50, uninstall.go:17).
Recorded == [public |-> file.orig, internal |-> file.internal]
Served == IF pc = "serving" THEN state.orig ELSE 0
Lease ==
  INSTANCE PortLease WITH own <- first, panel <- dbPort, lease <- Recorded,
                          public <- Served, sound <- ~lost, disturbed <- hurt
ImplementsLease == Lease!Spec

\* An uninstall without a failure leaves 1Panel configured for the port it had, and
\* not listening on another, wherever the takeover had got to (uninstall.go:24).
UninstallRestores ==
  cleaner = "done" /\ ~hurt /\ ~lost => dbPort = first /\ panelAt \in {0, first}

\* Where 1Panel runs on the port it is configured for, whichever that is, the
\* master comes up and, when it has ended, comes up again (prepare.go:35).
ComesUp ==
  <>[](service /\ file # Bad /\ panelAt = dbPort) => []<>(pc = "serving")

\* What prepare.go:15 says of EnsureTakeover, that it ensures that 1Panel runs on
\* the internal port: a master that is started again and again serves in the end.
Ensured == <>[](service /\ file # Bad) => []<>(pc = "serving")
=============================================================================
