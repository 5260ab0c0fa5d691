-------------------------- MODULE Takeover_proofs --------------------------
(***************************************************************************)
(* Proofs about Takeover, for every set of ports and every number of       *)
(* faults, changes and uninstalls.                                         *)
(*                                                                         *)
(* RecordInv says where the two ports stand in master.json and in the copy *)
(* New works on; KeptInv adds what holds as long as every write of         *)
(* master.json has succeeded, and UndoneInv what holds of an uninstall     *)
(* that has not failed.  Together with TypeOK they are inductive.          *)
(***************************************************************************)
EXTENDS Takeover, TLAPS

\* The ports are recorded together; an uninstall has stopped the master; past "ports"
\* the copy holds the ports, those of the file if that holds any.
RecordInv ==
  /\ dbPort # 0 /\ first # 0
  /\ file.orig = 0 <=> file.internal = 0
  /\ file \in {Absent, Bad} \/ file.kind = "json"
  /\ cleaner # "idle" => pc = "off" /\ ~service
  /\ pc = "ports" => file # Bad /\ state = Loaded
  /\ pc \notin {"off", "ports"} =>
       /\ state.kind = "json" /\ state.orig # 0 /\ state.internal # 0
       /\ file.orig # 0 => state.orig = file.orig /\ state.internal = file.internal

\* Until a write has failed, the ports in the file are those of before the takeover,
\* and there is no file but before the first takeover and after an uninstall.
KeptInv ==
  ~lost =>
    /\ file # Bad
    /\ file.orig # 0 => file.orig = first /\ file.internal = InternalPort(first)
    /\ file.orig = 0 => file = Absent /\ pc \in {"off", "ports"} /\ (cleaner # "done" => dbPort = first)

\* An undisturbed uninstall: 1Panel is on its own port, or restarts on it next.
UndoneInv ==
  ~lost /\ ~hurt =>
    /\ cleaner \in {"idle", "restore"} /\ dbPort = first => panelAt \in {0, first}
    /\ cleaner = "restart" => dbPort = first
    /\ cleaner \in {"remove", "done"} => dbPort = first /\ panelAt \in {0, first}

TakeoverInv == TypeOK /\ RecordInv /\ KeptInv /\ UndoneInv

-----------------------------------------------------------------------------
(***************************************************************************)
(* Ports and files.                                                        *)
(***************************************************************************)
LEMMA PortRange ==
  /\ MaxPort \in Nat
  /\ \A p \in Port : p \in Int /\ 0 <= p /\ p <= MaxPort
  /\ \A p \in Int : 0 <= p /\ p <= MaxPort => p \in Port
<1>1. MaxPort \in Nat
  BY DEF MaxPort
<1>2. QED
  BY <1>1 DEF Port

LEMMA InternalPortRange ==
  ASSUME NEW p \in Int, 0 < p, p <= MaxPort
  PROVE  InternalPort(p) \in Int /\ 0 < InternalPort(p) /\ InternalPort(p) <= MaxPort /\ InternalPort(p) # p
<1>1. CASE p + 10000 > MaxPort
  <2>1. InternalPort(p) = p - 10000
    BY <1>1 DEF InternalPort
  <2>2. QED
    BY <1>1, <2>1 DEF MaxPort
<1>2. CASE ~(p + 10000 > MaxPort)
  <2>1. InternalPort(p) = p + 10000
    BY <1>2 DEF InternalPort
  <2>2. QED
    BY <1>2, <2>1 DEF MaxPort
<1>3. QED
  BY <1>1, <1>2

\* InternalPort gives a port, and not the one it is given (settings.go:133).
THEOREM InternalPortValid ==
  \A p \in Port \ {0} : InternalPort(p) \in Port \ {0} /\ InternalPort(p) # p
<1>1. SUFFICES ASSUME NEW p \in Port \ {0}
               PROVE  InternalPort(p) \in Port \ {0} /\ InternalPort(p) # p
  OBVIOUS
<1>2. p \in Int /\ 0 < p /\ p <= MaxPort
  BY PortRange
<1>3. InternalPort(p) \in Int /\ 0 < InternalPort(p) /\ InternalPort(p) <= MaxPort /\ InternalPort(p) # p
  BY <1>2, InternalPortRange
<1>4. QED
  BY <1>3, PortRange

LEMMA PortsArePorts == 0 \in Port /\ Ports \subseteq Port \ {0}
<1>1. 0 \in Port
  BY PortRange
<1>2. ASSUME NEW p \in Ports PROVE p \in Port \ {0}
  <2>1. p \in Int /\ 0 < p /\ p <= MaxPort
    BY PortAssumption
  <2>2. QED
    BY <2>1, PortRange
<1>3. QED
  BY <1>1, <1>2

\* The files without ports; a file is known by its fields.
LEMMA PlainFiles ==
  /\ Absent \in Files /\ Bad \in Files /\ Empty \in Files
  /\ Absent.kind = "absent" /\ Absent.orig = 0 /\ Absent.internal = 0
  /\ Bad.kind = "bad" /\ Bad.orig = 0 /\ Bad.internal = 0
  /\ Empty.kind = "json" /\ Empty.orig = 0 /\ Empty.internal = 0
<1>1. Absent \in Files
  BY PortsArePorts DEF Absent, Files
<1>2. [Absent EXCEPT !.kind = "bad"] \in Files
  BY <1>1 DEF Files
<1>3. [Absent EXCEPT !.kind = "json"] \in Files
  BY <1>1 DEF Files
<1>4. QED
  BY <1>1, <1>2, <1>3 DEF Absent, Bad, Empty

LEMMA FileFields ==
  ASSUME NEW m \in Files
  PROVE  /\ m.kind \in {"absent", "bad", "json"} /\ m.token \in BOOLEAN
         /\ m.orig \in Port /\ m.internal \in Port
BY DEF Files

\* A file with another token.
LEMMA TokenSet ==
  ASSUME NEW m \in Files
  PROVE  /\ [m EXCEPT !.token = TRUE] \in Files
         /\ [m EXCEPT !.token = TRUE].kind = m.kind
         /\ [m EXCEPT !.token = TRUE].orig = m.orig
         /\ [m EXCEPT !.token = TRUE].internal = m.internal
<1>1. [m EXCEPT !.token = TRUE] \in Files
  BY Zenon DEF Files
<1>2. QED
  BY <1>1 DEF Files

LEMMA WithPortsFields ==
  ASSUME NEW m \in Files, NEW p \in Port \ {0}
  PROVE  /\ WithPorts(m, p) \in Files
         /\ WithPorts(m, p).kind = "json"
         /\ WithPorts(m, p).orig = p /\ WithPorts(m, p).internal = InternalPort(p)
<1>1. InternalPort(p) \in Port
  BY InternalPortValid
<1>2. QED
  BY <1>1 DEF WithPorts, Files

LEMMA FaultType ==
  ASSUME TypeOK, Fault
  PROVE  faults' \in 0 .. MaxFaults
BY BoundAssumption DEF TypeOK, Fault

\* What SaveMaster leaves.
LEMMA SaveMasterType ==
  ASSUME TypeOK, NEW m \in Files, SaveMaster(m)
  PROVE  /\ file' \in Files /\ file' \in {m, file, Bad}
         /\ ~lost' => file' = m /\ ~lost
         /\ lost' \in BOOLEAN
         /\ faults' \in 0 .. MaxFaults
<1>1. file' \in {m, file, Bad} /\ (~lost' => file' = m /\ ~lost) /\ lost' \in BOOLEAN
  BY DEF TypeOK, SaveMaster
<1>2. faults' \in 0 .. MaxFaults
  BY FaultType DEF TypeOK, SaveMaster
<1>3. QED
  BY <1>1, <1>2, PlainFiles DEF TypeOK

LEMMA EndsType ==
  ASSUME TypeOK, Ends
  PROVE  /\ file' \in Files /\ file' \in {file, Bad} /\ lost' \in BOOLEAN
         /\ ~lost' => file' = file /\ ~lost
         /\ pc' = "off"
<1>1. CASE UNCHANGED <<file, lost>>
  BY <1>1 DEF TypeOK, Ends
<1>2. CASE file' = Bad /\ lost' = TRUE
  BY <1>2, PlainFiles DEF Ends
<1>3. QED
  BY <1>1, <1>2 DEF Ends

LEMMA LoadedFields ==
  ASSUME TypeOK, RecordInv, file # Bad
  PROVE  /\ Loaded \in Files /\ Loaded.kind = "json"
         /\ Loaded.orig = file.orig /\ Loaded.internal = file.internal
BY PlainFiles DEF TypeOK, RecordInv, Loaded

-----------------------------------------------------------------------------
(***************************************************************************)
(* The invariant holds at the start and every step keeps it.               *)
(***************************************************************************)
LEMMA InitInv == Init => TakeoverInv
<1> SUFFICES ASSUME Init PROVE TakeoverInv
  OBVIOUS
<1>2. dbPort \in Port \ {0}
  BY PortsArePorts DEF Init
<1>3. TypeOK
  <2>1. 0 \in 0 .. MaxFaults /\ 0 \in 0 .. MaxChanges
    BY BoundAssumption
  <2>2. file \in Files /\ state \in Files
    BY PlainFiles DEF Init
  <2>3. QED
    BY <1>2, <2>1, <2>2, PortsArePorts DEF Init, TypeOK
<1>4. RecordInv
  BY <1>2, PlainFiles DEF Init, RecordInv
<1>5. KeptInv
  BY PlainFiles DEF Init, KeptInv
<1>6. UndoneInv
  BY DEF Init, UndoneInv
<1>7. QED
  BY <1>3, <1>4, <1>5, <1>6 DEF TakeoverInv

LEMMA StartInv == TakeoverInv /\ Start => TakeoverInv'
<1> SUFFICES ASSUME TypeOK, RecordInv, KeptInv, UndoneInv, Start PROVE TakeoverInv'
  BY DEF TakeoverInv
<1>2. file # Bad /\ Loaded \in Files
  BY LoadedFields DEF Start
<1>3. TypeOK'
  BY <1>2 DEF TypeOK, Start, panelVars
<1>4. Loaded' = Loaded
  BY DEF Loaded, Start
<1>5. RecordInv'
  BY <1>2, <1>4 DEF TypeOK, RecordInv, Start, panelVars
<1>6. KeptInv'
  BY DEF KeptInv, Start, panelVars
<1>7. UndoneInv'
  BY DEF UndoneInv, Start, panelVars
<1>8. QED
  BY <1>3, <1>5, <1>6, <1>7 DEF TakeoverInv

LEMMA RecordPortsInv == TakeoverInv /\ RecordPorts => TakeoverInv'
<1> SUFFICES ASSUME TypeOK, RecordInv, KeptInv, UndoneInv, RecordPorts PROVE TakeoverInv'
  BY DEF TakeoverInv
<1>2. /\ state \in Files /\ state = Loaded /\ file # Bad
      /\ Loaded.kind = "json" /\ Loaded.orig = file.orig /\ Loaded.internal = file.internal
  BY LoadedFields DEF TypeOK, RecordInv, RecordPorts
<1>3. dbPort \in Port \ {0} /\ cleaner = "idle"
  BY DEF TypeOK, RecordInv, RecordPorts
<1>4. CASE NeedsPorts
  <2>1. file.orig = 0 /\ file.internal = 0
    BY <1>2, <1>4 DEF NeedsPorts, RecordInv
  <2>2. state' = WithPorts(state, dbPort) /\ SaveMaster(WithPorts(state, dbPort))
    BY <1>4 DEF RecordPorts
  <2>3. /\ state' \in Files /\ state'.kind = "json"
        /\ state'.orig = dbPort /\ state'.internal = InternalPort(dbPort)
    BY <1>2, <1>3, <2>2, WithPortsFields
  <2>4. /\ file' \in Files /\ file' \in {state', file, Bad}
        /\ ~lost' => file' = state' /\ ~lost
        /\ lost' \in BOOLEAN /\ faults' \in 0 .. MaxFaults
    BY <2>2, <2>3, SaveMasterType
  <2>5. InternalPort(dbPort) # 0
    BY <1>3, InternalPortValid
  <2>6. TypeOK'
    BY <2>3, <2>4 DEF TypeOK, RecordPorts, panelVars
  <2>7. RecordInv'
    BY <1>3, <2>1, <2>3, <2>4, <2>5, PlainFiles DEF RecordInv, RecordPorts, panelVars
  <2>8. KeptInv'
    BY <1>3, <2>1, <2>3, <2>4, PlainFiles DEF KeptInv, RecordPorts, panelVars
  <2>9. UndoneInv'
    BY <2>4 DEF UndoneInv, RecordPorts, panelVars
  <2>10. QED
    BY <2>6, <2>7, <2>8, <2>9 DEF TakeoverInv
<1>5. CASE ~NeedsPorts
  <2>1. file.orig # 0 /\ file.internal # 0 /\ UNCHANGED <<state, file, faults, lost>>
    BY <1>2, <1>5 DEF NeedsPorts, RecordPorts
  <2>2. TypeOK'
    BY <2>1 DEF TypeOK, RecordPorts, panelVars
  <2>3. RecordInv'
    BY <1>2, <2>1, PlainFiles DEF RecordInv, RecordPorts, panelVars
  <2>4. KeptInv'
    BY <2>1 DEF KeptInv, RecordPorts, panelVars
  <2>5. UndoneInv'
    BY <2>1 DEF UndoneInv, RecordPorts, panelVars
  <2>6. QED
    BY <2>2, <2>3, <2>4, <2>5 DEF TakeoverInv
<1>6. QED
  BY <1>4, <1>5

LEMMA MoveInv == TakeoverInv /\ Move => TakeoverInv'
<1> SUFFICES ASSUME TypeOK, RecordInv, KeptInv, UndoneInv, Move PROVE TakeoverInv'
  BY DEF TakeoverInv
<1>1. dbPort' \in {dbPort, state.internal} /\ faults' \in 0 .. MaxFaults
  BY FaultType DEF TypeOK, Move, UpdateServerPort
<1>2. dbPort' \in Port
  BY <1>1, FileFields DEF TypeOK
<1>3. ~lost => state.internal = InternalPort(first) /\ state.internal # first
  <2>1. first \in Port \ {0}
    BY DEF TypeOK, RecordInv
  <2>2. ~lost => state.internal = InternalPort(first)
    BY DEF RecordInv, KeptInv, Move
  <2>3. QED
    BY <2>1, <2>2, InternalPortValid
<1>4. TypeOK'
  BY <1>1, <1>2 DEF TypeOK, Move, panelVars, masterVars
<1>5. RecordInv'
  BY <1>1 DEF RecordInv, Move
<1>6. KeptInv'
  BY DEF KeptInv, Move
<1>7. UndoneInv'
  BY <1>1, <1>3 DEF RecordInv, UndoneInv, Move
<1>8. QED
  BY <1>4, <1>5, <1>6, <1>7 DEF TakeoverInv

LEMMA RestartInv == TakeoverInv /\ Restart => TakeoverInv'
<1> SUFFICES ASSUME TypeOK, RecordInv, KeptInv, UndoneInv, Restart PROVE TakeoverInv'
  BY DEF TakeoverInv
<1>1. panelAt' \in {panelAt, 0} /\ faults' \in 0 .. MaxFaults
  BY FaultType DEF TypeOK, Restart, RestartPanel
<1>2. TypeOK'
  BY <1>1, PortsArePorts DEF TypeOK, Restart, panelVars
<1>3. RecordInv'
  BY DEF RecordInv, Restart, panelVars
<1>4. KeptInv'
  BY DEF KeptInv, Restart, panelVars
<1>5. UndoneInv'
  BY <1>1 DEF UndoneInv, Restart, panelVars
<1>6. QED
  BY <1>2, <1>3, <1>4, <1>5 DEF TakeoverInv

LEMMA WaitPortInv == TakeoverInv /\ WaitPort => TakeoverInv'
<1> SUFFICES ASSUME TypeOK, RecordInv, KeptInv, UndoneInv, WaitPort PROVE TakeoverInv'
  BY DEF TakeoverInv
<1>1. TypeOK'
  BY DEF TypeOK, WaitPort, panelVars
<1>2. RecordInv'
  BY DEF RecordInv, WaitPort, panelVars
<1>3. KeptInv'
  BY DEF KeptInv, WaitPort, panelVars
<1>4. UndoneInv'
  BY DEF UndoneInv, WaitPort, panelVars
<1>5. QED
  BY <1>1, <1>2, <1>3, <1>4 DEF TakeoverInv

LEMMA MakeTokenInv == TakeoverInv /\ MakeToken => TakeoverInv'
<1> SUFFICES ASSUME TypeOK, RecordInv, KeptInv, UndoneInv, MakeToken PROVE TakeoverInv'
  BY DEF TakeoverInv
<1>1. state \in Files /\ state.kind = "json" /\ state.orig # 0 /\ state.internal # 0
  BY DEF TypeOK, RecordInv, MakeToken
<1>2. state' \in Files /\ state'.kind = "json" /\ state'.orig = state.orig /\ state'.internal = state.internal
  BY <1>1, TokenSet DEF MakeToken
<1>3. CASE state.token
  <2>1. UNCHANGED <<state, file, faults, lost>>
    BY <1>3 DEF MakeToken
  <2>2. TypeOK'
    BY <2>1 DEF TypeOK, MakeToken, panelVars
  <2>3. RecordInv'
    BY <2>1 DEF RecordInv, MakeToken, panelVars
  <2>4. KeptInv'
    BY <2>1 DEF KeptInv, MakeToken, panelVars
  <2>5. UndoneInv'
    BY <2>1 DEF UndoneInv, MakeToken, panelVars
  <2>6. QED
    BY <2>2, <2>3, <2>4, <2>5 DEF TakeoverInv
<1>4. CASE ~state.token
  <2>1. SaveMaster([state EXCEPT !.token = TRUE]) /\ state' = [state EXCEPT !.token = TRUE]
    BY <1>4 DEF MakeToken
  <2>2. /\ file' \in Files /\ file' \in {state', file, Bad}
        /\ ~lost' => file' = state' /\ ~lost
        /\ lost' \in BOOLEAN /\ faults' \in 0 .. MaxFaults
    BY <1>2, <2>1, SaveMasterType
  <2>3. TypeOK'
    BY <1>2, <2>2 DEF TypeOK, MakeToken, panelVars
  <2>4. RecordInv'
    BY <1>1, <1>2, <2>2, PlainFiles DEF RecordInv, MakeToken, panelVars
  <2>5. KeptInv'
    BY <1>1, <1>2, <2>2, PlainFiles DEF KeptInv, RecordInv, MakeToken, panelVars
  <2>6. UndoneInv'
    BY <2>2 DEF UndoneInv, MakeToken, panelVars
  <2>7. QED
    BY <2>3, <2>4, <2>5, <2>6 DEF TakeoverInv
<1>5. QED
  BY <1>3, <1>4

LEMMA ServeInv == TakeoverInv /\ Serve => TakeoverInv'
<1> SUFFICES ASSUME TypeOK, RecordInv, KeptInv, UndoneInv, Serve PROVE TakeoverInv'
  BY DEF TakeoverInv
<1>1. state \in Files /\ state.kind = "json" /\ state.orig # 0 /\ state.internal # 0
  BY DEF TypeOK, RecordInv, Serve
<1>2. /\ file' \in Files /\ file' \in {state, file, Bad}
      /\ ~lost' => file' \in {state, file} /\ ~lost
      /\ lost' \in BOOLEAN /\ faults' \in 0 .. MaxFaults
  BY <1>1, SaveMasterType DEF TypeOK, Serve
<1>3. TypeOK'
  BY <1>2 DEF TypeOK, Serve, panelVars
<1>4. RecordInv'
  BY <1>1, <1>2, PlainFiles DEF RecordInv, Serve, panelVars
<1>5. KeptInv'
  BY <1>1, <1>2, PlainFiles DEF KeptInv, RecordInv, Serve, panelVars
<1>6. UndoneInv'
  BY <1>2 DEF UndoneInv, Serve, panelVars
<1>7. QED
  BY <1>3, <1>4, <1>5, <1>6 DEF TakeoverInv

LEMMA RotateTokenInv == TakeoverInv /\ RotateToken => TakeoverInv'
<1> SUFFICES ASSUME TypeOK, RecordInv, KeptInv, UndoneInv, RotateToken PROVE TakeoverInv'
  BY DEF TakeoverInv
<1>1. /\ [Loaded EXCEPT !.token = TRUE] \in Files /\ [Loaded EXCEPT !.token = TRUE].kind = "json"
      /\ [Loaded EXCEPT !.token = TRUE].orig = file.orig
      /\ [Loaded EXCEPT !.token = TRUE].internal = file.internal
  BY LoadedFields, TokenSet DEF RotateToken
<1>2. /\ file' \in Files /\ file' \in {[Loaded EXCEPT !.token = TRUE], file, Bad}
      /\ ~lost' => file' = [Loaded EXCEPT !.token = TRUE] /\ ~lost
      /\ lost' \in BOOLEAN /\ faults' \in 0 .. MaxFaults
  BY <1>1, SaveMasterType DEF RotateToken
<1>3. TypeOK'
  BY <1>2 DEF TypeOK, RotateToken, panelVars, masterVars
<1>4. RecordInv'
  BY <1>1, <1>2, PlainFiles DEF RecordInv, RotateToken, panelVars, masterVars
<1>5. KeptInv'
  BY <1>1, <1>2, PlainFiles DEF KeptInv, RotateToken, panelVars, masterVars
<1>6. UndoneInv'
  BY <1>2 DEF UndoneInv, RotateToken, panelVars, masterVars
<1>7. QED
  BY <1>3, <1>4, <1>5, <1>6 DEF TakeoverInv

LEMMA CrashInv == TakeoverInv /\ Crash => TakeoverInv'
<1> SUFFICES ASSUME TypeOK, RecordInv, KeptInv, UndoneInv, Crash PROVE TakeoverInv'
  BY DEF TakeoverInv
<1>1. /\ file' \in Files /\ file' \in {file, Bad} /\ lost' \in BOOLEAN
      /\ ~lost' => file' = file /\ ~lost
      /\ pc' = "off"
  BY EndsType DEF Crash
<1>2. faults' \in 0 .. MaxFaults
  BY FaultType DEF Crash
<1>3. TypeOK'
  BY <1>1, <1>2 DEF TypeOK, Crash, panelVars
<1>4. RecordInv'
  BY <1>1, PlainFiles DEF RecordInv, Crash, panelVars
<1>5. KeptInv'
  BY <1>1 DEF KeptInv, Crash, panelVars
<1>6. UndoneInv'
  BY <1>1 DEF UndoneInv, Crash, panelVars
<1>7. QED
  BY <1>3, <1>4, <1>5, <1>6 DEF TakeoverInv

LEMMA CleanStopsInv == TakeoverInv /\ CleanStops => TakeoverInv'
<1> SUFFICES ASSUME TypeOK, RecordInv, KeptInv, UndoneInv, CleanStops PROVE TakeoverInv'
  BY DEF TakeoverInv
<1>1. /\ file' \in Files /\ file' \in {file, Bad} /\ lost' \in BOOLEAN
      /\ ~lost' => file' = file /\ ~lost
      /\ pc' = "off"
  <2>1. CASE pc = "off"
    BY <2>1 DEF TypeOK, CleanStops
  <2>2. CASE pc # "off"
    BY <2>2, EndsType DEF CleanStops
  <2>3. QED
    BY <2>1, <2>2
<1>2. TypeOK'
  BY <1>1 DEF TypeOK, CleanStops, panelVars
<1>3. RecordInv'
  BY <1>1, PlainFiles DEF RecordInv, CleanStops, panelVars
<1>4. KeptInv'
  BY <1>1 DEF KeptInv, CleanStops, panelVars
<1>5. UndoneInv'
  BY <1>1 DEF UndoneInv, CleanStops, panelVars
<1>6. QED
  BY <1>2, <1>3, <1>4, <1>5 DEF TakeoverInv

LEMMA CleanRestoresInv == TakeoverInv /\ CleanRestores => TakeoverInv'
<1> SUFFICES ASSUME TypeOK, RecordInv, KeptInv, UndoneInv, CleanRestores PROVE TakeoverInv'
  BY DEF TakeoverInv
<1>1. /\ dbPort' = dbPort \/ (dbPort' = file.orig /\ file.orig > 0)
      /\ faults' \in 0 .. MaxFaults /\ hurt' \in {hurt, TRUE}
  BY FaultType DEF TypeOK, CleanRestores, UpdateServerPort
<1>2. dbPort' \in Port /\ dbPort' # 0 /\ file.orig \in Int /\ 0 <= file.orig
  BY <1>1, FileFields, PortRange DEF TypeOK, RecordInv
<1>3. ~lost /\ file.orig # 0 => file.orig = first
  BY DEF KeptInv
<1>4. ~lost /\ file.orig = 0 => dbPort = first
  BY DEF KeptInv, CleanRestores
<1>5. TypeOK'
  BY <1>1, <1>2 DEF TypeOK, CleanRestores, panelVars, masterVars
<1>6. RecordInv'
  BY <1>1, <1>2 DEF RecordInv, CleanRestores, panelVars, masterVars
<1>7. KeptInv'
  BY <1>1, <1>3, <1>4 DEF KeptInv, CleanRestores, panelVars, masterVars
<1>8. UndoneInv'
  BY <1>1, <1>2, <1>3, <1>4 DEF UndoneInv, UpdateServerPort, CleanRestores, panelVars, masterVars
<1>9. QED
  BY <1>5, <1>6, <1>7, <1>8 DEF TakeoverInv

LEMMA CleanRestartsInv == TakeoverInv /\ CleanRestarts => TakeoverInv'
<1> SUFFICES ASSUME TypeOK, RecordInv, KeptInv, UndoneInv, CleanRestarts PROVE TakeoverInv'
  BY DEF TakeoverInv
<1>1. /\ panelAt' \in {panelAt, 0} /\ faults' \in 0 .. MaxFaults /\ hurt' \in BOOLEAN
      /\ ~hurt' => panelAt' = 0 /\ ~hurt
  <2>1. CASE panelAt' = 0 /\ UNCHANGED faults
    BY <2>1 DEF TypeOK, CleanRestarts
  <2>2. CASE Fault /\ UNCHANGED panelAt
    <3>1. faults' # faults /\ faults' \in 0 .. MaxFaults
      BY <2>2, FaultType DEF TypeOK, Fault
    <3>2. QED
      BY <2>2, <3>1 DEF TypeOK, CleanRestarts
  <2>3. QED
    BY <2>1, <2>2 DEF CleanRestarts, RestartPanel
<1>2. TypeOK'
  BY <1>1, PortsArePorts DEF TypeOK, CleanRestarts, panelVars, masterVars
<1>3. RecordInv'
  BY DEF RecordInv, CleanRestarts, panelVars, masterVars
<1>4. KeptInv'
  BY DEF KeptInv, CleanRestarts, panelVars, masterVars
<1>5. UndoneInv'
  BY <1>1 DEF UndoneInv, CleanRestarts, panelVars, masterVars
<1>6. QED
  BY <1>2, <1>3, <1>4, <1>5 DEF TakeoverInv

LEMMA CleanRemovesInv == TakeoverInv /\ CleanRemoves => TakeoverInv'
<1> SUFFICES ASSUME TypeOK, RecordInv, KeptInv, UndoneInv, CleanRemoves PROVE TakeoverInv'
  BY DEF TakeoverInv
<1>1. TypeOK'
  BY PlainFiles DEF TypeOK, CleanRemoves, panelVars, masterVars
<1>2. RecordInv'
  BY PlainFiles DEF RecordInv, CleanRemoves, panelVars, masterVars
<1>3. KeptInv'
  BY PlainFiles DEF KeptInv, RecordInv, CleanRemoves, panelVars, masterVars
<1>4. UndoneInv'
  BY DEF UndoneInv, CleanRemoves, panelVars, masterVars
<1>5. QED
  BY <1>1, <1>2, <1>3, <1>4 DEF TakeoverInv

LEMMA CleanCrashesInv == TakeoverInv /\ CleanCrashes => TakeoverInv'
<1> SUFFICES ASSUME TypeOK, RecordInv, KeptInv, UndoneInv, CleanCrashes PROVE TakeoverInv'
  BY DEF TakeoverInv
<1>1. faults' \in 0 .. MaxFaults
  BY FaultType DEF CleanCrashes
<1>2. TypeOK'
  BY <1>1 DEF TypeOK, CleanCrashes, panelVars, masterVars
<1>3. RecordInv'
  BY DEF RecordInv, CleanCrashes, panelVars, masterVars
<1>4. KeptInv'
  BY DEF KeptInv, CleanCrashes, panelVars, masterVars
<1>5. UndoneInv'
  BY DEF UndoneInv, CleanCrashes, panelVars, masterVars
<1>6. QED
  BY <1>2, <1>3, <1>4, <1>5 DEF TakeoverInv

LEMMA InstallAgainInv == TakeoverInv /\ InstallAgain => TakeoverInv'
<1> SUFFICES ASSUME TypeOK, RecordInv, KeptInv, UndoneInv, InstallAgain PROVE TakeoverInv'
  BY DEF TakeoverInv
<1>1. TypeOK'
  BY DEF TypeOK, InstallAgain, panelVars
<1>2. RecordInv'
  BY DEF RecordInv, Loaded, InstallAgain, panelVars
<1>3. KeptInv'
  BY DEF KeptInv, InstallAgain, panelVars
<1>4. UndoneInv'
  BY DEF UndoneInv, InstallAgain, panelVars
<1>5. QED
  BY <1>1, <1>2, <1>3, <1>4 DEF TakeoverInv

LEMMA PanelBootsInv == TakeoverInv /\ PanelBoots => TakeoverInv'
<1> SUFFICES ASSUME TypeOK, RecordInv, KeptInv, UndoneInv, PanelBoots PROVE TakeoverInv'
  BY DEF TakeoverInv
<1>1. TypeOK'
  BY DEF TypeOK, PanelBoots, panelVars, masterVars
<1>2. RecordInv'
  BY DEF RecordInv, Loaded, PanelBoots, panelVars, masterVars
<1>3. KeptInv'
  BY DEF KeptInv, PanelBoots, panelVars, masterVars
<1>4. UndoneInv'
  BY DEF UndoneInv, PanelBoots, panelVars, masterVars
<1>5. QED
  BY <1>1, <1>2, <1>3, <1>4 DEF TakeoverInv

LEMMA PortChangesInv == TakeoverInv /\ PortChanges => TakeoverInv'
<1> SUFFICES ASSUME TypeOK, RecordInv, KeptInv, UndoneInv, PortChanges PROVE TakeoverInv'
  BY DEF TakeoverInv
<1>1. PICK p \in Ports \ {panelAt} :
        dbPort' = p /\ first' = IF file = Absent /\ pc \in {"off", "ports"} THEN p ELSE first
  BY DEF PortChanges
<1>2. p \in Port \ {0}
  BY PortsArePorts
<1>3. changes' \in 0 .. MaxChanges
  BY BoundAssumption DEF TypeOK, PortChanges
<1>4. TypeOK'
  BY <1>1, <1>2, <1>3, PortsArePorts DEF TypeOK, PortChanges, panelVars, masterVars
<1>5. RecordInv'
  BY <1>1, <1>2 DEF RecordInv, Loaded, PortChanges, panelVars, masterVars
<1>6. KeptInv'
  BY <1>1, PlainFiles DEF KeptInv, RecordInv, PortChanges, panelVars, masterVars
<1>7. UndoneInv'
  BY <1>1 DEF UndoneInv, PortChanges, panelVars, masterVars
<1>8. QED
  BY <1>4, <1>5, <1>6, <1>7 DEF TakeoverInv

LEMMA PanelRestartsInv == TakeoverInv /\ PanelRestarts => TakeoverInv'
<1> SUFFICES ASSUME TypeOK, RecordInv, KeptInv, UndoneInv, PanelRestarts PROVE TakeoverInv'
  BY DEF TakeoverInv
<1>1. changes' \in 0 .. MaxChanges
  BY BoundAssumption DEF TypeOK, PanelRestarts
<1>2. TypeOK'
  BY <1>1, PortsArePorts DEF TypeOK, PanelRestarts, panelVars, masterVars
<1>3. RecordInv'
  BY DEF RecordInv, Loaded, PanelRestarts, panelVars, masterVars
<1>4. KeptInv'
  BY DEF KeptInv, PanelRestarts, panelVars, masterVars
<1>5. UndoneInv'
  BY DEF UndoneInv, PanelRestarts, panelVars, masterVars
<1>6. QED
  BY <1>2, <1>3, <1>4, <1>5 DEF TakeoverInv

LEMMA NextInv == TakeoverInv /\ [Next]_vars => TakeoverInv'
<1> SUFFICES ASSUME TakeoverInv, [Next]_vars PROVE TakeoverInv'
  OBVIOUS
<1>1. CASE UNCHANGED vars
  <2>1. TypeOK'
    BY <1>1 DEF TakeoverInv, TypeOK, vars, panelVars, masterVars
  <2>2. RecordInv'
    BY <1>1 DEF TakeoverInv, RecordInv, Loaded, vars, panelVars, masterVars
  <2>3. KeptInv' /\ UndoneInv'
    BY <1>1 DEF TakeoverInv, KeptInv, UndoneInv, vars, panelVars, masterVars
  <2>4. QED
    BY <2>1, <2>2, <2>3 DEF TakeoverInv
<1>2. CASE MasterStep
  BY <1>2, StartInv, RecordPortsInv, MoveInv, RestartInv, WaitPortInv, MakeTokenInv,
     ServeInv DEF MasterStep
<1>3. CASE RotateToken \/ Crash
  BY <1>3, RotateTokenInv, CrashInv
<1>4. CASE CleanStops \/ CleanStep \/ CleanCrashes \/ InstallAgain
  BY <1>4, CleanStopsInv, CleanRestoresInv, CleanRestartsInv, CleanRemovesInv,
     CleanCrashesInv, InstallAgainInv DEF CleanStep
<1>5. CASE PanelBoots \/ PortChanges \/ PanelRestarts
  BY <1>5, PanelBootsInv, PortChangesInv, PanelRestartsInv
<1>6. QED
  BY <1>1, <1>2, <1>3, <1>4, <1>5 DEF Next

\* The invariant of every run of the takeover (prepare.go:16, uninstall.go:17).
THEOREM TakeoverInvariant == Spec => []TakeoverInv
<1>1. QED
  BY InitInv, NextInv, PTL DEF Spec

-----------------------------------------------------------------------------
(***************************************************************************)
(* The properties of the runs.                                             *)
(***************************************************************************)

\* Every port, the internal one included, is a port (prepare.go:26).
THEOREM TypeCorrect == Spec => []TypeOK
<1>1. TakeoverInv => TypeOK
  BY DEF TakeoverInv
<1>2. QED
  BY <1>1, TakeoverInvariant, PTL

\* A master whose writes have succeeded serves on the port 1Panel had (prepare.go:24).
THEOREM PublicPortKeptAlways == Spec => []PublicPortKept
<1>1. TakeoverInv => PublicPortKept
  BY DEF TakeoverInv, RecordInv, KeptInv, PublicPortKept
<1>2. QED
  BY <1>1, TakeoverInvariant, PTL

\* An uninstall without a failure gives 1Panel its port back (uninstall.go:24).
THEOREM UninstallRestoresAlways == Spec => []UninstallRestores
<1>1. TakeoverInv => UninstallRestores
  BY DEF TakeoverInv, UndoneInv, UninstallRestores
<1>2. QED
  BY <1>1, TakeoverInvariant, PTL

\* No step changes or drops the ports in master.json, but one that removes the file or
\* leaves it cut off.
LEMMA PortsKeptByStep ==
  ASSUME TakeoverInv, [Next]_vars, file.orig # 0, file' \notin {Bad, Absent}
  PROVE  file'.orig = file.orig /\ file'.internal = file.internal
<1> USE DEF TakeoverInv
<1>1. CASE UNCHANGED file
  BY <1>1
<1>2. CASE RecordPorts
  <2>1. ~NeedsPorts
    <3>1. state = Loaded /\ file # Bad /\ file.internal # 0
      BY <1>2 DEF RecordPorts, RecordInv
    <3>2. QED
      BY <3>1, LoadedFields DEF NeedsPorts
  <2>2. QED
    BY <1>2, <2>1 DEF RecordPorts
<1>3. CASE MakeToken \/ Serve
  <2>1. state \in Files /\ state.orig = file.orig /\ state.internal = file.internal
    BY <1>3 DEF TypeOK, RecordInv, MakeToken, Serve
  <2>2. file' \in {state, [state EXCEPT !.token = TRUE], file}
    <3>1. CASE Serve
      BY <2>1, <3>1, SaveMasterType DEF Serve
    <3>2. CASE MakeToken
      BY <2>1, <3>2, TokenSet, SaveMasterType DEF MakeToken
    <3>3. QED
      BY <1>3, <3>1, <3>2
  <2>3. QED
    BY <2>1, <2>2, TokenSet
<1>4. CASE RotateToken
  <2>1. /\ [Loaded EXCEPT !.token = TRUE] \in Files
        /\ [Loaded EXCEPT !.token = TRUE].orig = file.orig
        /\ [Loaded EXCEPT !.token = TRUE].internal = file.internal
    BY <1>4, LoadedFields, TokenSet DEF RotateToken
  <2>2. file' \in {[Loaded EXCEPT !.token = TRUE], file}
    BY <1>4, <2>1, SaveMasterType DEF RotateToken
  <2>3. QED
    BY <2>1, <2>2
<1>5. CASE Crash \/ CleanStops
  <2>1. CASE Crash
    BY <2>1, EndsType DEF Crash
  <2>2. CASE CleanStops
    BY <2>2, EndsType DEF CleanStops
  <2>3. QED
    BY <1>5, <2>1, <2>2
<1>6. ~CleanRemoves
  BY DEF CleanRemoves
<1>7. CASE Start \/ Move \/ Restart \/ WaitPort
  BY <1>7, <1>1 DEF Start, Move, Restart, WaitPort
<1>8. CASE CleanRestores \/ CleanRestarts \/ CleanCrashes \/ InstallAgain
  BY <1>8, <1>1 DEF CleanRestores, CleanRestarts, CleanCrashes, InstallAgain
<1>9. CASE PanelBoots \/ PortChanges \/ PanelRestarts
  BY <1>9, <1>1 DEF PanelBoots, PortChanges, PanelRestarts
<1>10. CASE UNCHANGED vars
  BY <1>10, <1>1 DEF vars
<1>11. QED
  BY <1>2, <1>3, <1>4, <1>5, <1>6, <1>7, <1>8, <1>9, <1>10 DEF Next, MasterStep, CleanStep

\* The ports in master.json are written once (token.go:46).
THEOREM PortsWrittenOnceAlways == Spec => PortsWrittenOnce
<1>1. TakeoverInv /\ [Next]_vars =>
        [file.orig # 0 /\ file' \notin {Bad, Absent} =>
           file'.orig = file.orig /\ file'.internal = file.internal]_vars
  BY PortsKeptByStep
<1>2. QED
  BY <1>1, TakeoverInvariant, PTL DEF Spec, PortsWrittenOnce

-----------------------------------------------------------------------------
(***************************************************************************)
(* The takeover implements PortLease.                                      *)
(***************************************************************************)

\* What is on record, where no write has failed.
LEMMA LeaseHeld ==
  ASSUME TakeoverInv, ~lost
  PROVE  /\ Lease!Held <=> file.orig # 0
         /\ file.orig = 0 => file = Absent /\ pc \in {"off", "ports"}
         /\ file.orig # 0 => file.orig = first /\ file.internal = InternalPort(first)
BY DEF TakeoverInv, RecordInv, KeptInv, Lease!Held, Lease!NoLease, Recorded

\* A file with the ports of another one records the same lease.
LEMMA SameRecord ==
  ASSUME file'.orig = file.orig, file'.internal = file.internal
  PROVE  UNCHANGED Recorded
BY DEF Recorded

LEMMA SameFile == ASSUME UNCHANGED file PROVE UNCHANGED Recorded
BY DEF Recorded

\* Who does not serve goes on not to serve.
LEMMA StillNotServing ==
  ASSUME pc # "serving", pc' # "serving"
  PROVE  Served = 0 /\ Served' = 0 /\ UNCHANGED Served
BY DEF Served

LEMMA LeaseStart == Start => UNCHANGED Lease!vars
BY SameFile, StillNotServing DEF Start, panelVars, Lease!vars

LEMMA LeaseRecords ==
  ASSUME TakeoverInv, RecordPorts, ~lost'
  PROVE  (Lease!Borrow /\ UNCHANGED lost) \/ UNCHANGED Lease!vars
<1>1. /\ state \in Files /\ state = Loaded /\ file # Bad
      /\ Loaded.orig = file.orig /\ Loaded.internal = file.internal
  BY LoadedFields DEF TakeoverInv, TypeOK, RecordInv, RecordPorts
<1>2. UNCHANGED <<first, dbPort, hurt>> /\ Served = 0 /\ Served' = 0
  BY StillNotServing DEF RecordPorts, panelVars
<1>3. CASE NeedsPorts
  <2>1. file.orig = 0 /\ file.internal = 0
    BY <1>1, <1>3 DEF NeedsPorts, TakeoverInv, RecordInv
  <2>2. dbPort \in Port \ {0}
    BY DEF TakeoverInv, TypeOK, RecordInv
  <2>3. WithPorts(state, dbPort) \in Files /\ WithPorts(state, dbPort).orig = dbPort
        /\ WithPorts(state, dbPort).internal = InternalPort(dbPort)
    BY <1>1, <2>2, WithPortsFields
  <2>4. SaveMaster(WithPorts(state, dbPort))
    BY <1>3 DEF RecordPorts
  <2>5. file' = WithPorts(state, dbPort) /\ ~lost /\ ~lost'
    BY <2>3, <2>4, SaveMasterType DEF TakeoverInv
  <2>6. dbPort = first
    BY <2>1, <2>5 DEF TakeoverInv, RecordInv, KeptInv, RecordPorts
  <2>7. InternalPort(dbPort) \in Port \ {0, dbPort}
    BY <2>2, InternalPortValid
  <2>8. Recorded' = [public |-> first, internal |-> InternalPort(dbPort)]
    BY <2>3, <2>5, <2>6 DEF Recorded
  <2>9. ~Lease!Held
    BY <2>1, <2>5, LeaseHeld
  <2>10. Recorded' \in [public : {first}, internal : Port \ {0, first}]
    BY <2>6, <2>7, <2>8
  <2>11. UNCHANGED lost
    BY <2>5 DEF TakeoverInv, TypeOK, SaveMaster, RecordPorts
  <2>12. QED
    BY <1>2, <2>9, <2>10, <2>11 DEF Lease!Borrow
<1>4. CASE ~NeedsPorts
  <2>1. UNCHANGED <<file, lost>>
    BY <1>4 DEF RecordPorts
  <2>2. QED
    BY <1>2, <2>1, SameFile DEF Lease!vars
<1>5. QED
  BY <1>3, <1>4

LEMMA LeaseMove ==
  ASSUME TakeoverInv, Move, ~lost'
  PROVE  Lease!SendAway \/ UNCHANGED Lease!vars
<1>1. UNCHANGED <<first, lost, hurt>> /\ UNCHANGED Recorded /\ UNCHANGED Served
  BY SameFile, StillNotServing DEF Move
<1>2. CASE UNCHANGED dbPort
  BY <1>1, <1>2 DEF Lease!vars
<1>3. CASE dbPort' = state.internal
  <2>1. file.orig # 0 /\ Lease!Held
    BY <1>1, LeaseHeld DEF Move
  <2>2. state.internal = file.internal
    BY <2>1 DEF TakeoverInv, RecordInv, Move
  <2>3. dbPort' = Recorded.internal
    BY <1>3, <2>2 DEF Recorded
  <2>4. QED
    BY <1>1, <2>1, <2>3 DEF Lease!SendAway
<1>4. QED
  BY <1>2, <1>3 DEF Move, UpdateServerPort

LEMMA LeaseQuiet ==
  Restart \/ WaitPort \/ InstallAgain \/ PanelBoots \/ PanelRestarts => UNCHANGED Lease!vars
<1>1. Restart \/ WaitPort => UNCHANGED Lease!vars
  BY SameFile, StillNotServing DEF Restart, WaitPort, panelVars, Lease!vars
<1>2. ASSUME InstallAgain \/ PanelBoots \/ PanelRestarts
      PROVE  UNCHANGED <<first, dbPort, file, pc, state, lost, hurt>>
  BY <1>2 DEF InstallAgain, PanelBoots, PanelRestarts, panelVars, masterVars
<1>3. UNCHANGED <<first, dbPort, file, pc, state, lost, hurt>> => UNCHANGED Lease!vars
  BY DEF Lease!vars, Recorded, Served
<1>4. QED
  BY <1>1, <1>2, <1>3

\* A save of what is on record already.
LEMMA LeaseSaves ==
  ASSUME TakeoverInv, NEW m \in Files, SaveMaster(m) \/ UNCHANGED <<file, faults, lost>>, ~lost',
         m.orig = file.orig, m.internal = file.internal
  PROVE  UNCHANGED Recorded /\ UNCHANGED lost
<1>1. CASE SaveMaster(m)
  <2>1. file' = m /\ ~lost
    BY <1>1, SaveMasterType DEF TakeoverInv
  <2>2. UNCHANGED lost
    BY <1>1, <2>1 DEF SaveMaster
  <2>3. QED
    BY <2>1, <2>2, SameRecord
<1>2. CASE UNCHANGED <<file, faults, lost>>
  BY <1>2, SameFile
<1>3. QED
  BY <1>1, <1>2

LEMMA LeaseToken ==
  ASSUME TakeoverInv, MakeToken, ~lost'
  PROVE  UNCHANGED Lease!vars
<1>1. UNCHANGED <<first, dbPort, hurt>> /\ UNCHANGED Served
  BY StillNotServing DEF MakeToken, panelVars
<1>2. CASE state.token
  BY <1>1, <1>2, SameFile DEF MakeToken, Lease!vars
<1>3. CASE ~state.token
  <2> DEFINE m == [state EXCEPT !.token = TRUE]
  <2>1. SaveMaster(m) /\ state \in Files
    BY <1>3 DEF MakeToken, TakeoverInv, TypeOK
  <2>2. m \in Files /\ m.orig = state.orig /\ m.internal = state.internal
    BY <2>1, TokenSet
  <2> HIDE DEF m
  <2>3. ~lost
    BY <2>1, <2>2, SaveMasterType DEF TakeoverInv
  <2>4. file.orig # 0 /\ state.orig = file.orig /\ state.internal = file.internal
    BY <2>3, LeaseHeld DEF MakeToken, TakeoverInv, RecordInv
  <2>5. UNCHANGED Recorded /\ UNCHANGED lost
    BY <2>1, <2>2, <2>4, LeaseSaves
  <2>6. QED
    BY <1>1, <2>5 DEF Lease!vars
<1>4. QED
  BY <1>2, <1>3

LEMMA LeaseServe ==
  ASSUME TakeoverInv, Serve, ~lost'
  PROVE  (Lease!Serve /\ UNCHANGED lost) \/ UNCHANGED Lease!vars
<1>1. UNCHANGED <<first, dbPort, state, hurt>> /\ Served = 0 /\ state \in Files
  BY DEF Serve, panelVars, Served, TakeoverInv, TypeOK
<1>2. ~lost
  BY <1>1, SaveMasterType DEF Serve, TakeoverInv
<1>3. file.orig # 0 /\ state.orig = file.orig /\ state.internal = file.internal /\ Lease!Held
  BY <1>2, LeaseHeld DEF Serve, TakeoverInv, RecordInv
<1>4. UNCHANGED Recorded /\ UNCHANGED lost
  BY <1>1, <1>3, LeaseSaves DEF Serve
<1>5. CASE pc' = "serving"
  <2>1. Served' = Recorded.public
    BY <1>1, <1>3, <1>5 DEF Served, Recorded
  <2>2. QED
    BY <1>1, <1>3, <1>4, <2>1 DEF Lease!Serve
<1>6. CASE pc' = "off"
  <2>1. UNCHANGED Served
    BY <1>1, <1>6 DEF Served
  <2>2. QED
    BY <1>1, <1>4, <2>1 DEF Lease!vars
<1>7. QED
  BY <1>5, <1>6 DEF Serve

LEMMA LeaseRotate ==
  ASSUME TakeoverInv, RotateToken, ~lost'
  PROVE  UNCHANGED Lease!vars
<1> DEFINE m == [Loaded EXCEPT !.token = TRUE]
<1>1. m \in Files /\ m.orig = file.orig /\ m.internal = file.internal
  BY LoadedFields, TokenSet DEF RotateToken, TakeoverInv
<1>2. SaveMaster(m)
  BY DEF RotateToken
<1> HIDE DEF m
<1>3. UNCHANGED Recorded /\ UNCHANGED lost
  BY <1>1, <1>2, LeaseSaves
<1>4. UNCHANGED <<first, dbPort, hurt>> /\ UNCHANGED Served
  BY DEF RotateToken, panelVars, masterVars, Served
<1>5. QED
  BY <1>3, <1>4 DEF Lease!vars

LEMMA LeaseStops ==
  ASSUME TakeoverInv, Crash \/ CleanStops, ~lost'
  PROVE  Lease!Stop /\ UNCHANGED lost
<1>1. UNCHANGED <<first, dbPort, hurt>>
  BY DEF Crash, CleanStops, panelVars
<1>2. UNCHANGED <<file, lost>> /\ pc' = "off"
  BY DEF Crash, CleanStops, Ends
<1>3. Served' = 0
  BY <1>2 DEF Served
<1>4. QED
  BY <1>1, <1>2, <1>3, SameFile DEF Lease!Stop

LEMMA LeaseCleans ==
  ASSUME TakeoverInv, CleanRestores \/ CleanRestarts \/ CleanRemoves \/ CleanCrashes, ~lost'
  PROVE  /\ UNCHANGED lost
         /\ \/ Lease!SendBack \/ Lease!Disturb \/ Lease!GiveUp
            \/ UNCHANGED Lease!vars
<1>1. UNCHANGED <<first, lost>> /\ UNCHANGED Served /\ ~lost
  BY DEF CleanRestores, CleanRestarts, CleanRemoves, CleanCrashes, masterVars, Served
<1>2. cleaner # "idle" /\ pc = "off" /\ Served = 0
  BY DEF CleanRestores, CleanRestarts, CleanRemoves, CleanCrashes, TakeoverInv, RecordInv, Served
<1>3. CASE CleanRestores
  <2>1. UNCHANGED Recorded
    BY <1>3, SameFile DEF CleanRestores
  <2>2. CASE file.orig > 0 /\ dbPort' = file.orig /\ UNCHANGED hurt
    <3>1. file.orig # 0
      BY <2>2
    <3>2. Lease!Held /\ dbPort' = Recorded.public
      BY <1>1, <2>2, <3>1, LeaseHeld DEF Recorded
    <3>3. QED
      BY <1>1, <1>2, <2>1, <2>2, <3>2 DEF Lease!SendBack
  <2>3. CASE hurt' = TRUE /\ UNCHANGED dbPort
    BY <1>1, <2>1, <2>3 DEF Lease!Disturb
  <2>4. CASE UNCHANGED <<dbPort, hurt>>
    BY <1>1, <2>1, <2>4 DEF Lease!vars
  <2>5. QED
    BY <1>3, <2>2, <2>3, <2>4 DEF CleanRestores, UpdateServerPort
<1>4. CASE CleanRestarts
  <2>1. UNCHANGED Recorded /\ UNCHANGED dbPort
    BY <1>4, SameFile DEF CleanRestarts
  <2>2. CASE hurt' = hurt
    BY <1>1, <2>1, <2>2 DEF Lease!vars
  <2>3. CASE hurt' = TRUE
    BY <1>1, <2>1, <2>3 DEF Lease!Disturb
  <2>4. QED
    BY <1>1, <1>4, <2>2, <2>3 DEF CleanRestarts, TakeoverInv, TypeOK
<1>5. CASE CleanRemoves
  <2>1. UNCHANGED <<dbPort, hurt>> /\ (hurt \/ dbPort = first)
    BY <1>1, <1>5 DEF CleanRemoves, panelVars, TakeoverInv, UndoneInv
  <2>2. Recorded' = Lease!NoLease
    BY <1>5, PlainFiles DEF CleanRemoves, Recorded, Lease!NoLease
  <2>3. QED
    BY <1>1, <1>2, <2>1, <2>2 DEF Lease!GiveUp
<1>6. CASE CleanCrashes
  BY <1>1, <1>6, SameFile DEF CleanCrashes, panelVars, Lease!Disturb
<1>7. QED
  BY <1>1, <1>3, <1>4, <1>5, <1>6

LEMMA LeaseChanges ==
  ASSUME TakeoverInv, PortChanges, ~lost'
  PROVE  Lease!Change /\ UNCHANGED lost
<1>1. UNCHANGED <<file, lost>> /\ UNCHANGED Recorded /\ UNCHANGED Served /\ hurt' \in {hurt, TRUE}
  BY SameFile DEF PortChanges, masterVars, Served, TakeoverInv, TypeOK
<1>2. PICK p \in Ports \ {panelAt} :
        /\ ~Taken(p) /\ dbPort' = p
        /\ first' = IF file = Absent /\ pc \in {"off", "ports"} THEN p ELSE first
  BY DEF PortChanges
<1>3. p \in Port \ {0}
  BY <1>2, PortsArePorts
<1>4. p # Served
  BY <1>2, <1>3 DEF Taken, Served
<1>5. Lease!Held <=> file.orig # 0
  BY <1>1, LeaseHeld
<1>6. first' = IF Lease!Held THEN first ELSE dbPort'
  BY <1>1, <1>2, <1>5, LeaseHeld, PlainFiles
<1>7. QED
  BY <1>1, <1>2, <1>3, <1>4, <1>6 DEF Lease!Change

LEMMA LeaseStep ==
  ASSUME TakeoverInv, [Next]_vars
  PROVE  [Lease!Next]_(Lease!vars)
<1>1. CASE lost'
  BY <1>1 DEF Lease!Next
<1>2. CASE ~lost'
  <2>1. CASE UNCHANGED vars
    BY <2>1 DEF vars, panelVars, masterVars, Lease!vars, Recorded, Served
  <2>2. CASE MasterStep
    BY <1>2, <2>2, LeaseStart, LeaseRecords, LeaseMove, LeaseQuiet, LeaseToken, LeaseServe
       DEF MasterStep, Lease!Next, Move
  <2>3. CASE RotateToken \/ Crash \/ CleanStops
    BY <1>2, <2>3, LeaseRotate, LeaseStops DEF Lease!Next
  <2>4. CASE CleanStep \/ CleanCrashes
    BY <1>2, <2>4, LeaseCleans DEF CleanStep, Lease!Next
  <2>5. CASE InstallAgain \/ PanelBoots \/ PanelRestarts
    BY <2>5, LeaseQuiet
  <2>6. CASE PortChanges
    BY <1>2, <2>6, LeaseChanges DEF Lease!Next
  <2>7. QED
    BY <2>1, <2>2, <2>3, <2>4, <2>5, <2>6 DEF Next
<1>3. QED
  BY <1>1, <1>2

\* The takeover is a lease of 1Panel's port: until a write of master.json fails it borrows
\* no other port, sends 1Panel nowhere else, and hands the port back before it forgets it
\* (prepare.go:16, uninstall.go:17).
THEOREM LeaseRefinement == Spec => ImplementsLease
<1>1. Init => Lease!Init
  BY PortsArePorts, PlainFiles DEF Init, Lease!Init, Lease!NoLease, Recorded, Served
<1>2. QED
  BY <1>1, LeaseStep, TakeoverInvariant, PTL DEF Spec, ImplementsLease, Lease!Spec
=============================================================================
