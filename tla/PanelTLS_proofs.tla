--------------------------- MODULE PanelTLS_proofs ---------------------------
(***************************************************************************)
(* Proofs about PanelTLS, for any agents, uses of the switch, certificates *)
(* and faults: no agent is told to change before the listener has.         *)
(***************************************************************************)
EXTENDS PanelTLS, TLAPS

-----------------------------------------------------------------------------
(***************************************************************************)
(* The invariant.                                                          *)
(***************************************************************************)
Steps == {"idle", "wait", "settle", "tell", "told", "over"}
Pushes == {"none", "sent", "ok", "err"}

FileType ==
  /\ crt \in Versions /\ key \in Versions /\ latest \in Versions
  /\ writing \in {"nothing", "key", "removal"} /\ panelTLS \in BOOLEAN

ReloadType ==
  /\ rpc \in {"new", "first", "stat", "crt", "key", "change"} /\ mod \in Versions /\ read \in Versions
  /\ store \in Versions /\ lastMod \in Versions
  /\ upstream \in BOOLEAN /\ loaded \in BOOLEAN
  /\ (store # 0 => loaded /\ (upstream \/ rpc = "change"))

HandlerType ==
  /\ hpc \in [Requests -> Steps]
  /\ settled \in [Requests -> 0 .. 2] /\ calm \in [Requests -> BOOLEAN]

PushType == push \in [Requests -> [Agents -> Pushes]]

AgentType ==
  /\ tls \in [Agents -> BOOLEAN] /\ saved \in [Agents -> BOOLEAN]
  /\ online \subseteq Agents /\ closing \subseteq Agents /\ unsaved \subseteq Agents

PromiseType == promised \subseteq Agents
FaultType == faults \in 0 .. MaxFaults

TypeInv ==
  FileType /\ ReloadType /\ HandlerType /\ PushType /\ AgentType /\ PromiseType /\ FaultType

LEMMA TypeParts == TypeInv => TypeOK
BY DEF TypeOK, TypeInv, FileType, ReloadType, HandlerType, PushType, AgentType, PromiseType,
       FaultType, Steps, Pushes

\* Between two changes of 1Panel the two files belong together.
PairInv ==
  /\ writing = "nothing" => crt = key
  /\ writing = "removal" => crt = 0

\* A handler that has seen the files it wants, with nothing written since.
Steady(h) == calm[h] /\ hpc[h] \in {"settle", "tell"}

\* It still sees them, and counts ticks only while it waits for them.
SteadyInv ==
  \A h \in Requests :
    /\ settled[h] # 0 => hpc[h] = "settle"
    /\ Steady(h) => writing = "nothing" /\ Ready = Want[h]

\* A tick that began after it saw them reads these very files, and once it calls back, or
\* is over, the store holds what they say.
TickInv ==
  \A h \in Requests : Steady(h) =>
    /\ (settled[h] # 0 \/ hpc[h] = "tell") /\ rpc = "key" => read = crt
    /\ settled[h] = 2 \/ hpc[h] = "tell" \/ (settled[h] = 1 /\ rpc = "change") =>
         (store # 0) = Ready

\* Nothing is loaded before New has looked at the files.
StoreInv == rpc = "new" => store = 0

ReloadInv == PairInv /\ StoreInv /\ SteadyInv /\ TickInv
TLSInv == TypeInv /\ ReloadInv

-----------------------------------------------------------------------------
(***************************************************************************)
(* Functions and numbers.                                                  *)
(***************************************************************************)
LEMMA Set1 ==
  ASSUME NEW S, NEW T, NEW f \in [S -> T], NEW x \in S, NEW v \in T
  PROVE  /\ [f EXCEPT ![x] = v] \in [S -> T]
         /\ [f EXCEPT ![x] = v][x] = v
         /\ \A y \in S : y # x => [f EXCEPT ![x] = v][y] = f[y]
OBVIOUS

LEMMA Set2 ==
  ASSUME NEW S, NEW T, NEW V, NEW f \in [S -> [T -> V]], NEW x \in S, NEW y \in T, NEW v \in V
  PROVE  [f EXCEPT ![x][y] = v] \in [S -> [T -> V]]
OBVIOUS

LEMMA Zero == 0 \in Versions
BY PanelTLSAssumption DEF Versions

LEMMA FaultTyped == FaultType /\ Fault => FaultType'
BY PanelTLSAssumption DEF Fault, FaultType

LEMMA NoPushTyped == NoPush \in [Agents -> Pushes]
BY DEF NoPush, Pushes

LEMMA ReadyBoolean == Ready \in BOOLEAN
BY DEF Ready

LEMMA NoPushes == push' = [h \in Requests |-> NoPush] => PushType'
BY NoPushTyped DEF PushType

\* The part of the state that no step of an agent touches.
masterVars == <<fileVars, reloadVars, hpc, settled, calm>>

LEMMA MasterSame ==
  ASSUME FileType, ReloadType, HandlerType, ReloadInv, UNCHANGED masterVars
  PROVE  FileType' /\ ReloadType' /\ HandlerType' /\ ReloadInv'
BY DEF masterVars, fileVars, reloadVars, FileType, ReloadType, HandlerType, ReloadInv, PairInv,
       StoreInv, SteadyInv, TickInv, Steady, Ready

LEMMA InitInv == Init => TLSInv
<1> SUFFICES ASSUME Init
             PROVE  TLSInv
  OBVIOUS
<1>1. FileType /\ ReloadType
  BY Zero DEF Init, FileType, ReloadType
<1>2. HandlerType
  BY DEF Init, HandlerType, Steps
<1>3. PushType
  BY NoPushTyped DEF Init, PushType
<1>4. AgentType /\ PromiseType /\ FaultType
  BY PanelTLSAssumption DEF Init, AgentType, PromiseType, FaultType
<1>5. ReloadInv
  BY DEF Init, ReloadInv, PairInv, StoreInv, SteadyInv, TickInv, Steady
<1>6. QED
  BY <1>1, <1>2, <1>3, <1>4, <1>5 DEF TLSInv, TypeInv

-----------------------------------------------------------------------------
(***************************************************************************)
(* 1Panel changes its files: nothing is calm any more.                     *)
(***************************************************************************)
LEMMA NothingCalm ==
  ASSUME HandlerType, SteadyInv, FilesChange, settled' = settled,
         \A h \in Requests : settled[h] # 0 => hpc'[h] = hpc[h],
         hpc' \in [Requests -> Steps]
  PROVE  HandlerType' /\ SteadyInv' /\ TickInv' /\ PromiseType'
<1>1. \A h \in Requests : ~calm'[h]
  BY DEF FilesChange
<1>2. calm' \in [Requests -> BOOLEAN]
  BY DEF FilesChange
<1>3. SteadyInv' /\ TickInv'
  BY <1>1 DEF SteadyInv, TickInv, Steady
<1>4. QED
  BY <1>2, <1>3 DEF HandlerType, PromiseType, FilesChange

LEMMA PanelBeginsTyped ==
  ASSUME FileType, PairInv, NEW enable \in BOOLEAN, PanelBegins(enable)
  PROVE  FileType' /\ PairInv'
<1>1. CASE enable
  <2>1. latest' = latest + 1 /\ latest' \in Versions /\ crt' = latest' /\ writing' = "key"
        /\ UNCHANGED <<key, panelTLS>>
    BY <1>1, PanelTLSAssumption DEF PanelBegins, FileType, Versions
  <2>2. QED
    BY <2>1 DEF FileType, PairInv
<1>2. CASE ~enable
  BY <1>2, Zero DEF PanelBegins, FileType, PairInv
<1>3. QED
  BY <1>1, <1>2

LEMMA ReloadSame ==
  ReloadType /\ StoreInv /\ UNCHANGED reloadVars => ReloadType' /\ StoreInv'
BY DEF ReloadType, StoreInv, reloadVars

LEMMA AgentSame == AgentType /\ UNCHANGED agentVars => AgentType'
BY DEF AgentType, agentVars

LEMMA PanelEndsInv == TLSInv /\ PanelEnds => TLSInv'
<1> SUFFICES ASSUME TLSInv, PanelEnds
             PROVE  TLSInv'
  OBVIOUS
<1> USE DEF TLSInv, TypeInv, ReloadInv
<1>1. FileType' /\ PairInv'
  BY Zero DEF PanelEnds, FileType, PairInv
<1>2. HandlerType' /\ SteadyInv' /\ TickInv' /\ PromiseType'
  <2>1. hpc' \in [Requests -> Steps] /\ hpc' = hpc /\ settled' = settled /\ FilesChange
    BY DEF PanelEnds, HandlerType
  <2>2. QED
    BY <2>1, NothingCalm
<1>3. ReloadType' /\ StoreInv' /\ AgentType'
  BY ReloadSame, AgentSame DEF PanelEnds
<1>4. PushType' /\ FaultType'
  BY DEF PanelEnds, PushType, FaultType
<1>5. QED
  BY <1>1, <1>2, <1>3, <1>4

LEMMA PanelChangesInv == TLSInv /\ PanelChanges => TLSInv'
<1> SUFFICES ASSUME TLSInv, PanelChanges
             PROVE  TLSInv'
  OBVIOUS
<1> USE DEF TLSInv, TypeInv, ReloadInv
<1>1. PICK enable \in BOOLEAN : PanelBegins(enable)
  BY DEF PanelChanges
<1>2. FileType' /\ PairInv'
  BY <1>1, PanelBeginsTyped
<1>3. HandlerType' /\ SteadyInv' /\ TickInv' /\ PromiseType'
  <2>1. hpc' \in [Requests -> Steps] /\ hpc' = hpc /\ settled' = settled
    BY DEF PanelChanges, HandlerType
  <2>2. FilesChange
    BY <1>1 DEF PanelBegins
  <2>3. QED
    BY <2>1, <2>2, NothingCalm
<1>4. ReloadType' /\ StoreInv' /\ AgentType'
  BY ReloadSame, AgentSame DEF PanelChanges
<1>5. PushType' /\ FaultType'
  BY FaultTyped DEF PanelChanges, PushType
<1>6. QED
  BY <1>2, <1>3, <1>4, <1>5

LEMMA AskInv == ASSUME NEW h \in Requests PROVE TLSInv /\ Ask(h) => TLSInv'
<1> SUFFICES ASSUME TLSInv, Ask(h)
             PROVE  TLSInv'
  OBVIOUS
<1> USE DEF TLSInv, TypeInv, ReloadInv
<1>1. ReloadType' /\ StoreInv' /\ AgentType'
  BY ReloadSame, AgentSame DEF Ask
<1>2. PushType' /\ FaultType' /\ settled' = settled /\ hpc[h] = "idle"
  BY DEF Ask, PushType, FaultType
<1>3. CASE PanelBegins(Want[h]) /\ hpc' = [hpc EXCEPT ![h] = "wait"]
  <2>1. Want[h] \in BOOLEAN
    BY PanelTLSAssumption
  <2>2. FileType' /\ PairInv'
    BY <1>3, <2>1, PanelBeginsTyped
  <2>3. hpc' \in [Requests -> Steps] /\ \A g \in Requests : g # h => hpc'[g] = hpc[g]
    BY <1>3, Set1 DEF HandlerType, Steps
  <2>4. FilesChange
    BY <1>3 DEF PanelBegins
  <2>5. settled[h] = 0
    BY <1>2 DEF SteadyInv
  <2>6. HandlerType' /\ SteadyInv' /\ TickInv' /\ PromiseType'
    BY <1>2, <2>3, <2>4, <2>5, NothingCalm
  <2>7. QED
    BY <1>1, <1>2, <2>2, <2>6
<1>4. CASE hpc' = [hpc EXCEPT ![h] = "over"] /\ UNCHANGED <<fileVars, calm, promised>>
  <2>1. hpc' \in [Requests -> Steps] /\ hpc'[h] = "over"
        /\ \A g \in Requests : g # h => hpc'[g] = hpc[g]
    BY <1>4, Set1 DEF HandlerType, Steps
  <2>2. settled[h] = 0
    BY <1>2 DEF SteadyInv
  <2>3. \A g \in Requests : Steady(g)' => g # h /\ Steady(g)
    BY <1>4, <2>1 DEF Steady
  <2>4. UNCHANGED <<fileVars, reloadVars>>
    BY <1>4 DEF Ask
  <2>5. FileType' /\ PairInv' /\ Ready' = Ready
    BY <2>4 DEF FileType, PairInv, fileVars, Ready
  <2>6. SteadyInv'
    BY <1>2, <2>1, <2>2, <2>3, <2>4, <2>5 DEF SteadyInv, fileVars
  <2>7. TickInv'
    BY <1>2, <2>1, <2>3, <2>4, <2>5 DEF TickInv, fileVars, reloadVars
  <2>8. HandlerType' /\ PromiseType'
    BY <1>2, <1>4, <2>1 DEF HandlerType, PromiseType
  <2>9. QED
    BY <1>1, <1>2, <2>5, <2>6, <2>7, <2>8
<1>5. QED
  BY <1>3, <1>4 DEF Ask

-----------------------------------------------------------------------------
(***************************************************************************)
(* The reloader.                                                           *)
(***************************************************************************)
LEMMA FilesSame ==
  FileType /\ PairInv /\ UNCHANGED fileVars => FileType' /\ PairInv' /\ Ready' = Ready
BY DEF FileType, PairInv, fileVars, Ready

LEMMA RestSame ==
  ASSUME PushType, AgentType, PromiseType, FaultType, UNCHANGED <<push, agentVars, promised, faults>>
  PROVE  PushType' /\ AgentType' /\ PromiseType' /\ FaultType'
BY DEF PushType, AgentType, PromiseType, FaultType, agentVars

\* No handler moves: the handlers stay typed, and what is steady stays so.
LEMMA HandlersStand ==
  ASSUME HandlerType, SteadyInv, UNCHANGED <<fileVars, hpc, calm>>,
         settled' \in [Requests -> 0 .. 2],
         \A h \in Requests : hpc[h] # "settle" => settled'[h] = 0
  PROVE  HandlerType' /\ SteadyInv'
<1>1. \A h \in Requests : Steady(h)' <=> Steady(h)
  BY DEF Steady
<1>2. QED
  BY <1>1 DEF HandlerType, SteadyInv, fileVars, Ready

LEMMA TickCounts ==
  ASSUME HandlerType, SteadyInv, TickStarts \/ TickEnds \/ WholeTick
  PROVE  /\ settled' \in [Requests -> 0 .. 2]
         /\ \A h \in Requests : hpc[h] # "settle" => settled'[h] = 0
<1>1. CASE TickStarts
  BY <1>1 DEF TickStarts, HandlerType
<1>2. CASE TickEnds
  <2>1. settled' \in [Requests -> 0 .. 2]
    BY <1>2 DEF TickEnds, HandlerType
  <2>2. \A h \in Requests : settled'[h] = IF settled[h] = 1 THEN 2 ELSE settled[h]
    BY <1>2 DEF TickEnds
  <2>3. QED
    BY <2>1, <2>2 DEF SteadyInv
<1>3. CASE WholeTick
  BY <1>3 DEF WholeTick
<1>4. QED
  BY <1>1, <1>2, <1>3

LEMMA StartMasterInv == TLSInv /\ StartMaster => TLSInv'
<1> SUFFICES ASSUME TLSInv, StartMaster
             PROVE  TLSInv'
  OBVIOUS
<1> USE DEF TLSInv, TypeInv, ReloadInv
<1>1. FileType' /\ PairInv' /\ Ready' = Ready
  BY FilesSame DEF StartMaster
<1>2. PushType' /\ AgentType' /\ PromiseType' /\ FaultType'
  BY RestSame DEF StartMaster, handlerVars
<1>3. rpc' = "first" /\ upstream' = Ready /\ UNCHANGED <<mod, read, store, lastMod, loaded, hpc, settled, calm, crt, writing>>
  BY DEF StartMaster, handlerVars, fileVars
<1>4. ReloadType' /\ StoreInv'
  BY <1>3, ReadyBoolean DEF ReloadType, StoreInv, StartMaster
<1>5. HandlerType' /\ SteadyInv'
  BY <1>1, <1>3 DEF HandlerType, SteadyInv, Steady
<1>6. TickInv'
  BY <1>1, <1>3 DEF TickInv, Steady
<1>7. QED
  BY <1>1, <1>2, <1>4, <1>5, <1>6

LEMMA StatInv == TLSInv /\ Stat => TLSInv'
<1> SUFFICES ASSUME TLSInv, Stat
             PROVE  TLSInv'
  OBVIOUS
<1> USE DEF TLSInv, TypeInv, ReloadInv
<1>1. FileType' /\ PairInv' /\ Ready' = Ready
  BY FilesSame DEF Stat
<1>2. PushType' /\ AgentType' /\ PromiseType' /\ FaultType'
  BY RestSame DEF Stat
<1>3. rpc \in {"first", "stat"} /\ UNCHANGED <<fileVars, read, hpc, calm>>
  BY DEF Stat
<1>4. HandlerType' /\ SteadyInv'
  <2>1. TickStarts \/ WholeTick
    BY DEF Stat
  <2>2. QED
    BY <1>3, <2>1, TickCounts, HandlersStand
<1>5. \A h \in Requests : Steady(h)' <=> Steady(h)
  BY <1>3 DEF Steady
<1>6. CASE ~Ready /\ Clear /\ lastMod' \in {0, lastMod} /\ UNCHANGED mod
  <2>1. ReloadType' /\ StoreInv'
    BY <1>3, <1>6, Zero DEF ReloadType, StoreInv, Clear
  <2>2. TickInv'
    BY <1>1, <1>6, ReadyBoolean DEF TickInv, Clear
  <2>3. QED
    BY <1>1, <1>2, <1>4, <2>1, <2>2
<1>7. CASE /\ Ready /\ store # 0 /\ NewTime <= lastMod
           /\ WholeTick
           /\ rpc' = "stat" /\ UNCHANGED <<mod, store, lastMod, upstream, loaded>>
  <2>1. ReloadType' /\ StoreInv'
    BY <1>3, <1>7 DEF ReloadType, StoreInv
  <2>2. TickInv'
    BY <1>1, <1>7 DEF TickInv
  <2>3. QED
    BY <1>1, <1>2, <1>4, <2>1, <2>2
<1>8. CASE /\ Ready /\ (store = 0 \/ NewTime > lastMod)
           /\ TickStarts
           /\ rpc' = "crt" /\ mod' = NewTime
           /\ UNCHANGED <<store, lastMod, upstream, loaded>>
  <2>1. NewTime \in Versions
    BY DEF NewTime, FileType
  <2>2. ReloadType' /\ StoreInv'
    BY <1>3, <1>8, <2>1 DEF ReloadType, StoreInv
  <2>3. \A h \in Requests : settled'[h] = 2 => settled[h] = 2
    BY <1>8 DEF TickStarts
  <2>4. TickInv'
    BY <1>1, <1>3, <1>5, <1>8, <2>3 DEF TickInv
  <2>5. QED
    BY <1>1, <1>2, <1>4, <2>2, <2>4
<1>9. QED
  BY <1>6, <1>7, <1>8 DEF Stat

LEMMA ReadCrtInv == TLSInv /\ ReadCrt => TLSInv'
<1> SUFFICES ASSUME TLSInv, ReadCrt
             PROVE  TLSInv'
  OBVIOUS
<1> USE DEF TLSInv, TypeInv, ReloadInv
<1>1. FileType' /\ PairInv' /\ Ready' = Ready
  BY FilesSame DEF ReadCrt
<1>2. PushType' /\ AgentType' /\ PromiseType' /\ FaultType'
  BY RestSame DEF ReadCrt, handlerVars
<1>3. rpc = "crt" /\ rpc' = "key" /\ read' = crt
      /\ UNCHANGED <<mod, store, lastMod, upstream, loaded, hpc, settled, calm, crt, writing>>
  BY DEF ReadCrt, handlerVars, fileVars
<1>4. ReloadType' /\ StoreInv'
  BY <1>3 DEF ReloadType, StoreInv, FileType
<1>5. HandlerType' /\ SteadyInv'
  BY <1>1, <1>3 DEF HandlerType, SteadyInv, Steady
<1>6. TickInv'
  BY <1>1, <1>3 DEF TickInv, Steady
<1>7. QED
  BY <1>1, <1>2, <1>4, <1>5, <1>6

LEMMA ReadKeyInv == TLSInv /\ ReadKey => TLSInv'
<1> SUFFICES ASSUME TLSInv, ReadKey
             PROVE  TLSInv'
  OBVIOUS
<1> USE DEF TLSInv, TypeInv, ReloadInv
<1>1. FileType' /\ PairInv' /\ Ready' = Ready
  BY FilesSame DEF ReadKey
<1>2. PushType' /\ AgentType' /\ PromiseType' /\ FaultType'
  BY RestSame DEF ReadKey
<1>3. rpc = "key" /\ rpc' \in {"stat", "change"} /\ mod' = 0 /\ read' = 0
      /\ UNCHANGED <<fileVars, hpc, calm>> /\ (TickEnds \/ settled' = settled)
  BY DEF ReadKey, Clear
<1>4. HandlerType' /\ SteadyInv'
  <2>1. CASE TickEnds
    BY <1>3, <2>1, TickCounts, HandlersStand
  <2>2. CASE settled' = settled
    BY <1>3, <2>2, HandlersStand DEF HandlerType, SteadyInv
  <2>3. QED
    BY <1>3, <2>1, <2>2
<1>5. \A h \in Requests : Steady(h)' <=> Steady(h)
  BY <1>3 DEF Steady
<1>6. ReloadType' /\ StoreInv'
  <2>1. CASE read # 0 /\ read = key
    BY <1>3, <2>1, Zero DEF ReadKey, ReloadType, StoreInv
  <2>2. CASE ~(read # 0 /\ read = key)
    BY <1>3, <2>2, Zero DEF ReadKey, ReloadType, StoreInv, Clear
  <2>3. QED
    BY <2>1, <2>2
<1>7. ASSUME NEW h \in Requests, Steady(h), settled'[h] \in {1, 2} \/ hpc'[h] = "tell"
      PROVE  (store' # 0) = Ready'
  <2>1. settled[h] # 0 \/ hpc[h] = "tell"
    BY <1>3, <1>7 DEF TickEnds
  <2>2. read = crt /\ crt = key
    BY <1>3, <1>7, <2>1 DEF TickInv, SteadyInv, PairInv
  <2>3. (store' # 0) = (read # 0)
    BY <2>2 DEF ReadKey, Clear
  <2>4. QED
    BY <1>1, <2>2, <2>3 DEF Ready
<1>8. TickInv'
  BY <1>3, <1>5, <1>7 DEF TickInv
<1>9. QED
  BY <1>1, <1>2, <1>4, <1>6, <1>8

LEMMA ChangeInv == TLSInv /\ Change => TLSInv'
<1> SUFFICES ASSUME TLSInv, Change
             PROVE  TLSInv'
  OBVIOUS
<1> USE DEF TLSInv, TypeInv, ReloadInv
<1>1. FileType' /\ PairInv' /\ Ready' = Ready
  BY FilesSame DEF Change
<1>2. PushType' /\ AgentType' /\ PromiseType' /\ FaultType'
  BY RestSame DEF Change
<1>3. /\ rpc = "change" /\ rpc' = "stat" /\ upstream' = (store # 0) /\ TickEnds
      /\ UNCHANGED <<fileVars, mod, read, store, lastMod, loaded, hpc, calm>>
  BY DEF Change
<1>4. HandlerType' /\ SteadyInv'
  BY <1>3, TickCounts, HandlersStand
<1>5. ReloadType' /\ StoreInv'
  BY <1>3 DEF ReloadType, StoreInv
<1>6. ASSUME NEW h \in Requests, Steady(h), settled'[h] = 2 \/ hpc'[h] = "tell"
      PROVE  (store' # 0) = Ready'
  <2>1. settled[h] \in {1, 2} \/ hpc[h] = "tell"
    BY <1>3, <1>6 DEF TickEnds
  <2>2. QED
    BY <1>1, <1>3, <1>6, <2>1 DEF TickInv
<1>7. TickInv'
  BY <1>3, <1>6 DEF TickInv, Steady
<1>8. QED
  BY <1>1, <1>2, <1>4, <1>5, <1>7

LEMMA MasterRestartsInv == TLSInv /\ MasterRestarts => TLSInv'
<1> SUFFICES ASSUME TLSInv, MasterRestarts
             PROVE  TLSInv'
  OBVIOUS
<1> USE DEF TLSInv, TypeInv, ReloadInv
<1>1. FileType' /\ PairInv' /\ Ready' = Ready
  BY FilesSame DEF MasterRestarts
<1>2. PushType' /\ AgentType' /\ PromiseType' /\ FaultType'
  BY FaultTyped, NoPushes DEF MasterRestarts, AgentType, PromiseType
<1>3. ReloadType' /\ StoreInv'
  BY Zero DEF MasterRestarts, ReloadType, StoreInv
<1>4. \A h \in Requests : hpc'[h] \in {"idle", "over"} /\ settled'[h] = 0
  BY DEF MasterRestarts
<1>5. HandlerType'
  BY DEF MasterRestarts, HandlerType, Steps
<1>6. SteadyInv' /\ TickInv'
  BY <1>4 DEF SteadyInv, TickInv, Steady
<1>7. QED
  BY <1>1, <1>2, <1>3, <1>5, <1>6

-----------------------------------------------------------------------------
(***************************************************************************)
(* The handlers.                                                           *)
(***************************************************************************)

\* Handler h moves on, and leaves the files, the reloader and the agents alone.
LEMMA HandlerMoves ==
  ASSUME TLSInv, NEW h \in Requests, NEW there \in Steps,
         hpc' = [hpc EXCEPT ![h] = there],
         UNCHANGED <<fileVars, reloadVars, agentVars, faults>>,
         PushType', PromiseType',
         settled' = settled \/ settled' = [settled EXCEPT ![h] = 0],
         there # "settle" => settled'[h] = 0,
         calm' \in [Requests -> BOOLEAN],
         \A g \in Requests : g # h => calm'[g] = calm[g],
         calm'[h] /\ there \in {"settle", "tell"} =>
           writing = "nothing" /\ Ready = Want[h],
         calm'[h] /\ there = "settle" => settled'[h] = 0,
         calm'[h] /\ there = "tell" => (rpc = "key" => read = crt) /\ (store # 0) = Ready
  PROVE  TLSInv'
<1> USE DEF TLSInv, TypeInv, ReloadInv
<1>1. FileType' /\ PairInv' /\ Ready' = Ready
  BY FilesSame
<1>2. ReloadType' /\ StoreInv' /\ AgentType' /\ FaultType'
  BY ReloadSame, AgentSame DEF FaultType
<1>3. hpc' \in [Requests -> Steps] /\ hpc'[h] = there
      /\ \A g \in Requests : g # h => hpc'[g] = hpc[g]
  BY Set1 DEF HandlerType
<1>4. settled' \in [Requests -> 0 .. 2] /\ \A g \in Requests : g # h => settled'[g] = settled[g]
  <2>1. CASE settled' = settled
    BY <2>1 DEF HandlerType
  <2>2. CASE settled' = [settled EXCEPT ![h] = 0]
    BY <2>2 DEF HandlerType
  <2>3. QED
    BY <2>1, <2>2
<1>5. HandlerType'
  BY <1>3, <1>4 DEF HandlerType
<1>6. UNCHANGED <<crt, writing, rpc, read, store>>
  BY DEF fileVars, reloadVars
<1>7. SteadyInv'
  <2>1. ASSUME NEW g \in Requests, g # h
        PROVE  /\ settled'[g] # 0 => hpc'[g] = "settle"
               /\ Steady(g)' => writing' = "nothing" /\ Ready' = Want[g]
    BY <1>1, <1>3, <1>4, <1>6, <2>1 DEF SteadyInv, Steady
  <2>2. /\ settled'[h] # 0 => hpc'[h] = "settle"
        /\ Steady(h)' => writing' = "nothing" /\ Ready' = Want[h]
    BY <1>1, <1>3, <1>6 DEF Steady
  <2>3. QED
    BY <2>1, <2>2 DEF SteadyInv
<1>8. TickInv'
  <2>1. ASSUME NEW g \in Requests, g # h, Steady(g)'
        PROVE  /\ (settled'[g] # 0 \/ hpc'[g] = "tell") /\ rpc' = "key" => read' = crt'
               /\ settled'[g] = 2 \/ hpc'[g] = "tell" \/ (settled'[g] = 1 /\ rpc' = "change") =>
                    (store' # 0) = Ready'
    BY <1>1, <1>3, <1>4, <1>6, <2>1 DEF TickInv, Steady
  <2>2. ASSUME Steady(h)'
        PROVE  /\ (settled'[h] # 0 \/ hpc'[h] = "tell") /\ rpc' = "key" => read' = crt'
               /\ settled'[h] = 2 \/ hpc'[h] = "tell" \/ (settled'[h] = 1 /\ rpc' = "change") =>
                    (store' # 0) = Ready'
    BY <1>1, <1>3, <1>6, <2>2 DEF Steady
  <2>3. QED
    BY <2>1, <2>2 DEF TickInv
<1>9. QED
  BY <1>1, <1>2, <1>5, <1>7, <1>8

LEMMA SeesInv == ASSUME NEW h \in Requests PROVE TLSInv /\ Sees(h) => TLSInv'
<1> SUFFICES ASSUME TLSInv, Sees(h)
             PROVE  TLSInv'
  OBVIOUS
<1>1. UNCHANGED <<fileVars, reloadVars, agentVars, faults>> /\ settled' = settled
  BY DEF Sees
<1>2. PushType' /\ PromiseType'
  BY DEF Sees, TLSInv, TypeInv, PushType, PromiseType
<1>3. settled'[h] = 0
  BY <1>1 DEF Sees, TLSInv, ReloadInv, SteadyInv
<1>4. calm \in [Requests -> BOOLEAN]
  BY DEF TLSInv, TypeInv, HandlerType
<1>5. CASE /\ Ready = Want[h] /\ hpc' = [hpc EXCEPT ![h] = "settle"]
           /\ calm' = [calm EXCEPT ![h] = writing = "nothing" /\ Alone(h)]
  <2>1. (writing = "nothing" /\ Alone(h)) \in BOOLEAN
    OBVIOUS
  <2>2. /\ calm' \in [Requests -> BOOLEAN] /\ calm'[h] = (writing = "nothing" /\ Alone(h))
        /\ \A g \in Requests : g # h => calm'[g] = calm[g]
    BY <1>4, <1>5, <2>1, Set1
  <2>3. "settle" \in Steps
    BY DEF Steps
  <2>4. QED
    BY <1>1, <1>2, <1>3, <1>5, <2>2, <2>3, HandlerMoves
<1>6. CASE hpc' = [hpc EXCEPT ![h] = "over"] /\ UNCHANGED calm
  <2>1. "over" \in Steps
    BY DEF Steps
  <2>2. QED
    BY <1>1, <1>2, <1>3, <1>4, <1>6, <2>1, HandlerMoves
<1>7. QED
  BY <1>5, <1>6 DEF Sees

LEMMA SettlesInv == ASSUME NEW h \in Requests PROVE TLSInv /\ Settles(h) => TLSInv'
<1> SUFFICES ASSUME TLSInv, Settles(h)
             PROVE  TLSInv'
  OBVIOUS
<1>1. UNCHANGED <<fileVars, reloadVars, agentVars, faults, calm>>
      /\ settled' = [settled EXCEPT ![h] = 0] /\ hpc[h] = "settle" /\ settled[h] = 2
  BY DEF Settles
<1>2. PushType' /\ PromiseType'
  BY DEF Settles, TLSInv, TypeInv, PushType, PromiseType
<1>3. settled'[h] = 0
  BY <1>1 DEF TLSInv, TypeInv, HandlerType
<1>4. calm' \in [Requests -> BOOLEAN] /\ calm' = calm
  BY <1>1 DEF TLSInv, TypeInv, HandlerType
<1>5. calm[h] => /\ writing = "nothing" /\ Ready = Want[h]
                 /\ (rpc = "key" => read = crt) /\ (store # 0) = Ready
  BY <1>1 DEF TLSInv, ReloadInv, SteadyInv, TickInv, Steady
<1>6. CASE hpc' = [hpc EXCEPT ![h] = "tell"]
  <2>1. "tell" \in Steps
    BY DEF Steps
  <2>2. QED
    BY <1>1, <1>2, <1>3, <1>4, <1>5, <1>6, <2>1, HandlerMoves
<1>7. CASE hpc' = [hpc EXCEPT ![h] = "wait"]
  <2>1. "wait" \in Steps
    BY DEF Steps
  <2>2. QED
    BY <1>1, <1>2, <1>3, <1>4, <1>7, <2>1, HandlerMoves
<1>8. QED
  BY <1>6, <1>7 DEF Settles

LEMMA TellInv == ASSUME NEW h \in Requests PROVE TLSInv /\ Tell(h) => TLSInv'
<1> SUFFICES ASSUME TLSInv, Tell(h)
             PROVE  TLSInv'
  OBVIOUS
<1>1. UNCHANGED <<fileVars, reloadVars, agentVars, faults, calm>> /\ settled' = settled
      /\ hpc' = [hpc EXCEPT ![h] = "told"] /\ hpc[h] = "tell"
  BY DEF Tell
<1>2. PushType'
  <2>1. [a \in Agents |-> IF a \in online THEN "sent" ELSE "none"] \in [Agents -> Pushes]
    BY DEF Pushes
  <2>2. QED
    BY <2>1, Set1 DEF Tell, TLSInv, TypeInv, PushType
<1>3. PromiseType'
  BY DEF Tell, TLSInv, TypeInv, PromiseType
<1>4. settled'[h] = 0
  BY <1>1 DEF TLSInv, ReloadInv, SteadyInv
<1>5. calm' \in [Requests -> BOOLEAN] /\ calm' = calm
  BY <1>1 DEF TLSInv, TypeInv, HandlerType
<1>6. "told" \in Steps
  BY DEF Steps
<1>7. QED
  BY <1>1, <1>2, <1>3, <1>4, <1>5, <1>6, HandlerMoves

LEMMA ReplyInv == ASSUME NEW h \in Requests PROVE TLSInv /\ Reply(h) => TLSInv'
<1> SUFFICES ASSUME TLSInv, Reply(h)
             PROVE  TLSInv'
  OBVIOUS
<1>1. UNCHANGED <<fileVars, reloadVars, agentVars, faults, calm>> /\ settled' = settled
      /\ hpc' = [hpc EXCEPT ![h] = "over"] /\ hpc[h] = "told"
  BY DEF Reply
<1>2. PushType'
  BY NoPushTyped, Set1 DEF Reply, TLSInv, TypeInv, PushType
<1>3. PromiseType'
  BY DEF Reply, PromiseType
<1>4. settled'[h] = 0
  BY <1>1 DEF TLSInv, ReloadInv, SteadyInv
<1>5. calm' \in [Requests -> BOOLEAN] /\ calm' = calm
  BY <1>1 DEF TLSInv, TypeInv, HandlerType
<1>6. "over" \in Steps
  BY DEF Steps
<1>7. QED
  BY <1>1, <1>2, <1>3, <1>4, <1>5, <1>6, HandlerMoves

-----------------------------------------------------------------------------
(***************************************************************************)
(* The agents.                                                             *)
(***************************************************************************)
LEMMA CutTyped ==
  ASSUME PushType, online \subseteq Agents, NEW As, Cut(As)
  PROVE  PushType' /\ online' \subseteq Agents
BY DEF Cut, PushType, Pushes

\* An agent's step leaves the master's state as it is.
LEMMA AgentMoves ==
  ASSUME TLSInv, UNCHANGED masterVars, PushType', AgentType', PromiseType', FaultType'
  PROVE  TLSInv'
BY MasterSame DEF TLSInv, TypeInv

LEMMA ApplyInv ==
  ASSUME NEW h \in Requests, NEW a \in Agents PROVE TLSInv /\ Apply(h, a) => TLSInv'
<1> SUFFICES ASSUME TLSInv, Apply(h, a)
             PROVE  TLSInv'
  OBVIOUS
<1> USE DEF TLSInv, TypeInv
<1>1. UNCHANGED masterVars /\ PromiseType'
  BY DEF Apply, masterVars, PromiseType
<1>2. PushType'
  <2>1. "ok" \in Pushes /\ "err" \in Pushes
    BY DEF Pushes
  <2>2. push' = [push EXCEPT ![h][a] = "ok"] \/ push' = [push EXCEPT ![h][a] = "err"]
    BY DEF Apply
  <2>3. CASE push' = [push EXCEPT ![h][a] = "ok"]
    BY <2>1, <2>3, Set2 DEF PushType
  <2>4. CASE push' = [push EXCEPT ![h][a] = "err"]
    BY <2>1, <2>4, Set2 DEF PushType
  <2>5. QED
    BY <2>2, <2>3, <2>4
<1>3. AgentType'
  <2>1. Want[h] \in BOOLEAN
    BY PanelTLSAssumption
  <2>2. tls' = tls \/ tls' = [tls EXCEPT ![a] = Want[h]]
    BY DEF Apply
  <2>3. tls' \in [Agents -> BOOLEAN]
    BY <2>1, <2>2, Set1 DEF AgentType
  <2>4. saved' = saved \/ saved' = [saved EXCEPT ![a] = Want[h]]
    BY DEF Apply
  <2>5. saved' \in [Agents -> BOOLEAN]
    BY <2>1, <2>4, Set1 DEF AgentType
  <2>6. online' = online /\ closing' \subseteq closing \cup {a} /\ unsaved' \subseteq unsaved \cup {a}
    BY DEF Apply
  <2>7. QED
    BY <2>3, <2>5, <2>6 DEF AgentType
<1>4. FaultType'
  <2>1. faults' = faults \/ Fault
    BY DEF Apply
  <2>2. QED
    BY <2>1, FaultTyped DEF FaultType
<1>5. QED
  BY <1>1, <1>2, <1>3, <1>4, AgentMoves

LEMMA ConnectsInv == ASSUME NEW a \in Agents PROVE TLSInv /\ Connects(a) => TLSInv'
<1> SUFFICES ASSUME TLSInv, Connects(a)
             PROVE  TLSInv'
  OBVIOUS
<1>1. UNCHANGED masterVars
  BY DEF Connects, masterVars, handlerVars
<1>2. PushType' /\ AgentType' /\ PromiseType' /\ FaultType'
  BY DEF Connects, handlerVars, TLSInv, TypeInv, PushType, AgentType, PromiseType, FaultType
<1>3. QED
  BY <1>1, <1>2, AgentMoves

LEMMA ClosesSessionInv ==
  ASSUME NEW a \in Agents PROVE TLSInv /\ ClosesSession(a) => TLSInv'
<1> SUFFICES ASSUME TLSInv, ClosesSession(a)
             PROVE  TLSInv'
  OBVIOUS
<1> USE DEF TLSInv, TypeInv
<1>1. UNCHANGED masterVars /\ PromiseType' /\ FaultType'
  BY DEF ClosesSession, masterVars, PromiseType, FaultType
<1>2. Cut({a}) /\ online \subseteq Agents
  BY DEF ClosesSession, AgentType
<1>3. PushType' /\ online' \subseteq Agents
  BY <1>2, CutTyped
<1>4. AgentType'
  BY <1>3 DEF ClosesSession, AgentType
<1>5. QED
  BY <1>1, <1>3, <1>4, AgentMoves

LEMMA SessionEndsInv == ASSUME NEW a \in Agents PROVE TLSInv /\ SessionEnds(a) => TLSInv'
<1> SUFFICES ASSUME TLSInv, SessionEnds(a)
             PROVE  TLSInv'
  OBVIOUS
<1> USE DEF TLSInv, TypeInv
<1>1. UNCHANGED masterVars /\ PromiseType' /\ FaultType'
  BY FaultTyped DEF SessionEnds, masterVars, PromiseType
<1>2. Cut({a}) /\ online \subseteq Agents
  BY DEF SessionEnds, AgentType
<1>3. PushType' /\ online' \subseteq Agents
  BY <1>2, CutTyped
<1>4. AgentType'
  BY <1>3 DEF SessionEnds, AgentType
<1>5. QED
  BY <1>1, <1>3, <1>4, AgentMoves

LEMMA AgentRestartsInv == ASSUME NEW a \in Agents PROVE TLSInv /\ AgentRestarts(a) => TLSInv'
<1> SUFFICES ASSUME TLSInv, AgentRestarts(a)
             PROVE  TLSInv'
  OBVIOUS
<1> USE DEF TLSInv, TypeInv
<1>1. UNCHANGED masterVars /\ PromiseType' /\ FaultType'
  BY FaultTyped DEF AgentRestarts, masterVars, PromiseType
<1>2. Cut({a}) /\ online \subseteq Agents
  BY DEF AgentRestarts, AgentType
<1>3. PushType' /\ online' \subseteq Agents
  BY <1>2, CutTyped
<1>4. AgentType'
  <2>1. saved[a] \in BOOLEAN
    BY DEF AgentType
  <2>2. tls' \in [Agents -> BOOLEAN]
    BY <2>1, Set1 DEF AgentRestarts, AgentType
  <2>3. QED
    BY <1>3, <2>2 DEF AgentRestarts, AgentType
<1>5. QED
  BY <1>1, <1>3, <1>4, AgentMoves

-----------------------------------------------------------------------------
(***************************************************************************)
(* The theorems.                                                           *)
(***************************************************************************)
LEMMA StutterInv == TLSInv /\ UNCHANGED vars => TLSInv'
<1> SUFFICES ASSUME TLSInv, UNCHANGED vars
             PROVE  TLSInv'
  OBVIOUS
<1>1. UNCHANGED masterVars
  BY DEF vars, masterVars, handlerVars
<1>2. PushType' /\ AgentType' /\ PromiseType' /\ FaultType'
  BY RestSame DEF vars, handlerVars, TLSInv, TypeInv
<1>3. QED
  BY <1>1, <1>2, AgentMoves

LEMMA StepInv == TLSInv /\ [Next]_vars => TLSInv'
<1> SUFFICES ASSUME TLSInv, [Next]_vars
             PROVE  TLSInv'
  OBVIOUS
<1>1. CASE PanelEnds
  BY <1>1, PanelEndsInv
<1>2. CASE PanelChanges
  BY <1>2, PanelChangesInv
<1>3. CASE Reload
  BY <1>3, StartMasterInv, StatInv, ReadCrtInv, ReadKeyInv, ChangeInv DEF Reload
<1>4. CASE MasterRestarts
  BY <1>4, MasterRestartsInv
<1>5. ASSUME NEW h \in Requests, Ask(h) \/ Handle(h)
      PROVE  TLSInv'
  BY <1>5, AskInv, SeesInv, SettlesInv, TellInv, ReplyInv DEF Handle
<1>6. ASSUME NEW a \in Agents, AgentStep(a) \/ Connects(a) \/ SessionEnds(a) \/ AgentRestarts(a)
      PROVE  TLSInv'
  BY <1>6, ApplyInv, ClosesSessionInv, ConnectsInv, SessionEndsInv, AgentRestartsInv DEF AgentStep
<1>7. CASE UNCHANGED vars
  BY <1>7, StutterInv
<1>8. QED
  BY <1>1, <1>2, <1>3, <1>4, <1>5, <1>6, <1>7 DEF Next

\* The inductive invariant of the reloader, the handlers of the switch and the agents.
THEOREM TLSInvariant == Spec => []TLSInv
<1>1. Init => TLSInv
  BY InitInv
<1>2. TLSInv /\ [Next]_vars => TLSInv'
  BY StepInv
<1>3. QED
  BY <1>1, <1>2, PTL DEF Spec

\* Every variable stays within its type, and a store that holds a certificate has
\* called the callback, or is about to (tls.go:77, 87).
THEOREM TypeCorrect == Spec => []TypeOK
<1>1. TLSInv => TypeOK
  BY TypeParts DEF TLSInv
<1>2. QED
  BY <1>1, TLSInvariant, PTL

\* The agents are told when the listener already serves what they are told to use, for
\* any number of agents, of overlapping requests and of certificates (panel_ssl.go:88).
THEOREM ToldWhenServed == Spec => ToldInStep
<1>1. ASSUME TLSInv
      PROVE  \A h \in Requests :
               hpc[h] = "tell" /\ hpc'[h] = "told" /\ calm[h] => (store # 0) = Want[h]
  BY <1>1 DEF TLSInv, ReloadInv, SteadyInv, TickInv, Steady
<1>2. QED
  BY <1>1, TLSInvariant, PTL DEF ToldInStep

-----------------------------------------------------------------------------
(***************************************************************************)
(* The reloader comes to rest, and only where it should.                   *)
(***************************************************************************)

\* There is no certificate but the newest, and a key is never newer.
NewestInv ==
  /\ crt \in {0, latest} /\ key <= latest
  /\ writing = "nothing" => panelTLS = (crt # 0)
  /\ writing = "key" => crt # 0

\* What has been read after a look at the newest files is the newest certificate, or none;
\* so the store, which remembers the time of that look, holds it if that time is the newest.
LookInv ==
  /\ mod <= latest
  /\ rpc = "key" /\ mod = latest => read \in {0, latest}
  /\ store # 0 => lastMod <= latest /\ (lastMod = latest => store = latest)

\* Once a certificate has been loaded, the upstream follows the store, one step behind.
SchemeInv ==
  /\ loaded /\ rpc # "change" => upstream = (store # 0)
  /\ rpc = "new" => ~loaded

RestInv == NewestInv /\ LookInv /\ SchemeInv

LEMMA NewestKept ==
  ASSUME TLSInv, NewestInv, LookInv, NEW enable \in BOOLEAN, PanelBegins(enable) \/ PanelEnds,
         UNCHANGED reloadVars
  PROVE  NewestInv' /\ LookInv'
<1>1. FileType /\ PairInv /\ crt \in Nat /\ key \in Nat /\ latest \in Nat /\ mod \in Nat /\ lastMod \in Nat
  BY PanelTLSAssumption DEF TLSInv, TypeInv, ReloadInv, FileType, ReloadType, Versions
<1>2. UNCHANGED <<rpc, mod, read, store, lastMod>>
  BY DEF reloadVars
<1>3. CASE PanelBegins(enable) /\ enable
  <2>1. latest' = latest + 1 /\ crt' = latest' /\ writing' = "key" /\ key' = key
    BY <1>3 DEF PanelBegins
  <2>2. NewestInv'
    BY <1>1, <2>1 DEF NewestInv
  <2>3. mod < latest' /\ (store # 0 => lastMod < latest')
    BY <1>1, <2>1 DEF LookInv
  <2>4. QED
    BY <1>1, <1>2, <2>1, <2>2, <2>3 DEF LookInv
<1>4. CASE PanelBegins(enable) /\ ~enable
  <2>1. latest' = latest /\ crt' = 0 /\ writing' = "removal" /\ key' = key
    BY <1>4 DEF PanelBegins
  <2>2. QED
    BY <1>1, <1>2, <2>1 DEF NewestInv, LookInv
<1>5. CASE PanelEnds
  <2>1. /\ latest' = latest /\ crt' = crt /\ writing' = "nothing" /\ writing # "nothing"
        /\ key' = IF writing = "key" THEN crt ELSE 0
        /\ panelTLS' = (writing = "key")
    BY <1>5 DEF PanelEnds
  <2>2. panelTLS' = (crt' # 0)
    <3>1. CASE writing = "key"
      BY <2>1, <3>1 DEF NewestInv
    <3>2. CASE writing = "removal"
      BY <1>1, <2>1, <3>2 DEF PairInv
    <3>3. QED
      BY <1>1, <2>1, <3>1, <3>2 DEF FileType
  <2>3. QED
    BY <1>1, <1>2, <2>1, <2>2 DEF NewestInv, LookInv
<1>6. QED
  BY <1>3, <1>4, <1>5

LEMMA NewestTime ==
  TLSInv /\ NewestInv => /\ crt # 0 => NewTime = latest
                         /\ NewTime \in Nat /\ NewTime <= latest
<1> SUFFICES ASSUME TLSInv, NewestInv
             PROVE  (crt # 0 => NewTime = latest) /\ NewTime \in Nat /\ NewTime <= latest
  OBVIOUS
<1>1. crt \in Nat /\ key \in Nat /\ latest \in Nat
  BY PanelTLSAssumption DEF TLSInv, TypeInv, FileType, Versions
<1>2. QED
  BY <1>1 DEF NewestInv, NewTime

LEMMA ReloadRest == TLSInv /\ RestInv /\ Reload => RestInv'
<1> SUFFICES ASSUME TLSInv, RestInv, Reload
             PROVE  RestInv'
  OBVIOUS
<1>1. /\ crt \in Nat /\ key \in Nat /\ latest \in Nat /\ mod \in Nat /\ lastMod \in Nat
      /\ NewTime \in Nat /\ NewTime <= latest
      /\ store # 0 => loaded /\ (upstream \/ rpc = "change")
      /\ rpc = "new" => store = 0
  BY PanelTLSAssumption, NewestTime
     DEF TLSInv, TypeInv, ReloadInv, StoreInv, FileType, ReloadType, Versions, RestInv
<1>2. UNCHANGED <<crt, key, latest, writing, panelTLS>>
  BY DEF Reload, StartMaster, Stat, ReadCrt, ReadKey, Change, fileVars
<1>3. NewestInv'
  BY <1>2 DEF RestInv, NewestInv
<1>4. CASE StartMaster
  <2>1. rpc = "new" /\ rpc' = "first" /\ UNCHANGED <<mod, read, store, lastMod, loaded>>
    BY <1>4 DEF StartMaster
  <2>2. LookInv'
    BY <1>2, <2>1 DEF RestInv, LookInv
  <2>3. ~loaded
    BY <1>1, <2>1 DEF RestInv, SchemeInv
  <2>4. QED
    BY <1>3, <2>1, <2>2, <2>3 DEF RestInv, SchemeInv
<1>5. ASSUME Clear, mod' \in {0, mod}, rpc # "change"
      PROVE  RestInv'
  <2>1. LookInv'
    BY <1>1, <1>2, <1>5 DEF RestInv, LookInv, Clear
  <2>2. SchemeInv'
    BY <1>1, <1>5 DEF RestInv, SchemeInv, Clear
  <2>3. QED
    BY <1>3, <2>1, <2>2 DEF RestInv
<1>6. CASE Stat
  <2>1. CASE Clear /\ rpc # "change" /\ UNCHANGED mod
    BY <1>5, <2>1
  <2>2. CASE rpc # "change" /\ rpc' \in {"stat", "crt"} /\ mod' \in {mod, NewTime} /\ UNCHANGED <<read, store, lastMod, upstream, loaded>>
    <3>1. LookInv'
      BY <1>1, <1>2, <2>2 DEF RestInv, LookInv
    <3>2. QED
      BY <1>3, <2>2, <3>1 DEF RestInv, SchemeInv
  <2>3. QED
    BY <1>6, <2>1, <2>2 DEF Stat
<1>7. CASE ReadCrt
  <2>1. rpc = "crt" /\ rpc' = "key" /\ read' = crt /\ UNCHANGED <<mod, store, lastMod, upstream, loaded>>
    BY <1>7 DEF ReadCrt
  <2>2. LookInv'
    BY <1>1, <1>2, <2>1 DEF RestInv, NewestInv, LookInv
  <2>3. QED
    BY <1>3, <2>1, <2>2 DEF RestInv, SchemeInv
<1>8. CASE ReadKey
  <2>1. rpc = "key" /\ rpc' \in {"stat", "change"} /\ mod' = 0
    BY <1>8 DEF ReadKey, Clear
  <2>2. CASE read # 0 /\ read = key
    <3>1. /\ store' = read /\ lastMod' = mod /\ loaded' = TRUE /\ upstream' = upstream
          /\ rpc' = IF store = 0 THEN "change" ELSE "stat"
      BY <1>8, <2>2 DEF ReadKey
    <3>2. LookInv'
      BY <1>1, <1>2, <2>1, <2>2, <3>1 DEF RestInv, LookInv
    <3>3. rpc' # "change" => upstream' = TRUE
      BY <1>1, <2>1, <3>1 DEF TLSInv, TypeInv, ReloadType
    <3>4. SchemeInv'
      <4>1. rpc' # "change" => upstream' = (store' # 0)
        BY <2>2, <3>1, <3>3
      <4>2. QED
        BY <2>1, <4>1 DEF SchemeInv
    <3>5. QED
      BY <1>3, <3>2, <3>4 DEF RestInv
  <2>3. CASE ~(read # 0 /\ read = key)
    BY <1>5, <1>8, <2>1, <2>3 DEF ReadKey
  <2>4. QED
    BY <2>2, <2>3
<1>9. CASE Change
  <2>1. rpc' = "stat" /\ upstream' = (store # 0) /\ UNCHANGED <<mod, read, store, lastMod, loaded>>
    BY <1>9 DEF Change
  <2>2. LookInv'
    BY <1>2, <2>1 DEF RestInv, LookInv
  <2>3. QED
    BY <1>3, <2>1, <2>2 DEF RestInv, SchemeInv
<1>10. QED
  BY <1>4, <1>6, <1>7, <1>8, <1>9 DEF Reload

LEMMA RestStays ==
  RestInv /\ UNCHANGED <<fileVars, reloadVars>> => RestInv'
BY DEF RestInv, NewestInv, LookInv, SchemeInv, fileVars, reloadVars

LEMMA RestStep == TLSInv /\ RestInv /\ [Next]_vars => RestInv'
<1> SUFFICES ASSUME TLSInv, RestInv, [Next]_vars
             PROVE  RestInv'
  OBVIOUS
<1>1. ASSUME NEW enable \in BOOLEAN, PanelBegins(enable) \/ PanelEnds, UNCHANGED reloadVars
      PROVE  RestInv'
  <2>1. SchemeInv'
    BY <1>1 DEF RestInv, SchemeInv, reloadVars
  <2>2. QED
    BY <1>1, <2>1, NewestKept DEF RestInv
<1>2. CASE PanelEnds
  BY <1>1, <1>2 DEF PanelEnds
<1>3. CASE PanelChanges
  BY <1>1, <1>3 DEF PanelChanges
<1>4. CASE Reload
  BY <1>4, ReloadRest
<1>5. CASE MasterRestarts
  <2>1. /\ UNCHANGED <<crt, key, latest, writing, panelTLS>>
        /\ rpc' = "new" /\ mod' = 0 /\ read' = 0 /\ store' = 0 /\ lastMod' = 0
        /\ upstream' = FALSE /\ loaded' = FALSE
    BY <1>5 DEF MasterRestarts, fileVars
  <2>2. latest \in Nat
    BY PanelTLSAssumption DEF TLSInv, TypeInv, FileType, Versions
  <2>3. QED
    BY <2>1, <2>2 DEF RestInv, NewestInv, LookInv, SchemeInv
<1>6. ASSUME NEW h \in Requests, Ask(h)
      PROVE  RestInv'
  <2>1. UNCHANGED reloadVars /\ Want[h] \in BOOLEAN
    BY <1>6, PanelTLSAssumption DEF Ask
  <2>2. CASE PanelBegins(Want[h])
    BY <1>1, <2>1, <2>2
  <2>3. CASE UNCHANGED fileVars
    BY <2>1, <2>3, RestStays
  <2>4. QED
    BY <1>6, <2>2, <2>3 DEF Ask
<1>7. ASSUME NEW h \in Requests, Handle(h)
      PROVE  RestInv'
  BY <1>7, RestStays DEF Handle, Sees, Settles, Tell, Reply
<1>8. ASSUME NEW a \in Agents, AgentStep(a) \/ Connects(a) \/ SessionEnds(a) \/ AgentRestarts(a)
      PROVE  RestInv'
  BY <1>8, RestStays DEF AgentStep, Apply, ClosesSession, Connects, SessionEnds, AgentRestarts
<1>9. CASE UNCHANGED vars
  BY <1>9, RestStays DEF vars
<1>10. QED
  BY <1>2, <1>3, <1>4, <1>5, <1>6, <1>7, <1>8, <1>9 DEF Next

LEMMA RestInit == Init => RestInv
<1> SUFFICES ASSUME Init
             PROVE  RestInv
  OBVIOUS
<1>1. /\ crt = 0 /\ key = 0 /\ latest = 0 /\ writing = "nothing" /\ ~panelTLS
      /\ rpc = "new" /\ mod = 0 /\ store = 0 /\ ~loaded
  BY DEF Init
<1>2. panelTLS = (crt # 0)
  BY <1>1 DEF Init
<1>3. QED
  BY <1>1, <1>2 DEF RestInv, NewestInv, LookInv, SchemeInv

LEMMA RestAlways == Spec => [](TLSInv /\ RestInv)
<1>1. TLSInv /\ RestInv /\ [Next]_vars => TLSInv' /\ RestInv'
  BY StepInv, RestStep
<1>2. QED
  BY <1>1, InitInv, RestInit, PTL DEF Spec

LEMMA RestRight == TLSInv /\ RestInv => RestIsRight
<1> SUFFICES ASSUME TLSInv, RestInv, AtRest
             PROVE  Stuck \/ Right
  BY DEF RestIsRight
<1>1. /\ crt \in Nat /\ key \in Nat /\ latest \in Nat /\ lastMod \in Nat
      /\ upstream \in BOOLEAN /\ panelTLS \in BOOLEAN
      /\ store # 0 => loaded /\ (upstream \/ rpc = "change")
      /\ rpc = "stat"
  BY PanelTLSAssumption DEF TLSInv, TypeInv, FileType, ReloadType, Versions, AtRest
<1>2. crt = key /\ panelTLS = (crt # 0)
  BY DEF AtRest, TLSInv, ReloadInv, PairInv, RestInv, NewestInv
<1>3. CASE Ready
  <2>1. crt # 0 /\ store # 0 /\ NewTime <= lastMod /\ crt = latest
    BY <1>3 DEF AtRest, UpToDate, Ready, RestInv, NewestInv
  <2>2. NewTime = latest
    BY <2>1, NewestTime DEF RestInv
  <2>3. lastMod = latest
    BY <1>1, <2>1, <2>2 DEF RestInv, LookInv
  <2>4. store = crt
    BY <2>1, <2>3 DEF RestInv, LookInv
  <2>5. QED
    BY <1>1, <1>2, <2>1, <2>4 DEF Right
<1>4. CASE ~Ready
  <2>1. store = 0 /\ crt = 0 /\ ~panelTLS
    BY <1>2, <1>4 DEF AtRest, UpToDate, Ready
  <2>2. CASE loaded
    BY <1>1, <2>1, <2>2 DEF Right, RestInv, SchemeInv
  <2>3. CASE ~loaded
    BY <1>1, <1>4, <2>1, <2>3 DEF Right, Stuck
  <2>4. QED
    BY <2>2, <2>3
<1>5. QED
  BY <1>3, <1>4

\* What the reloader has left alone is right: with the files at rest and nothing new in
\* them by its own comparison of times, listener and upstream are what 1Panel serves, for
\* any number of certificates, torn pairs and restarts (tls.go:65).
THEOREM RestsRightly == Spec => []RestIsRight
BY RestAlways, RestRight, PTL

\* What is left to do at each place in a tick.
LeftAt ==
  /\ AtRest => StepsToRest = 0
  /\ rpc = "key" => StepsToRest = IF Fresh /\ (Ready => read = crt) THEN 2 ELSE 6
  /\ rpc = "crt" => StepsToRest = IF Fresh THEN 3 ELSE 7
  /\ rpc \in {"stat", "first"} /\ ~AtRest => StepsToRest = 4
  /\ rpc = "change" => StepsToRest = IF UpToDate THEN 1 ELSE 5
  /\ rpc = "new" => StepsToRest = 5

LEMMA StepsLeft == LeftAt
<1>1. AtRest => rpc = "stat"
  BY DEF AtRest
<1>2. CASE AtRest
  BY <1>1, <1>2 DEF LeftAt, StepsToRest
<1>3. CASE ~AtRest /\ rpc = "key"
  <2>1. CASE Fresh /\ (Ready => read = crt)
    BY <1>3, <2>1 DEF LeftAt, StepsToRest
  <2>2. CASE ~(Fresh /\ (Ready => read = crt))
    BY <1>3, <2>2 DEF LeftAt, StepsToRest
  <2>3. QED
    BY <1>3, <2>1, <2>2
<1>4. CASE ~AtRest /\ rpc = "crt"
  <2>1. CASE Fresh
    BY <1>4, <2>1 DEF LeftAt, StepsToRest
  <2>2. CASE ~Fresh
    BY <1>4, <2>2 DEF LeftAt, StepsToRest
  <2>3. QED
    BY <1>4, <2>1, <2>2
<1>5. CASE ~AtRest /\ rpc \notin {"key", "crt", "change"}
  BY <1>5 DEF LeftAt, StepsToRest
<1>6. CASE ~AtRest /\ rpc = "change"
  <2>1. CASE UpToDate
    BY <1>6, <2>1 DEF LeftAt, StepsToRest
  <2>2. CASE ~UpToDate
    BY <1>6, <2>2 DEF LeftAt, StepsToRest
  <2>3. QED
    BY <1>6, <2>1, <2>2
<1>7. QED
  BY <1>1, <1>2, <1>3, <1>4, <1>5, <1>6 DEF LeftAt

LEMMA StepsLeftNext == LeftAt'
BY StepsLeft, PTL

LEMMA TickCloser ==
  TLSInv /\ Reload /\ writing = "nothing" => StepsToRest' < StepsToRest \/ StepsToRest' = 0
<1> SUFFICES ASSUME TLSInv, Reload, writing = "nothing"
             PROVE  StepsToRest' < StepsToRest \/ StepsToRest' = 0
  OBVIOUS
<1>1. UNCHANGED <<crt, key, writing>> /\ Ready' = Ready /\ NewTime' = NewTime
  BY DEF Reload, StartMaster, Stat, ReadCrt, ReadKey, Change, fileVars, Ready, NewTime
<1>2. crt = key /\ (rpc = "new" => store = 0) /\ crt \in Nat /\ key \in Nat /\ NewTime \in Nat
  BY PanelTLSAssumption DEF TLSInv, TypeInv, ReloadInv, PairInv, StoreInv, FileType, Versions, NewTime
<1>3. CASE StartMaster
  <2>1. rpc = "new" /\ rpc' = "first" /\ ~AtRest'
    BY <1>3 DEF StartMaster, AtRest
  <2>2. StepsToRest = 5 /\ StepsToRest' = 4
    BY <2>1, StepsLeft, StepsLeftNext DEF LeftAt
  <2>3. QED
    BY <2>2
<1>4. CASE Stat
  <2>1. rpc \in {"first", "stat"} /\ (StepsToRest = 0 \/ StepsToRest = 4)
    BY <1>4, StepsLeft DEF LeftAt, Stat
  <2>2. CASE rpc' = "stat"
    <3>1. AtRest'
      BY <1>1, <1>4, <2>2 DEF Stat, Clear, AtRest, UpToDate
    <3>2. QED
      BY <3>1, StepsLeftNext DEF LeftAt
  <2>3. CASE rpc' = "change"
    <3>1. ~Ready /\ store # 0 /\ store' = 0
      BY <1>4, <2>3 DEF Stat, Clear
    <3>2. UpToDate' /\ ~AtRest
      BY <1>1, <3>1 DEF AtRest, UpToDate
    <3>3. StepsToRest = 4 /\ StepsToRest' = 1
      BY <2>1, <2>3, <3>2, StepsLeft, StepsLeftNext DEF LeftAt
    <3>4. QED
      BY <3>3
  <2>4. CASE rpc' = "crt"
    <3>1. Ready /\ (store = 0 \/ NewTime > lastMod) /\ mod' = NewTime
      BY <1>4, <2>4 DEF Stat, Clear
    <3>2. Fresh'
      BY <1>1, <3>1 DEF Fresh
    <3>3. ~AtRest
      BY <1>2, <3>1 DEF AtRest, UpToDate, TLSInv, TypeInv, ReloadType, Versions
    <3>4. StepsToRest = 4 /\ StepsToRest' = 3
      BY <2>1, <2>4, <3>2, <3>3, StepsLeft, StepsLeftNext DEF LeftAt
    <3>5. QED
      BY <3>4
  <2>5. QED
    BY <1>4, <2>2, <2>3, <2>4 DEF Stat, Clear
<1>5. CASE ReadCrt
  <2>1. rpc = "crt" /\ rpc' = "key" /\ read' = crt /\ mod' = mod
    BY <1>5 DEF ReadCrt
  <2>2. Fresh' <=> Fresh
    BY <1>1, <2>1 DEF Fresh
  <2>3. StepsToRest = (IF Fresh THEN 3 ELSE 7) /\ StepsToRest' = IF Fresh THEN 2 ELSE 6
    BY <1>1, <2>1, <2>2, StepsLeft, StepsLeftNext DEF LeftAt
  <2>4. QED
    BY <2>3
<1>6. CASE ReadKey
  <2>1. rpc = "key" /\ rpc' \in {"stat", "change"}
    BY <1>6 DEF ReadKey, Clear
  <2>2. StepsToRest = IF Fresh /\ (Ready => read = crt) THEN 2 ELSE 6
    BY <2>1, StepsLeft DEF LeftAt
  <2>3. CASE Fresh /\ (Ready => read = crt)
    <3>1. UpToDate'
      <4>1. CASE Ready
        <5>1. read = crt /\ read # 0 /\ read = key /\ mod = NewTime
          BY <1>2, <2>3, <4>1 DEF Ready, Fresh
        <5>2. store' = read /\ lastMod' = NewTime
          BY <1>6, <5>1 DEF ReadKey
        <5>3. QED
          BY <1>1, <1>2, <2>1, <4>1, <5>1, <5>2 DEF UpToDate
      <4>2. CASE ~Ready
        <5>1. key = 0
          BY <1>2, <4>2 DEF Ready
        <5>2. store' = 0
          BY <1>6, <5>1 DEF ReadKey, Clear
        <5>3. QED
          BY <1>1, <2>1, <4>2, <5>2 DEF UpToDate
      <4>3. QED
        BY <4>1, <4>2
    <3>2. CASE rpc' = "stat"
      BY <1>1, <3>1, <3>2, StepsLeftNext DEF LeftAt, AtRest
    <3>3. CASE rpc' = "change"
      BY <2>2, <2>3, <3>1, <3>3, StepsLeftNext DEF LeftAt
    <3>4. QED
      BY <2>1, <3>2, <3>3
  <2>4. CASE ~(Fresh /\ (Ready => read = crt))
    <3>1. StepsToRest = 6 /\ StepsToRest' \in {0, 1, 4, 5}
      BY <2>1, <2>2, <2>4, StepsLeftNext DEF LeftAt
    <3>2. QED
      BY <3>1
  <2>5. QED
    BY <2>3, <2>4
<1>7. CASE Change
  <2>1. rpc = "change" /\ rpc' = "stat" /\ UNCHANGED <<store, lastMod>>
    BY <1>7 DEF Change
  <2>2. UpToDate' <=> UpToDate
    BY <1>1, <2>1 DEF UpToDate
  <2>3. StepsToRest = IF UpToDate THEN 1 ELSE 5
    BY <2>1, StepsLeft DEF LeftAt
  <2>4. StepsToRest' = IF UpToDate THEN 0 ELSE 4
    BY <1>1, <2>1, <2>2, StepsLeftNext DEF LeftAt, AtRest
  <2>5. QED
    BY <2>3, <2>4
<1>8. QED
  BY <1>3, <1>4, <1>5, <1>6, <1>7 DEF Reload

\* While the files stay as they are, each step of the reloader brings it nearer to rest:
\* seven at most, wherever the tick was that they met (tls.go:43).
THEOREM ReloaderSettles == Spec => TicksSettle
BY TickCloser, TLSInvariant, PTL DEF TicksSettle
=============================================================================
