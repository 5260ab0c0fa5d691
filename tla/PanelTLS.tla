------------------------------ MODULE PanelTLS ------------------------------
(***************************************************************************)
(* The master takes over the certificate of its 1Panel: startCertReloader, *)
(* the listener and the scheme of the upstream (master/tls.go), the page's *)
(* switch for SSL (master/panel_ssl.go) and the agents that are told to    *)
(* change between ws and wss (agent/panel_control.go).                     *)
(*                                                                         *)
(* A version of a certificate stands for its content and for the time of   *)
(* its file: 1Panel writes a certificate and then its key, each newer than *)
(* all before.  The certificate is self-signed, so an agent on ws does not *)
(* follow the listener's redirect to https.                                *)
(*                                                                         *)
(* Left out: requests of browsers, and what is written to the log.         *)
(***************************************************************************)
EXTENDS Naturals

CONSTANTS
  Agents,
  Requests,    \* bound: uses of the switch
  Want,        \* what each asks for: TRUE to enable SSL
  MaxVersion,  \* bound: certificates written
  MaxFaults    \* bound: restarts, lost sessions and failed writes

ASSUME PanelTLSAssumption ==
  Want \in [Requests -> BOOLEAN] /\ MaxVersion \in Nat /\ MaxFaults \in Nat

Versions == 0 .. MaxVersion  \* 0: there is no file

VARIABLES
  crt, key,  \* the two files
  latest,    \* the newest version
  writing,   \* what 1Panel is about to do to the key
  panelTLS,  \* whether 1Panel serves https
  rpc,       \* progress of a tick of the reloader
  mod, read, \* its local variables: newest time and certificate read
  store,     \* certStore
  lastMod,
  upstream,  \* whether Server.LocalPanel is an https URL
  loaded,    \* history: the store has held a certificate since the master started
  hpc,       \* progress of each handlePanelSSL
  settled,   \* ticks it has waited for: 1 under way, 2 over
  calm,      \* history: since it saw the files it wants, none has been written, and
             \* nobody else was telling the agents then
  push,      \* its panel control for each agent
  tls,       \* master_tls of an agent, in memory
  saved,     \* and in its file
  online,    \* the agents with a session
  closing,   \* the agents that will close their session
  promised,  \* history: told with success to use what the master serves
  unsaved,   \* history: agents that once could not write their file
  faults

fileVars == <<crt, key, latest, writing, panelTLS>>
reloadVars == <<rpc, mod, read, store, lastMod, upstream, loaded>>
handlerVars == <<hpc, settled, calm, push>>
agentVars == <<tls, saved, online, closing, unsaved>>
vars == <<fileVars, reloadVars, handlerVars, agentVars, promised, faults>>

TypeOK ==
  /\ crt \in Versions /\ key \in Versions /\ latest \in Versions
  /\ writing \in {"nothing", "key", "removal"} /\ panelTLS \in BOOLEAN
  /\ rpc \in {"new", "first", "stat", "crt", "key", "change"} /\ mod \in Versions /\ read \in Versions
  /\ store \in Versions /\ lastMod \in Versions
  /\ upstream \in BOOLEAN /\ loaded \in BOOLEAN
  /\ (store # 0 => loaded /\ (upstream \/ rpc = "change"))
  /\ hpc \in [Requests -> {"idle", "wait", "settle", "tell", "told", "over"}]
  /\ settled \in [Requests -> 0 .. 2] /\ calm \in [Requests -> BOOLEAN]
  /\ push \in [Requests -> [Agents -> {"none", "sent", "ok", "err"}]]
  /\ tls \in [Agents -> BOOLEAN] /\ saved \in [Agents -> BOOLEAN]
  /\ \A s \in {online, closing, promised, unsaved} : s \subseteq Agents
  /\ faults \in 0 .. MaxFaults

NoPush == [a \in Agents |-> "none"]

Init ==
  /\ crt = 0 /\ key = 0 /\ latest = 0 /\ writing = "nothing" /\ panelTLS = FALSE
  /\ rpc = "new" /\ mod = 0 /\ read = 0 /\ store = 0 /\ lastMod = 0
  /\ upstream = FALSE /\ loaded = FALSE
  /\ hpc = [h \in Requests |-> "idle"]
  /\ settled = [h \in Requests |-> 0] /\ calm = [h \in Requests |-> FALSE]
  /\ push = [h \in Requests |-> NoPush]
  /\ tls = [a \in Agents |-> FALSE] /\ saved = tls
  /\ online = {} /\ closing = {} /\ promised = {} /\ unsaved = {}
  /\ faults = 0

Fault == faults < MaxFaults /\ faults' = faults + 1

\* PanelSSLReady: both files are there.
Ready == crt # 0 /\ key # 0

Serving == rpc \notin {"new", "first"}

-----------------------------------------------------------------------------
(* 1Panel, outside this repository: the files of its secret directory.     *)

FilesChange ==
  /\ calm' = [h \in Requests |-> FALSE]
  /\ promised' = {}

\* 1Panel writes a certificate, or removes it; the key follows.
PanelBegins(enable) ==
  /\ writing = "nothing"
  /\ IF enable
     THEN /\ latest < MaxVersion /\ latest' = latest + 1
          /\ crt' = latest'
          /\ writing' = "key"
     ELSE /\ crt' = 0
          /\ writing' = "removal"
          /\ UNCHANGED latest
  /\ FilesChange
  /\ UNCHANGED <<key, panelTLS>>

PanelEnds ==
  /\ writing # "nothing"
  /\ key' = IF writing = "key" THEN crt ELSE 0
  /\ panelTLS' = (writing = "key")
  /\ writing' = "nothing"
  /\ FilesChange
  /\ UNCHANGED <<crt, latest, reloadVars, hpc, settled, push, agentVars, faults>>

\* The administrator uses 1Panel itself: a new certificate, or SSL off.
PanelChanges ==
  /\ Fault
  /\ \E enable \in BOOLEAN : PanelBegins(enable)
  /\ UNCHANGED <<reloadVars, hpc, settled, push, agentVars>>

-----------------------------------------------------------------------------
(* New and startCertReloader: a first tick before the listener serves,     *)
(* then one every five seconds.                                            *)

\* Mutant: the callback is only called for a certificate that appears.
ClearQuietly == store' = 0 /\ rpc' = "stat" /\ UNCHANGED <<upstream, loaded>>

\* store.set(nil), and onChange if the store has held a certificate.
Clear ==
  /\ store' = 0
  /\ rpc' = IF store # 0 THEN "change" ELSE "stat"
  /\ UNCHANGED <<upstream, loaded>>

\* What a handler that waits for a tick learns when one starts, and when it ends.
TickStarts == settled' = [h \in Requests |-> IF hpc[h] = "settle" THEN IF settled[h] = 0 THEN 1 ELSE settled[h] ELSE 0]
TickEnds == settled' = [h \in Requests |-> IF settled[h] = 1 THEN 2 ELSE settled[h]]
WholeTick == settled' = [h \in Requests |-> IF hpc[h] = "settle" THEN 2 ELSE 0]

NewTime == IF crt > key THEN crt ELSE key

\* New: the scheme of the upstream from the files that are there.
StartMaster ==
  /\ rpc = "new"
  /\ rpc' = "first"
  /\ upstream' = Ready
  /\ UNCHANGED <<fileVars, mod, read, store, lastMod, loaded, handlerVars, agentVars, promised, faults>>

\* os.Stat of both files.
Stat ==
  /\ rpc \in {"first", "stat"}
  /\ \/ /\ ~Ready
        /\ Clear
        /\ IF rpc' = "change" THEN TickStarts ELSE WholeTick
        /\ lastMod' = IF store # 0 THEN 0 ELSE lastMod
        /\ UNCHANGED mod
     \/ /\ Ready /\ store # 0 /\ NewTime <= lastMod
        /\ WholeTick
        /\ rpc' = "stat" /\ UNCHANGED <<mod, store, lastMod, upstream, loaded>>
     \/ /\ Ready /\ (store = 0 \/ NewTime > lastMod)
        /\ TickStarts
        /\ rpc' = "crt" /\ mod' = NewTime
        /\ UNCHANGED <<store, lastMod, upstream, loaded>>
  /\ UNCHANGED <<fileVars, read, hpc, calm, push, agentVars, promised, faults>>

\* LoadPanelTLS: the certificate, then its key.
ReadCrt ==
  /\ rpc = "crt"
  /\ rpc' = "key"
  /\ read' = crt
  /\ UNCHANGED <<fileVars, mod, store, lastMod, upstream, loaded, handlerVars, agentVars, promised, faults>>

\* Mutant: the callback is only called for a certificate that goes.
ReadKeySilently ==
  /\ rpc = "key"
  /\ mod' = 0 /\ read' = 0
  /\ IF read # 0 /\ read = key
     THEN /\ store' = read /\ lastMod' = mod
          /\ loaded' = TRUE
          /\ rpc' = "stat"
          /\ UNCHANGED upstream
     ELSE Clear /\ UNCHANGED lastMod
  /\ IF rpc' = "change" THEN UNCHANGED settled ELSE TickEnds
  /\ UNCHANGED <<fileVars, hpc, calm, push, agentVars, promised, faults>>

\* Mutant: the time remembered is that of the files as they have been read.
ReadKeyLate ==
  /\ rpc = "key"
  /\ mod' = 0 /\ read' = 0
  /\ IF read # 0 /\ read = key
     THEN /\ store' = read /\ lastMod' = NewTime
          /\ loaded' = TRUE
          /\ rpc' = IF store = 0 THEN "change" ELSE "stat"
          /\ UNCHANGED upstream
     ELSE Clear /\ UNCHANGED lastMod
  /\ IF rpc' = "change" THEN UNCHANGED settled ELSE TickEnds
  /\ UNCHANGED <<fileVars, hpc, calm, push, agentVars, promised, faults>>

\* ... and store.set, if they fit; onChange if the store has held none so far.
ReadKey ==
  /\ rpc = "key"
  /\ mod' = 0 /\ read' = 0
  /\ IF read # 0 /\ read = key
     THEN /\ store' = read /\ lastMod' = mod
          /\ loaded' = TRUE
          /\ rpc' = IF store = 0 THEN "change" ELSE "stat"
          /\ UNCHANGED upstream
     ELSE Clear /\ UNCHANGED lastMod
  /\ IF rpc' = "change" THEN UNCHANGED settled ELSE TickEnds
  /\ UNCHANGED <<fileVars, hpc, calm, push, agentVars, promised, faults>>

\* onChange: the upstream follows the store.
Change ==
  /\ rpc = "change"
  /\ rpc' = "stat"
  /\ upstream' = (store # 0)
  /\ TickEnds
  /\ UNCHANGED <<fileVars, mod, read, store, lastMod, loaded, hpc, calm, push, agentVars, promised, faults>>

-----------------------------------------------------------------------------
(* handlePanelSSL.                                                         *)

\* UpdateSSL, at the upstream's URL.
Ask(h) ==
  /\ hpc[h] = "idle" /\ Serving
  /\ \/ /\ upstream = panelTLS
        /\ PanelBegins(Want[h])
        /\ hpc' = [hpc EXCEPT ![h] = "wait"]
     \/ hpc' = [hpc EXCEPT ![h] = "over"] /\ UNCHANGED <<fileVars, calm, promised>>
  /\ UNCHANGED <<reloadVars, settled, push, agentVars, faults>>

Alone(h) == \A g \in Requests \ {h} : hpc[g] \notin {"tell", "told"}

\* waitPanelSSL: the files are as wanted; 90 s are the limit.
Sees(h) ==
  /\ hpc[h] = "wait"
  /\ \/ /\ Ready = Want[h]
        /\ hpc' = [hpc EXCEPT ![h] = "settle"]
        /\ calm' = [calm EXCEPT ![h] = writing = "nothing" /\ Alone(h)]
     \/ hpc' = [hpc EXCEPT ![h] = "over"] /\ UNCHANGED calm
  /\ UNCHANGED <<fileVars, reloadVars, settled, push, agentVars, promised, faults>>

\* Mutant: the files are enough.
SettlesAtOnce(h) ==
  /\ hpc[h] = "settle"
  /\ hpc' = [hpc EXCEPT ![h] = IF Ready = Want[h] THEN "tell" ELSE "wait"]
  /\ settled' = [settled EXCEPT ![h] = 0]
  /\ UNCHANGED <<fileVars, reloadVars, calm, push, agentVars, promised, faults>>

\* Six seconds later, in which the reloader, which looks every five, has ticked.
Settles(h) ==
  /\ hpc[h] = "settle" /\ settled[h] = 2
  /\ hpc' = [hpc EXCEPT ![h] = IF Ready = Want[h] THEN "tell" ELSE "wait"]
  /\ settled' = [settled EXCEPT ![h] = 0]
  /\ UNCHANGED <<fileVars, reloadVars, calm, push, agentVars, promised, faults>>

\* broadcastPanelControl: to every agent that has a session.
Tell(h) ==
  /\ hpc[h] = "tell"
  /\ hpc' = [hpc EXCEPT ![h] = "told"]
  /\ push' = [push EXCEPT ![h] = [a \in Agents |-> IF a \in online THEN "sent" ELSE "none"]]
  /\ UNCHANGED <<fileVars, reloadVars, settled, calm, agentVars, promised, faults>>

\* Mutant: only the file is changed.
ApplyToFile(h, a) ==
  /\ push[h][a] = "sent"
  /\ saved' = [saved EXCEPT ![a] = Want[h]]
  /\ closing' = closing \cup {a}
  /\ push' = [push EXCEPT ![h][a] = "ok"]
  /\ UNCHANGED <<fileVars, reloadVars, hpc, settled, calm, tls, online, unsaved, promised, faults>>

\* pushPanelControl and applyMasterTLS: the session is closed 300 ms later.
Apply(h, a) ==
  /\ push[h][a] = "sent"
  /\ \/ /\ tls[a] = Want[h]
        /\ push' = [push EXCEPT ![h][a] = "ok"]
        /\ UNCHANGED <<tls, saved, closing, unsaved, faults>>
     \/ /\ tls[a] # Want[h]
        /\ tls' = [tls EXCEPT ![a] = Want[h]]
        /\ \/ /\ saved' = [saved EXCEPT ![a] = Want[h]]
              /\ closing' = closing \cup {a}
              /\ push' = [push EXCEPT ![h][a] = "ok"]
              /\ UNCHANGED <<unsaved, faults>>
           \/ /\ Fault
              /\ unsaved' = unsaved \cup {a}
              /\ push' = [push EXCEPT ![h][a] = "err"]
              /\ UNCHANGED <<saved, closing>>
  /\ UNCHANGED <<fileVars, reloadVars, hpc, settled, calm, online, promised>>

\* The answer; it holds good until somebody changes the files.
Reply(h) ==
  /\ hpc[h] = "told" /\ \A a \in Agents : push[h][a] # "sent"
  /\ hpc' = [hpc EXCEPT ![h] = "over"]
  /\ push' = [push EXCEPT ![h] = NoPush]
  /\ promised' = IF calm[h] THEN {a \in Agents : push[h][a] = "ok"} ELSE {}
  /\ UNCHANGED <<fileVars, reloadVars, settled, calm, agentVars, faults>>

-----------------------------------------------------------------------------
(* Agents.                                                                 *)

\* The sessions of the agents As end, and what is sent on them is lost.
Cut(As) ==
  /\ online' = online \ As
  /\ push' = [h \in Requests |-> [a \in Agents |->
                IF a \in As /\ push[h][a] = "sent" THEN "err" ELSE push[h][a]]]

\* connectOnce: ws is redirected while there is a certificate, wss fails without.
Connects(a) ==
  /\ a \notin online /\ Serving /\ tls[a] = (store # 0)
  /\ online' = online \cup {a}
  /\ UNCHANGED <<fileVars, reloadVars, handlerVars, tls, saved, closing, unsaved, promised, faults>>

\* closeSession, whichever session it is by now.
ClosesSession(a) ==
  /\ a \in closing
  /\ closing' = closing \ {a}
  /\ Cut({a})
  /\ UNCHANGED <<fileVars, reloadVars, hpc, settled, calm, tls, saved, unsaved, promised, faults>>

SessionEnds(a) ==
  /\ a \in online
  /\ Fault
  /\ Cut({a})
  /\ UNCHANGED <<fileVars, reloadVars, hpc, settled, calm, tls, saved, closing, unsaved, promised>>

AgentRestarts(a) ==
  /\ Fault
  /\ Cut({a})
  /\ tls' = [tls EXCEPT ![a] = saved[a]]
  /\ closing' = closing \ {a}
  /\ UNCHANGED <<fileVars, reloadVars, hpc, settled, calm, saved, unsaved, promised>>

MasterRestarts ==
  /\ Fault
  /\ rpc' = "new" /\ mod' = 0 /\ read' = 0 /\ store' = 0 /\ lastMod' = 0
  /\ upstream' = FALSE /\ loaded' = FALSE
  /\ hpc' = [h \in Requests |-> IF hpc[h] = "idle" THEN "idle" ELSE "over"]
  /\ settled' = [h \in Requests |-> 0]
  /\ push' = [h \in Requests |-> NoPush]
  /\ online' = {}
  /\ UNCHANGED <<fileVars, calm, tls, saved, closing, unsaved, promised>>

-----------------------------------------------------------------------------
Reload == StartMaster \/ Stat \/ ReadCrt \/ ReadKey \/ Change
Handle(h) == Sees(h) \/ Settles(h) \/ Tell(h) \/ Reply(h)
AgentStep(a) == ClosesSession(a) \/ \E h \in Requests : Apply(h, a)

Next ==
  \/ PanelEnds \/ PanelChanges \/ Reload \/ MasterRestarts
  \/ \E h \in Requests : Ask(h) \/ Handle(h)
  \/ \E a \in Agents : AgentStep(a) \/ Connects(a) \/ SessionEnds(a) \/ AgentRestarts(a)

Spec == Init /\ [][Next]_vars

\* The ticker ticks, goroutines run, an agent dials again and again, and 1Panel ends
\* what it has begun.
FairSpec ==
  /\ Spec
  /\ WF_vars(PanelEnds) /\ WF_vars(Reload)
  /\ \A h \in Requests : WF_vars(Handle(h))
  /\ \A a \in Agents : WF_vars(ClosesSession(a)) /\ WF_vars(Connects(a))
  /\ \A a \in Agents, h \in Requests : WF_vars(Apply(h, a))

-----------------------------------------------------------------------------
(* Properties.                                                             *)

\* Agents are told to change only when the listener already serves what they are
\* told to use, if the files have not changed since (panel_ssl.go:88).
ToldInStep ==
  [][\A h \in Requests :
       hpc[h] = "tell" /\ hpc'[h] = "told" /\ calm[h] => (store # 0) = Want[h]]_vars

\* The listener and the upstream end up with what 1Panel serves, whatever the reloader
\* has read in the middle of a change (tls.go:39, 163), except that a scheme New took
\* from files that are gone before the first tick is never taken back.
Stuck == upstream /\ ~loaded /\ ~Ready
Right == upstream = panelTLS /\ store = IF panelTLS THEN crt ELSE 0
UpstreamFollows == <>[](Stuck \/ Right)

\* A tick that would change nothing has nothing to change: the reloader compares the time
\* of an earlier look with that of the files, which it has read some time after that look,
\* and never takes what it holds for new when it is not (tls.go:65).
UpToDate == IF Ready THEN store # 0 /\ NewTime <= lastMod ELSE store = 0
AtRest == writing = "nothing" /\ rpc = "stat" /\ UpToDate
RestIsRight == AtRest => Stuck \/ Right

\* Files that stay as they are leave the reloader at rest after seven of its steps: each
\* brings it nearer, a tick that began before the last write included (tls.go:43).
Fresh == Ready => mod = NewTime
StepsToRest ==
  CASE AtRest -> 0
    [] rpc = "change" /\ UpToDate -> 1
    [] rpc = "key" /\ Fresh /\ (Ready => read = crt) -> 2
    [] rpc = "crt" /\ Fresh -> 3
    [] rpc \in {"stat", "first"} /\ ~AtRest -> 4
    [] rpc = "new" \/ (rpc = "change" /\ ~UpToDate) -> 5
    [] rpc = "crt" /\ ~Fresh -> 7
    [] OTHER -> 6
TicksSettle ==
  [][Reload /\ writing = "nothing" => StepsToRest' < StepsToRest \/ StepsToRest' = 0]_vars

\* An agent that was told with success comes back, restarts of either side included,
\* if it has never failed to write its file and no other request has overlapped (ui.go:757, panel_control.go:39).
ToldComeBack == \A a \in Agents : <>[](a \in promised \ unsaved => a \in online)
=============================================================================
