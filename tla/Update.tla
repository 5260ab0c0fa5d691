------------------------------- MODULE Update -------------------------------
(***************************************************************************)
(* Updates of 1pm: a node's own update from a release, by the tunnel, by   *)
(* the management page or by "1pm update" (agent/update.go,                *)
(* master/selfupdate.go, release/download.go, cmd/1panel-agent/main.go),   *)
(* and the management page's update of all online agents                   *)
(* (handleForceUpdate and runForceUpdate in master/update.go).             *)
(*                                                                         *)
(* An updater runs on a host, in its service or as a process of its own;   *)
(* each works in a temporary directory and replaces the binary by a        *)
(* rename.  A broken mirror answers some requests with a page of its own.  *)
(*                                                                         *)
(* Left out: the bytes of a file, how long a download takes, and tags      *)
(* other than the latest: a stale mirror's, or one pinned by VERSION.      *)
(***************************************************************************)
EXTENDS Naturals, Sequences, FiniteSets

CONSTANTS
  Agents,        \* hosts with an agent
  Master,        \* the host of the master
  Updaters,      \* bound: updates under way at once
  HostOf,        \* the host of an updater
  KindOf,        \* "tunnel", "web" or "cli"
  Posts,         \* bound: force-update requests
  Old, New,      \* releases: the one installed and the latest
  Page,          \* a file that is not a release
  None,
  Sources,       \* number of download prefixes, the last is GitHub itself
  AssetAnswers,  \* what a source may answer to a request for the binary
  ListAnswers,   \* what it may answer to one for checksums.txt
  MaxFaults,     \* bound: crashes, lost sessions and failed restarts
  MaxStarts      \* bound: updates begun at a host itself

Hosts == Agents \cup {Master}

ASSUME UpdateAssumption ==
  /\ HostOf \in [Updaters -> Hosts] /\ KindOf \in [Updaters -> {"tunnel", "web", "cli"}]
  /\ Sources \in Nat /\ MaxFaults \in Nat /\ MaxStarts \in Nat
ASSUME AgentsAssumption == IsFiniteSet(Agents) /\ Master \notin Agents
ASSUME NamesAssumption ==
  /\ Old # New /\ Old # Page /\ New # Page /\ None \notin {Old, New, Page}
  /\ None \notin Posts

VARIABLES
  exe,      \* the binary of each host
  running,  \* the release its service runs; None if the binary does not run
  session,  \* the agents with a session in the registry
  upc,      \* progress of each updater
  version,  \* the release it has been built as
  caller,   \* the force update that waits for its answer
  ppc,      \* progress of each force update
  listed,   \* the agents it has listed
  sig,      \* progress of its goroutine for each agent
  status,   \* Server.updateStatus
  faults, starts,
  byCli,    \* history: hosts whose binary was replaced by "1pm update" last
  unlisted, \* history: hosts whose binary no checksum was found for
  failed    \* history: hosts where a restart of the service has failed

hostVars == <<exe, running, byCli, unlisted, failed>>
updVars == <<upc, version, caller>>
forceVars == <<ppc, listed, sig, status>>
vars == <<hostVars, session, updVars, forceVars, faults, starts>>

Quiet == [running |-> FALSE, total |-> 0, ok |-> 0, results |-> [a \in Agents |-> <<>>]]

\* Never more than one result for an agent.
Statuses ==
  [running : BOOLEAN, total : Nat, ok : Nat, results : [Agents -> {<<>>, <<TRUE>>, <<FALSE>>}]]

TypeOK ==
  /\ exe \in [Hosts -> {Old, New, Page}]
  /\ running \in [Hosts -> {Old, New, None}]
  /\ session \subseteq Agents
  /\ upc \in [Updaters -> {"idle", "update", "answer", "restart"}]
  /\ version \in [Updaters -> {Old, New, None}]
  /\ caller \in [Updaters -> Posts \cup {None}]
  /\ ppc \in [Posts -> {"idle", "listed", "got", "running", "over"}]
  /\ listed \in [Posts -> SUBSET Agents]
  /\ sig \in [Posts -> [Agents -> {"none", "open", "wait", "ok", "err", "done"}]]
  /\ status \in Statuses
  /\ faults \in 0 .. MaxFaults /\ starts \in 0 .. MaxStarts
  /\ byCli \subseteq Hosts /\ unlisted \subseteq Hosts /\ failed \subseteq Hosts

Init ==
  /\ exe = [h \in Hosts |-> Old] /\ running = exe
  /\ session = Agents
  /\ upc = [u \in Updaters |-> "idle"]
  /\ version = [u \in Updaters |-> None] /\ caller = version
  /\ ppc = [p \in Posts |-> "idle"]
  /\ listed = [p \in Posts |-> {}]
  /\ sig = [p \in Posts |-> [a \in Agents |-> "none"]]
  /\ status = Quiet
  /\ faults = 0 /\ starts = 0 /\ byCli = {} /\ unlisted = {} /\ failed = {}

Fault == faults < MaxFaults /\ faults' = faults + 1

-----------------------------------------------------------------------------
(* release/download.go: the prefixes are tried in turn.                    *)

\* What comes of asking the sources in turn, each of which answers or fails.
Asked(answers) ==
  {k \in {"good", "page"} :
     \E i \in 1 .. Sources :
       k \in answers[i] /\ \A j \in 1 .. i - 1 : "fail" \in answers[j]}
  \cup (IF \A i \in 1 .. Sources : "fail" \in answers[i] THEN {"fail"} ELSE {})

\* verifyChecksum: the first list that can be had decides; without a list, or
\* without a line for the file in it, the file is taken as it is.
Accepts(file, list) == list = "good" => file = "good"

\* DownloadBinary: the file, and whether a checksum was found for it.
Downloads ==
  {[file |-> IF d[1] = "good" THEN New ELSE Page, sure |-> d[2] = "good"] :
     d \in {kl \in (Asked(AssetAnswers) \ {"fail"}) \X Asked(ListAnswers) :
             Accepts(kl[1], kl[2])}}

-----------------------------------------------------------------------------
(* UpdateSelf, handleUpdate, handleUpdateMaster and runUpdate.             *)

Idle(u) ==
  /\ upc' = [upc EXCEPT ![u] = "idle"]
  /\ version' = [version EXCEPT ![u] = None]
  /\ caller' = [caller EXCEPT ![u] = None]

\* The updater has a result: the force update that waits for it gets an answer.
Answers(u, result) ==
  sig' = IF caller[u] = None THEN sig
         ELSE [sig EXCEPT ![caller[u]][HostOf[u]] = result]

Ends(u, result) == Idle(u) /\ Answers(u, result)

\* No tag, no binary or a wrong checksum; or a process that is the latest release.
Declines(u) ==
  /\ upc[u] = "update"
  /\ \/ Ends(u, "err")
     \/ version[u] = New /\ Ends(u, "ok")
  /\ UNCHANGED <<hostVars, session, ppc, listed, status, faults, starts>>

\* The download and the rename.  "1pm update" ends here: main returns while the
\* goroutine that is to restart the service sleeps its 800 ms.
Replaces(u) ==
  /\ upc[u] = "update" /\ version[u] # New
  /\ \E d \in Downloads :
       /\ exe' = [exe EXCEPT ![HostOf[u]] = d.file]
       /\ unlisted' = IF d.sure THEN unlisted \ {HostOf[u]} ELSE unlisted \cup {HostOf[u]}
  /\ IF KindOf[u] = "cli"
     THEN Ends(u, "ok") /\ byCli' = byCli \cup {HostOf[u]}
     ELSE /\ upc' = [upc EXCEPT ![u] = "answer"]
          /\ byCli' = byCli \ {HostOf[u]}
          /\ UNCHANGED <<version, caller, sig>>
  /\ UNCHANGED <<running, failed, session, ppc, listed, status, faults, starts>>

\* Mutant: the agent is left to whoever asked for the update to restart.
AnswerOnly(u) ==
  /\ upc[u] = "answer"
  /\ Ends(u, "ok")
  /\ UNCHANGED <<hostVars, session, ppc, listed, status, faults, starts>>

\* The answer goes out; the restart follows 800 ms later.
Answer(u) ==
  /\ upc[u] = "answer"
  /\ Answers(u, "ok")
  /\ caller' = [caller EXCEPT ![u] = None]
  /\ upc' = [upc EXCEPT ![u] = "restart"]
  /\ UNCHANGED <<hostVars, session, version, ppc, listed, status, faults, starts>>

-----------------------------------------------------------------------------
(* Services and sessions.                                                  *)

\* The goroutines that hold a session that ends get an error, whether they have
\* opened their stream or not.
Cut(As) ==
  /\ session' = session \ As
  /\ sig' = [p \in Posts |-> [a \in Agents |->
               IF a \in As /\ sig[p][a] \in {"open", "wait"} THEN "err" ELSE sig[p][a]]]

\* The service of h ends, and its updaters with it, and starts the binary there is.
\* The master forgets its force update.
ServiceStarts(h) ==
  LET Dead == {u \in Updaters : HostOf[u] = h /\ KindOf[u] # "cli"}
      Lost == IF h = Master THEN Agents ELSE {h} IN
  /\ running' = [running EXCEPT ![h] = IF exe[h] = Page THEN None ELSE exe[h]]
  /\ upc' = [u \in Updaters |-> IF u \in Dead THEN "idle" ELSE upc[u]]
  /\ version' = [u \in Updaters |-> IF u \in Dead THEN None ELSE version[u]]
  /\ caller' = [u \in Updaters |-> IF HostOf[u] \in Lost THEN None ELSE caller[u]]
  /\ IF h = Master
     THEN /\ session' = {}
          /\ sig' = [p \in Posts |-> [a \in Agents |-> "none"]]
          /\ ppc' = [p \in Posts |-> IF ppc[p] = "idle" THEN "idle" ELSE "over"]
          /\ listed' = [p \in Posts |-> {}]
          /\ status' = Quiet
     ELSE Cut({h}) /\ UNCHANGED <<ppc, listed, status>>
  /\ UNCHANGED <<exe, byCli, unlisted>>

\* systemctl restart; a failure is only logged.
Restart(u) ==
  /\ upc[u] = "restart"
  /\ \/ ServiceStarts(HostOf[u]) /\ UNCHANGED <<faults, failed>>
     \/ /\ Fault
        /\ failed' = failed \cup {HostOf[u]}
        /\ Idle(u)
        /\ UNCHANGED <<exe, running, byCli, unlisted, session, forceVars>>
  /\ UNCHANGED starts

Crash(h) ==
  /\ Fault
  /\ ServiceStarts(h)
  /\ UNCHANGED <<failed, starts>>

\* The session of an agent ends; what the agent does for it goes on.
SessionEnds(a) ==
  /\ a \in session
  /\ Fault
  /\ Cut({a})
  /\ caller' = [u \in Updaters |-> IF HostOf[u] = a THEN None ELSE caller[u]]
  /\ UNCHANGED <<hostVars, upc, version, ppc, listed, status, starts>>

Reconnects(a) ==
  /\ a \notin session /\ running[a] # None /\ running[Master] # None
  /\ session' = session \cup {a}
  /\ UNCHANGED <<hostVars, updVars, forceVars, faults, starts>>

\* "1pm update" at a host, or the management page's update of the master.
Begin(u) ==
  /\ KindOf[u] # "tunnel" /\ upc[u] = "idle"
  /\ starts < MaxStarts /\ starts' = starts + 1
  /\ version' = [version EXCEPT ![u] = IF KindOf[u] = "cli" THEN exe[HostOf[u]] ELSE running[HostOf[u]]]
  /\ version'[u] \notin {None, Page}
  /\ upc' = [upc EXCEPT ![u] = "update"]
  /\ UNCHANGED <<hostVars, session, caller, forceVars, faults>>

-----------------------------------------------------------------------------
(* handleForceUpdate and runForceUpdate.                                   *)

Over(p) ==
  /\ ppc' = [ppc EXCEPT ![p] = "over"]
  /\ sig' = [sig EXCEPT ![p] = [a \in Agents |-> "none"]]

ListAgents(p) ==
  /\ ppc[p] = "idle" /\ running[Master] # None
  /\ listed' = [listed EXCEPT ![p] = session]
  /\ ppc' = [ppc EXCEPT ![p] = "listed"]
  /\ UNCHANGED <<hostVars, session, updVars, sig, status, faults, starts>>

\* reg.Get of each; one that is gone is noted as offline.
GetSessions(p) ==
  /\ ppc[p] = "listed"
  /\ sig' = [sig EXCEPT ![p] = [a \in Agents |-> IF a \in listed[p] \cap session THEN "open" ELSE "none"]]
  /\ ppc' = [ppc EXCEPT ![p] = "got"]
  /\ UNCHANGED <<hostVars, session, updVars, listed, status, faults, starts>>

Started(p) ==
  [running |-> TRUE, total |-> Cardinality(listed[p]), ok |-> 0,
   results |-> [a \in Agents |-> IF a \in listed[p] /\ sig[p][a] = "none" THEN <<FALSE>> ELSE <<>>]]

\* Mutant: nobody looks whether an update is under way.
StartUnguarded(p) ==
  /\ ppc[p] = "got"
  /\ status' = Started(p)
  /\ ppc' = [ppc EXCEPT ![p] = "running"]
  /\ listed' = [listed EXCEPT ![p] = {}]
  /\ UNCHANGED <<hostVars, session, updVars, sig, faults, starts>>

\* Under updateMu: refused with 409 while an update is under way.
StartForceUpdate(p) ==
  /\ ppc[p] = "got"
  /\ IF status.running
     THEN Over(p) /\ UNCHANGED status
     ELSE /\ ppc' = [ppc EXCEPT ![p] = "running"]
          /\ status' = Started(p)
          /\ UNCHANGED sig
  /\ listed' = [listed EXCEPT ![p] = {}]
  /\ UNCHANGED <<hostVars, session, updVars, faults, starts>>

Free(a) == {u \in Updaters : HostOf[u] = a /\ KindOf[u] = "tunnel" /\ upc[u] = "idle"}

\* signalAgentUpdate: OpenStream on the session of then, and handleUpdate; on a
\* session that has ended it is an error (Cut).  An agent without a free updater is
\* one that hangs.
Signal(p, a) ==
  /\ ppc[p] = "running" /\ sig[p][a] = "open"
  /\ \/ \E u \in Free(a) :
          /\ upc' = [upc EXCEPT ![u] = "update"]
          /\ version' = [version EXCEPT ![u] = running[a]]
          /\ caller' = [caller EXCEPT ![u] = p]
     \/ Free(a) = {} /\ UNCHANGED updVars
  /\ sig' = [sig EXCEPT ![p][a] = "wait"]
  /\ UNCHANGED <<hostVars, session, ppc, listed, status, faults, starts>>

\* The stream's deadline of ten minutes.
SignalTimesOut(p, a) ==
  /\ sig[p][a] = "wait"
  /\ sig' = [sig EXCEPT ![p][a] = "err"]
  /\ caller' = [u \in Updaters |-> IF HostOf[u] = a /\ caller[u] = p THEN None ELSE caller[u]]
  /\ UNCHANGED <<hostVars, session, upc, version, ppc, listed, status, faults, starts>>

Report(p, a) ==
  /\ ppc[p] = "running" /\ sig[p][a] \in {"ok", "err"}
  /\ status' = [status EXCEPT !.results[a] = Append(@, sig[p][a] = "ok")]
  /\ sig' = [sig EXCEPT ![p][a] = "done"]
  /\ UNCHANGED <<hostVars, session, updVars, ppc, listed, faults, starts>>

Succeeded == {a \in Agents : \E i \in DOMAIN status.results[a] : status.results[a][i]}

Finishes(p) ==
  /\ status' = [status EXCEPT !.running = FALSE, !.ok = Cardinality(Succeeded)]
  /\ Over(p)
  /\ UNCHANGED <<hostVars, session, updVars, listed, faults, starts>>

\* Mutant: the deferred function runs without waiting for the goroutines.
FinishEarly(p) == ppc[p] = "running" /\ Finishes(p)

Finish(p) ==
  /\ ppc[p] = "running"
  /\ \A a \in Agents : sig[p][a] \in {"none", "done"}
  /\ Finishes(p)

-----------------------------------------------------------------------------
UpdaterStep(u) ==
  Declines(u) \/ Replaces(u) \/ Answer(u) \/ Restart(u)

PostStep(p) ==
  \/ ListAgents(p) \/ GetSessions(p) \/ StartForceUpdate(p) \/ Finish(p)
  \/ \E a \in Agents : Signal(p, a) \/ Report(p, a)

Next ==
  \/ \E u \in Updaters : UpdaterStep(u) \/ Begin(u)
  \/ \E p \in Posts : PostStep(p) \/ \E a \in Agents : SignalTimesOut(p, a)
  \/ \E a \in Agents : SessionEnds(a) \/ Reconnects(a)
  \/ \E h \in Hosts : Crash(h)

Spec == Init /\ [][Next]_vars

\* Downloads end, by success or failure, and goroutines run.
FairSpec ==
  /\ Spec
  /\ \A u \in Updaters : WF_vars(UpdaterStep(u))

-----------------------------------------------------------------------------
(* Properties.                                                             *)

\* When a force update is over, the status holds one result for every agent it has
\* listed, whatever became of their sessions, and counts the successes among them
\* (update.go:122); a second request that was under way has not touched it.
AllAccounted ==
  ~status.running =>
    /\ Cardinality({a \in Agents : status.results[a] # <<>>}) = status.total
    /\ status.ok = Cardinality(Succeeded)

\* A success in the status is one: the agent has the latest release, or a file that
\* no checksum could be found for (update.go:141, agent/update.go:33). Proved; the run
\* checks it as a part of ImplementsRollout.
OkMeansUpdated ==
  \A a \in Agents : <<TRUE>> = status.results[a] => exe[a] = New \/ a \in unlisted

\* To its reader the force update is a rollout that gives each agent it has listed one
\* verdict, a good one only to an agent that has been updated, and that closes, and counts,
\* when no verdict is owed; two requests, lost sessions, restarts and answers that come too
\* late do not show (update.go:66, 122, 141).
Owed == {a \in Agents : \E p \in Posts : ppc[p] = "running" /\ sig[p][a] \notin {"none", "done"}}
With(result) == {a \in Agents : status.results[a] = result}
UpToDate == {a \in Agents : exe[a] = New \/ a \in unlisted}

Shown == INSTANCE Rollout WITH
  open <- status.running, total <- status.total, ok <- status.ok, waiting <- Owed,
  good <- With(<<TRUE>>), bad <- With(<<FALSE>>), updated <- UpToDate
ImplementsRollout == Shown!Spec

\* A service that replaces its binary ends up running it, even if it crashes between
\* the answer and the restart, unless systemctl fails (agent/update.go:48).
Outdated(h) == exe[h] # Page /\ running[h] # exe[h] /\ h \notin failed
Updated == {HostOf[u] : u \in Updaters}
ServiceUpdateTakes ==
  \A h \in Updated : (Outdated(h) /\ h \notin byCli) ~> (~Outdated(h) \/ h \in byCli)

\* What cli.md:42 says of "1pm update", that it replaces the binary and restarts the
\* service.
CliUpdateTakes == \A h \in Updated : Outdated(h) ~> ~Outdated(h)
=============================================================================
