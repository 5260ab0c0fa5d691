--------------------------- MODULE Update_proofs ---------------------------
(***************************************************************************)
(* Proofs about Update, for any agents, updaters, force updates, mirrors   *)
(* and bounds: the status of a force update accounts for every agent, and  *)
(* a success in it is one.                                                 *)
(***************************************************************************)
EXTENDS Update, FiniteSetTheorems, TLAPS

-----------------------------------------------------------------------------
(***************************************************************************)
(* Functions and records.                                                  *)
(***************************************************************************)
LEMMA Set1 ==
  ASSUME NEW S, NEW T, NEW f \in [S -> T], NEW x \in S, NEW v \in T
  PROVE  /\ [f EXCEPT ![x] = v] \in [S -> T]
         /\ [f EXCEPT ![x] = v][x] = v
         /\ \A y \in S : y # x => [f EXCEPT ![x] = v][y] = f[y]
OBVIOUS

LEMMA Set2 ==
  ASSUME NEW S, NEW T, NEW V, NEW f \in [S -> [T -> V]], NEW x \in S, NEW y \in T, NEW v \in V
  PROVE  /\ [f EXCEPT ![x][y] = v] \in [S -> [T -> V]]
         /\ \A p \in S, a \in T :
              [f EXCEPT ![x][y] = v][p][a] = IF p = x /\ a = y THEN v ELSE f[p][a]
OBVIOUS

Results == [Agents -> {<<>>, <<TRUE>>, <<FALSE>>}]

LEMMA StatusFields ==
  ASSUME NEW s \in Statuses
  PROVE  s.running \in BOOLEAN /\ s.total \in Nat /\ s.ok \in Nat /\ s.results \in Results
BY DEF Statuses, Results

LEMMA StatusSet ==
  ASSUME NEW b \in BOOLEAN, NEW n \in Nat, NEW k \in Nat, NEW f \in Results
  PROVE  LET s == [running |-> b, total |-> n, ok |-> k, results |-> f]
         IN  s \in Statuses /\ s.running = b /\ s.total = n /\ s.ok = k /\ s.results = f
BY DEF Statuses, Results

\* A result is added to an agent that has none.
Reported(s, a, ok) == [s EXCEPT !.results[a] = Append(@, ok)]

LEMMA StatusReport ==
  ASSUME NEW s \in Statuses, NEW a \in Agents, NEW ok \in BOOLEAN, s.results[a] = <<>>,
         NEW t, t = Reported(s, a, ok)
  PROVE  /\ t \in Statuses /\ t.running = s.running /\ t.total = s.total /\ t.ok = s.ok
         /\ t.results[a] = <<ok>>
         /\ \A b \in Agents : b # a => t.results[b] = s.results[b]
<1>1. Append(s.results[a], ok) = <<ok>>
  OBVIOUS
<1>2. <<ok>> \in {<<>>, <<TRUE>>, <<FALSE>>}
  <2>1. CASE ok = TRUE
    BY <2>1
  <2>2. CASE ok = FALSE
    BY <2>2
  <2>3. QED
    BY <2>1, <2>2
<1>3. t = [s EXCEPT !.results = [s.results EXCEPT ![a] = <<ok>>]]
  BY <1>1 DEF Statuses, Reported
<1>4. /\ [s.results EXCEPT ![a] = <<ok>>] \in Results
      /\ [s.results EXCEPT ![a] = <<ok>>][a] = <<ok>>
      /\ \A b \in Agents : b # a => [s.results EXCEPT ![a] = <<ok>>][b] = s.results[b]
  <2>1. s.results \in [Agents -> {<<>>, <<TRUE>>, <<FALSE>>}]
    BY StatusFields DEF Results
  <2>2. QED
    BY <1>2, <2>1, Set1 DEF Results
<1> DEFINE f == [s.results EXCEPT ![a] = <<ok>>]
<1> HIDE DEF f
<1>5. [s EXCEPT !.results = f] \in Statuses /\ [s EXCEPT !.results = f].results = f
      /\ [s EXCEPT !.results = f].running = s.running
      /\ [s EXCEPT !.results = f].total = s.total /\ [s EXCEPT !.results = f].ok = s.ok
  BY <1>4 DEF Statuses, Results, f
<1>6. QED
  BY <1>3, <1>4, <1>5 DEF f

\* A result is not none.
LEMMA OneResult == ASSUME NEW b \in BOOLEAN PROVE <<b>> # <<>> /\ (<<b>> = <<TRUE>> => b)
<1>1. Len(<<b>>) = 1 /\ Len(<<>>) = 0
  OBVIOUS
<1>2. <<b>>[1] = b /\ <<TRUE>>[1] = TRUE
  OBVIOUS
<1>3. QED
  BY <1>1, <1>2

LEMMA QuietStatus ==
  /\ Quiet \in Statuses /\ Quiet.running = FALSE /\ Quiet.total = 0 /\ Quiet.ok = 0
  /\ \A a \in Agents : Quiet.results[a] = <<>>
<1>1. [a \in Agents |-> <<>>] \in Results
  BY DEF Results
<1>2. QED
  BY <1>1, StatusSet DEF Quiet

LEMMA Counts == ASSUME NEW S, S \subseteq Agents PROVE Cardinality(S) \in Nat
BY AgentsAssumption, FS_Subset, FS_CardinalityType

LEMMA EmptyCounts == Cardinality({}) = 0
BY FS_EmptySet

-----------------------------------------------------------------------------
(***************************************************************************)
(* The invariant.                                                          *)
(***************************************************************************)
Signals == {"none", "open", "wait", "ok", "err", "done"}

\* The host has the latest release, or a file no checksum was found for.
Good(h) == exe[h] = New \/ h \in unlisted

\* Whoever can lead to a success in the status is at a good host.
GoodInv ==
  /\ \A h \in Hosts : running[h] = New => Good(h)
  /\ \A u \in Updaters :
       version[u] = New \/ upc[u] = "answer" => Good(HostOf[u])
  /\ \A p \in Posts, a \in Agents : sig[p][a] = "ok" => Good(a)
  /\ \A a \in Agents : status.results[a] = <<TRUE>> => Good(a)

\* A force update that waits for an agent waits for one updater of it.
CallerInv ==
  /\ \A u \in Updaters :
       caller[u] # None => HostOf[u] \in Agents /\ sig[caller[u]][HostOf[u]] = "wait"
  /\ \A u, v \in Updaters :
       caller[u] # None /\ caller[u] = caller[v] /\ HostOf[u] = HostOf[v] => u = v

\* Where the goroutines of a force update can be.
SignalInv ==
  \A p \in Posts :
    /\ ppc[p] \notin {"got", "running"} => \A a \in Agents : sig[p][a] = "none"
    /\ ppc[p] = "got" =>
         \A a \in Agents : sig[p][a] \in {"none", "open", "err"} /\ (sig[p][a] # "none" => a \in listed[p])

\* The agents that have a result or will get one.
Expected(p) ==
  {a \in Agents : status.results[a] # <<>> \/ sig[p][a] \notin {"none", "done"}}

\* One force update runs at a time; an agent it still waits for has no result yet.
StatusInv ==
  /\ \A p \in Posts : ppc[p] = "running" => status.running
  /\ \A p, q \in Posts : ppc[p] = "running" /\ ppc[q] = "running" => p = q
  /\ \A p \in Posts : ppc[p] = "running" =>
       /\ status.total = Cardinality(Expected(p))
       /\ \A a \in Agents : sig[p][a] \notin {"none", "done"} => status.results[a] = <<>>
  /\ AllAccounted

ForceInv == CallerInv /\ SignalInv /\ StatusInv

UpdateInv == TypeOK /\ GoodInv /\ ForceInv

LEMMA Init1 == Init => TypeOK
<1> SUFFICES ASSUME Init
             PROVE  TypeOK
  OBVIOUS
<1>1. /\ exe = [h \in Hosts |-> Old] /\ running = exe /\ session = Agents
      /\ upc = [u \in Updaters |-> "idle"] /\ version = [u \in Updaters |-> None] /\ caller = version
      /\ ppc = [p \in Posts |-> "idle"] /\ listed = [p \in Posts |-> {}]
      /\ sig = [p \in Posts |-> [a \in Agents |-> "none"]] /\ status = Quiet
      /\ faults = 0 /\ starts = 0 /\ byCli = {} /\ unlisted = {} /\ failed = {}
  BY DEF Init
<1>2. /\ exe \in [Hosts -> {Old, New, Page}] /\ running \in [Hosts -> {Old, New, None}]
      /\ session \subseteq Agents /\ upc \in [Updaters -> {"idle", "update", "answer", "restart"}]
      /\ version \in [Updaters -> {Old, New, None}] /\ caller \in [Updaters -> Posts \cup {None}]
      /\ ppc \in [Posts -> {"idle", "listed", "got", "running", "over"}]
      /\ listed \in [Posts -> SUBSET Agents]
  BY <1>1
<1>3. sig \in [Posts -> [Agents -> {"none", "open", "wait", "ok", "err", "done"}]]
  BY <1>1
<1>4. faults \in 0 .. MaxFaults /\ starts \in 0 .. MaxStarts
  BY <1>1, UpdateAssumption
<1>5. QED
  BY <1>1, <1>2, <1>3, <1>4, QuietStatus DEF TypeOK

LEMMA Init2 == Init => GoodInv /\ ForceInv
<1> SUFFICES ASSUME Init
             PROVE  GoodInv /\ ForceInv
  OBVIOUS
<1>1. /\ exe = [h \in Hosts |-> Old] /\ running = exe
      /\ upc = [u \in Updaters |-> "idle"] /\ version = [u \in Updaters |-> None] /\ caller = version
      /\ ppc = [p \in Posts |-> "idle"]
      /\ sig = [p \in Posts |-> [a \in Agents |-> "none"]] /\ status = Quiet
  BY DEF Init
<1>2. \A p \in Posts, a \in Agents : sig[p][a] = "none"
  BY <1>1
<1>3. \A a \in Agents : status.results[a] = <<>>
  BY <1>1, QuietStatus
<1>4. GoodInv
  <2>1. \A a \in Agents : status.results[a] # <<TRUE>>
    BY <1>3, OneResult
  <2>2. \A h \in Hosts : running[h] # New
    BY <1>1, NamesAssumption
  <2>3. \A u \in Updaters : version[u] # New /\ upc[u] = "idle"
    BY <1>1, NamesAssumption
  <2>4. QED
    BY <1>2, <2>1, <2>2, <2>3 DEF GoodInv
<1>5. CallerInv /\ SignalInv
  BY <1>1, <1>2 DEF CallerInv, SignalInv
<1>6. AllAccounted
  <2>1. {a \in Agents : status.results[a] # <<>>} = {} /\ Succeeded = {}
    BY <1>3 DEF Succeeded
  <2>2. QED
    BY <1>1, <2>1, QuietStatus, EmptyCounts DEF AllAccounted
<1>7. StatusInv
  BY <1>1, <1>6 DEF StatusInv
<1>8. QED
  BY <1>4, <1>5, <1>7 DEF ForceInv

-----------------------------------------------------------------------------
(***************************************************************************)
(* What the operators of the actions write.                                *)
(***************************************************************************)
SignalsTyped == sig \in [Posts -> [Agents -> Signals]]

LEMMA SignalTypes == TypeOK => SignalsTyped
BY DEF TypeOK, SignalsTyped, Signals

\* An answer reaches the force update that waits for it, and no other.
LEMMA AnswersWrites ==
  ASSUME TypeOK, CallerInv, NEW u \in Updaters, NEW r \in {"ok", "err"}, Answers(u, r)
  PROVE  /\ SignalsTyped'
         /\ \A p \in Posts, a \in Agents :
              sig'[p][a] = IF p = caller[u] /\ a = HostOf[u] THEN r ELSE sig[p][a]
<1>1. SignalsTyped
  BY SignalTypes
<1>2. CASE caller[u] = None
  BY <1>1, <1>2, NamesAssumption DEF Answers, SignalsTyped
<1>3. CASE caller[u] # None
  <2>1. caller[u] \in Posts /\ HostOf[u] \in Agents
    BY <1>3 DEF TypeOK, CallerInv
  <2>2. sig' = [sig EXCEPT ![caller[u]][HostOf[u]] = r]
    BY <1>3 DEF Answers
  <2>3. r \in Signals
    BY DEF Signals
  <2>4. QED
    BY <1>1, <2>1, <2>2, <2>3, Set2 DEF SignalsTyped
<1>4. QED
  BY <1>2, <1>3

LEMMA CutWrites ==
  ASSUME TypeOK, NEW As, Cut(As)
  PROVE  /\ session' = session \ As /\ SignalsTyped'
         /\ \A p \in Posts, a \in Agents :
              sig'[p][a] = IF a \in As /\ sig[p][a] \in {"open", "wait"} THEN "err" ELSE sig[p][a]
<1>1. SignalsTyped
  BY SignalTypes
<1>2. \A p \in Posts, a \in Agents : sig[p][a] \in Signals
  BY <1>1 DEF SignalsTyped
<1>3. QED
  BY <1>2 DEF Cut, SignalsTyped, Signals

\* A file with a checksum is the release.
LEMMA Downloaded ==
  \A d \in Downloads : d.file \in {New, Page} /\ d.sure \in BOOLEAN /\ (d.sure => d.file = New)
<1> SUFFICES ASSUME NEW d \in Downloads
             PROVE  d.file \in {New, Page} /\ d.sure \in BOOLEAN /\ (d.sure => d.file = New)
  OBVIOUS
<1>1. PICK e \in (Asked(AssetAnswers) \ {"fail"}) \X Asked(ListAnswers) :
        /\ Accepts(e[1], e[2])
        /\ d = [file |-> IF e[1] = "good" THEN New ELSE Page, sure |-> e[2] = "good"]
  BY DEF Downloads
<1>2. d.file = (IF e[1] = "good" THEN New ELSE Page) /\ d.sure = (e[2] = "good")
  BY <1>1
<1>3. e[2] = "good" => e[1] = "good"
  BY <1>1 DEF Accepts
<1>4. QED
  BY <1>2, <1>3

-----------------------------------------------------------------------------
(***************************************************************************)
(* What keeps the parts of the invariant.                                  *)
(***************************************************************************)
LEMMA ForceKept == ASSUME ForceInv, UNCHANGED <<forceVars, caller>> PROVE ForceInv'
<1>1. UNCHANGED <<ppc, listed, sig, status, caller>>
  BY DEF forceVars
<1>2. CallerInv' /\ SignalInv'
  BY <1>1 DEF ForceInv, CallerInv, SignalInv
<1>3. \A p \in Posts : Expected(p)' = Expected(p)
  BY <1>1 DEF Expected
<1>4. AllAccounted'
  BY <1>1 DEF ForceInv, StatusInv, AllAccounted, Succeeded
<1>5. StatusInv'
  BY <1>1, <1>3, <1>4 DEF ForceInv, StatusInv
<1>6. QED
  BY <1>2, <1>5 DEF ForceInv

\* A goroutine that has opened its stream goes on, or gets a result; before the force
\* update has begun the result is an error.
Moved(p, a) ==
  \/ sig'[p][a] = sig[p][a]
  \/ /\ sig[p][a] \in {"open", "wait"}
     /\ sig'[p][a] \in {"wait", "ok", "err"}
     /\ ppc[p] = "got" => sig'[p][a] = "err"

LEMMA SignalsMove ==
  ASSUME SignalInv, StatusInv, UNCHANGED <<ppc, listed, status>>,
         \A p \in Posts, a \in Agents : Moved(p, a)
  PROVE  SignalInv' /\ StatusInv'
<1>1. ASSUME NEW p \in Posts
      PROVE  /\ ppc'[p] \notin {"got", "running"} => \A a \in Agents : sig'[p][a] = "none"
             /\ ppc'[p] = "got" =>
                  \A a \in Agents : sig'[p][a] \in {"none", "open", "err"} /\ (sig'[p][a] # "none" => a \in listed'[p])
  BY DEF SignalInv, Moved
<1>2. ASSUME NEW p \in Posts, NEW a \in Agents
      PROVE  sig'[p][a] \in {"none", "done"} <=> sig[p][a] \in {"none", "done"}
  BY DEF Moved
<1>3. \A p \in Posts : Expected(p)' = Expected(p)
  BY <1>2 DEF Expected
<1>4. AllAccounted'
  BY DEF StatusInv, AllAccounted, Succeeded
<1>5. StatusInv'
  BY <1>2, <1>3, <1>4 DEF StatusInv
<1>6. QED
  BY <1>1, <1>5 DEF SignalInv

\* Callers that are given up, and callers whose agent is still waited for.
LEMMA CallersStay ==
  ASSUME CallerInv,
         \A u \in Updaters :
           /\ caller'[u] \in {None, caller[u]}
           /\ caller'[u] # None => sig'[caller[u]][HostOf[u]] = sig[caller[u]][HostOf[u]]
  PROVE  CallerInv'
BY DEF CallerInv

\* A host that is good stays so unless its binary is replaced.
LEMMA GoodKept ==
  ASSUME TypeOK, GoodInv, UNCHANGED <<exe, unlisted, status>>,
         \A h \in Hosts : running'[h] = New => Good(h),
         \A u \in Updaters : version'[u] = New \/ upc'[u] = "answer" => Good(HostOf[u]),
         \A p \in Posts, a \in Agents : sig'[p][a] = "ok" => Good(a)
  PROVE  GoodInv'
BY DEF GoodInv, Good
-----------------------------------------------------------------------------
(***************************************************************************)
(* The updaters.                                                           *)
(***************************************************************************)
LEMMA HostOfUpdater == \A u \in Updaters : HostOf[u] \in Hosts
BY UpdateAssumption

\* An updater with a result is no longer waited for.
LEMMA AnswersForce ==
  ASSUME UpdateInv, NEW u \in Updaters, NEW r \in {"ok", "err"}, Answers(u, r),
         caller' = [caller EXCEPT ![u] = None], UNCHANGED <<ppc, listed, status>>
  PROVE  ForceInv'
<1>1. TypeOK /\ CallerInv /\ SignalInv /\ StatusInv
  BY DEF UpdateInv, ForceInv
<1>2. \A p \in Posts, a \in Agents :
        sig'[p][a] = IF p = caller[u] /\ a = HostOf[u] THEN r ELSE sig[p][a]
  BY <1>1, AnswersWrites
<1>3. ASSUME NEW p \in Posts, NEW a \in Agents
      PROVE  Moved(p, a)
  <2>1. CASE p = caller[u] /\ a = HostOf[u]
    <3>1. caller[u] # None
      BY <2>1, NamesAssumption
    <3>2. sig[p][a] = "wait"
      BY <1>1, <2>1, <3>1 DEF CallerInv
    <3>3. ppc[p] # "got"
      BY <1>1, <3>2 DEF SignalInv
    <3>4. QED
      BY <1>2, <2>1, <3>2, <3>3 DEF Moved
  <2>2. CASE ~(p = caller[u] /\ a = HostOf[u])
    BY <1>2, <2>2 DEF Moved
  <2>3. QED
    BY <2>1, <2>2
<1>4. caller \in [Updaters -> Posts \cup {None}]
  BY <1>1 DEF TypeOK
<1>5. ASSUME NEW v \in Updaters
      PROVE  /\ caller'[v] \in {None, caller[v]}
             /\ caller'[v] # None => sig'[caller[v]][HostOf[v]] = sig[caller[v]][HostOf[v]]
  <2>1. caller'[v] = IF v = u THEN None ELSE caller[v]
    BY <1>4
  <2>2. ASSUME v # u, caller[v] # None
        PROVE  sig'[caller[v]][HostOf[v]] = sig[caller[v]][HostOf[v]]
    <3>1. caller[v] \in Posts /\ HostOf[v] \in Agents
      BY <1>1, <1>4, <2>2 DEF CallerInv
    <3>2. ~(caller[v] = caller[u] /\ HostOf[v] = HostOf[u])
      BY <1>1, <2>2 DEF CallerInv
    <3>3. QED
      BY <1>2, <3>1, <3>2
  <2>3. QED
    BY <2>1, <2>2
<1>6. QED
  BY <1>1, <1>3, <1>5, SignalsMove, CallersStay DEF ForceInv

LEMMA DeclinesStep == ASSUME UpdateInv, NEW u \in Updaters, Declines(u) PROVE UpdateInv'
<1>1. TypeOK /\ GoodInv /\ CallerInv
  BY DEF UpdateInv, ForceInv
<1>2. PICK r \in {"ok", "err"} : Ends(u, r) /\ (r = "ok" => version[u] = New)
  BY DEF Declines
<1>3. /\ upc' = [upc EXCEPT ![u] = "idle"] /\ version' = [version EXCEPT ![u] = None]
      /\ caller' = [caller EXCEPT ![u] = None] /\ Answers(u, r)
      /\ UNCHANGED <<exe, running, byCli, unlisted, failed, session, ppc, listed, status, faults, starts>>
  BY <1>2 DEF Declines, Ends, Idle, hostVars
<1>4. /\ SignalsTyped'
      /\ \A p \in Posts, a \in Agents :
           sig'[p][a] = IF p = caller[u] /\ a = HostOf[u] THEN r ELSE sig[p][a]
  BY <1>1, <1>3, AnswersWrites
<1>5. TypeOK'
  BY <1>1, <1>3, <1>4 DEF TypeOK, SignalsTyped, Signals
<1>6. GoodInv'
  <2>1. \A v \in Updaters : version'[v] = New \/ upc'[v] = "answer" => Good(HostOf[v])
    BY <1>1, <1>3, NamesAssumption DEF GoodInv, TypeOK
  <2>2. \A p \in Posts, a \in Agents : sig'[p][a] = "ok" => Good(a)
    BY <1>1, <1>2, <1>4 DEF GoodInv
  <2>3. \A h \in Hosts : running'[h] = New => Good(h)
    BY <1>1, <1>3 DEF GoodInv
  <2>4. QED
    BY <1>1, <1>3, <2>1, <2>2, <2>3, GoodKept
<1>7. QED
  BY <1>3, <1>5, <1>6, AnswersForce DEF UpdateInv

\* Whatever has been downloaded, the host is good afterwards, and the others are as
\* they were.
LEMMA ReplacesStep == ASSUME UpdateInv, NEW u \in Updaters, Replaces(u) PROVE UpdateInv'
<1>1. TypeOK /\ GoodInv /\ CallerInv /\ ForceInv /\ HostOf[u] \in Hosts
  BY HostOfUpdater DEF UpdateInv, ForceInv
<1>2. PICK d \in Downloads :
        /\ exe' = [exe EXCEPT ![HostOf[u]] = d.file]
        /\ unlisted' = IF d.sure THEN unlisted \ {HostOf[u]} ELSE unlisted \cup {HostOf[u]}
  BY DEF Replaces
<1>3. d.file \in {New, Page} /\ d.sure \in BOOLEAN /\ (d.sure => d.file = New)
  BY Downloaded
<1>4. /\ exe' \in [Hosts -> {Old, New, Page}] /\ unlisted' \subseteq Hosts
      /\ \A h \in Hosts : Good(h) \/ h = HostOf[u] => Good(h)'
  <2>1. exe \in [Hosts -> {Old, New, Page}] /\ unlisted \subseteq Hosts
    BY <1>1 DEF TypeOK
  <2>2. /\ exe' \in [Hosts -> {Old, New, Page}] /\ exe'[HostOf[u]] = d.file
        /\ \A h \in Hosts : h # HostOf[u] => exe'[h] = exe[h]
    BY <1>1, <1>2, <1>3, <2>1
  <2>3. QED
    BY <1>1, <1>2, <1>3, <2>1, <2>2 DEF Good
<1>5. UNCHANGED <<running, failed, session, ppc, listed, status, faults, starts>>
  BY DEF Replaces
<1>6. CASE KindOf[u] = "cli"
  <2>1. /\ upc' = [upc EXCEPT ![u] = "idle"] /\ version' = [version EXCEPT ![u] = None]
        /\ caller' = [caller EXCEPT ![u] = None] /\ Answers(u, "ok") /\ byCli' = byCli \cup {HostOf[u]}
    BY <1>6 DEF Replaces, Ends, Idle
  <2>2. /\ SignalsTyped'
        /\ \A p \in Posts, a \in Agents :
             sig'[p][a] = IF p = caller[u] /\ a = HostOf[u] THEN "ok" ELSE sig[p][a]
    BY <1>1, <2>1, AnswersWrites
  <2>3. TypeOK'
    BY <1>1, <1>4, <1>5, <2>1, <2>2 DEF TypeOK, SignalsTyped, Signals
  <2>4. GoodInv'
    <3>1. \A v \in Updaters : version'[v] = New \/ upc'[v] = "answer" => Good(HostOf[v])'
      BY <1>1, <1>4, <2>1, HostOfUpdater, NamesAssumption DEF GoodInv, TypeOK
    <3>2. \A p \in Posts, a \in Agents : sig'[p][a] = "ok" => Good(a)'
      BY <1>1, <1>4, <2>2 DEF GoodInv, Hosts
    <3>3. QED
      BY <1>1, <1>4, <1>5, <3>1, <3>2 DEF GoodInv, Hosts
  <2>5. QED
    BY <1>5, <2>1, <2>3, <2>4, AnswersForce DEF UpdateInv
<1>7. CASE KindOf[u] # "cli"
  <2>1. /\ upc' = [upc EXCEPT ![u] = "answer"] /\ byCli' = byCli \ {HostOf[u]}
        /\ UNCHANGED <<version, caller, sig>>
    BY <1>7 DEF Replaces
  <2>2. TypeOK'
    BY <1>1, <1>4, <1>5, <2>1 DEF TypeOK
  <2>3. GoodInv'
    <3>1. \A v \in Updaters : version'[v] = New \/ upc'[v] = "answer" => Good(HostOf[v])'
      BY <1>1, <1>4, <2>1, HostOfUpdater DEF GoodInv, TypeOK
    <3>2. QED
      BY <1>1, <1>4, <1>5, <2>1, <3>1 DEF GoodInv, Hosts
  <2>4. ForceInv'
    BY <1>1, <1>5, <2>1, ForceKept DEF forceVars
  <2>5. QED
    BY <2>2, <2>3, <2>4 DEF UpdateInv
<1>8. QED
  BY <1>6, <1>7

LEMMA AnswerStep == ASSUME UpdateInv, NEW u \in Updaters, Answer(u) PROVE UpdateInv'
<1>1. TypeOK /\ GoodInv /\ CallerInv
  BY DEF UpdateInv, ForceInv
<1>2. /\ upc[u] = "answer" /\ Answers(u, "ok")
      /\ caller' = [caller EXCEPT ![u] = None] /\ upc' = [upc EXCEPT ![u] = "restart"]
      /\ UNCHANGED <<exe, running, byCli, unlisted, failed, session, version, ppc, listed, status, faults, starts>>
  BY DEF Answer, hostVars
<1>3. /\ SignalsTyped'
      /\ \A p \in Posts, a \in Agents :
           sig'[p][a] = IF p = caller[u] /\ a = HostOf[u] THEN "ok" ELSE sig[p][a]
  BY <1>1, <1>2, AnswersWrites
<1>4. TypeOK'
  BY <1>1, <1>2, <1>3 DEF TypeOK, SignalsTyped, Signals
<1>5. GoodInv'
  <2>1. \A v \in Updaters : version'[v] = New \/ upc'[v] = "answer" => Good(HostOf[v])
    BY <1>1, <1>2 DEF GoodInv, TypeOK
  <2>2. \A p \in Posts, a \in Agents : sig'[p][a] = "ok" => Good(a)
    BY <1>1, <1>2, <1>3 DEF GoodInv
  <2>3. \A h \in Hosts : running'[h] = New => Good(h)
    BY <1>1, <1>2 DEF GoodInv
  <2>4. QED
    BY <1>1, <1>2, <2>1, <2>2, <2>3, GoodKept
<1>6. QED
  BY <1>2, <1>4, <1>5, AnswersForce DEF UpdateInv

\* A process that begins knows the release it was built as.
LEMMA BeginStep == ASSUME UpdateInv, NEW u \in Updaters, Begin(u) PROVE UpdateInv'
<1>1. TypeOK /\ GoodInv /\ ForceInv /\ HostOf[u] \in Hosts
  BY HostOfUpdater DEF UpdateInv
<1> DEFINE v0 == IF KindOf[u] = "cli" THEN exe[HostOf[u]] ELSE running[HostOf[u]]
<1>2. /\ version' = [version EXCEPT ![u] = v0] /\ version'[u] \notin {None, Page}
      /\ upc' = [upc EXCEPT ![u] = "update"] /\ starts < MaxStarts /\ starts' = starts + 1
      /\ UNCHANGED <<exe, running, byCli, unlisted, failed, session, caller, ppc, listed, sig, status, faults>>
  BY DEF Begin, hostVars, forceVars
<1>3. v0 \in {Old, New} /\ (v0 = New => Good(HostOf[u]))
  BY <1>1, <1>2 DEF TypeOK, GoodInv, Good
<1> HIDE DEF v0
<1>4. starts' \in 0 .. MaxStarts
  BY <1>1, <1>2, UpdateAssumption DEF TypeOK
<1>5. TypeOK'
  BY <1>1, <1>2, <1>3, <1>4 DEF TypeOK
<1>6. GoodInv'
  <2>1. \A v \in Updaters : version'[v] = New \/ upc'[v] = "answer" => Good(HostOf[v])
    BY <1>1, <1>2, <1>3 DEF GoodInv, TypeOK
  <2>2. QED
    BY <1>1, <1>2, <2>1 DEF GoodInv, Good
<1>7. QED
  BY <1>1, <1>2, <1>5, <1>6, ForceKept DEF UpdateInv, forceVars

-----------------------------------------------------------------------------
(***************************************************************************)
(* Services and sessions.                                                  *)
(***************************************************************************)

\* The sessions of the agents As end, and nobody waits for them any more.
LEMMA CutForce ==
  ASSUME UpdateInv, NEW As, Cut(As), UNCHANGED <<ppc, listed, status>>,
         \A u \in Updaters : caller'[u] = IF HostOf[u] \in As THEN None ELSE caller[u]
  PROVE  ForceInv'
<1>1. TypeOK /\ CallerInv /\ SignalInv /\ StatusInv
  BY DEF UpdateInv, ForceInv
<1>2. \A p \in Posts, a \in Agents :
        sig'[p][a] = IF a \in As /\ sig[p][a] \in {"open", "wait"} THEN "err" ELSE sig[p][a]
  BY <1>1, CutWrites
<1>3. \A p \in Posts, a \in Agents : Moved(p, a)
  BY <1>2 DEF Moved
<1>4. ASSUME NEW v \in Updaters
      PROVE  /\ caller'[v] \in {None, caller[v]}
             /\ caller'[v] # None => sig'[caller[v]][HostOf[v]] = sig[caller[v]][HostOf[v]]
  <2>1. caller[v] \in Posts \cup {None}
    BY <1>1 DEF TypeOK
  <2>2. caller[v] # None => caller[v] \in Posts /\ HostOf[v] \in Agents
    BY <1>1, <2>1 DEF CallerInv
  <2>3. QED
    BY <1>2, <2>2
<1>5. QED
  BY <1>1, <1>3, <1>4, SignalsMove, CallersStay DEF ForceInv

\* A service that starts runs the binary there is; nothing it held outlives it.
LEMMA ServiceStartsStep ==
  ASSUME UpdateInv, NEW h \in Hosts, ServiceStarts(h),
         failed' \subseteq Hosts, faults' \in 0 .. MaxFaults, starts' = starts
  PROVE  UpdateInv'
<1> DEFINE Dead == {u \in Updaters : HostOf[u] = h /\ KindOf[u] # "cli"}
           Lost == IF h = Master THEN Agents ELSE {h}
<1>1. TypeOK /\ GoodInv /\ CallerInv /\ SignalInv /\ StatusInv
  BY DEF UpdateInv, ForceInv
<1>2. /\ running' = [running EXCEPT ![h] = IF exe[h] = Page THEN None ELSE exe[h]]
      /\ upc' = [u \in Updaters |-> IF u \in Dead THEN "idle" ELSE upc[u]]
      /\ version' = [u \in Updaters |-> IF u \in Dead THEN None ELSE version[u]]
      /\ caller' = [u \in Updaters |-> IF HostOf[u] \in Lost THEN None ELSE caller[u]]
      /\ UNCHANGED <<exe, byCli, unlisted>>
  BY DEF ServiceStarts
<1>3. /\ running' \in [Hosts -> {Old, New, None}]
      /\ \A g \in Hosts : running'[g] = New => Good(g)
  BY <1>1, <1>2, NamesAssumption DEF TypeOK, GoodInv, Good
<1>4. /\ upc' \in [Updaters -> {"idle", "update", "answer", "restart"}]
      /\ version' \in [Updaters -> {Old, New, None}]
      /\ caller' \in [Updaters -> Posts \cup {None}]
      /\ \A v \in Updaters : version'[v] = New \/ upc'[v] = "answer" => Good(HostOf[v])
  BY <1>1, <1>2, NamesAssumption DEF TypeOK, GoodInv
<1>5. CASE h = Master
  <2>1. /\ session' = {} /\ sig' = [p \in Posts |-> [a \in Agents |-> "none"]]
        /\ ppc' = [p \in Posts |-> IF ppc[p] = "idle" THEN "idle" ELSE "over"]
        /\ listed' = [p \in Posts |-> {}] /\ status' = Quiet
    BY <1>5 DEF ServiceStarts
  <2>2. \A p \in Posts, a \in Agents : sig'[p][a] = "none"
    BY <2>1
  <2>3. \A a \in Agents : status'.results[a] = <<>> /\ status'.results[a] # <<TRUE>>
    BY <2>1, QuietStatus, OneResult
  <2>4. TypeOK'
    <3>1. sig' \in [Posts -> [Agents -> {"none", "open", "wait", "ok", "err", "done"}]]
      BY <2>1
    <3>2. QED
      BY <1>1, <1>2, <1>3, <1>4, <2>1, <3>1, QuietStatus DEF TypeOK
  <2>5. GoodInv'
    BY <1>2, <1>3, <1>4, <2>2, <2>3 DEF GoodInv, Good
  <2>6. \A u \in Updaters : caller'[u] = None
    BY <1>1, <1>2, <1>5 DEF CallerInv
  <2>7. CallerInv' /\ SignalInv'
    BY <2>1, <2>2, <2>6 DEF CallerInv, SignalInv
  <2>8. AllAccounted'
    <3>1. \A a \in Agents : status'.results[a] = <<>> /\ DOMAIN status'.results[a] = {}
      <4>1. DOMAIN <<>> = {}
        OBVIOUS
      <4>2. QED
        BY <2>3, <4>1
    <3>2. {a \in Agents : status'.results[a] # <<>>} = {}
      BY <3>1
    <3>3. Succeeded' = {}
      BY <3>1 DEF Succeeded
    <3>4. QED
      BY <2>1, <3>2, <3>3, QuietStatus, EmptyCounts DEF AllAccounted
  <2>9. StatusInv'
    BY <2>1, <2>8 DEF StatusInv
  <2>10. QED
    BY <2>4, <2>5, <2>7, <2>9 DEF UpdateInv, ForceInv
<1>6. CASE h # Master
  <2>1. Cut({h}) /\ UNCHANGED <<ppc, listed, status>>
    BY <1>6 DEF ServiceStarts
  <2>2. /\ session' = session \ {h} /\ SignalsTyped'
        /\ \A p \in Posts, a \in Agents : sig'[p][a] = "ok" => sig[p][a] = "ok"
    BY <1>1, <2>1, CutWrites
  <2>3. TypeOK'
    BY <1>1, <1>2, <1>3, <1>4, <2>1, <2>2 DEF TypeOK, SignalsTyped, Signals
  <2>4. GoodInv'
    <3>1. \A p \in Posts, a \in Agents : sig'[p][a] = "ok" => Good(a)
      BY <1>1, <2>2 DEF GoodInv
    <3>2. QED
      BY <1>1, <1>2, <1>3, <1>4, <2>1, <3>1, GoodKept
  <2>5. ForceInv'
    BY <1>2, <1>6, <2>1, CutForce
  <2>6. QED
    BY <2>3, <2>4, <2>5 DEF UpdateInv
<1>7. QED
  BY <1>5, <1>6

LEMMA FaultCounts == ASSUME TypeOK, Fault PROVE faults' \in 0 .. MaxFaults
BY UpdateAssumption DEF TypeOK, Fault

LEMMA RestartStep == ASSUME UpdateInv, NEW u \in Updaters, Restart(u) PROVE UpdateInv'
<1>1. TypeOK /\ GoodInv /\ CallerInv /\ ForceInv /\ HostOf[u] \in Hosts
  BY HostOfUpdater DEF UpdateInv, ForceInv
<1>2. CASE ServiceStarts(HostOf[u]) /\ UNCHANGED <<faults, failed>>
  BY <1>1, <1>2, ServiceStartsStep DEF TypeOK, Restart
<1>3. ASSUME Fault, failed' = failed \cup {HostOf[u]}, Idle(u),
             UNCHANGED <<exe, running, byCli, unlisted, session, forceVars>>
      PROVE  UpdateInv'
  <2>1. /\ upc' = [upc EXCEPT ![u] = "idle"] /\ version' = [version EXCEPT ![u] = None]
        /\ caller' = [caller EXCEPT ![u] = None]
        /\ UNCHANGED <<exe, running, byCli, unlisted, session, ppc, listed, sig, status, starts>>
    BY <1>3 DEF Idle, forceVars, Restart
  <2>2. TypeOK'
    BY <1>1, <1>3, <2>1, FaultCounts DEF TypeOK
  <2>3. \A v \in Updaters : version'[v] = New \/ upc'[v] = "answer" => Good(HostOf[v])
    BY <1>1, <2>1, NamesAssumption DEF GoodInv, TypeOK
  <2>4. GoodInv'
    BY <1>1, <2>1, <2>3, GoodKept DEF GoodInv
  <2>5. \A v \in Updaters : caller'[v] \in {None, caller[v]}
    BY <1>1, <2>1 DEF TypeOK
  <2>6. CallerInv'
    BY <1>1, <2>1, <2>5, CallersStay
  <2>7. SignalInv' /\ StatusInv'
    BY <1>1, <2>1, SignalsMove DEF ForceInv, Moved
  <2>8. QED
    BY <2>2, <2>4, <2>6, <2>7 DEF UpdateInv, ForceInv
<1>4. QED
  BY <1>2, <1>3 DEF Restart

LEMMA CrashStep == ASSUME UpdateInv, NEW h \in Hosts, Crash(h) PROVE UpdateInv'
<1>1. TypeOK
  BY DEF UpdateInv
<1>2. QED
  BY <1>1, FaultCounts, ServiceStartsStep DEF TypeOK, Crash

LEMMA SessionEndsStep == ASSUME UpdateInv, NEW b \in Agents, SessionEnds(b) PROVE UpdateInv'
<1>1. TypeOK /\ GoodInv
  BY DEF UpdateInv
<1>2. /\ Fault /\ Cut({b})
      /\ caller' = [u \in Updaters |-> IF HostOf[u] = b THEN None ELSE caller[u]]
      /\ UNCHANGED <<exe, running, byCli, unlisted, failed, upc, version, ppc, listed, status, starts>>
  BY DEF SessionEnds, hostVars
<1>3. /\ session' = session \ {b} /\ SignalsTyped'
      /\ \A p \in Posts, a \in Agents : sig'[p][a] = "ok" => sig[p][a] = "ok"
  BY <1>1, <1>2, CutWrites
<1>4. TypeOK'
  <2>1. caller' \in [Updaters -> Posts \cup {None}] /\ faults' \in 0 .. MaxFaults
    BY <1>1, <1>2, FaultCounts DEF TypeOK
  <2>2. QED
    BY <1>1, <1>2, <1>3, <2>1 DEF TypeOK, SignalsTyped, Signals
<1>5. GoodInv'
  BY <1>1, <1>2, <1>3, GoodKept DEF GoodInv
<1>6. ForceInv'
  BY <1>2, CutForce
<1>7. QED
  BY <1>4, <1>5, <1>6 DEF UpdateInv

LEMMA ReconnectsStep == ASSUME UpdateInv, NEW a \in Agents, Reconnects(a) PROVE UpdateInv'
<1>1. TypeOK /\ GoodInv /\ ForceInv
  BY DEF UpdateInv
<1>2. /\ session' = session \cup {a}
      /\ UNCHANGED <<exe, running, byCli, unlisted, failed, upc, version, caller, ppc, listed, sig, status,
                     faults, starts>>
  BY DEF Reconnects, hostVars, updVars, forceVars
<1>3. TypeOK'
  BY <1>1, <1>2 DEF TypeOK
<1>4. GoodInv'
  BY <1>1, <1>2 DEF GoodInv, Good
<1>5. QED
  BY <1>1, <1>2, <1>3, <1>4, ForceKept DEF UpdateInv, forceVars

-----------------------------------------------------------------------------
(***************************************************************************)
(* The force updates.                                                      *)
(***************************************************************************)
LEMMA ListAgentsStep == ASSUME UpdateInv, NEW p \in Posts, ListAgents(p) PROVE UpdateInv'
<1>1. TypeOK /\ GoodInv /\ CallerInv /\ SignalInv /\ StatusInv
  BY DEF UpdateInv, ForceInv
<1>2. /\ ppc[p] = "idle" /\ ppc' = [ppc EXCEPT ![p] = "listed"]
      /\ listed' = [listed EXCEPT ![p] = session]
      /\ UNCHANGED <<exe, running, byCli, unlisted, failed, session, upc, version, caller, sig, status,
                     faults, starts>>
  BY DEF ListAgents, hostVars, updVars
<1>3. TypeOK'
  BY <1>1, <1>2 DEF TypeOK
<1>4. GoodInv'
  BY <1>1, <1>2 DEF GoodInv, Good
<1>5. /\ ppc'[p] = "listed"
      /\ \A q \in Posts : q # p => ppc'[q] = ppc[q] /\ listed'[q] = listed[q]
  BY <1>1, <1>2 DEF TypeOK
<1>6. CallerInv' /\ SignalInv'
  BY <1>1, <1>2, <1>5 DEF CallerInv, SignalInv
<1>7. StatusInv'
  <2>1. \A q \in Posts : Expected(q)' = Expected(q)
    BY <1>2 DEF Expected
  <2>2. AllAccounted'
    BY <1>1, <1>2 DEF StatusInv, AllAccounted, Succeeded
  <2>3. QED
    BY <1>1, <1>2, <1>5, <2>1, <2>2 DEF StatusInv
<1>8. QED
  BY <1>3, <1>4, <1>6, <1>7 DEF UpdateInv, ForceInv

LEMMA GetSessionsStep == ASSUME UpdateInv, NEW p \in Posts, GetSessions(p) PROVE UpdateInv'
<1>1. TypeOK /\ GoodInv /\ CallerInv /\ SignalInv /\ StatusInv
  BY DEF UpdateInv, ForceInv
<1>2. /\ ppc[p] = "listed" /\ ppc' = [ppc EXCEPT ![p] = "got"]
      /\ sig' = [sig EXCEPT ![p] = [a \in Agents |-> IF a \in listed[p] \cap session THEN "open" ELSE "none"]]
      /\ UNCHANGED <<exe, running, byCli, unlisted, failed, session, upc, version, caller, listed, status,
                     faults, starts>>
  BY DEF GetSessions, hostVars, updVars
<1>3. /\ sig' \in [Posts -> [Agents -> {"none", "open", "wait", "ok", "err", "done"}]]
      /\ \A a \in Agents : sig'[p][a] = IF a \in listed[p] \cap session THEN "open" ELSE "none"
      /\ \A q \in Posts : q # p => sig'[q] = sig[q] /\ ppc'[q] = ppc[q]
      /\ ppc'[p] = "got"
  <2> DEFINE f == [a \in Agents |-> IF a \in listed[p] \cap session THEN "open" ELSE "none"]
  <2>1. f \in [Agents -> {"none", "open", "wait", "ok", "err", "done"}]
    OBVIOUS
  <2>2. sig' = [sig EXCEPT ![p] = f] /\ \A a \in Agents : f[a] = IF a \in listed[p] \cap session THEN "open" ELSE "none"
    BY <1>2
  <2> HIDE DEF f
  <2>3. QED
    BY <1>1, <1>2, <2>1, <2>2 DEF TypeOK
<1>4. \A a \in Agents : sig[p][a] = "none"
  BY <1>1, <1>2 DEF SignalInv
<1>5. TypeOK'
  BY <1>1, <1>2, <1>3 DEF TypeOK
<1>6. GoodInv'
  <2>1. \A q \in Posts, a \in Agents : sig'[q][a] = "ok" => sig[q][a] = "ok"
    BY <1>3
  <2>2. QED
    BY <1>1, <1>2, <2>1, GoodKept DEF GoodInv
<1>7. CallerInv'
  <2>1. \A u \in Updaters : caller[u] # None => caller[u] \in Posts /\ caller[u] # p
    BY <1>1, <1>4 DEF CallerInv, TypeOK
  <2>2. QED
    BY <1>1, <1>2, <1>3, <2>1, CallersStay
<1>8. SignalInv'
  BY <1>1, <1>2, <1>3 DEF SignalInv
<1>9. StatusInv'
  <2>1. \A q \in Posts : ppc'[q] = "running" => q # p /\ ppc[q] = "running" /\ sig'[q] = sig[q]
    BY <1>3
  <2>2. \A q \in Posts : ppc'[q] = "running" => Expected(q)' = Expected(q)
    BY <1>2, <2>1 DEF Expected
  <2>3. AllAccounted'
    BY <1>1, <1>2 DEF StatusInv, AllAccounted, Succeeded
  <2>4. QED
    BY <1>1, <1>2, <2>1, <2>2, <2>3 DEF StatusInv
<1>10. QED
  BY <1>5, <1>6, <1>7, <1>8, <1>9 DEF UpdateInv, ForceInv

\* An update may begin if none is under way: the agents that are gone have their result
\* at once, the others will get one.
LEMMA StartForceUpdateStep == ASSUME UpdateInv, NEW p \in Posts, StartForceUpdate(p) PROVE UpdateInv'
<1>1. TypeOK /\ GoodInv /\ CallerInv /\ SignalInv /\ StatusInv
  BY DEF UpdateInv, ForceInv
<1>2. /\ ppc[p] = "got" /\ listed' = [listed EXCEPT ![p] = {}]
      /\ UNCHANGED <<exe, running, byCli, unlisted, failed, session, upc, version, caller, faults, starts>>
  BY DEF StartForceUpdate, hostVars, updVars
<1>3. \A a \in Agents : sig[p][a] \in {"none", "open", "err"} /\ (sig[p][a] # "none" => a \in listed[p])
  BY <1>1, <1>2 DEF SignalInv
<1>4. \A u \in Updaters : caller[u] # None => caller[u] \in Posts /\ caller[u] # p
  BY <1>1, <1>3 DEF CallerInv, TypeOK
<1>5. /\ listed' \in [Posts -> SUBSET Agents]
      /\ \A q \in Posts : q # p => listed'[q] = listed[q]
  BY <1>1, <1>2 DEF TypeOK
<1>6. CASE status.running
  <2>1. /\ ppc' = [ppc EXCEPT ![p] = "over"]
        /\ sig' = [sig EXCEPT ![p] = [a \in Agents |-> "none"]]
        /\ status' = status
    BY <1>6 DEF StartForceUpdate, Over
  <2>2. /\ sig' \in [Posts -> [Agents -> {"none", "open", "wait", "ok", "err", "done"}]]
        /\ \A a \in Agents : sig'[p][a] = "none"
        /\ \A q \in Posts : q # p => sig'[q] = sig[q] /\ ppc'[q] = ppc[q]
        /\ ppc'[p] = "over"
    BY <1>1, <2>1 DEF TypeOK
  <2>3. TypeOK'
    BY <1>1, <1>2, <1>5, <2>1, <2>2 DEF TypeOK
  <2>4. GoodInv'
    <3>1. \A q \in Posts, a \in Agents : sig'[q][a] = "ok" => sig[q][a] = "ok"
      BY <2>2
    <3>2. QED
      BY <1>1, <1>2, <2>1, <3>1, GoodKept DEF GoodInv
  <2>5. CallerInv'
    BY <1>1, <1>2, <1>4, <2>2, CallersStay
  <2>6. SignalInv'
    BY <1>1, <1>5, <2>2 DEF SignalInv
  <2>7. \A q \in Posts : ppc'[q] = "running" => q # p /\ ppc[q] = "running" /\ sig'[q] = sig[q]
    BY <2>2
  <2>8. \A q \in Posts : ppc'[q] = "running" => Expected(q)' = Expected(q)
    BY <2>1, <2>7 DEF Expected
  <2>9. AllAccounted'
    BY <1>1, <2>1 DEF StatusInv, AllAccounted, Succeeded
  <2>10. StatusInv'
    BY <1>1, <2>1, <2>7, <2>8, <2>9 DEF StatusInv
  <2>11. QED
    BY <2>3, <2>4, <2>5, <2>6, <2>10 DEF UpdateInv, ForceInv
<1>7. CASE ~status.running
  <2> DEFINE f == [a \in Agents |-> IF a \in listed[p] /\ sig[p][a] = "none" THEN <<FALSE>> ELSE <<>>]
             n == Cardinality(listed[p])
  <2>1. /\ ppc' = [ppc EXCEPT ![p] = "running"] /\ sig' = sig
        /\ status' = [running |-> TRUE, total |-> n, ok |-> 0, results |-> f]
    BY <1>7 DEF StartForceUpdate, Started
  <2>2. f \in Results
    BY DEF Results
  <2>3. \A a \in Agents : f[a] = IF a \in listed[p] /\ sig[p][a] = "none" THEN <<FALSE>> ELSE <<>>
    OBVIOUS
  <2>4. listed[p] \subseteq Agents /\ n \in Nat
    BY <1>1, Counts DEF TypeOK
  <2> HIDE DEF f, n
  <2>5. /\ status' \in Statuses /\ status'.running = TRUE /\ status'.total = n
        /\ status'.results = f
    BY <2>1, <2>2, <2>4, StatusSet
  <2>6. ppc'[p] = "running" /\ \A q \in Posts : q # p => ppc'[q] = ppc[q]
    BY <1>1, <2>1 DEF TypeOK
  <2>7. \A q \in Posts : ppc'[q] = "running" => q = p
    BY <1>1, <1>7, <2>6 DEF StatusInv
  <2>8. TypeOK'
    BY <1>1, <1>2, <1>5, <2>1, <2>5 DEF TypeOK
  <2>9. GoodInv'
    <3>1. \A a \in Agents : status'.results[a] # <<TRUE>>
      BY <2>3, <2>5, OneResult
    <3>2. QED
      BY <1>1, <1>2, <2>1, <3>1 DEF GoodInv, Good
  <2>10. CallerInv'
    BY <1>1, <1>2, <2>1 DEF CallerInv
  <2>11. SignalInv'
    BY <1>1, <1>5, <2>1, <2>6 DEF SignalInv
  <2>12. \A a \in Agents : sig[p][a] \notin {"none", "done"} <=> sig[p][a] # "none"
    BY <1>3
  <2>13. \A a \in Agents : sig'[p][a] \notin {"none", "done"} => status'.results[a] = <<>>
    BY <2>1, <2>3, <2>5
  <2>14. status'.total = Cardinality(Expected(p)')
    <3>1. \A a \in Agents : status'.results[a] # <<>> <=> (a \in listed[p] /\ sig[p][a] = "none")
      BY <2>3, <2>5, OneResult
    <3>2. Expected(p)' = {a \in Agents : status'.results[a] # <<>> \/ sig[p][a] \notin {"none", "done"}}
      BY <2>1 DEF Expected
    <3>3. Expected(p)' = listed[p]
      BY <1>3, <2>4, <2>12, <3>1, <3>2
    <3>4. QED
      BY <2>5, <3>3 DEF n
  <2>15. AllAccounted'
    BY <2>5 DEF AllAccounted
  <2>16. StatusInv'
    BY <2>5, <2>7, <2>13, <2>14, <2>15 DEF StatusInv
  <2>17. QED
    BY <2>8, <2>9, <2>10, <2>11, <2>16 DEF UpdateInv, ForceInv
<1>8. QED
  BY <1>1, <1>6, <1>7, StatusFields DEF TypeOK

LEMMA SignalStep == ASSUME UpdateInv, NEW p \in Posts, NEW a \in Agents, Signal(p, a) PROVE UpdateInv'
<1>1. TypeOK /\ GoodInv /\ CallerInv /\ SignalInv /\ StatusInv
  BY DEF UpdateInv, ForceInv
<1>2. /\ ppc[p] = "running" /\ sig[p][a] = "open" /\ sig' = [sig EXCEPT ![p][a] = "wait"]
      /\ UNCHANGED <<exe, running, byCli, unlisted, failed, session, ppc, listed, status, faults, starts>>
  BY DEF Signal, hostVars
<1>3. /\ SignalsTyped'
      /\ \A q \in Posts, b \in Agents : sig'[q][b] = IF q = p /\ b = a THEN "wait" ELSE sig[q][b]
  BY <1>1, <1>2, SignalTypes, Set2 DEF SignalsTyped, Signals
<1>4. SignalInv' /\ StatusInv'
  <2>1. \A q \in Posts, b \in Agents : Moved(q, b)
    BY <1>2, <1>3 DEF Moved
  <2>2. QED
    BY <1>1, <1>2, <2>1, SignalsMove
<1>5. \A q \in Posts, b \in Agents : sig'[q][b] = "ok" => sig[q][b] = "ok"
  BY <1>3
<1>6. CASE UNCHANGED updVars
  <2>1. UNCHANGED <<upc, version, caller>>
    BY <1>6 DEF updVars
  <2>2. TypeOK'
    BY <1>1, <1>2, <1>3, <2>1 DEF TypeOK, SignalsTyped, Signals
  <2>3. GoodInv'
    BY <1>1, <1>2, <1>5, <2>1, GoodKept DEF GoodInv
  <2>4. CallerInv'
    <3>1. \A u \in Updaters : caller[u] # None =>
            caller[u] \in Posts /\ sig'[caller[u]][HostOf[u]] = sig[caller[u]][HostOf[u]]
      BY <1>1, <1>2, <1>3 DEF CallerInv, TypeOK
    <3>2. QED
      BY <1>1, <2>1, <3>1, CallersStay
  <2>5. QED
    BY <1>4, <2>2, <2>3, <2>4 DEF UpdateInv, ForceInv
<1>7. ASSUME NEW u \in Free(a),
             upc' = [upc EXCEPT ![u] = "update"],
             version' = [version EXCEPT ![u] = running[a]],
             caller' = [caller EXCEPT ![u] = p]
      PROVE  UpdateInv'
  <2>1. u \in Updaters /\ HostOf[u] = a /\ a \in Hosts
    BY DEF Free, Hosts
  <2>2. TypeOK'
    BY <1>1, <1>2, <1>3, <1>7, <2>1 DEF TypeOK, SignalsTyped, Signals
  <2>3. \A v \in Updaters : version'[v] = New \/ upc'[v] = "answer" => Good(HostOf[v])
    BY <1>1, <1>7, <2>1 DEF GoodInv, TypeOK
  <2>4. GoodInv'
    BY <1>1, <1>2, <1>5, <2>3, GoodKept DEF GoodInv
  <2>5. \A v \in Updaters : caller'[v] = IF v = u THEN p ELSE caller[v]
    BY <1>1, <1>7, <2>1 DEF TypeOK
  <2>6. ASSUME NEW v \in Updaters, v # u, caller[v] # None
        PROVE  /\ caller[v] \in Posts /\ HostOf[v] \in Agents
               /\ sig'[caller[v]][HostOf[v]] = "wait" /\ ~(caller[v] = p /\ HostOf[v] = a)
    BY <1>1, <1>2, <1>3, <2>6 DEF CallerInv, TypeOK
  <2>7. sig'[p][a] = "wait" /\ p # None
    BY <1>3, NamesAssumption
  <2>8. CallerInv'
    <3>1. ASSUME NEW v \in Updaters, caller'[v] # None
          PROVE  HostOf[v] \in Agents /\ sig'[caller'[v]][HostOf[v]] = "wait"
      BY <2>1, <2>5, <2>6, <2>7, <3>1
    <3>2. ASSUME NEW v \in Updaters, NEW w \in Updaters,
                 caller'[v] # None, caller'[v] = caller'[w], HostOf[v] = HostOf[w]
          PROVE  v = w
      <4>1. CASE v # u /\ w # u
        BY <1>1, <2>5, <3>2, <4>1 DEF CallerInv
      <4>2. CASE v = u \/ w = u
        BY <2>1, <2>5, <2>6, <2>7, <3>2, <4>2
      <4>3. QED
        BY <4>1, <4>2
    <3>3. QED
      BY <3>1, <3>2 DEF CallerInv
  <2>9. QED
    BY <1>4, <2>2, <2>4, <2>8 DEF UpdateInv, ForceInv
<1>8. QED
  BY <1>6, <1>7 DEF Signal

LEMMA SignalTimesOutStep ==
  ASSUME UpdateInv, NEW p \in Posts, NEW a \in Agents, SignalTimesOut(p, a)
  PROVE  UpdateInv'
<1>1. TypeOK /\ GoodInv /\ CallerInv /\ SignalInv /\ StatusInv
  BY DEF UpdateInv, ForceInv
<1>2. /\ sig[p][a] = "wait" /\ sig' = [sig EXCEPT ![p][a] = "err"]
      /\ caller' = [u \in Updaters |-> IF HostOf[u] = a /\ caller[u] = p THEN None ELSE caller[u]]
      /\ UNCHANGED <<exe, running, byCli, unlisted, failed, session, upc, version, ppc, listed, status,
                     faults, starts>>
  BY DEF SignalTimesOut, hostVars
<1>3. /\ SignalsTyped'
      /\ \A q \in Posts, b \in Agents : sig'[q][b] = IF q = p /\ b = a THEN "err" ELSE sig[q][b]
  BY <1>1, <1>2, SignalTypes, Set2 DEF SignalsTyped, Signals
<1>4. SignalInv' /\ StatusInv'
  <2>1. \A q \in Posts, b \in Agents : Moved(q, b)
    BY <1>2, <1>3 DEF Moved
  <2>2. QED
    BY <1>1, <1>2, <2>1, SignalsMove
<1>5. \A q \in Posts, b \in Agents : sig'[q][b] = "ok" => sig[q][b] = "ok"
  BY <1>3
<1>6. TypeOK'
  <2>1. caller' \in [Updaters -> Posts \cup {None}]
    BY <1>1, <1>2 DEF TypeOK
  <2>2. QED
    BY <1>1, <1>2, <1>3, <2>1 DEF TypeOK, SignalsTyped, Signals
<1>7. GoodInv'
  BY <1>1, <1>2, <1>5, GoodKept DEF GoodInv
<1>8. CallerInv'
  <2>1. \A u \in Updaters : caller[u] # None => caller[u] \in Posts /\ HostOf[u] \in Agents
    BY <1>1 DEF CallerInv, TypeOK
  <2>2. QED
    BY <1>1, <1>2, <1>3, <2>1, CallersStay
<1>9. QED
  BY <1>4, <1>6, <1>7, <1>8 DEF UpdateInv, ForceInv

\* A result is written where there was none, and a success where the host is good.
LEMMA ReportStep == ASSUME UpdateInv, NEW p \in Posts, NEW a \in Agents, Report(p, a) PROVE UpdateInv'
<1>1. TypeOK /\ GoodInv /\ CallerInv /\ SignalInv /\ StatusInv
  BY DEF UpdateInv, ForceInv
<1>2. /\ ppc[p] = "running" /\ sig[p][a] \in {"ok", "err"}
      /\ sig' = [sig EXCEPT ![p][a] = "done"]
      /\ UNCHANGED <<exe, running, byCli, unlisted, failed, session, upc, version, caller, ppc, listed,
                     faults, starts>>
  BY DEF Report, hostVars, updVars
<1>3. PICK ok \in BOOLEAN : status' = Reported(status, a, ok) /\ (ok => Good(a))
  <2>1. status' = Reported(status, a, sig[p][a] = "ok")
    BY DEF Report, Reported
  <2>2. CASE sig[p][a] = "ok"
    <3>1. (sig[p][a] = "ok") = TRUE /\ Good(a)
      BY <1>1, <2>2 DEF GoodInv
    <3>2. QED
      BY <2>1, <3>1
  <2>3. CASE sig[p][a] # "ok"
    <3>1. (sig[p][a] = "ok") = FALSE
      BY <2>3
    <3>2. QED
      BY <2>1, <3>1
  <2>4. QED
    BY <2>2, <2>3
<1>4. status.results[a] = <<>> /\ status.running /\ \A q \in Posts : ppc[q] = "running" => q = p
  BY <1>1, <1>2 DEF StatusInv
<1>5. /\ status' \in Statuses /\ status'.running = status.running /\ status'.total = status.total
      /\ status'.results[a] = <<ok>>
      /\ \A b \in Agents : b # a => status'.results[b] = status.results[b]
  <2>1. status \in Statuses
    BY <1>1 DEF TypeOK
  <2>2. status.results[a] = <<>> /\ status' = Reported(status, a, ok)
    BY <1>3, <1>4
  <2>3. QED
    BY <2>1, <2>2, StatusReport
<1>6. /\ SignalsTyped'
      /\ \A q \in Posts, b \in Agents : sig'[q][b] = IF q = p /\ b = a THEN "done" ELSE sig[q][b]
  BY <1>1, <1>2, SignalTypes, Set2 DEF SignalsTyped, Signals
<1>7. TypeOK'
  BY <1>1, <1>2, <1>5, <1>6 DEF TypeOK, SignalsTyped, Signals
<1>8. GoodInv'
  <2>1. \A b \in Agents : status'.results[b] = <<TRUE>> => Good(b)
    BY <1>1, <1>3, <1>5, OneResult DEF GoodInv
  <2>2. \A q \in Posts, b \in Agents : sig'[q][b] = "ok" => Good(b)
    BY <1>1, <1>6 DEF GoodInv
  <2>3. \A h \in Hosts : Good(h)' <=> Good(h)
    BY <1>2 DEF Good
  <2>4. QED
    BY <1>1, <1>2, <2>1, <2>2, <2>3, HostOfUpdater DEF GoodInv, Hosts
<1>9. CallerInv'
  <2>1. \A u \in Updaters : caller[u] # None =>
          caller[u] \in Posts /\ sig'[caller[u]][HostOf[u]] = sig[caller[u]][HostOf[u]]
    BY <1>1, <1>2, <1>6 DEF CallerInv, TypeOK
  <2>2. QED
    BY <1>1, <1>2, <2>1, CallersStay
<1>10. SignalInv'
  BY <1>1, <1>2, <1>6 DEF SignalInv
<1>11. StatusInv'
  <2>1. status'.results[a] # <<>>
    BY <1>3, <1>5, OneResult
  <2>2. Expected(p)' = Expected(p)
    <3>1. \A b \in Agents : (status'.results[b] # <<>> \/ sig'[p][b] \notin {"none", "done"})
                              <=> (status.results[b] # <<>> \/ sig[p][b] \notin {"none", "done"})
      BY <1>2, <1>5, <1>6, <2>1
    <3>2. QED
      BY <3>1 DEF Expected
  <2>3. \A b \in Agents : sig'[p][b] \notin {"none", "done"} => status'.results[b] = <<>>
    BY <1>1, <1>2, <1>5, <1>6 DEF StatusInv
  <2>4. AllAccounted'
    BY <1>4, <1>5 DEF AllAccounted
  <2>5. QED
    BY <1>1, <1>2, <1>4, <1>5, <2>2, <2>3, <2>4 DEF StatusInv
<1>12. QED
  BY <1>7, <1>8, <1>9, <1>10, <1>11 DEF UpdateInv, ForceInv

\* With all goroutines through, every agent has its result, and nothing is waited for.
LEMMA FinishStep == ASSUME UpdateInv, NEW p \in Posts, Finish(p) PROVE UpdateInv'
<1>1. TypeOK /\ GoodInv /\ CallerInv /\ SignalInv /\ StatusInv
  BY DEF UpdateInv, ForceInv
<1> DEFINE k == Cardinality(Succeeded)
<1>2. /\ ppc[p] = "running" /\ \A a \in Agents : sig[p][a] \in {"none", "done"}
      /\ status' = [status EXCEPT !.running = FALSE, !.ok = k]
      /\ ppc' = [ppc EXCEPT ![p] = "over"]
      /\ sig' = [sig EXCEPT ![p] = [a \in Agents |-> "none"]]
      /\ UNCHANGED <<exe, running, byCli, unlisted, failed, session, upc, version, caller, listed,
                     faults, starts>>
  BY DEF Finish, Finishes, Over, hostVars, updVars
<1>3. k \in Nat
  BY Counts DEF Succeeded
<1> HIDE DEF k
<1>4. /\ status' \in Statuses /\ status'.running = FALSE /\ status'.total = status.total
      /\ status'.ok = k /\ status'.results = status.results
  <2>1. status \in Statuses
    BY <1>1 DEF TypeOK
  <2>2. status' = [status EXCEPT !.running = FALSE, !.ok = k]
    BY <1>2
  <2>3. QED
    BY <1>3, <2>1, <2>2 DEF Statuses
<1>5. /\ sig' \in [Posts -> [Agents -> {"none", "open", "wait", "ok", "err", "done"}]]
      /\ \A a \in Agents : sig'[p][a] = "none"
      /\ \A q \in Posts : q # p => sig'[q] = sig[q] /\ ppc'[q] = ppc[q]
      /\ ppc'[p] = "over"
  BY <1>1, <1>2 DEF TypeOK
<1>6. TypeOK'
  BY <1>1, <1>2, <1>4, <1>5 DEF TypeOK
<1>7. GoodInv'
  <2>1. \A q \in Posts, a \in Agents : sig'[q][a] = "ok" => sig[q][a] = "ok"
    BY <1>5
  <2>2. QED
    BY <1>1, <1>2, <1>4, <2>1 DEF GoodInv, Good
<1>8. CallerInv'
  <2>1. \A u \in Updaters : caller[u] # None => caller[u] \in Posts /\ caller[u] # p
    BY <1>1, <1>2 DEF CallerInv, TypeOK
  <2>2. QED
    BY <1>1, <1>2, <1>5, <2>1, CallersStay
<1>9. SignalInv'
  BY <1>1, <1>2, <1>5 DEF SignalInv
<1>10. AllAccounted'
  <2>1. Expected(p) = {a \in Agents : status.results[a] # <<>>}
    BY <1>2 DEF Expected
  <2>2. {a \in Agents : status'.results[a] # <<>>} = {a \in Agents : status.results[a] # <<>>}
    BY <1>4
  <2>3. Succeeded' = Succeeded
    BY <1>4 DEF Succeeded
  <2>4. status.total = Cardinality(Expected(p))
    BY <1>1, <1>2 DEF StatusInv
  <2>5. Cardinality({a \in Agents : status'.results[a] # <<>>}) = status'.total
    BY <1>4, <2>1, <2>2, <2>4
  <2>6. status'.ok = Cardinality(Succeeded')
    BY <1>4, <2>3 DEF k
  <2>7. QED
    BY <2>5, <2>6 DEF AllAccounted
<1>11. StatusInv'
  <2>1. \A q \in Posts : ppc'[q] # "running"
    BY <1>1, <1>2, <1>5 DEF StatusInv
  <2>2. QED
    BY <1>10, <2>1 DEF StatusInv
<1>12. QED
  BY <1>6, <1>7, <1>8, <1>9, <1>11 DEF UpdateInv, ForceInv

-----------------------------------------------------------------------------
LEMMA UpdateStep == UpdateInv /\ [Next]_vars => UpdateInv'
<1> SUFFICES ASSUME UpdateInv, [Next]_vars
             PROVE  UpdateInv'
  OBVIOUS
<1>1. CASE UNCHANGED vars
  <2>1. UNCHANGED <<exe, running, byCli, unlisted, failed, session, upc, version, caller, ppc, listed, sig,
                    status, faults, starts>>
    BY <1>1 DEF vars, hostVars, updVars, forceVars
  <2>2. TypeOK'
    BY <2>1 DEF UpdateInv, TypeOK
  <2>3. GoodInv'
    BY <2>1 DEF UpdateInv, GoodInv, Good
  <2>4. ForceInv'
    BY <2>1, ForceKept DEF UpdateInv, forceVars
  <2>5. QED
    BY <2>2, <2>3, <2>4 DEF UpdateInv
<1>2. ASSUME NEW u \in Updaters, UpdaterStep(u) \/ Begin(u)
      PROVE  UpdateInv'
  BY <1>2, DeclinesStep, ReplacesStep, AnswerStep, RestartStep, BeginStep DEF UpdaterStep
<1>3. ASSUME NEW p \in Posts, PostStep(p) \/ \E a \in Agents : SignalTimesOut(p, a)
      PROVE  UpdateInv'
  BY <1>3, ListAgentsStep, GetSessionsStep, StartForceUpdateStep, SignalStep, SignalTimesOutStep,
     ReportStep, FinishStep DEF PostStep
<1>4. ASSUME NEW a \in Agents, SessionEnds(a) \/ Reconnects(a)
      PROVE  UpdateInv'
  BY <1>4, SessionEndsStep, ReconnectsStep
<1>5. ASSUME NEW h \in Hosts, Crash(h)
      PROVE  UpdateInv'
  BY <1>5, CrashStep
<1>6. QED
  BY <1>1, <1>2, <1>3, <1>4, <1>5 DEF Next

\* The inductive invariant of the updates.
THEOREM UpdateInvariant == Spec => []UpdateInv
<1>1. Init => UpdateInv
  BY Init1, Init2 DEF UpdateInv
<1>2. QED
  BY <1>1, UpdateStep, PTL DEF Spec

\* Types: above all, no agent ever has two results in one status.
THEOREM TypeCorrect == Spec => []TypeOK
<1>1. UpdateInv => TypeOK
  BY DEF UpdateInv
<1>2. QED
  BY <1>1, UpdateInvariant, PTL

\* When no force update is under way, the status has one result for every agent that the
\* last one has listed, and counts the successes (update.go:122).
THEOREM Accounted == Spec => []AllAccounted
<1>1. UpdateInv => AllAccounted
  BY DEF UpdateInv, ForceInv, StatusInv
<1>2. QED
  BY <1>1, UpdateInvariant, PTL

\* A success in the status is one (update.go:141, agent/update.go:33).
THEOREM SuccessIsTrue == Spec => []OkMeansUpdated
<1>1. UpdateInv => OkMeansUpdated
  BY DEF UpdateInv, GoodInv, Good, OkMeansUpdated
<1>2. QED
  BY <1>1, UpdateInvariant, PTL

-----------------------------------------------------------------------------
(***************************************************************************)
(* A force update is a Rollout.                                            *)
(***************************************************************************)

\* Whether agent a is owed a verdict by p does not change.
Lively(p, a) == sig'[p][a] \in {"none", "done"} <=> sig[p][a] \in {"none", "done"}

\* The report stays, and no agent is worse off: what most steps are to the reader.
LEMMA Unnoticed ==
  ASSUME status' = status,
         \A p \in Posts : ppc'[p] = "running" <=> ppc[p] = "running",
         \A p \in Posts, a \in Agents : ppc[p] = "running" => Lively(p, a),
         \A a \in Agents : Good(a) => Good(a)'
  PROVE  Shown!Next
<1>1. Owed' = Owed
  BY DEF Owed, Lively
<1>2. With(<<TRUE>>)' = With(<<TRUE>>) /\ With(<<FALSE>>)' = With(<<FALSE>>)
  BY DEF With
<1>3. UpToDate \subseteq UpToDate' /\ UpToDate' \in SUBSET Agents
  BY DEF UpToDate, Good
<1>4. QED
  BY <1>1, <1>2, <1>3 DEF Shown!Next, Shown!Improve, Shown!report

\* Nobody waits for an answer who is owed nothing.
LEMMA AnswersLively ==
  ASSUME UpdateInv, NEW u \in Updaters, NEW r \in {"ok", "err"}, Answers(u, r)
  PROVE  \A p \in Posts, a \in Agents : Lively(p, a)
<1>1. TypeOK /\ CallerInv
  BY DEF UpdateInv, ForceInv
<1>2. \A p \in Posts, a \in Agents :
        sig'[p][a] = IF p = caller[u] /\ a = HostOf[u] THEN r ELSE sig[p][a]
  BY <1>1, AnswersWrites
<1>3. caller[u] # None => sig[caller[u]][HostOf[u]] = "wait"
  BY <1>1 DEF CallerInv
<1>4. QED
  BY <1>2, <1>3, NamesAssumption DEF Lively

LEMMA CutLively ==
  ASSUME UpdateInv, NEW As, Cut(As)
  PROVE  \A p \in Posts, a \in Agents : Lively(p, a)
BY CutWrites DEF UpdateInv, Lively

\* The results of a status are of three kinds, and the successes are those of the report.
LEMMA ThreeResults ==
  ASSUME TypeOK
  PROVE  /\ \A a \in Agents : status.results[a] \in {<<>>, <<TRUE>>, <<FALSE>>}
         /\ Succeeded = With(<<TRUE>>)
<1>1. \A a \in Agents : status.results[a] \in {<<>>, <<TRUE>>, <<FALSE>>}
  BY StatusFields DEF TypeOK, Results
<1>2. ASSUME NEW a \in Agents
      PROVE  (\E i \in DOMAIN status.results[a] : status.results[a][i]) <=> status.results[a] = <<TRUE>>
  <2>1. CASE status.results[a] = <<>>
    <3>1. DOMAIN status.results[a] = {}
      BY <2>1
    <3>2. QED
      BY <2>1, <3>1, OneResult
  <2>2. CASE status.results[a] = <<TRUE>>
    <3>1. DOMAIN status.results[a] = {1} /\ status.results[a][1] = TRUE
      BY <2>2
    <3>2. QED
      BY <2>2, <3>1
  <2>3. CASE status.results[a] = <<FALSE>>
    <3>1. DOMAIN status.results[a] = {1} /\ status.results[a][1] = FALSE
      BY <2>3
    <3>2. QED
      BY <2>3, <3>1, OneResult
  <2>4. QED
    BY <1>1, <2>1, <2>2, <2>3
<1>3. QED
  BY <1>1, <1>2 DEF Succeeded, With

LEMMA RolloutInit == Init => Shown!Init
<1> SUFFICES ASSUME Init
             PROVE  Shown!Init
  OBVIOUS
<1>1. status = Quiet /\ ppc = [p \in Posts |-> "idle"]
  BY DEF Init
<1>2. \A a \in Agents : status.results[a] = <<>>
  BY <1>1, QuietStatus
<1>3. Owed = {}
  BY <1>1 DEF Owed
<1>4. With(<<TRUE>>) = {} /\ With(<<FALSE>>) = {}
  BY <1>2, OneResult DEF With
<1>5. UpToDate \in SUBSET Agents
  BY DEF UpToDate
<1>6. QED
  BY <1>1, <1>3, <1>4, <1>5, QuietStatus DEF Shown!Init, Shown!Blank

LEMMA UpdaterUnnoticed ==
  ASSUME UpdateInv, NEW u \in Updaters, Declines(u) \/ Replaces(u) \/ Answer(u) \/ Begin(u)
  PROVE  Shown!Next
<1>1. status' = status /\ ppc' = ppc
  BY DEF Declines, Replaces, Answer, Begin, forceVars
<1>2. \A p \in Posts, a \in Agents : Lively(p, a)
  <2>1. CASE UNCHANGED sig
    BY <2>1 DEF Lively
  <2>2. CASE \E r \in {"ok", "err"} : Answers(u, r)
    BY <2>2, AnswersLively
  <2>3. QED
    BY <2>1, <2>2 DEF Declines, Replaces, Answer, Begin, Ends, forceVars
<1>3. \A a \in Agents : Good(a) => Good(a)'
  <2>1. CASE Replaces(u)
    <3>1. exe \in [Hosts -> {Old, New, Page}] /\ HostOf[u] \in Hosts
      BY HostOfUpdater DEF UpdateInv, TypeOK
    <3>2. PICK d \in Downloads :
            /\ exe' = [exe EXCEPT ![HostOf[u]] = d.file]
            /\ unlisted' = IF d.sure THEN unlisted \ {HostOf[u]} ELSE unlisted \cup {HostOf[u]}
      BY <2>1 DEF Replaces
    <3>3. d.sure \in BOOLEAN /\ (d.sure => d.file = New)
      BY Downloaded
    <3>4. QED
      BY <3>1, <3>2, <3>3 DEF Good, Hosts
  <2>2. CASE UNCHANGED <<exe, unlisted>>
    BY <2>2 DEF Good
  <2>3. QED
    BY <2>1, <2>2 DEF Declines, Answer, Begin, hostVars
<1>4. QED
  BY <1>1, <1>2, <1>3, Unnoticed

\* The service of an agent may start without the reader's knowing; with the master's, the
\* report is gone.
LEMMA ServiceRollout ==
  ASSUME UpdateInv, NEW h \in Hosts, ServiceStarts(h)
  PROVE  Shown!Next
<1>1. UNCHANGED <<exe, unlisted>>
  BY DEF ServiceStarts
<1>2. CASE h = Master
  <2>1. /\ status' = Quiet /\ ppc' = [p \in Posts |-> IF ppc[p] = "idle" THEN "idle" ELSE "over"]
    BY <1>2 DEF ServiceStarts
  <2>2. \A a \in Agents : status'.results[a] = <<>>
    BY <2>1, QuietStatus
  <2>3. Owed' = {}
    BY <2>1 DEF Owed
  <2>4. With(<<TRUE>>)' = {} /\ With(<<FALSE>>)' = {}
    BY <2>2, OneResult DEF With
  <2>5. UpToDate' = UpToDate
    BY <1>1 DEF UpToDate
  <2>6. QED
    BY <2>1, <2>3, <2>4, <2>5, QuietStatus DEF Shown!Next, Shown!Forget, Shown!Blank
<1>3. CASE h # Master
  <2>1. Cut({h}) /\ UNCHANGED <<ppc, listed, status>>
    BY <1>3 DEF ServiceStarts
  <2>2. QED
    BY <1>1, <2>1, CutLively, Unnoticed DEF Good
<1>4. QED
  BY <1>2, <1>3

LEMMA FaultsRollout ==
  ASSUME UpdateInv,
         \/ \E u \in Updaters : Restart(u)
         \/ \E h \in Hosts : Crash(h)
         \/ \E a \in Agents : SessionEnds(a) \/ Reconnects(a)
  PROVE  Shown!Next
<1>1. CASE \E h \in Hosts : ServiceStarts(h)
  BY <1>1, ServiceRollout
<1>2. ASSUME UNCHANGED <<exe, unlisted, ppc, status>>, UNCHANGED sig \/ \E As : Cut(As)
      PROVE  Shown!Next
  <2>1. \A p \in Posts, a \in Agents : Lively(p, a)
    BY <1>2, CutLively DEF Lively
  <2>2. QED
    BY <1>2, <2>1, Unnoticed DEF Good
<1>3. QED
  BY <1>1, <1>2, HostOfUpdater DEF Restart, Crash, SessionEnds, Reconnects, hostVars, forceVars

LEMMA SignalsUnnoticed ==
  ASSUME UpdateInv, NEW p \in Posts,
         ListAgents(p) \/ GetSessions(p) \/ \E a \in Agents : Signal(p, a) \/ SignalTimesOut(p, a)
  PROVE  Shown!Next
<1>1. TypeOK /\ SignalInv
  BY DEF UpdateInv, ForceInv
<1>2. status' = status /\ UNCHANGED <<exe, unlisted>>
  BY DEF ListAgents, GetSessions, Signal, SignalTimesOut, hostVars
<1>3. \A q \in Posts : ppc'[q] = "running" <=> ppc[q] = "running"
  <2>1. CASE ppc' = ppc
    BY <2>1
  <2>2. CASE ppc[p] # "running" /\ \E x \in {"listed", "got"} : ppc' = [ppc EXCEPT ![p] = x]
    BY <1>1, <2>2 DEF TypeOK
  <2>3. QED
    BY <2>1, <2>2 DEF ListAgents, GetSessions, Signal, SignalTimesOut
<1>4. \A q \in Posts, b \in Agents : ppc[q] = "running" => Lively(q, b)
  <2>1. CASE sig' = sig
    BY <2>1 DEF Lively
  <2>2. CASE GetSessions(p)
    <3>1. \A q \in Posts : ppc[q] = "running" => sig'[q] = sig[q]
      BY <1>1, <2>2 DEF TypeOK, GetSessions
    <3>2. QED
      BY <3>1 DEF Lively
  <2>3. ASSUME NEW a \in Agents, sig[p][a] \in {"open", "wait"}, NEW x \in {"wait", "err"},
               sig' = [sig EXCEPT ![p][a] = x]
        PROVE  \A q \in Posts, b \in Agents : Lively(q, b)
    <3>1. \A q \in Posts, b \in Agents : sig'[q][b] = IF q = p /\ b = a THEN x ELSE sig[q][b]
      BY <1>1, <2>3, SignalTypes, Set2 DEF SignalsTyped, Signals
    <3>2. QED
      BY <2>3, <3>1 DEF Lively
  <2>4. QED
    BY <2>1, <2>2, <2>3 DEF ListAgents, Signal, SignalTimesOut
<1>5. QED
  BY <1>2, <1>3, <1>4, Unnoticed DEF Good

\* The agents that are gone are the bad ones, and those with a goroutine are owed a verdict:
\* together they are the agents listed.
LEMMA StartRollout ==
  ASSUME UpdateInv, NEW p \in Posts, StartForceUpdate(p)
  PROVE  Shown!Next
<1>1. TypeOK /\ SignalInv /\ StatusInv
  BY DEF UpdateInv, ForceInv
<1>2. ppc[p] = "got" /\ UNCHANGED <<exe, unlisted>>
  BY DEF StartForceUpdate, hostVars
<1>3. CASE status.running
  <2>1. /\ ppc' = [ppc EXCEPT ![p] = "over"]
        /\ sig' = [sig EXCEPT ![p] = [a \in Agents |-> "none"]]
        /\ status' = status
    BY <1>3 DEF StartForceUpdate, Over
  <2>2. \A q \in Posts : /\ ppc'[q] = "running" <=> ppc[q] = "running"
                         /\ ppc[q] = "running" => sig'[q] = sig[q]
    BY <1>1, <1>2, <2>1 DEF TypeOK
  <2>3. QED
    BY <1>2, <2>1, <2>2, Unnoticed DEF Good, Lively
<1>4. CASE ~status.running
  <2> DEFINE f == [a \in Agents |-> IF a \in listed[p] /\ sig[p][a] = "none" THEN <<FALSE>> ELSE <<>>]
             n == Cardinality(listed[p])
  <2>1. /\ ppc' = [ppc EXCEPT ![p] = "running"] /\ sig' = sig
        /\ status' = [running |-> TRUE, total |-> n, ok |-> 0, results |-> f]
    BY <1>4 DEF StartForceUpdate, Started
  <2>2. f \in Results
    BY DEF Results
  <2>3. \A a \in Agents : f[a] = IF a \in listed[p] /\ sig[p][a] = "none" THEN <<FALSE>> ELSE <<>>
    OBVIOUS
  <2>4. listed[p] \subseteq Agents /\ n \in Nat
    BY <1>1, Counts DEF TypeOK
  <2> HIDE DEF f
  <2>5. status'.running = TRUE /\ status'.total = n /\ status'.ok = 0 /\ status'.results = f
    BY <2>1, <2>2, <2>4, StatusSet
  <2>6. ppc'[p] = "running" /\ \A q \in Posts : q # p => ppc'[q] # "running"
    BY <1>1, <1>4, <2>1 DEF TypeOK, StatusInv
  <2>7. \A a \in Agents : sig[p][a] \in {"none", "open", "err"} /\ (sig[p][a] # "none" => a \in listed[p])
    BY <1>1, <1>2 DEF SignalInv
  <2>8. Owed' = {a \in Agents : sig[p][a] # "none"}
    BY <2>1, <2>6, <2>7 DEF Owed
  <2>9. With(<<TRUE>>)' = {}
    BY <2>3, <2>5, OneResult DEF With
  <2>10. With(<<FALSE>>)' = {a \in Agents : a \in listed[p] /\ sig[p][a] = "none"}
    BY <2>3, <2>5, OneResult DEF With
  <2>11. /\ Owed' \in SUBSET Agents /\ With(<<FALSE>>)' \in SUBSET (Agents \ Owed')
         /\ Owed' \cup With(<<FALSE>>)' = listed[p]
    BY <2>4, <2>7, <2>8, <2>10
  <2>12. status'.total = Cardinality(Owed' \cup With(<<FALSE>>)')
    BY <2>5, <2>11
  <2>13. UpToDate' = UpToDate
    BY <1>2 DEF UpToDate
  <2>14. ~status.running /\ status'.running
    BY <1>4, <2>5
  <2>15. Shown!Begin
    BY <2>5, <2>9, <2>11, <2>12, <2>13, <2>14, Zenon DEF Shown!Begin, Cardinality, Shown!Cardinality
  <2>16. QED
    BY <2>15 DEF Shown!Next
<1>5. QED
  BY <1>1, <1>3, <1>4, StatusFields DEF TypeOK

\* An agent that is owed a verdict has none yet; a good one it gets only if it is good.
LEMMA ReportRollout ==
  ASSUME UpdateInv, NEW p \in Posts, NEW a \in Agents, Report(p, a)
  PROVE  Shown!Next
<1>1. TypeOK /\ GoodInv /\ StatusInv
  BY DEF UpdateInv, ForceInv
<1>2. /\ ppc[p] = "running" /\ sig[p][a] \in {"ok", "err"} /\ sig' = [sig EXCEPT ![p][a] = "done"]
      /\ UNCHANGED <<exe, unlisted, ppc>>
  BY DEF Report, hostVars
<1>3. PICK ok \in BOOLEAN : status' = Reported(status, a, ok) /\ (ok => Good(a))
  <2>1. status' = Reported(status, a, sig[p][a] = "ok")
    BY DEF Report, Reported
  <2>2. CASE sig[p][a] = "ok"
    <3>1. (sig[p][a] = "ok") = TRUE /\ Good(a)
      BY <1>1, <2>2 DEF GoodInv
    <3>2. QED
      BY <2>1, <3>1
  <2>3. CASE sig[p][a] # "ok"
    <3>1. (sig[p][a] = "ok") = FALSE
      BY <2>3
    <3>2. QED
      BY <2>1, <3>1
  <2>4. QED
    BY <2>2, <2>3
<1>4. status.results[a] = <<>> /\ status.running /\ \A q \in Posts : ppc[q] = "running" => q = p
  BY <1>1, <1>2 DEF StatusInv
<1>5. /\ status' \in Statuses /\ status'.running = status.running /\ status'.total = status.total /\ status'.ok = status.ok
      /\ status'.results[a] = <<ok>>
      /\ \A b \in Agents : b # a => status'.results[b] = status.results[b]
  <2>1. status \in Statuses
    BY <1>1 DEF TypeOK
  <2>2. status.results[a] = <<>> /\ status' = Reported(status, a, ok)
    BY <1>3, <1>4
  <2>3. QED
    BY <2>1, <2>2, StatusReport
<1>6. \A q \in Posts, b \in Agents : sig'[q][b] = IF q = p /\ b = a THEN "done" ELSE sig[q][b]
  BY <1>1, <1>2, SignalTypes, Set2 DEF SignalsTyped, Signals
<1>7. a \in Owed /\ Owed' = Owed \ {a}
  BY <1>2, <1>4, <1>6 DEF Owed
<1>8. <<>> # <<TRUE>> /\ <<>> # <<FALSE>> /\ <<TRUE>> # <<FALSE>>
  BY OneResult
<1>9. CASE ok = TRUE
  <2>1. With(<<TRUE>>)' = With(<<TRUE>>) \cup {a} /\ With(<<FALSE>>)' = With(<<FALSE>>)
    BY <1>4, <1>5, <1>8, <1>9 DEF With
  <2>2. a \in UpToDate /\ UpToDate' = UpToDate
    BY <1>2, <1>3, <1>9 DEF UpToDate, Good
  <2>3. QED
    BY <1>4, <1>5, <1>7, <2>1, <2>2 DEF Shown!Next, Shown!Verdict
<1>10. CASE ok = FALSE
  <2>1. With(<<FALSE>>)' = With(<<FALSE>>) \cup {a} /\ With(<<TRUE>>)' = With(<<TRUE>>)
    BY <1>4, <1>5, <1>8, <1>10 DEF With
  <2>2. UpToDate' = UpToDate
    BY <1>2 DEF UpToDate
  <2>3. QED
    BY <1>4, <1>5, <1>7, <2>1, <2>2 DEF Shown!Next, Shown!Verdict
<1>11. QED
  BY <1>9, <1>10

LEMMA FinishRollout ==
  ASSUME UpdateInv, NEW p \in Posts, Finish(p)
  PROVE  Shown!Next
<1>1. TypeOK /\ StatusInv
  BY DEF UpdateInv, ForceInv
<1> DEFINE k == Cardinality(Succeeded)
<1>2. /\ ppc[p] = "running" /\ \A a \in Agents : sig[p][a] \in {"none", "done"}
      /\ status' = [status EXCEPT !.running = FALSE, !.ok = k]
      /\ ppc' = [ppc EXCEPT ![p] = "over"]
      /\ UNCHANGED <<exe, unlisted>>
  BY DEF Finish, Finishes, Over, hostVars
<1>3. k \in Nat /\ k = Cardinality(With(<<TRUE>>))
  BY <1>1, Counts, ThreeResults DEF Succeeded
<1> HIDE DEF k
<1>4. /\ status' \in Statuses /\ status'.running = FALSE /\ status'.total = status.total
      /\ status'.ok = k /\ status'.results = status.results
  <2>1. status \in Statuses
    BY <1>1 DEF TypeOK
  <2>2. status' = [status EXCEPT !.running = FALSE, !.ok = k]
    BY <1>2
  <2>3. QED
    BY <1>3, <2>1, <2>2 DEF Statuses
<1>5. status.running /\ \A q \in Posts : ppc[q] = "running" => q = p
  BY <1>1, <1>2 DEF StatusInv
<1>6. Owed = {}
  BY <1>2, <1>5 DEF Owed
<1>7. Owed' = {}
  <2>1. \A q \in Posts : ppc'[q] # "running"
    BY <1>1, <1>2, <1>5 DEF TypeOK
  <2>2. QED
    BY <2>1 DEF Owed
<1>8. With(<<TRUE>>)' = With(<<TRUE>>) /\ With(<<FALSE>>)' = With(<<FALSE>>) /\ UpToDate' = UpToDate
  BY <1>2, <1>4 DEF With, UpToDate
<1>9. status.running /\ ~status'.running
  BY <1>4, <1>5
<1>10. Shown!Close
  BY <1>3, <1>4, <1>6, <1>7, <1>8, <1>9, Zenon DEF Shown!Close, Cardinality, Shown!Cardinality
<1>11. QED
  BY <1>10 DEF Shown!Next

LEMMA RolloutStep == UpdateInv /\ [Next]_vars => [Shown!Next]_(Shown!vars)
<1> SUFFICES ASSUME UpdateInv, [Next]_vars
             PROVE  Shown!Next
  OBVIOUS
<1>1. CASE UNCHANGED vars
  <2>1. UNCHANGED <<status, ppc, sig, exe, unlisted>>
    BY <1>1 DEF vars, forceVars, hostVars
  <2>2. QED
    BY <2>1, Unnoticed DEF Lively, Good
<1>2. ASSUME NEW u \in Updaters, UpdaterStep(u) \/ Begin(u)
      PROVE  Shown!Next
  BY <1>2, UpdaterUnnoticed, FaultsRollout DEF UpdaterStep
<1>3. ASSUME NEW p \in Posts, PostStep(p) \/ \E a \in Agents : SignalTimesOut(p, a)
      PROVE  Shown!Next
  BY <1>3, SignalsUnnoticed, StartRollout, ReportRollout, FinishRollout DEF PostStep
<1>4. CASE (\E a \in Agents : SessionEnds(a) \/ Reconnects(a)) \/ \E h \in Hosts : Crash(h)
  BY <1>4, FaultsRollout
<1>5. QED
  BY <1>1, <1>2, <1>3, <1>4 DEF Next

\* The force updates implement Rollout: whatever two requests, sessions, deadlines, crashes
\* and answers do, the status gives each agent that was listed one verdict, calls none
\* updated that is not, and closes when no verdict is owed (update.go:66, 122, 141).
THEOREM RolloutRefinement == Spec => ImplementsRollout
<1>1. UpdateInv /\ [Next]_vars => [Shown!Next]_(Shown!vars)
  BY RolloutStep
<1>2. QED
  BY <1>1, RolloutInit, UpdateInvariant, PTL DEF Spec, ImplementsRollout, Shown!Spec
=============================================================================
