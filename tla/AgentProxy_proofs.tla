------------------------- MODULE AgentProxy_proofs -------------------------
(***************************************************************************)
(* Proofs about AgentProxy, for every set of requests and every number of  *)
(* logins.                                                                 *)
(*                                                                         *)
(* ProgressInv says, for each request, what its place in the code tells of *)
(* the panel's part in it; SessionInv orders the session a request has     *)
(* dropped before whatever is cached afterwards.  With TypeOK they are     *)
(* inductive, and with them every step is one of PanelRequest or a stutter.*)
(***************************************************************************)
EXTENDS AgentProxy, TLAPS

\* Nothing is carried out before the answer of the panel, nor if it turned the request
\* away; the master is told at the end, and of a success only if there was one.
Progress(r) ==
  /\ pc[r] \in {"inject", "sent"} => executed[r] = 0
  /\ reply[r] \in {"login", "unauth"} => executed[r] = 0
  /\ r \in Upgrades /\ attempt[r] = 0 => executed[r] = 0
  /\ pc[r] = "replied" /\ reply[r] = "ok" /\ ~Asks(r) => executed[r] = 1
  /\ pc[r] = "replied" => reply[r] # "none"
  /\ pc[r] # "done" => answers[r] = {}

ProgressInv == \A r \in Requests : Progress(r)

\* Sessions a request knows have been issued; one that it dropped is older than the
\* cached one; one that the panel refused is ended or none.
Ordered(r) ==
  /\ injected[r] <= issued /\ first[r] <= issued
  /\ r \notin Upgrades /\ attempt[r] = 1 =>
       /\ cache = 0 \/ cache > first[r]
       /\ pc[r] # "inject" /\ injected[r] # 0 => injected[r] > first[r]
  /\ pc[r] \in {"replied", "done"} /\ reply[r] \in {"login", "unauth"} => injected[r] \in {0} \cup ended
  /\ "ok" \in answers[r] /\ r \in Upgrades => cache = 0 \/ cache > injected[r]
  /\ "login" \in answers[r] /\ r \notin Upgrades =>
       pc[r] = "done" /\ reply[r] = "login" /\ ~Retries(r)

SessionInv == \A r \in Requests : Ordered(r)

ProxyInv == TypeOK /\ ProgressInv /\ SessionInv

\* How the sessions may change in a step: one more is issued and cached, the cache is
\* emptied, some are ended.
SessionsMove ==
  /\ \/ issued' = issued /\ cache' \in {cache, 0}
     \/ issued' = issued + 1 /\ cache' = issued + 1 /\ issued < MaxLogins
  /\ cooling' \in BOOLEAN
  /\ ended \subseteq ended' /\ ended' \subseteq 1 .. issued'
  /\ UNCHANGED given

\* A step of r leaves what is recorded of the other requests alone.
OnlyOf(r) ==
  \A q \in Requests \ {r} :
    /\ pc'[q] = pc[q] /\ attempt'[q] = attempt[q] /\ injected'[q] = injected[q]
    /\ reply'[q] = reply[q] /\ first'[q] = first[q] /\ executed'[q] = executed[q]
    /\ answers'[q] = answers[q]

RecordsTyped ==
  /\ pc \in [Requests -> {"inject", "sent", "replied", "done"}]
  /\ attempt \in [Requests -> {0, 1}]
  /\ injected \in [Requests -> Sessions] /\ first \in [Requests -> Sessions]
  /\ reply \in [Requests -> Replies \cup {"none"}]
  /\ executed \in [Requests -> {0, 1}]
  /\ answers \in [Requests -> SUBSET Answers]

-----------------------------------------------------------------------------
LEMMA Changed ==
  ASSUME NEW S, NEW T, NEW f \in [S -> T], NEW r \in S, NEW v \in T
  PROVE  /\ [f EXCEPT ![r] = v] \in [S -> T]
         /\ [f EXCEPT ![r] = v][r] = v
         /\ \A q \in S \ {r} : [f EXCEPT ![r] = v][q] = f[q]
OBVIOUS

LEMMA SessionTypes ==
  TypeOK => /\ issued \in Nat /\ issued <= MaxLogins /\ cache \in Nat /\ cache <= issued
            /\ RecordsTyped
            /\ \A r \in Requests : injected[r] \in Nat /\ first[r] \in Nat
BY LoginsAssumption DEF TypeOK, Sessions, RecordsTyped

LEMMA SessionsTyped ==
  ASSUME TypeOK, SessionsMove
  PROVE  /\ cache' \in 0 .. issued' /\ issued' \in Sessions /\ issued <= issued'
         /\ cache' = cache \/ cache' = 0 \/ (cache' = issued + 1 /\ issued' = issued + 1)
         /\ ended' \subseteq 1 .. issued'
BY SessionTypes, LoginsAssumption DEF SessionsMove, TypeOK, Sessions

\* The order of the sessions survives what happens to the cache.
LEMMA OtherOrdered ==
  ASSUME TypeOK, SessionsMove, NEW q \in Requests, Ordered(q), Progress(q),
         pc'[q] = pc[q], attempt'[q] = attempt[q], injected'[q] = injected[q],
         reply'[q] = reply[q], first'[q] = first[q], executed'[q] = executed[q],
         answers'[q] = answers[q]
  PROVE  Ordered(q)' /\ Progress(q)'
<1>1. /\ issued \in Nat /\ cache \in Nat /\ injected[q] \in Nat /\ first[q] \in Nat
      /\ issued' \in Nat /\ issued <= issued'
      /\ cache' = cache \/ cache' = 0 \/ cache' = issued + 1
  BY SessionTypes, SessionsTyped, LoginsAssumption DEF Sessions
<1>2. ended \subseteq ended' /\ UNCHANGED <<hasUser, sockets>>
  BY DEF SessionsMove, given
<1>3. Retries(q)' <=> Retries(q)
  BY <1>2 DEF Retries
<1>4. Ordered(q)'
  BY <1>1, <1>2, <1>3 DEF Ordered
<1>5. Progress(q)'
  BY DEF Progress, Asks
<1>6. QED
  BY <1>4, <1>5

\* It is enough to look at the request that moves.
LEMMA OneMoves ==
  ASSUME ProxyInv, SessionsMove, NEW r \in Requests, OnlyOf(r), RecordsTyped',
         Progress(r)', Ordered(r)'
  PROVE  ProxyInv'
<1>1. TypeOK /\ \A q \in Requests : Progress(q) /\ Ordered(q)
  BY DEF ProxyInv, ProgressInv, SessionInv
<1>2. TypeOK'
  <2>1. /\ hasUser' \in BOOLEAN /\ configured' \in BOOLEAN
        /\ sockets' \subseteq Requests \ Upgrades /\ cooling' \in BOOLEAN
    BY <1>1 DEF TypeOK, SessionsMove, given
  <2>2. QED
    BY <1>1, <2>1, SessionsTyped DEF TypeOK, RecordsTyped
<1>3. ASSUME NEW q \in Requests \ {r} PROVE Progress(q)' /\ Ordered(q)'
  BY <1>1, OtherOrdered DEF OnlyOf
<1>4. \A q \in Requests : Progress(q)' /\ Ordered(q)'
  BY <1>3
<1>5. QED
  BY <1>2, <1>4 DEF ProxyInv, ProgressInv, SessionInv

\* What getSessionCookies does and returns.
LEMMA GetSessionMoves ==
  ASSUME TypeOK, NEW s \in Sessions, GetSession(s), UNCHANGED <<given, ended>>
  PROVE  /\ SessionsMove
         /\ s = 0 \/ (s = cache' /\ (s = cache \/ s = issued + 1))
         /\ s <= issued'
<1>1. issued \in Nat /\ cache \in Nat /\ cache <= issued /\ ended \subseteq 1 .. issued /\ cooling \in BOOLEAN
  BY SessionTypes DEF TypeOK
<1>2. CASE NoSession /\ s = 0
  BY <1>1, <1>2 DEF NoSession, sessVars, SessionsMove
<1>3. CASE UseCached /\ s = cache
  BY <1>1, <1>3 DEF UseCached, sessVars, SessionsMove
<1>4. CASE LoginSucceeds /\ s = cache'
  BY <1>1, <1>4 DEF LoginSucceeds, SessionsMove
<1>5. CASE LoginFails /\ s = 0
  BY <1>1, <1>5 DEF LoginFails, SessionsMove
<1>6. QED
  BY <1>2, <1>3, <1>4, <1>5 DEF GetSession

LEMMA ClearMoves ==
  ASSUME TypeOK, ClearSession, UNCHANGED <<given, ended>>
  PROVE  SessionsMove /\ cache' = 0 /\ issued' = issued
BY SessionTypes DEF ClearSession, SessionsMove, TypeOK

LEMMA SameMoves ==
  ASSUME TypeOK, UNCHANGED <<given, sessVars, ended>>
  PROVE  SessionsMove /\ cache' = cache /\ issued' = issued
BY SessionTypes DEF sessVars, SessionsMove, TypeOK

-----------------------------------------------------------------------------
(***************************************************************************)
(* The steps.                                                              *)
(***************************************************************************)
LEMMA InitHolds == Init => ProxyInv
<1> SUFFICES ASSUME Init
             PROVE  ProxyInv
  OBVIOUS
<1>1. TypeOK
  <2>1. 0 \in Sessions /\ cache \in 0 .. issued /\ issued \in Sessions /\ ended \subseteq 1 .. issued
    BY LoginsAssumption DEF Init, Sessions
  <2>2. RecordsTyped
    BY <2>1 DEF Init, RecordsTyped
  <2>3. QED
    BY <2>1, <2>2 DEF Init, TypeOK, RecordsTyped
<1>2. ProgressInv
  BY DEF Init, ProgressInv, Progress
<1>3. SessionInv
  <2>1. SUFFICES ASSUME NEW r \in Requests
                 PROVE  Ordered(r)
    BY DEF SessionInv
  <2>2. /\ issued = 0 /\ injected[r] = 0 /\ first[r] = 0 /\ attempt[r] = 0
        /\ pc[r] = "inject" /\ answers[r] = {}
    BY DEF Init
  <2>3. QED
    BY <2>2 DEF Ordered
<1>4. QED
  BY <1>1, <1>2, <1>3 DEF ProxyInv

\* The injected session is newer than the one the first attempt went with.
LEMMA InjectKeeps == ASSUME ProxyInv, NEW r \in Requests, Inject(r) PROVE ProxyInv'
<1>1. TypeOK /\ RecordsTyped /\ Progress(r) /\ Ordered(r)
  BY SessionTypes DEF ProxyInv, ProgressInv, SessionInv
<1>2. PICK s \in Sessions :
        /\ GetSession(s)
        /\ injected' = [injected EXCEPT ![r] = s]
        /\ first' = [first EXCEPT ![r] = IF attempt[r] = 0 THEN s ELSE @]
        /\ \/ r \in Upgrades /\ s = 0 /\ pc' = [pc EXCEPT ![r] = "replied"]
              /\ reply' = [reply EXCEPT ![r] = "error"]
           \/ pc' = [pc EXCEPT ![r] = "sent"] /\ reply' = reply
  BY DEF Inject
<1>3. UNCHANGED <<given, ended, attempt, executed, answers>> /\ pc[r] = "inject"
  BY DEF Inject
<1>4. SessionsMove /\ (s = 0 \/ (s = cache' /\ (s = cache \/ s = issued + 1))) /\ s <= issued'
  BY <1>1, <1>2, <1>3, GetSessionMoves
<1>5. /\ injected' \in [Requests -> Sessions] /\ injected'[r] = s
      /\ \A q \in Requests \ {r} : injected'[q] = injected[q]
  BY <1>1, <1>2, Changed DEF RecordsTyped
<1>6. /\ first' \in [Requests -> Sessions]
      /\ first'[r] = IF attempt[r] = 0 THEN s ELSE first[r]
      /\ \A q \in Requests \ {r} : first'[q] = first[q]
  <2> DEFINE v == IF attempt[r] = 0 THEN s ELSE first[r]
  <2>1. v \in Sessions /\ first' = [first EXCEPT ![r] = v]
    BY <1>1, <1>2 DEF RecordsTyped
  <2> HIDE DEF v
  <2>2. first' \in [Requests -> Sessions] /\ first'[r] = v /\ \A q \in Requests \ {r} : first'[q] = first[q]
    BY <1>1, <2>1, Changed DEF RecordsTyped
  <2>3. QED
    BY <2>2 DEF v
<1>7. /\ pc' \in [Requests -> {"inject", "sent", "replied", "done"}]
      /\ \/ pc'[r] = "sent" /\ reply'[r] = reply[r]
         \/ pc'[r] = "replied" /\ reply'[r] = "error"
      /\ reply' \in [Requests -> Replies \cup {"none"}]
      /\ \A q \in Requests \ {r} : pc'[q] = pc[q] /\ reply'[q] = reply[q]
  BY <1>1, <1>2 DEF RecordsTyped, Replies
<1>8. OnlyOf(r) /\ RecordsTyped'
  BY <1>1, <1>3, <1>5, <1>6, <1>7 DEF OnlyOf, RecordsTyped
<1>9. Progress(r)'
  BY <1>1, <1>3, <1>7 DEF Progress, Asks
<1>10. Ordered(r)'
  <2>1. issued \in Nat /\ cache \in Nat /\ first[r] \in Nat /\ issued <= issued' /\ issued' \in Nat /\ s \in Nat
        /\ (cache' = cache \/ cache' = 0 \/ cache' = issued + 1)
    BY <1>1, <1>4, SessionTypes, SessionsTyped, LoginsAssumption DEF Sessions
  <2>2. answers'[r] = {} /\ attempt'[r] = attempt[r] /\ attempt[r] \in {0, 1}
    BY <1>1, <1>3 DEF Progress, RecordsTyped
  <2>3. ~(pc'[r] \in {"replied", "done"} /\ reply'[r] \in {"login", "unauth"})
    BY <1>7
  <2>4. r \notin Upgrades /\ attempt[r] = 1 =>
          (cache' = 0 \/ cache' > first[r]) /\ (s # 0 => s > first[r])
    BY <1>1, <1>4, <2>1 DEF Ordered
  <2>5. QED
    BY <1>1, <1>4, <1>5, <1>6, <2>1, <2>2, <2>3, <2>4 DEF Ordered
<1>11. QED
  BY <1>4, <1>8, <1>9, <1>10, OneMoves

LEMMA PanelRepliesKeeps == ASSUME ProxyInv, NEW r \in Requests, PanelReplies(r) PROVE ProxyInv'
<1>1. TypeOK /\ RecordsTyped /\ Progress(r) /\ Ordered(r)
  BY SessionTypes DEF ProxyInv, ProgressInv, SessionInv
<1>2. PICK p \in Replies :
        /\ reply' = [reply EXCEPT ![r] = p]
        /\ IF injected[r] \in (1 .. issued) \ ended
           THEN /\ p \in {"ok", "error"}
                /\ \/ ~Asks(r) /\ executed' = [executed EXCEPT ![r] = @ + 1]
                   \/ (Asks(r) \/ p = "error") /\ executed' = executed
           ELSE p # "ok" /\ executed' = executed
  BY DEF PanelReplies
<1>3. pc[r] = "sent" /\ pc' = [pc EXCEPT ![r] = "replied"]
      /\ UNCHANGED <<given, sessVars, ended, attempt, injected, first, answers>>
  BY DEF PanelReplies
<1>4. SessionsMove /\ cache' = cache /\ issued' = issued /\ ended' = ended
  BY <1>1, <1>3, SameMoves
<1>5. executed[r] = 0
  BY <1>1, <1>3 DEF Progress
<1>6. /\ pc' \in [Requests -> {"inject", "sent", "replied", "done"}] /\ pc'[r] = "replied"
      /\ reply' \in [Requests -> Replies \cup {"none"}] /\ reply'[r] = p
      /\ \A q \in Requests \ {r} : pc'[q] = pc[q] /\ reply'[q] = reply[q]
  BY <1>1, <1>2, <1>3 DEF RecordsTyped
<1>7. executed' = executed \/ executed' = [executed EXCEPT ![r] = 1]
  BY <1>1, <1>2, <1>5 DEF RecordsTyped
<1>8. /\ executed' \in [Requests -> {0, 1}]
      /\ \A q \in Requests \ {r} : executed'[q] = executed[q]
  BY <1>1, <1>7 DEF RecordsTyped
<1>9. /\ p \in {"login", "unauth"} => executed'[r] = 0
      /\ Asks(r) => executed'[r] = 0
      /\ p = "ok" /\ ~Asks(r) => executed'[r] = 1
  BY <1>1, <1>2, <1>5 DEF RecordsTyped
<1>10. OnlyOf(r) /\ RecordsTyped'
  BY <1>1, <1>3, <1>6, <1>8 DEF OnlyOf, RecordsTyped
<1>11. Progress(r)'
  <2>1. p # "none" /\ answers[r] = {}
    BY <1>1, <1>3 DEF Replies, Progress
  <2>2. Asks(r)' <=> Asks(r)
    BY <1>3 DEF Asks
  <2>3. QED
    BY <1>3, <1>6, <1>9, <2>1, <2>2 DEF Progress, Asks
<1>12. Ordered(r)'
  <2>1. injected[r] \in Nat /\ issued \in Nat /\ injected[r] <= issued
    BY <1>1, SessionTypes DEF Ordered
  <2>2. p \in {"login", "unauth"} => injected[r] \in {0} \cup ended
    BY <1>2, <2>1
  <2>3. answers[r] = {}
    BY <1>1, <1>3 DEF Progress
  <2>4. QED
    BY <1>1, <1>3, <1>4, <1>6, <2>2, <2>3 DEF Ordered
<1>13. QED
  BY <1>4, <1>10, <1>11, <1>12, OneMoves

\* The second attempt starts with an empty cache and nothing carried out.
LEMMA RetryKeeps == ASSUME ProxyInv, NEW r \in Requests, Retry(r) PROVE ProxyInv'
<1>1. TypeOK /\ RecordsTyped /\ Progress(r) /\ Ordered(r)
  BY SessionTypes DEF ProxyInv, ProgressInv, SessionInv
<1>2. /\ pc[r] = "replied" /\ Retries(r) /\ ClearSession
      /\ attempt' = [attempt EXCEPT ![r] = @ + 1]
      /\ pc' = [pc EXCEPT ![r] = "inject"]
      /\ reply' = [reply EXCEPT ![r] = "none"]
      /\ UNCHANGED <<given, ended, injected, first, executed, answers>>
  BY DEF Retry
<1>3. SessionsMove /\ cache' = 0 /\ issued' = issued /\ ended' = ended
  BY <1>1, <1>2, ClearMoves
<1>4. attempt[r] = 0 /\ reply[r] \in {"login", "unauth"} /\ r \notin Upgrades
  BY <1>2 DEF Retries
<1>5. attempt' = [attempt EXCEPT ![r] = 1]
  BY <1>2, <1>4
<1>6. /\ pc' \in [Requests -> {"inject", "sent", "replied", "done"}] /\ pc'[r] = "inject"
      /\ reply' \in [Requests -> Replies \cup {"none"}] /\ reply'[r] = "none"
      /\ attempt' \in [Requests -> {0, 1}] /\ attempt'[r] = 1
      /\ \A q \in Requests \ {r} : pc'[q] = pc[q] /\ reply'[q] = reply[q] /\ attempt'[q] = attempt[q]
  BY <1>1, <1>2, <1>5 DEF RecordsTyped
<1>7. executed[r] = 0 /\ answers[r] = {}
  BY <1>1, <1>2, <1>4 DEF Progress
<1>8. OnlyOf(r) /\ RecordsTyped'
  BY <1>1, <1>2, <1>6 DEF OnlyOf, RecordsTyped
<1>9. Progress(r)'
  BY <1>2, <1>4, <1>6, <1>7 DEF Progress, Asks
<1>10. Ordered(r)'
  BY <1>1, <1>2, <1>3, <1>6, <1>7 DEF Ordered
<1>11. QED
  BY <1>3, <1>8, <1>9, <1>10, OneMoves

LEMMA AnswerKeeps == ASSUME ProxyInv, NEW r \in Requests, Answer(r) PROVE ProxyInv'
<1>1. TypeOK /\ RecordsTyped /\ Progress(r) /\ Ordered(r)
  BY SessionTypes DEF ProxyInv, ProgressInv, SessionInv
<1>2. /\ pc[r] = "replied" /\ r \notin Upgrades /\ ~Retries(r)
      /\ answers' = [answers EXCEPT ![r] = @ \cup {reply[r]}]
      /\ pc' = [pc EXCEPT ![r] = "done"]
      /\ UNCHANGED <<given, sessVars, ended, attempt, injected, reply, first, executed>>
  BY DEF Answer
<1>3. SessionsMove /\ cache' = cache /\ issued' = issued /\ ended' = ended
  BY <1>1, <1>2, SameMoves
<1>4. answers[r] = {}
  BY <1>1, <1>2 DEF Progress
<1>5. reply[r] \in Answers \cup {"none"}
  BY <1>1 DEF RecordsTyped, Answers
<1>6. CASE reply[r] = "none"
  BY <1>1, <1>2, <1>6 DEF Progress
<1>7. CASE reply[r] # "none"
  <2>1. answers' = [answers EXCEPT ![r] = {reply[r]}]
    BY <1>1, <1>2, <1>4 DEF RecordsTyped
  <2>2. /\ pc' \in [Requests -> {"inject", "sent", "replied", "done"}] /\ pc'[r] = "done"
        /\ \A q \in Requests \ {r} : pc'[q] = pc[q]
    BY <1>1, <1>2 DEF RecordsTyped
  <2>3. /\ answers' \in [Requests -> SUBSET Answers] /\ answers'[r] = {reply[r]}
        /\ \A q \in Requests \ {r} : answers'[q] = answers[q]
    BY <1>1, <1>5, <1>7, <2>1 DEF RecordsTyped
  <2>4. OnlyOf(r) /\ RecordsTyped'
    BY <1>1, <1>2, <2>2, <2>3 DEF OnlyOf, RecordsTyped
  <2>5. Progress(r)'
    BY <1>1, <1>2, <2>2 DEF Progress, Asks
  <2>6. Retries(r)' <=> Retries(r)
    BY <1>2 DEF Retries, given
  <2>7. Ordered(r)'
    BY <1>1, <1>2, <1>3, <2>2, <2>3, <2>6 DEF Ordered
  <2>8. QED
    BY <1>3, <2>4, <2>5, <2>7, OneMoves
<1>8. QED
  BY <1>6, <1>7

\* An upgrade is answered; of a success, with an empty cache.
LEMMA UpgradeAnswersKeeps ==
  ASSUME ProxyInv, NEW u \in Upgrades, NEW p \in Answers \ {"login"}, UpgradeAnswers(u, p),
         pc[u] = "replied", SessionsMove,
         p = "ok" => cache' = 0
  PROVE  ProxyInv'
<1>1. TypeOK /\ RecordsTyped /\ Progress(u) /\ Ordered(u) /\ u \in Requests
  BY SessionTypes, UpgradesAssumption DEF ProxyInv, ProgressInv, SessionInv
<1>2. /\ answers' = [answers EXCEPT ![u] = @ \cup {p}]
      /\ pc' = [pc EXCEPT ![u] = "done"]
      /\ UNCHANGED <<given, ended, attempt, injected, reply, first, executed>>
  BY DEF UpgradeAnswers
<1>3. answers[u] = {}
  BY <1>1 DEF Progress
<1>4. answers' = [answers EXCEPT ![u] = {p}]
  BY <1>1, <1>2, <1>3 DEF RecordsTyped
<1>5. /\ pc' \in [Requests -> {"inject", "sent", "replied", "done"}] /\ pc'[u] = "done"
      /\ answers' \in [Requests -> SUBSET Answers] /\ answers'[u] = {p}
      /\ \A q \in Requests \ {u} : pc'[q] = pc[q] /\ answers'[q] = answers[q]
  BY <1>1, <1>2, <1>4 DEF RecordsTyped
<1>6. OnlyOf(u) /\ RecordsTyped'
  BY <1>1, <1>2, <1>5 DEF OnlyOf, RecordsTyped
<1>7. Progress(u)'
  BY <1>1, <1>2, <1>5 DEF Progress, Asks
<1>8. Ordered(u)'
  <2>1. issued \in Nat /\ issued' \in Nat /\ issued <= issued' /\ injected[u] \in Nat /\ first[u] \in Nat
    BY <1>1, SessionTypes, SessionsTyped, LoginsAssumption DEF Sessions
  <2>2. QED
    BY <1>1, <1>2, <1>5, <2>1 DEF Ordered
<1>9. QED
  BY <1>1, <1>6, <1>7, <1>8, OneMoves

LEMMA UpgradeEndsKeeps ==
  ASSUME ProxyInv, NEW u \in Requests, UpgradeFails(u) \/ UpgradeSkips(u) \/ UpgradeStarted(u)
  PROVE  ProxyInv'
<1>1. TypeOK
  BY DEF ProxyInv
<1>2. "error" \in Answers \ {"login"} /\ "skipped" \in Answers \ {"login"} /\ "ok" \in Answers \ {"login"}
  BY DEF Answers, Replies
<1>3. CASE UpgradeFails(u)
  <2>1. u \in Upgrades /\ pc[u] = "replied" /\ UpgradeAnswers(u, "error") /\ UNCHANGED sessVars
    BY <1>3 DEF UpgradeFails
  <2>2. SessionsMove
    BY <1>1, <2>1, SameMoves DEF UpgradeAnswers
  <2>3. QED
    BY <1>2, <2>1, <2>2, UpgradeAnswersKeeps
<1>4. CASE UpgradeSkips(u)
  <2>1. u \in Upgrades /\ pc[u] = "replied" /\ UpgradeAnswers(u, "skipped") /\ UNCHANGED sessVars
    BY <1>4 DEF UpgradeSkips, Asks
  <2>2. SessionsMove
    BY <1>1, <2>1, SameMoves DEF UpgradeAnswers
  <2>3. QED
    BY <1>2, <2>1, <2>2, UpgradeAnswersKeeps
<1>5. CASE UpgradeStarted(u)
  <2>1. u \in Upgrades /\ pc[u] = "replied" /\ UpgradeAnswers(u, "ok") /\ ClearSession
    BY <1>5 DEF UpgradeStarted
  <2>2. SessionsMove /\ cache' = 0
    BY <1>1, <2>1, ClearMoves DEF UpgradeAnswers
  <2>3. QED
    BY <1>2, <2>1, <2>2, UpgradeAnswersKeeps
<1>6. QED
  BY <1>3, <1>4, <1>5

LEMMA UpgradePostsKeeps == ASSUME ProxyInv, NEW u \in Requests, UpgradePosts(u) PROVE ProxyInv'
<1>1. TypeOK /\ RecordsTyped /\ Progress(u) /\ Ordered(u)
  BY SessionTypes DEF ProxyInv, ProgressInv, SessionInv
<1>2. /\ pc[u] = "replied" /\ u \in Upgrades /\ attempt[u] = 0
      /\ attempt' = [attempt EXCEPT ![u] = 1]
      /\ pc' = [pc EXCEPT ![u] = "sent"]
      /\ reply' = [reply EXCEPT ![u] = "none"]
      /\ UNCHANGED <<given, sessVars, ended, injected, first, executed, answers>>
  BY DEF UpgradePosts, Asks
<1>3. SessionsMove /\ cache' = cache /\ issued' = issued
  BY <1>1, <1>2, SameMoves
<1>4. /\ pc' \in [Requests -> {"inject", "sent", "replied", "done"}] /\ pc'[u] = "sent"
      /\ reply' \in [Requests -> Replies \cup {"none"}] /\ reply'[u] = "none"
      /\ attempt' \in [Requests -> {0, 1}] /\ attempt'[u] = 1
      /\ \A q \in Requests \ {u} : pc'[q] = pc[q] /\ reply'[q] = reply[q] /\ attempt'[q] = attempt[q]
  BY <1>1, <1>2 DEF RecordsTyped
<1>5. executed[u] = 0 /\ answers[u] = {}
  BY <1>1, <1>2 DEF Progress
<1>6. OnlyOf(u) /\ RecordsTyped'
  BY <1>1, <1>2, <1>4 DEF OnlyOf, RecordsTyped
<1>7. Progress(u)'
  BY <1>2, <1>4, <1>5 DEF Progress, Asks
<1>8. Ordered(u)'
  BY <1>1, <1>2, <1>3, <1>4, <1>5 DEF Ordered
<1>9. QED
  BY <1>3, <1>6, <1>7, <1>8, OneMoves

\* Time, and the panel ending a session.
LEMMA OutsideKeeps ==
  ASSUME ProxyInv, SessionsMove, UNCHANGED reqVars
  PROVE  ProxyInv'
<1>1. TypeOK /\ RecordsTyped /\ \A q \in Requests : Progress(q) /\ Ordered(q)
  BY SessionTypes DEF ProxyInv, ProgressInv, SessionInv
<1>2. TypeOK'
  <2>1. /\ hasUser' \in BOOLEAN /\ configured' \in BOOLEAN
        /\ sockets' \subseteq Requests \ Upgrades /\ cooling' \in BOOLEAN
    BY <1>1 DEF TypeOK, SessionsMove, given
  <2>2. QED
    BY <1>1, <2>1, SessionsTyped DEF TypeOK, RecordsTyped, reqVars
<1>3. ASSUME NEW q \in Requests PROVE Progress(q)' /\ Ordered(q)'
  BY <1>1, OtherOrdered DEF reqVars
<1>4. QED
  BY <1>2, <1>3 DEF ProxyInv, ProgressInv, SessionInv

LEMMA ProxyStep == ProxyInv /\ [Next]_vars => ProxyInv'
<1> SUFFICES ASSUME ProxyInv, [Next]_vars
             PROVE  ProxyInv'
  OBVIOUS
<1>1. TypeOK
  BY DEF ProxyInv
<1>2. ASSUME NEW r \in Requests, RequestStep(r)
      PROVE  ProxyInv'
  BY <1>2, InjectKeeps, PanelRepliesKeeps, RetryKeeps, AnswerKeeps, UpgradeEndsKeeps, UpgradePostsKeeps
     DEF RequestStep
<1>3. ASSUME CacheExpires \/ CooldownEnds \/ UNCHANGED vars
      PROVE  SessionsMove /\ UNCHANGED reqVars
  BY <1>1, <1>3, SessionTypes DEF CacheExpires, CooldownEnds, vars, sessVars, SessionsMove, TypeOK
<1>4. ASSUME NEW s \in Sessions, PanelEnds(s)
      PROVE  SessionsMove /\ UNCHANGED reqVars
  BY <1>1, <1>4, SessionTypes DEF PanelEnds, sessVars, SessionsMove, TypeOK
<1>5. QED
  BY <1>2, <1>3, <1>4, OutsideKeeps DEF Next

-----------------------------------------------------------------------------
THEOREM ProxyInvariant == Spec => []ProxyInv
BY InitHolds, ProxyStep, PTL DEF Spec

\* Every variable keeps its type; no request is carried out twice.
THEOREM TypeCorrect == Spec => []TypeOK
<1>1. ProxyInv => TypeOK
  BY DEF ProxyInv
<1>2. QED
  BY <1>1, ProxyInvariant, PTL

\* A session that was dropped is not used again.
THEOREM DroppedForGood == Spec => []DroppedSessionIsGone
<1>1. ProxyInv => DroppedSessionIsGone
  <2>1. SUFFICES ASSUME ProxyInv
                 PROVE  DroppedSessionIsGone
    OBVIOUS
  <2>2. \A r \in Requests : Ordered(r)
    BY <2>1 DEF ProxyInv, SessionInv
  <2>3. ASSUME NEW r \in Requests \ Upgrades, attempt[r] = 1, pc[r] # "inject", injected[r] # 0
        PROVE  injected[r] > first[r]
    BY <2>2, <2>3 DEF Ordered
  <2>4. ASSUME NEW u \in Upgrades, "ok" \in answers[u]
        PROVE  cache = 0 \/ cache > injected[u]
    BY <2>2, <2>4, UpgradesAssumption DEF Ordered
  <2>5. QED
    BY <2>3, <2>4 DEF DroppedSessionIsGone
<1>2. QED
  BY <1>1, ProxyInvariant, PTL

\* An agent with a panel user shows a login page only when it has no valid session to offer.
THEOREM LastResort == Spec => []LoginPageIsLastResort
<1>1. ProxyInv => LoginPageIsLastResort
  <2>1. SUFFICES ASSUME ProxyInv, NEW r \in Requests \ (sockets \cup Upgrades), hasUser,
                        "login" \in answers[r]
                 PROVE  attempt[r] = 1 /\ injected[r] \in {0} \cup ended
    BY DEF LoginPageIsLastResort
  <2>2. Ordered(r) /\ attempt[r] \in {0, 1} /\ r \notin Upgrades
    BY <2>1 DEF ProxyInv, SessionInv, TypeOK
  <2>3. pc[r] = "done" /\ reply[r] = "login" /\ ~Retries(r)
    BY <2>1, <2>2 DEF Ordered
  <2>4. injected[r] \in {0} \cup ended
    BY <2>2, <2>3 DEF Ordered
  <2>5. attempt[r] # 0
    BY <2>1, <2>3 DEF Retries
  <2>6. QED
    BY <2>2, <2>4, <2>5
<1>2. QED
  BY <1>1, ProxyInvariant, PTL

-----------------------------------------------------------------------------
(***************************************************************************)
(* AgentProxy implements PanelRequest.                                     *)
(***************************************************************************)
LEMMA AnswerIsAnswer ==
  ASSUME ProxyInv, NEW r \in Requests, NEW a \in Answers, answers[r] = {},
         answers' = [answers EXCEPT ![r] = @ \cup {a}], executed' = executed,
         a = "ok" => executed[r] = 1
  PROVE  Contract!Answer(r)
<1>1. answers' = [answers EXCEPT ![r] = {a}]
  BY DEF ProxyInv, TypeOK
<1>2. QED
  BY <1>1 DEF Contract!Answer, Contract!Open

LEMMA StepRefines == ProxyInv /\ [Next]_vars => [Contract!Next]_(Contract!vars)
<1> SUFFICES ASSUME ProxyInv, [Next]_vars
             PROVE  Contract!Next \/ UNCHANGED <<executed, answers>>
  BY DEF Contract!vars
<1>1. ASSUME NEW r \in Requests, RequestStep(r)
      PROVE  Contract!CarryOut(r) \/ Contract!Answer(r) \/ UNCHANGED <<executed, answers>>
  <2>1. Progress(r) /\ executed \in [Requests -> {0, 1}] /\ answers \in [Requests -> SUBSET Answers]
        /\ reply[r] \in Replies \cup {"none"}
    BY DEF ProxyInv, ProgressInv, TypeOK
  <2>2. {"error", "skipped", "ok"} \subseteq Answers /\ Replies \subseteq Answers
    BY DEF Answers, Replies
  <2>3. CASE Inject(r) \/ Retry(r) \/ UpgradePosts(r)
    BY <2>3 DEF Inject, Retry, UpgradePosts
  <2>4. CASE PanelReplies(r)
    <3>1. executed[r] = 0 /\ answers[r] = {} /\ answers' = answers
      BY <2>1, <2>4 DEF PanelReplies, Progress
    <3>2. executed' = executed \/ executed' = [executed EXCEPT ![r] = @ + 1]
      BY <2>4 DEF PanelReplies
    <3>3. executed' = executed \/ executed' = [executed EXCEPT ![r] = 1]
      BY <2>1, <3>1, <3>2
    <3>4. QED
      BY <3>1, <3>3 DEF Contract!CarryOut, Contract!Open
  <2>5. CASE Answer(r)
    <3>1. /\ pc[r] = "replied" /\ r \notin Upgrades /\ executed' = executed
          /\ answers' = [answers EXCEPT ![r] = @ \cup {reply[r]}]
      BY <2>5 DEF Answer
    <3>2. reply[r] \in Answers /\ answers[r] = {} /\ (reply[r] = "ok" => executed[r] = 1)
      BY <2>1, <2>2, <3>1 DEF Progress, Asks
    <3>3. QED
      BY <3>1, <3>2, AnswerIsAnswer
  <2>6. CASE UpgradeFails(r)
    <3>1. pc[r] = "replied" /\ executed' = executed /\ answers' = [answers EXCEPT ![r] = @ \cup {"error"}]
      BY <2>6 DEF UpgradeFails, UpgradeAnswers
    <3>2. answers[r] = {}
      BY <2>1, <3>1 DEF Progress
    <3>3. QED
      BY <2>2, <3>1, <3>2, AnswerIsAnswer
  <2>7. CASE UpgradeSkips(r)
    <3>1. pc[r] = "replied" /\ executed' = executed /\ answers' = [answers EXCEPT ![r] = @ \cup {"skipped"}]
      BY <2>7 DEF UpgradeSkips, UpgradeAnswers
    <3>2. answers[r] = {}
      BY <2>1, <3>1 DEF Progress
    <3>3. QED
      BY <2>2, <3>1, <3>2, AnswerIsAnswer
  <2>8. CASE UpgradeStarted(r)
    <3>1. pc[r] = "replied" /\ executed' = executed /\ answers' = [answers EXCEPT ![r] = @ \cup {"ok"}]
          /\ attempt[r] = 1 /\ reply[r] = "ok"
      BY <2>8 DEF UpgradeStarted, UpgradeAnswers
    <3>2. answers[r] = {} /\ executed[r] = 1
      BY <2>1, <3>1 DEF Progress, Asks
    <3>3. QED
      BY <2>2, <3>1, <3>2, AnswerIsAnswer
  <2>9. QED
    BY <1>1, <2>3, <2>4, <2>5, <2>6, <2>7, <2>8 DEF RequestStep
<1>2. ASSUME CacheExpires \/ CooldownEnds \/ (\E s \in Sessions : PanelEnds(s)) \/ UNCHANGED vars
      PROVE  UNCHANGED <<executed, answers>>
  BY <1>2 DEF CacheExpires, CooldownEnds, PanelEnds, vars, reqVars
<1>3. QED
  BY <1>1, <1>2 DEF Next, Contract!Next

\* Whatever is tried again and whichever answer of the panel is lost, each request is
\* carried out once at most, answered once, and told a success only if it was one.
THEOREM Refinement == Spec => ImplementsRequest
<1>1. Init => Contract!Init
  BY DEF Init, Contract!Init
<1>2. QED
  BY <1>1, StepRefines, ProxyInvariant, PTL DEF Spec, ImplementsRequest, Contract!Spec
=============================================================================
