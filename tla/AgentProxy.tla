----------------------------- MODULE AgentProxy -----------------------------
(***************************************************************************)
(* The agent signs in to its own 1Panel and puts that session into every   *)
(* request that comes through the tunnel (agent/client.go: handleHTTP,     *)
(* roundTripPanel, getSessionCookies, clearSession).  The session is       *)
(* cached; a request the panel turns away drops the cache and is tried     *)
(* once more.  Requests run concurrently and share the cache, and so does  *)
(* an upgrade of the panel (agent/panel_upgrade.go, panel/api.go): it asks *)
(* for the version to go to, and then for the upgrade, with one session.   *)
(*                                                                         *)
(* Sessions are numbered as the panel issues them.  Left out: the stream   *)
(* of the request (module TunnelStream), the cookies beside the session,   *)
(* and requests the panel answers without a session.                       *)
(***************************************************************************)
EXTENDS Naturals

CONSTANTS
  Requests,   \* requests under way at the same time
  Upgrades,   \* those of them that upgrade the panel
  MaxLogins   \* bound: sessions the panel issues in a behaviour

ASSUME UpgradesAssumption == Upgrades \subseteq Requests
ASSUME LoginsAssumption == MaxLogins \in Nat

VARIABLES
  hasUser,    \* a panel user is configured
  configured, \* and a password, which can be decrypted
  sockets,    \* the requests that ask for a websocket
  cache,      \* sessCookies, 0 if empty or past sessUntil
  cooling,    \* a login has failed less than 5 seconds ago
  issued,     \* the sessions the panel has issued: 1 .. issued
  ended,      \* those it accepts no more
  pc,         \* progress of a request
  attempt,    \* the loop variable of handleHTTP; an upgrade: 1 once it is asked for
  injected,   \* the session that went with the attempt, 0 if none
  reply,      \* what the panel said to the attempt
  first,      \* history: the session of the first attempt
  executed,   \* history: how often the panel has carried the request out
  answers     \* history: what the master was told, most recent last

sessVars == <<cache, cooling, issued>>
reqVars == <<pc, attempt, injected, reply, first, executed, answers>>
given == <<hasUser, configured, sockets>>
vars == <<given, sessVars, ended, reqVars>>

Sessions == 0 .. MaxLogins
Replies == {"ok", "login", "unauth", "error"}
Answers == Replies \cup {"skipped"}

TypeOK ==
  /\ hasUser \in BOOLEAN /\ configured \in BOOLEAN
  /\ sockets \subseteq Requests \ Upgrades
  /\ cooling \in BOOLEAN
  /\ cache \in 0 .. issued /\ issued \in Sessions
  /\ ended \subseteq 1 .. issued
  /\ pc \in [Requests -> {"inject", "sent", "replied", "done"}]
  /\ attempt \in [Requests -> {0, 1}]
  /\ injected \in [Requests -> Sessions] /\ first \in [Requests -> Sessions]
  /\ reply \in [Requests -> Replies \cup {"none"}]
  /\ executed \in [Requests -> {0, 1}]
  /\ answers \in [Requests -> SUBSET Answers]

Init ==
  /\ hasUser \in BOOLEAN /\ configured \in BOOLEAN /\ (configured => hasUser)
  /\ sockets \in SUBSET (Requests \ Upgrades)
  /\ cache = 0 /\ cooling = FALSE
  /\ issued = 0 /\ ended = {}
  /\ pc = [r \in Requests |-> "inject"]
  /\ attempt = [r \in Requests |-> 0]
  /\ injected = [r \in Requests |-> 0] /\ first = [r \in Requests |-> 0]
  /\ reply = [r \in Requests |-> "none"]
  /\ executed = [r \in Requests |-> 0]
  /\ answers = [r \in Requests |-> {}]

-----------------------------------------------------------------------------
(* getSessionCookies and clearSession, each under sessMu.                  *)

Cached == cache # 0

\* No credentials, or a login failed a moment ago: no session.
NoSession ==
  /\ ~configured \/ (~Cached /\ cooling)
  /\ UNCHANGED sessVars

UseCached ==
  /\ configured /\ Cached
  /\ UNCHANGED sessVars

LoginSucceeds ==
  /\ configured /\ ~Cached /\ ~cooling
  /\ issued < MaxLogins
  /\ issued' = issued + 1
  /\ cache' = issued + 1
  /\ UNCHANGED cooling

LoginFails ==
  /\ configured /\ ~Cached /\ ~cooling
  /\ cache' = 0
  /\ cooling' = TRUE
  /\ UNCHANGED issued

\* getSessionCookies; s is what it returns.
GetSession(s) ==
  \/ NoSession /\ s = 0
  \/ UseCached /\ s = cache
  \/ LoginSucceeds /\ s = cache'
  \/ LoginFails /\ s = 0

\* Mutant: the cache is kept.
ClearNothing == UNCHANGED sessVars

\* clearSession: whatever session is cached by now.
ClearSession ==
  /\ cache' = 0
  /\ UNCHANGED <<cooling, issued>>

-----------------------------------------------------------------------------
(* handleHTTP and handleWS.                                                *)

\* roundTripPanel: the session is put into the request, which goes to the panel.
\* An upgrade needs a session.
Inject(r) ==
  /\ pc[r] = "inject"
  /\ \E s \in Sessions :
       /\ GetSession(s)
       /\ injected' = [injected EXCEPT ![r] = s]
       /\ first' = [first EXCEPT ![r] = IF attempt[r] = 0 THEN s ELSE @]
       /\ IF r \in Upgrades /\ s = 0
          THEN /\ pc' = [pc EXCEPT ![r] = "replied"]
               /\ reply' = [reply EXCEPT ![r] = "error"]
          ELSE /\ pc' = [pc EXCEPT ![r] = "sent"]
               /\ UNCHANGED reply
  /\ UNCHANGED <<given, ended, attempt, executed, answers>>

\* The question for the version changes nothing.
Asks(r) == r \in Upgrades /\ attempt[r] = 0

\* The panel carries the request out if it accepts the session; otherwise it
\* redirects to its login page or says 401.  The answer may be lost.
PanelReplies(r) ==
  /\ pc[r] = "sent"
  /\ \E p \in Replies :
       /\ reply' = [reply EXCEPT ![r] = p]
       /\ IF injected[r] \in (1 .. issued) \ ended
          THEN /\ p \in {"ok", "error"}
               /\ \/ ~Asks(r) /\ executed' = [executed EXCEPT ![r] = @ + 1]
                  \/ /\ Asks(r) \/ p = "error"
                     /\ UNCHANGED executed
          ELSE p # "ok" /\ UNCHANGED executed
  /\ pc' = [pc EXCEPT ![r] = "replied"]
  /\ UNCHANGED <<given, sessVars, ended, attempt, injected, first, answers>>

\* Mutant: a request is tried again whatever went wrong.
RetriesAlways(r) == r \notin sockets \cup Upgrades /\ attempt[r] = 0 /\ reply[r] # "ok"

\* Mutant: the number of the attempt is not looked at.
RetriesForever(r) ==
  /\ r \notin sockets \cup Upgrades
  /\ reply[r] = "unauth" \/ (reply[r] = "login" /\ hasUser)

\* Mutant: a redirect to the login page is passed on.
RetriesNever(r) ==
  r \notin sockets \cup Upgrades /\ attempt[r] = 0 /\ reply[r] = "unauth"

\* A request is tried again once, if it was turned away.
Retries(r) ==
  /\ r \notin sockets \cup Upgrades
  /\ attempt[r] = 0
  /\ reply[r] = "unauth" \/ (reply[r] = "login" /\ hasUser)

Retry(r) ==
  /\ pc[r] = "replied"
  /\ Retries(r)
  /\ ClearSession
  /\ attempt' = [attempt EXCEPT ![r] = @ + 1]
  /\ pc' = [pc EXCEPT ![r] = "inject"]
  /\ reply' = [reply EXCEPT ![r] = "none"]
  /\ UNCHANGED <<given, ended, injected, first, executed, answers>>

\* The reply, or writeErr, goes to the master with the session that was injected.
Answer(r) ==
  /\ pc[r] = "replied"
  /\ r \notin Upgrades
  /\ ~Retries(r)
  /\ answers' = [answers EXCEPT ![r] = @ \cup {reply[r]}]
  /\ pc' = [pc EXCEPT ![r] = "done"]
  /\ UNCHANGED <<given, sessVars, ended, attempt, injected, reply, first, executed>>

-----------------------------------------------------------------------------
(* upgradeLocalPanel.                                                      *)

UpgradeAnswers(u, p) ==
  /\ answers' = [answers EXCEPT ![u] = @ \cup {p}]
  /\ pc' = [pc EXCEPT ![u] = "done"]
  /\ UNCHANGED <<given, ended, attempt, injected, reply, first, executed>>

\* Any error, a session the panel has ended included: the cache is left as it is.
UpgradeFails(u) ==
  /\ pc[u] = "replied"
  /\ u \in Upgrades
  /\ reply[u] # "ok"
  /\ UpgradeAnswers(u, "error")
  /\ UNCHANGED sessVars

\* The panel knows no newer version.
UpgradeSkips(u) ==
  /\ pc[u] = "replied"
  /\ Asks(u)
  /\ reply[u] = "ok"
  /\ UpgradeAnswers(u, "skipped")
  /\ UNCHANGED sessVars

UpgradePosts(u) ==
  /\ pc[u] = "replied"
  /\ Asks(u)
  /\ reply[u] = "ok"
  /\ attempt' = [attempt EXCEPT ![u] = 1]
  /\ pc' = [pc EXCEPT ![u] = "sent"]
  /\ reply' = [reply EXCEPT ![u] = "none"]
  /\ UNCHANGED <<given, sessVars, ended, injected, first, executed, answers>>

\* The upgrade has begun; the panel will restart.
UpgradeStarted(u) ==
  /\ pc[u] = "replied"
  /\ u \in Upgrades
  /\ attempt[u] = 1
  /\ reply[u] = "ok"
  /\ ClearSession
  /\ UpgradeAnswers(u, "ok")

-----------------------------------------------------------------------------
(* Time and the panel.                                                     *)

\* Ten minutes after the login.
CacheExpires ==
  /\ Cached
  /\ cache' = 0
  /\ UNCHANGED <<given, cooling, issued, ended, reqVars>>

CooldownEnds ==
  /\ cooling
  /\ cooling' = FALSE
  /\ UNCHANGED <<given, cache, issued, ended, reqVars>>

\* The panel restarts, or a session times out or is logged out.
PanelEnds(s) ==
  /\ s \in (1 .. issued) \ ended
  /\ ended' = ended \cup {s}
  /\ UNCHANGED <<given, sessVars, reqVars>>

-----------------------------------------------------------------------------
RequestStep(r) ==
  \/ Inject(r) \/ PanelReplies(r) \/ Retry(r) \/ Answer(r)
  \/ UpgradeFails(r) \/ UpgradeSkips(r) \/ UpgradePosts(r) \/ UpgradeStarted(r)

Next ==
  \/ \E r \in Requests : RequestStep(r)
  \/ CacheExpires \/ CooldownEnds
  \/ \E s \in Sessions : PanelEnds(s)

Spec == Init /\ [][Next]_vars

-----------------------------------------------------------------------------
(* Properties.                                                             *)

\* What a request through the tunnel promises (PanelRequest): carried out once at
\* most, whatever is tried again and whichever answer of the panel is lost, answered
\* once (the master reads one ResponseMeta per stream), not carried out after the
\* answer, and never told a success that was none.
Contract == INSTANCE PanelRequest WITH carried <- executed

ImplementsRequest == Contract!Spec

\* A session that has been dropped is gone, whatever other requests have cleared or
\* cached in between: the second attempt does not go with the session the first was
\* turned away with, and nothing goes on with the session an upgrade has used up.
DroppedSessionIsGone ==
  /\ \A r \in Requests \ Upgrades :
       attempt[r] = 1 /\ pc[r] # "inject" /\ injected[r] # 0 => injected[r] > first[r]
  /\ \A u \in Upgrades : "ok" \in answers[u] => cache = 0 \/ cache > injected[u]

\* "The cache is dropped, the agent signs in and tries again, so that the master
\* does not fall back to its own panel" (client.go:295): an agent with a panel user sends
\* the master to a login page only if no login was possible or the panel has
\* ended the new session too.
LoginPageIsLastResort ==
  \A r \in Requests \ (sockets \cup Upgrades) :
    hasUser /\ "login" \in answers[r] => attempt[r] = 1 /\ injected[r] \in {0} \cup ended
=============================================================================
