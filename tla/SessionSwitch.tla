--------------------------- MODULE SessionSwitch ---------------------------
(***************************************************************************)
(* One browser cookie jar, two kinds of panel session.  The local panel    *)
(* and every node's panel use a cookie of the same name (psession); the    *)
(* cookie mp_node says which panel the root path leads to.  When a browser *)
(* leaves for a node the master takes the local session out of the cookie  *)
(* and keeps it in its memory; when the browser comes back, by its own     *)
(* wish or because the node is gone, the master writes it back             *)
(* (master/switch.go, auth.go, cookies.go, ui.go, server.go handleRoot).   *)
(*                                                                         *)
(* A tab has at most one request on the way.  The request carries the      *)
(* cookies of the moment it was sent; the reply changes the cookies of     *)
(* the moment it arrives.                                                  *)
(*                                                                         *)
(* Left out: the pages themselves, all cookies but psession, mp_node and   *)
(* mp_auth, and the values of sessions beyond whose they are.              *)
(***************************************************************************)

CONSTANTS
  Browsers,   \* cookie jars; b also names the local panel session of b
  Tabs,       \* places a browser may send requests from
  BrowserOf,  \* BrowserOf[t]: the browser of tab t
  Nodes,      \* agents; n also names a panel session on n
  None,       \* no cookie, no session
  Keep        \* a reply that leaves a cookie alone

ASSUME BrowserOfAssumption == BrowserOf \in [Tabs -> Browsers]
ASSUME NamesAssumption ==
  /\ Browsers \cap Nodes = {}
  /\ {None, Keep} \cap (Browsers \cup Nodes) = {}
  /\ None # Keep

VARIABLES
  psession,  \* psession[b]: the panel session in b's cookies
  mpNode,    \* mpNode[b]: cookie mp_node
  mpAuth,    \* mpAuth[b]: TRUE if cookie mp_auth is the current secret
  valid,     \* the local sessions the local panel accepts
  stash,     \* localSessCookies of the master
  online,    \* nodes the registry would return
  phase,     \* progress of the tab's request
  request,   \* the tab's request, with the cookies it carries
  reply,     \* the reply on its way to the tab
  signedIn,  \* history: browsers that have signed in to the local panel
  lost       \* history: a restart, a lost reply or a logout took a session away

jar == <<psession, mpNode, mpAuth>>
vars == <<jar, valid, stash, online, phase, request, reply, signedIn, lost>>

Sessions == Browsers \cup Nodes
Ops == {"root", "login", "signin", "local", "manage", "api", "rotate", "go"}

Requests ==
  [op : Ops, dest : Nodes \cup {None}, psession : Sessions \cup {None},
   mpNode : Nodes \cup {None}, mpAuth : BOOLEAN]

\* What a reply does to mp_auth: nothing, or it sets the current secret or, when another
\* secret has been issued while the reply was on its way, a worthless one.
AuthCookies == {"keep", "current", "stale"}

Replies ==
  [psession : Sessions \cup {None, Keep}, mpNode : Nodes \cup {None, Keep}, mpAuth : AuthCookies]

NoRequest ==
  [op |-> "root", dest |-> None, psession |-> None, mpNode |-> None, mpAuth |-> FALSE]

NoReply == [psession |-> Keep, mpNode |-> Keep, mpAuth |-> "keep"]

TypeOK ==
  /\ psession \in [Browsers -> Sessions \cup {None}]
  /\ mpNode \in [Browsers -> Nodes \cup {None}]
  /\ mpAuth \in [Browsers -> BOOLEAN]
  /\ valid \subseteq Browsers
  /\ stash \in Sessions \cup {None}
  /\ online \subseteq Nodes
  /\ phase \in [Tabs -> {"idle", "sent", "tunnel", "reply"}]
  /\ request \in [Tabs -> Requests]
  /\ reply \in [Tabs -> Replies]
  /\ signedIn \subseteq Browsers
  /\ lost \in BOOLEAN
  /\ \A t \in Tabs : phase[t] = "tunnel" => request[t].mpNode \in Nodes

Init ==
  /\ psession = [b \in Browsers |-> None]
  /\ mpNode = [b \in Browsers |-> None]
  /\ mpAuth = [b \in Browsers |-> FALSE]
  /\ valid = {}
  /\ stash = None
  /\ online = {}
  /\ phase = [t \in Tabs |-> "idle"]
  /\ request = [t \in Tabs |-> NoRequest]
  /\ reply = [t \in Tabs |-> NoReply]
  /\ signedIn = {}
  /\ lost = FALSE

-----------------------------------------------------------------------------
(* The browser.                                                            *)

\* The user signs in where a login form is: at the local panel, not signed in.
Offered(b, op) ==
  op = "signin" => mpNode[b] = None /\ psession[b] \notin valid

Send(t, op, dest) ==
  LET b == BrowserOf[t] IN
  /\ phase[t] = "idle"
  /\ Offered(b, op)
  /\ (op = "go") <=> (dest # None)
  /\ phase' = [phase EXCEPT ![t] = "sent"]
  /\ request' = [request EXCEPT ![t] =
       [op |-> op, dest |-> dest, psession |-> psession[b], mpNode |-> mpNode[b],
        mpAuth |-> mpAuth[b]]]
  /\ UNCHANGED <<jar, valid, stash, online, reply, signedIn, lost>>

\* The reply arrives: Set-Cookie is applied to the jar as it is by now.
Deliver(t) ==
  LET b == BrowserOf[t]
      Set(old, new) == IF new = Keep THEN old ELSE new
  IN
  /\ phase[t] = "reply"
  /\ psession' = [psession EXCEPT ![b] = Set(@, reply[t].psession)]
  /\ mpNode' = [mpNode EXCEPT ![b] = Set(@, reply[t].mpNode)]
  /\ mpAuth' = [mpAuth EXCEPT ![b] =
       IF reply[t].mpAuth = "keep" THEN @ ELSE reply[t].mpAuth = "current"]
  /\ phase' = [phase EXCEPT ![t] = "idle"]
  /\ request' = [request EXCEPT ![t] = NoRequest]
  /\ reply' = [reply EXCEPT ![t] = NoReply]
  /\ UNCHANGED <<valid, stash, online, signedIn, lost>>

\* The tab is closed or the connection breaks before the reply arrives.
ReplyLost(t) ==
  /\ phase[t] = "reply"
  /\ phase' = [phase EXCEPT ![t] = "idle"]
  /\ request' = [request EXCEPT ![t] = NoRequest]
  /\ reply' = [reply EXCEPT ![t] = NoReply]
  /\ lost' = (lost \/ reply[t].psession \notin {Keep, None})
  /\ UNCHANGED <<jar, valid, stash, online, signedIn>>

\* The sidebar's logout on a node: the node's panel ends its session, then
\* goMasterLogin deletes mp_node in the browser, without the master, and opens the
\* login page.  The session in the stash is given up by that (inject.go:70).
SidebarLogout(b) ==
  /\ mpNode[b] # None
  /\ mpNode' = [mpNode EXCEPT ![b] = None]
  /\ lost' = TRUE
  /\ UNCHANGED <<psession, mpAuth, valid, stash, online, phase, request, reply, signedIn>>

-----------------------------------------------------------------------------
(* The master's memory of the local session.                               *)

\* stashLocalSession: an empty set of cookies does not overwrite.
Stashed(s) == IF s = None THEN stash ELSE s

Answer(t, p, n) ==
  /\ phase' = [phase EXCEPT ![t] = "reply"]
  /\ reply' = [reply EXCEPT ![t] = [psession |-> p, mpNode |-> n, mpAuth |-> "keep"]]

\* Mutant: the stash is dropped, and the cookies are not written back.
GoHomeForgetting(t) ==
  /\ Answer(t, Keep, None)
  /\ stash' = None

\* Mutant: mp_node is cleared, and the session stays in the stash.
GoHomeUnrestored(t) ==
  /\ Answer(t, Keep, None)
  /\ UNCHANGED stash

\* takeLocalSession, clearNodeCookie and writePanelSessionCookies: the end of
\* restoreLocalAndRedirect and of redirectToMasterLogin alike.
GoHome(t) ==
  /\ Answer(t, IF stash = None THEN Keep ELSE stash, None)
  /\ stash' = None

\* issueAuthCookie: one secret, every cookie issued before is worthless.
OthersLoseAuth ==
  mpAuth' = [b \in Browsers |-> FALSE]

-----------------------------------------------------------------------------
(* handleRoot.                                                             *)

\* No mp_node: the local panel answers, and sets its session on a sign-in.
RootLocal(t) ==
  LET b == BrowserOf[t]
      signs == request[t].op = "signin" IN
  /\ phase[t] = "sent"
  /\ request[t].op \in {"root", "login", "signin"}
  /\ request[t].mpNode = None
  /\ Answer(t, IF signs THEN b ELSE Keep, Keep)
  /\ valid' = IF signs THEN valid \cup {b} ELSE valid
  /\ signedIn' = IF signs THEN signedIn \cup {b} ELSE signedIn
  /\ UNCHANGED <<jar, stash, online, request, lost>>

\* A login page on a node: redirectToMasterLogin.
RootLogin(t) ==
  /\ phase[t] = "sent"
  /\ request[t].op = "login"
  /\ request[t].mpNode # None
  /\ GoHome(t)
  /\ UNCHANGED <<jar, valid, online, request, signedIn, lost>>

\* The node is not in the registry: restoreLocalAndRedirect.
RootOffline(t) ==
  /\ phase[t] = "sent"
  /\ request[t].op \in {"root", "signin"}
  /\ request[t].mpNode # None
  /\ request[t].mpNode \notin online
  /\ GoHome(t)
  /\ UNCHANGED <<jar, valid, online, request, signedIn, lost>>

\* Mutant: the request goes to the tunnel without asking the registry.
RootTunnelUnchecked(t) ==
  /\ phase[t] = "sent"
  /\ request[t].op \in {"root", "signin"}
  /\ phase' = [phase EXCEPT ![t] = "tunnel"]
  /\ UNCHANGED <<jar, valid, stash, online, request, reply, signedIn, lost>>

\* reg.Get succeeds: the request goes through the tunnel ...
RootTunnel(t) ==
  /\ phase[t] = "sent"
  /\ request[t].op \in {"root", "signin"}
  /\ request[t].mpNode \in online
  /\ phase' = [phase EXCEPT ![t] = "tunnel"]
  /\ UNCHANGED <<jar, valid, stash, online, request, reply, signedIn, lost>>

\* ... where OpenStream may fail: the session is dropped and the browser goes home;
TunnelDead(t) ==
  /\ phase[t] = "tunnel"
  /\ online' = online \ {request[t].mpNode}
  /\ GoHome(t)
  /\ UNCHANGED <<jar, valid, request, signedIn, lost>>

\* the node's panel answers, with the session of the agent or of the panel;
TunnelAnswers(t) ==
  /\ phase[t] = "tunnel"
  /\ \/ Answer(t, request[t].mpNode, Keep)
     \/ Answer(t, Keep, Keep)     \* an asset, or an error 502
  /\ UNCHANGED <<jar, valid, stash, online, request, signedIn, lost>>

\* or it redirects to its login page: redirectToMasterLogin.
TunnelToLogin(t) ==
  /\ phase[t] = "tunnel"
  /\ GoHome(t)
  /\ UNCHANGED <<jar, valid, online, request, signedIn, lost>>

-----------------------------------------------------------------------------
(* handleMP.                                                               *)

\* /__mp/local is answered before the gate: the cookie is the node's by now.
Local(t) ==
  /\ phase[t] = "sent"
  /\ request[t].op = "local"
  /\ GoHome(t)
  /\ UNCHANGED <<jar, valid, online, request, signedIn, lost>>

\* ensureMPAuth passes with the current secret, or if the local panel knows the
\* session in the cookie, and then with a new secret.
LocalPanelCodeOK(t) == request[t].psession \in valid

Gate(t) == request[t].mpAuth \/ LocalPanelCodeOK(t)

\* A new secret is issued by the gate, and by a rotation of the token in any case.  (One
\* that fails is no more than an "api" to this module.)
Issue(t) == ~request[t].mpAuth \/ request[t].op = "rotate"

\* Every mp_auth on its way, in a request or in a reply, is stale after an issue.
IssueAuth(t) ==
  /\ IF Issue(t) THEN OthersLoseAuth ELSE UNCHANGED mpAuth
  /\ request' = [u \in Tabs |-> [request[u] EXCEPT !.mpAuth = @ /\ ~Issue(t)]]

AnswerAndIssue(t, p, n) ==
  /\ phase' = [phase EXCEPT ![t] = "reply"]
  /\ reply' = [u \in Tabs |->
       IF u = t
       THEN [psession |-> p, mpNode |-> n, mpAuth |-> IF Issue(t) THEN "current" ELSE "keep"]
       ELSE [reply[u] EXCEPT !.mpAuth = IF @ = "current" /\ Issue(t) THEN "stale" ELSE @]]

GateRefuses(t) ==
  /\ phase[t] = "sent"
  /\ request[t].op \in {"manage", "api", "rotate", "go"}
  /\ ~Gate(t)
  /\ IF request[t].op \in {"api", "rotate"}
     THEN Answer(t, Keep, Keep) /\ UNCHANGED stash
     ELSE GoHome(t)
  /\ UNCHANGED <<jar, valid, online, request, signedIn, lost>>

\* The node list and its API, handleRotateToken with it.
Manage(t) ==
  /\ phase[t] = "sent"
  /\ request[t].op \in {"manage", "api", "rotate"}
  /\ Gate(t)
  /\ IssueAuth(t)
  /\ AnswerAndIssue(t, Keep, Keep)
  /\ UNCHANGED <<psession, mpNode, valid, stash, online, signedIn, lost>>

\* Mutant: whatever panel the browser leaves, its session is stashed.
SwitchStashingAlways(t) ==
  /\ phase[t] = "sent"
  /\ request[t].op = "go"
  /\ Gate(t)
  /\ request[t].dest \in online
  /\ IssueAuth(t)
  /\ AnswerAndIssue(t, None, request[t].dest)
  /\ stash' = Stashed(request[t].psession)
  /\ UNCHANGED <<psession, mpNode, valid, online, signedIn, lost>>

\* handleSwitch: the session is stashed only if the browser leaves the local panel.
Switch(t) ==
  /\ phase[t] = "sent"
  /\ request[t].op = "go"
  /\ Gate(t)
  /\ request[t].dest \in online
  /\ IssueAuth(t)
  /\ AnswerAndIssue(t, None, request[t].dest)
  /\ stash' = IF request[t].mpNode = None THEN Stashed(request[t].psession) ELSE stash
  /\ UNCHANGED <<psession, mpNode, valid, online, signedIn, lost>>

SwitchOffline(t) ==
  /\ phase[t] = "sent"
  /\ request[t].op = "go"
  /\ Gate(t)
  /\ request[t].dest \notin online
  /\ IssueAuth(t)
  /\ AnswerAndIssue(t, Keep, Keep)
  /\ UNCHANGED <<psession, mpNode, valid, stash, online, signedIn, lost>>

-----------------------------------------------------------------------------
(* Around the master.                                                      *)

NodeUp(n) ==
  /\ n \notin online
  /\ online' = online \cup {n}
  /\ UNCHANGED <<jar, valid, stash, phase, request, reply, signedIn, lost>>

NodeDown(n) ==
  /\ n \in online
  /\ online' = online \ {n}
  /\ UNCHANGED <<jar, valid, stash, phase, request, reply, signedIn, lost>>

\* The local panel ends a session.
SessionExpires(b) ==
  /\ b \in valid
  /\ valid' = valid \ {b}
  /\ UNCHANGED <<jar, stash, online, phase, request, reply, signedIn, lost>>

\* The master process restarts: its memory is gone, open requests fail.
MasterRestarts ==
  /\ stash' = None
  /\ mpAuth' = [b \in Browsers |-> FALSE]
  /\ online' = {}
  /\ phase' = [t \in Tabs |-> "idle"]
  /\ request' = [t \in Tabs |-> NoRequest]
  /\ reply' = [t \in Tabs |-> NoReply]
  /\ lost' = (lost \/ stash # None \/ \E t \in Tabs : reply[t].psession \in Sessions)
  /\ UNCHANGED <<psession, mpNode, valid, signedIn>>

-----------------------------------------------------------------------------
Next ==
  \/ \E t \in Tabs :
       \/ \E op \in Ops, dest \in Nodes \cup {None} : Send(t, op, dest)
       \/ Deliver(t) \/ ReplyLost(t)
       \/ RootLocal(t) \/ RootLogin(t) \/ RootOffline(t) \/ RootTunnel(t)
       \/ TunnelDead(t) \/ TunnelAnswers(t) \/ TunnelToLogin(t)
       \/ Local(t) \/ GateRefuses(t) \/ Manage(t) \/ Switch(t) \/ SwitchOffline(t)
  \/ \E b \in Browsers : SidebarLogout(b) \/ SessionExpires(b)
  \/ \E n \in Nodes : NodeUp(n) \/ NodeDown(n)
  \/ MasterRestarts

Spec == Init /\ [][Next]_vars

-----------------------------------------------------------------------------
(* Properties.                                                             *)

\* Where the local session of b may be while it is not lost.
Kept(b) ==
  \/ psession[b] = b
  \/ stash = b
  \/ \E t \in Tabs : BrowserOf[t] = b /\ reply[t].psession = b

\* A browser that has signed in to the local panel does not lose the session by
\* going from panel to panel (design_notes.md section 2; switch.go:19).
LocalSessionKept == ~lost => \A b \in signedIn : Kept(b)

\* The local panel is never asked with a node's session: it would answer with
\* its login page (server.go:184-188, switch.go:43).
LocalPanelSeesLocal ==
  ~lost => \A t \in Tabs :
    phase[t] = "sent" /\ request[t].mpNode = None => request[t].psession \notin Nodes

Settled(b) == \A t \in Tabs : BrowserOf[t] = b => phase[t] # "reply"

\* A browser that is at the local panel has its own local session in its cookies,
\* whichever way it came home (design_notes.md:15, README.md:66): the next request
\* finds it and nobody has to sign in again.
HomeMeansLocal ==
  ~lost => \A b \in signedIn : mpNode[b] = None /\ Settled(b) => psession[b] = b

\* While mp_node names a node, the local session waits in the master, where the node's
\* panel cannot overwrite it and the session of a node has not replaced it, however
\* many nodes the browser has been to (switch.go:19-20).
AwayMeansStashed ==
  ~lost => \A b \in signedIn : mpNode[b] # None /\ Settled(b) => stash = b

\* The places b has the current mp_auth in: its cookies, and what is on the way.
HoldsAuth(b) ==
  \/ mpAuth[b]
  \/ \E t \in Tabs :
       BrowserOf[t] = b /\ (request[t].mpAuth \/ reply[t].mpAuth = "current")

\* A management session is single (auth.go:20): whatever requests of however many
\* browsers and tabs pass the gate in whatever order, the current secret is in one
\* browser only, or on the way to one.
OneManager ==
  \A b, c \in Browsers : HoldsAuth(b) /\ HoldsAuth(c) => b = c
=============================================================================
