----------------------- MODULE SessionSwitch_proofs -----------------------
(***************************************************************************)
(* Proofs about SessionSwitch: types and the single secret of the          *)
(* management page for all browsers, tabs and nodes; the way of the local  *)
(* session for one browser with one tab and any number of nodes, which is  *)
(* what the code is made for (one stash, one administrator).               *)
(***************************************************************************)
EXTENDS SessionSwitch, TLAPS

-----------------------------------------------------------------------------
(***************************************************************************)
(* Requests and replies as records.                                        *)
(***************************************************************************)
LEMMA RequestFields ==
  ASSUME NEW q \in Requests
  PROVE  /\ q.op \in Ops /\ q.dest \in Nodes \cup {None} /\ q.psession \in Sessions \cup {None}
         /\ q.mpNode \in Nodes \cup {None} /\ q.mpAuth \in BOOLEAN
BY DEF Requests

LEMMA ReplyFields ==
  ASSUME NEW q \in Replies
  PROVE  /\ q.psession \in Sessions \cup {None, Keep} /\ q.mpNode \in Nodes \cup {None, Keep}
         /\ q.mpAuth \in AuthCookies
BY DEF Replies

LEMMA ReplySet ==
  ASSUME NEW p \in Sessions \cup {None, Keep}, NEW n \in Nodes \cup {None, Keep}, NEW a \in AuthCookies
  PROVE  /\ [psession |-> p, mpNode |-> n, mpAuth |-> a] \in Replies
         /\ [psession |-> p, mpNode |-> n, mpAuth |-> a].psession = p
         /\ [psession |-> p, mpNode |-> n, mpAuth |-> a].mpNode = n
         /\ [psession |-> p, mpNode |-> n, mpAuth |-> a].mpAuth = a
BY DEF Replies

LEMMA RequestSet ==
  ASSUME NEW o \in Ops, NEW d \in Nodes \cup {None}, NEW p \in Sessions \cup {None},
         NEW n \in Nodes \cup {None}, NEW a \in BOOLEAN
  PROVE  LET q == [op |-> o, dest |-> d, psession |-> p, mpNode |-> n, mpAuth |-> a]
         IN  q \in Requests /\ q.op = o /\ q.dest = d /\ q.psession = p /\ q.mpNode = n /\ q.mpAuth = a
BY DEF Requests

LEMMA RequestAuth ==
  ASSUME NEW q \in Requests, NEW a \in BOOLEAN
  PROVE  LET e == [q EXCEPT !.mpAuth = a]
         IN  e \in Requests /\ e.op = q.op /\ e.dest = q.dest /\ e.psession = q.psession
             /\ e.mpNode = q.mpNode /\ e.mpAuth = a
BY DEF Requests

LEMMA ReplyAuth ==
  ASSUME NEW q \in Replies, NEW a \in AuthCookies
  PROVE  LET e == [q EXCEPT !.mpAuth = a]
         IN  e \in Replies /\ e.psession = q.psession /\ e.mpNode = q.mpNode /\ e.mpAuth = a
BY DEF Replies

LEMMA Blank ==
  /\ NoRequest \in Requests /\ NoRequest.psession = None /\ NoRequest.mpNode = None /\ NoRequest.mpAuth = FALSE
  /\ NoReply \in Replies /\ NoReply.psession = Keep /\ NoReply.mpNode = Keep /\ NoReply.mpAuth = "keep"
<1>1. "root" \in Ops
  BY DEF Ops
<1>2. QED
  BY <1>1 DEF NoRequest, NoReply, Requests, Replies, AuthCookies

LEMMA Update1 ==
  ASSUME NEW S, NEW T, NEW f \in [S -> T], NEW r \in S, NEW v \in T
  PROVE  /\ [f EXCEPT ![r] = v] \in [S -> T]
         /\ [f EXCEPT ![r] = v][r] = v
         /\ \A q \in S \ {r} : [f EXCEPT ![r] = v][q] = f[q]
OBVIOUS

-----------------------------------------------------------------------------
(***************************************************************************)
(* Types.                                                                  *)
(***************************************************************************)
Typed ==
  /\ psession \in [Browsers -> Sessions \cup {None}]
  /\ mpNode \in [Browsers -> Nodes \cup {None}]
  /\ mpAuth \in [Browsers -> BOOLEAN]
  /\ valid \subseteq Browsers
  /\ stash \in Sessions \cup {None}
  /\ online \subseteq Nodes
  /\ phase \in [Tabs -> {"idle", "sent", "tunnel", "reply"}]
  /\ request \in [Tabs -> Requests]
  /\ reply \in [Tabs -> Replies]
  /\ signedIn \subseteq Browsers
  /\ lost \in BOOLEAN

TunnelToNode == \A t \in Tabs : phase[t] = "tunnel" => request[t].mpNode \in Nodes

LEMMA TypeParts == TypeOK <=> Typed /\ TunnelToNode
BY DEF TypeOK, Typed, TunnelToNode

\* What Answer writes.
LEMMA AnswerTyped ==
  ASSUME Typed, NEW t \in Tabs, NEW p \in Sessions \cup {None, Keep}, NEW n \in Nodes \cup {None, Keep},
         Answer(t, p, n)
  PROVE  /\ phase' \in [Tabs -> {"idle", "sent", "tunnel", "reply"}] /\ phase'[t] = "reply"
         /\ \A u \in Tabs \ {t} : phase'[u] = phase[u]
         /\ reply' \in [Tabs -> Replies]
         /\ reply'[t].psession = p /\ reply'[t].mpNode = n /\ reply'[t].mpAuth = "keep"
<1> DEFINE q == [psession |-> p, mpNode |-> n, mpAuth |-> "keep"]
<1>1. q \in Replies /\ q.psession = p /\ q.mpNode = n /\ q.mpAuth = "keep"
  BY ReplySet DEF AuthCookies
<1>2. phase' = [phase EXCEPT ![t] = "reply"] /\ reply' = [reply EXCEPT ![t] = q]
  BY DEF Answer
<1> HIDE DEF q
<1>3. QED
  BY <1>1, <1>2, Update1 DEF Typed

\* What GoHome writes.
LEMMA GoHomeTyped ==
  ASSUME Typed, NEW t \in Tabs, GoHome(t)
  PROVE  /\ phase' \in [Tabs -> {"idle", "sent", "tunnel", "reply"}] /\ phase'[t] = "reply"
         /\ \A u \in Tabs \ {t} : phase'[u] = phase[u]
         /\ reply' \in [Tabs -> Replies]
         /\ reply'[t].psession = (IF stash = None THEN Keep ELSE stash)
         /\ reply'[t].mpNode = None /\ reply'[t].mpAuth = "keep"
         /\ stash' = None
<1> DEFINE p == IF stash = None THEN Keep ELSE stash
<1>1. p \in Sessions \cup {None, Keep}
  BY DEF Typed
<1>2. Answer(t, p, None) /\ stash' = None
  BY DEF GoHome
<1> HIDE DEF p
<1>3. QED
  BY <1>1, <1>2, AnswerTyped DEF p

\* What a step behind the gate writes to the request and the reply.
LEMMA GateTyped ==
  ASSUME Typed, NEW t \in Tabs, NEW p \in Sessions \cup {None, Keep}, NEW n \in Nodes \cup {None, Keep},
         IssueAuth(t), AnswerAndIssue(t, p, n)
  PROVE  /\ phase' \in [Tabs -> {"idle", "sent", "tunnel", "reply"}] /\ phase'[t] = "reply"
         /\ \A u \in Tabs \ {t} : phase'[u] = phase[u]
         /\ mpAuth' \in [Browsers -> BOOLEAN]
         /\ request' \in [Tabs -> Requests]
         /\ \A u \in Tabs : request'[u].mpNode = request[u].mpNode /\ request'[u].psession = request[u].psession
         /\ reply' \in [Tabs -> Replies]
         /\ reply'[t].psession = p /\ reply'[t].mpNode = n
<1>1. Issue(t) \in BOOLEAN
  BY DEF Issue
<1>2. phase' = [phase EXCEPT ![t] = "reply"]
  BY DEF AnswerAndIssue
<1>3. mpAuth' \in [Browsers -> BOOLEAN]
  BY DEF IssueAuth, OthersLoseAuth, Typed
<1>4. ASSUME NEW u \in Tabs
      PROVE  /\ request'[u] \in Requests
             /\ request'[u].mpNode = request[u].mpNode /\ request'[u].psession = request[u].psession
  <2> DEFINE a == request[u].mpAuth /\ ~Issue(t)
  <2>1. request[u] \in Requests /\ a \in BOOLEAN
    BY <1>1 DEF Typed
  <2>2. request'[u] = [request[u] EXCEPT !.mpAuth = a]
    BY DEF IssueAuth
  <2> HIDE DEF a
  <2>3. QED
    BY <2>1, <2>2, RequestAuth
<1>5. request' \in [Tabs -> Requests]
  BY <1>4 DEF IssueAuth
<1>6. ASSUME NEW u \in Tabs
      PROVE  /\ reply'[u] \in Replies
             /\ u = t => reply'[u].psession = p /\ reply'[u].mpNode = n
  <2>1. CASE u = t
    <3> DEFINE a == IF Issue(t) THEN "current" ELSE "keep"
    <3>1. reply'[u] = [psession |-> p, mpNode |-> n, mpAuth |-> a]
      BY <2>1 DEF AnswerAndIssue
    <3>2. a \in AuthCookies
      BY DEF AuthCookies
    <3> HIDE DEF a
    <3>3. QED
      BY <3>1, <3>2, ReplySet
  <2>2. CASE u # t
    <3> DEFINE a == IF reply[u].mpAuth = "current" /\ Issue(t) THEN "stale" ELSE reply[u].mpAuth
    <3>1. reply[u] \in Replies /\ a \in AuthCookies
      BY ReplyFields DEF Typed, AuthCookies
    <3>2. reply'[u] = [reply[u] EXCEPT !.mpAuth = a]
      BY <2>2 DEF AnswerAndIssue
    <3> HIDE DEF a
    <3>3. QED
      BY <2>2, <3>1, <3>2, ReplyAuth
  <2>3. QED
    BY <2>1, <2>2
<1>7. reply' \in [Tabs -> Replies]
  BY <1>6 DEF AnswerAndIssue
<1>8. QED
  BY <1>2, <1>3, <1>4, <1>5, <1>6, <1>7, Update1 DEF Typed

LEMMA TypeInit == Init => TypeOK
<1> SUFFICES ASSUME Init
             PROVE  Typed /\ TunnelToNode
  BY TypeParts
<1>1. Typed
  BY Blank DEF Init, Typed
<1>2. TunnelToNode
  BY DEF Init, TunnelToNode
<1>3. QED
  BY <1>1, <1>2

\* Steps that answer the tab's request by the way home.
Home(t) ==
  \/ RootLogin(t) \/ RootOffline(t) \/ TunnelDead(t) \/ TunnelToLogin(t) \/ Local(t)
  \/ GateRefuses(t) /\ request[t].op \notin {"api", "rotate"}

LEMMA HomeGoesHome ==
  ASSUME NEW t \in Tabs, Home(t)
  PROVE  /\ GoHome(t) /\ UNCHANGED <<jar, valid, request, signedIn, lost>> /\ online' \subseteq online
         /\ phase[t] \in {"sent", "tunnel"}
BY DEF Home, RootLogin, RootOffline, TunnelDead, TunnelToLogin, Local, GateRefuses

\* Steps behind the gate.
Passed(t) == Manage(t) \/ Switch(t) \/ SwitchOffline(t)

LEMMA PassedGate ==
  ASSUME Typed, NEW t \in Tabs, Passed(t)
  PROVE  /\ Gate(t) /\ IssueAuth(t) /\ phase[t] = "sent"
         /\ UNCHANGED <<psession, mpNode, valid, online, signedIn, lost>>
         /\ \/ AnswerAndIssue(t, Keep, Keep) /\ stash' = stash
            \/ /\ request[t].dest \in Nodes /\ AnswerAndIssue(t, None, request[t].dest)
               /\ stash' = IF request[t].mpNode = None THEN Stashed(request[t].psession) ELSE stash
<1>1. CASE Manage(t)
  BY <1>1 DEF Manage
<1>2. CASE Switch(t)
  BY <1>2 DEF Switch, Typed
<1>3. CASE SwitchOffline(t)
  BY <1>3 DEF SwitchOffline
<1>4. QED
  BY <1>1, <1>2, <1>3 DEF Passed

LEMMA HomeTyped == ASSUME TypeOK, NEW t \in Tabs, Home(t) PROVE TypeOK'
<1>1. Typed /\ TunnelToNode
  BY TypeParts
<1>2. /\ GoHome(t) /\ UNCHANGED <<jar, valid, request, signedIn, lost>> /\ online' \subseteq online
  BY HomeGoesHome
<1>3. /\ phase' \in [Tabs -> {"idle", "sent", "tunnel", "reply"}] /\ phase'[t] = "reply"
      /\ \A u \in Tabs \ {t} : phase'[u] = phase[u]
      /\ reply' \in [Tabs -> Replies] /\ stash' = None
  BY <1>1, <1>2, GoHomeTyped
<1>4. Typed'
  BY <1>1, <1>2, <1>3 DEF Typed, jar
<1>5. TunnelToNode'
  BY <1>1, <1>2, <1>3 DEF TunnelToNode
<1>6. QED
  BY <1>4, <1>5, TypeParts DEF TypeOK, Typed, TunnelToNode

LEMMA PassedTyped == ASSUME TypeOK, NEW t \in Tabs, Passed(t) PROVE TypeOK'
<1>1. Typed /\ TunnelToNode
  BY TypeParts
<1>2. PICK p \in Sessions \cup {None, Keep}, n \in Nodes \cup {None, Keep} :
        IssueAuth(t) /\ AnswerAndIssue(t, p, n)
  BY <1>1, PassedGate
<1>3. UNCHANGED <<psession, mpNode, valid, online, signedIn, lost>>
  BY <1>1, PassedGate
<1>4. stash' \in Sessions \cup {None}
  BY <1>1, PassedGate, RequestFields DEF Typed, Stashed
<1>5. /\ phase' \in [Tabs -> {"idle", "sent", "tunnel", "reply"}] /\ phase'[t] = "reply"
      /\ \A u \in Tabs \ {t} : phase'[u] = phase[u]
      /\ mpAuth' \in [Browsers -> BOOLEAN]
      /\ request' \in [Tabs -> Requests]
      /\ \A u \in Tabs : request'[u].mpNode = request[u].mpNode
      /\ reply' \in [Tabs -> Replies]
  BY <1>1, <1>2, GateTyped
<1>6. Typed'
  BY <1>1, <1>3, <1>4, <1>5 DEF Typed
<1>7. TunnelToNode'
  BY <1>1, <1>5 DEF TunnelToNode
<1>8. QED
  BY <1>6, <1>7 DEF TypeOK, Typed, TunnelToNode

\* The local panel, the node's panel and a refused call of the API answer.
Served(t) == RootLocal(t) \/ TunnelAnswers(t) \/ (GateRefuses(t) /\ request[t].op \in {"api", "rotate"})

LEMMA ServedTyped == ASSUME TypeOK, NEW t \in Tabs, Served(t) PROVE TypeOK'
<1>1. Typed /\ TunnelToNode /\ BrowserOf[t] \in Browsers
  BY TypeParts, BrowserOfAssumption
<1>2. PICK p \in Sessions \cup {None, Keep} : Answer(t, p, Keep)
  BY <1>1 DEF Served, RootLocal, TunnelAnswers, GateRefuses, TunnelToNode, Sessions
<1>3. /\ UNCHANGED <<jar, stash, online, request, lost>>
      /\ valid' \subseteq Browsers /\ signedIn' \subseteq Browsers
  BY <1>1 DEF Served, RootLocal, TunnelAnswers, GateRefuses, Typed
<1>4. /\ phase' \in [Tabs -> {"idle", "sent", "tunnel", "reply"}] /\ phase'[t] = "reply"
      /\ \A u \in Tabs \ {t} : phase'[u] = phase[u]
      /\ reply' \in [Tabs -> Replies]
  BY <1>1, <1>2, AnswerTyped
<1>5. Typed'
  BY <1>1, <1>3, <1>4 DEF Typed, jar
<1>6. TunnelToNode'
  BY <1>1, <1>3, <1>4 DEF TunnelToNode
<1>7. QED
  BY <1>5, <1>6 DEF TypeOK, Typed, TunnelToNode

\* Sending, the tunnel, and the end of a request.
Moves(t) ==
  \/ \E op \in Ops, dest \in Nodes \cup {None} : Send(t, op, dest)
  \/ RootTunnel(t) \/ Deliver(t) \/ ReplyLost(t)

LEMMA MovesTyped == ASSUME TypeOK, NEW t \in Tabs, Moves(t) PROVE TypeOK'
<1>1. Typed /\ TunnelToNode /\ BrowserOf[t] \in Browsers
  BY TypeParts, BrowserOfAssumption
<1>2. ASSUME NEW op \in Ops, NEW dest \in Nodes \cup {None}, Send(t, op, dest)
      PROVE  TypeOK'
  <2> DEFINE b == BrowserOf[t]
             q == [op |-> op, dest |-> dest, psession |-> psession[b], mpNode |-> mpNode[b], mpAuth |-> mpAuth[b]]
  <2>1. psession[b] \in Sessions \cup {None} /\ mpNode[b] \in Nodes \cup {None} /\ mpAuth[b] \in BOOLEAN
    BY <1>1 DEF Typed
  <2>2. q \in Requests
    BY <2>1, RequestSet
  <2>3. request' = [request EXCEPT ![t] = q] /\ phase' = [phase EXCEPT ![t] = "sent"]
        /\ UNCHANGED <<jar, valid, stash, online, reply, signedIn, lost>>
    BY <1>2 DEF Send
  <2> HIDE DEF q
  <2>4. Typed'
    BY <1>1, <2>2, <2>3 DEF Typed, jar
  <2>5. TunnelToNode'
    BY <1>1, <2>3 DEF TunnelToNode, Typed
  <2>6. QED
    BY <2>4, <2>5 DEF TypeOK, Typed, TunnelToNode
<1>3. CASE RootTunnel(t)
  <2>1. phase' = [phase EXCEPT ![t] = "tunnel"] /\ request[t].mpNode \in online
        /\ UNCHANGED <<jar, valid, stash, online, request, reply, signedIn, lost>>
    BY <1>3 DEF RootTunnel
  <2>2. Typed'
    BY <1>1, <2>1 DEF Typed, jar
  <2>3. TunnelToNode'
    BY <1>1, <2>1 DEF TunnelToNode, Typed
  <2>4. QED
    BY <2>2, <2>3 DEF TypeOK, Typed, TunnelToNode
<1>4. ASSUME Deliver(t) \/ ReplyLost(t)
      PROVE  TypeOK'
  <2>1. /\ phase' = [phase EXCEPT ![t] = "idle"]
        /\ request' = [request EXCEPT ![t] = NoRequest]
        /\ reply' = [reply EXCEPT ![t] = NoReply]
        /\ UNCHANGED <<valid, stash, online, signedIn>>
    BY <1>4 DEF Deliver, ReplyLost
  <2>2. reply[t] \in Replies
    BY <1>1 DEF Typed
  <2>3. lost' \in BOOLEAN /\ mpAuth' \in [Browsers -> BOOLEAN]
    BY <1>1, <1>4, Zenon DEF Deliver, ReplyLost, Typed, jar
  <2>4. /\ psession' \in [Browsers -> Sessions \cup {None}]
        /\ mpNode' \in [Browsers -> Nodes \cup {None}]
    BY <1>1, <1>4, <2>2, ReplyFields DEF Deliver, ReplyLost, Typed, jar
  <2>5. Typed'
    BY <1>1, <2>1, <2>3, <2>4, Blank DEF Typed
  <2>6. TunnelToNode'
    BY <1>1, <2>1 DEF TunnelToNode, Typed
  <2>7. QED
    BY <2>5, <2>6 DEF TypeOK, Typed, TunnelToNode
<1>5. QED
  BY <1>2, <1>3, <1>4 DEF Moves

\* What happens around the master.
Around ==
  \/ \E b \in Browsers : SidebarLogout(b) \/ SessionExpires(b)
  \/ \E n \in Nodes : NodeUp(n) \/ NodeDown(n)

LEMMA AroundTyped == ASSUME TypeOK, Around PROVE TypeOK'
<1>1. Typed /\ TunnelToNode
  BY TypeParts
<1>2. UNCHANGED <<psession, mpAuth, stash, phase, request, reply, signedIn>>
  BY DEF Around, SidebarLogout, SessionExpires, NodeUp, NodeDown, jar
<1>3. /\ mpNode' \in [Browsers -> Nodes \cup {None}] /\ lost' \in BOOLEAN
      /\ valid' \subseteq Browsers /\ online' \subseteq Nodes
  BY <1>1 DEF Typed, Around, SidebarLogout, SessionExpires, NodeUp, NodeDown, jar
<1>4. QED
  BY <1>1, <1>2, <1>3 DEF TypeOK, Typed, TunnelToNode

LEMMA RestartTyped == ASSUME TypeOK, MasterRestarts PROVE TypeOK'
<1>1. Typed
  BY TypeParts
<1>2. lost' \in BOOLEAN
  BY DEF MasterRestarts
<1>3. Typed'
  BY <1>1, <1>2, Blank DEF Typed, MasterRestarts
<1>4. TunnelToNode'
  BY DEF TunnelToNode, MasterRestarts
<1>5. QED
  BY <1>3, <1>4 DEF TypeOK, Typed, TunnelToNode

LEMMA NextParts ==
  Next => Around \/ MasterRestarts \/ \E t \in Tabs : Moves(t) \/ Home(t) \/ Served(t) \/ Passed(t)
BY DEF Next, Around, Moves, Home, Served, Passed

\* Every variable keeps its type, for any number of browsers and tabs.
THEOREM TypeCorrect == Spec => []TypeOK
<1>1. TypeOK /\ [Next]_vars => TypeOK'
  <2>1. CASE UNCHANGED vars
    BY <2>1 DEF vars, jar, TypeOK
  <2>2. QED
    BY <2>1, NextParts, AroundTyped, RestartTyped, MovesTyped, HomeTyped, ServedTyped, PassedTyped
<1>2. QED
  BY <1>1, TypeInit, PTL DEF Spec

-----------------------------------------------------------------------------
(***************************************************************************)
(* The secret of the management page: a step adds no holder, or it leaves  *)
(* one browser as the only holder.                                         *)
(***************************************************************************)
NoNewHolder == \A c \in Browsers : HoldsAuth(c)' => HoldsAuth(c)

OnlyHolder(b) == \A c \in Browsers : HoldsAuth(c)' => c = b

LEMMA NothingAdded ==
  ASSUME mpAuth' = mpAuth,
         \A u \in Tabs : request'[u].mpAuth => request[u].mpAuth,
         \A u \in Tabs : reply'[u].mpAuth = "current" => reply[u].mpAuth = "current"
  PROVE  NoNewHolder
BY DEF NoNewHolder, HoldsAuth

\* A step that answers without a secret.
LEMMA AnswerHolders ==
  ASSUME Typed, NEW t \in Tabs, UNCHANGED <<mpAuth, request>>,
         reply' \in [Tabs -> Replies], reply'[t].mpAuth = "keep",
         \A u \in Tabs \ {t} : reply'[u] = reply[u]
  PROVE  NoNewHolder
<1>1. \A u \in Tabs : request'[u].mpAuth => request[u].mpAuth
  OBVIOUS
<1>2. \A u \in Tabs : reply'[u].mpAuth = "current" => reply[u].mpAuth = "current"
  OBVIOUS
<1>3. QED
  BY <1>1, <1>2, NothingAdded

LEMMA AnswerKeeps ==
  ASSUME Typed, NEW t \in Tabs, NEW p \in Sessions \cup {None, Keep}, NEW n \in Nodes \cup {None, Keep},
         Answer(t, p, n), UNCHANGED <<mpAuth, request>>
  PROVE  NoNewHolder
<1>1. reply' \in [Tabs -> Replies] /\ reply'[t].mpAuth = "keep"
  BY AnswerTyped
<1>2. \A u \in Tabs \ {t} : reply'[u] = reply[u]
  BY DEF Answer, Typed
<1>3. QED
  BY <1>1, <1>2, AnswerHolders

LEMMA HomeHolders == ASSUME Typed, NEW t \in Tabs, Home(t) PROVE NoNewHolder
<1> DEFINE p == IF stash = None THEN Keep ELSE stash
<1>1. GoHome(t) /\ UNCHANGED <<jar, request>>
  BY HomeGoesHome
<1>2. Answer(t, p, None) /\ UNCHANGED <<mpAuth, request>>
  BY <1>1 DEF GoHome, jar
<1>3. p \in Sessions \cup {None, Keep}
  BY DEF Typed
<1> HIDE DEF p
<1>4. QED
  BY <1>2, <1>3, AnswerKeeps

LEMMA ServedHolders == ASSUME TypeOK, NEW t \in Tabs, Served(t) PROVE NoNewHolder
<1>1. Typed /\ TunnelToNode /\ BrowserOf[t] \in Browsers
  BY TypeParts, BrowserOfAssumption
<1>2. PICK p \in Sessions \cup {None, Keep} : Answer(t, p, Keep)
  BY <1>1 DEF Served, RootLocal, TunnelAnswers, GateRefuses, TunnelToNode, Sessions
<1>3. UNCHANGED <<mpAuth, request>>
  BY DEF Served, RootLocal, TunnelAnswers, GateRefuses, jar
<1>4. QED
  BY <1>1, <1>2, <1>3, AnswerKeeps

\* Behind the gate: with the current secret nothing is issued; without it the secret
\* that is issued makes every other one worthless.
LEMMA PassedHolders ==
  ASSUME Typed, NEW t \in Tabs, Passed(t)
  PROVE  NoNewHolder \/ OnlyHolder(BrowserOf[t])
<1>1. PICK p, n : IssueAuth(t) /\ AnswerAndIssue(t, p, n)
  BY PassedGate
<1>2. \A u \in Tabs : request[u] \in Requests /\ reply[u] \in Replies
  BY DEF Typed
<1>3. \A u \in Tabs : request'[u].mpAuth = (request[u].mpAuth /\ ~Issue(t))
  <2> SUFFICES ASSUME NEW u \in Tabs
               PROVE  request'[u].mpAuth = (request[u].mpAuth /\ ~Issue(t))
    OBVIOUS
  <2> DEFINE a == request[u].mpAuth /\ ~Issue(t)
  <2>1. request[u] \in Requests /\ a \in BOOLEAN
    BY <1>2 DEF Issue
  <2>2. request'[u] = [request[u] EXCEPT !.mpAuth = a]
    BY <1>1 DEF IssueAuth
  <2> HIDE DEF a
  <2>3. request'[u].mpAuth = a
    BY <2>1, <2>2, RequestAuth
  <2>4. QED
    BY <2>3 DEF a
<1>4. \A u \in Tabs \ {t} : reply'[u].mpAuth =
        IF reply[u].mpAuth = "current" /\ Issue(t) THEN "stale" ELSE reply[u].mpAuth
  <2> SUFFICES ASSUME NEW u \in Tabs \ {t}
               PROVE  reply'[u].mpAuth =
                        IF reply[u].mpAuth = "current" /\ Issue(t) THEN "stale" ELSE reply[u].mpAuth
    OBVIOUS
  <2> DEFINE a == IF reply[u].mpAuth = "current" /\ Issue(t) THEN "stale" ELSE reply[u].mpAuth
  <2>1. reply[u] \in Replies /\ a \in AuthCookies
    BY <1>2, ReplyFields DEF AuthCookies
  <2>2. reply'[u] = [reply[u] EXCEPT !.mpAuth = a]
    BY <1>1 DEF AnswerAndIssue
  <2> HIDE DEF a
  <2>3. reply'[u].mpAuth = a
    BY <2>1, <2>2, ReplyAuth
  <2>4. QED
    BY <2>3 DEF a
<1>5. CASE Issue(t)
  <2>1. \A u \in Tabs : ~request'[u].mpAuth
    BY <1>3, <1>5
  <2>2. \A u \in Tabs \ {t} : reply'[u].mpAuth # "current"
    BY <1>4, <1>5
  <2>3. \A c \in Browsers : ~mpAuth'[c]
    BY <1>1, <1>5 DEF IssueAuth, OthersLoseAuth
  <2>4. QED
    BY <2>1, <2>2, <2>3 DEF OnlyHolder, HoldsAuth
<1>6. CASE ~Issue(t)
  <2>1. reply'[t] = [psession |-> p, mpNode |-> n, mpAuth |-> "keep"]
    BY <1>1, <1>6 DEF AnswerAndIssue
  <2>2. reply'[t].mpAuth = "keep"
    BY <2>1
  <2>3. \A u \in Tabs : reply'[u].mpAuth = "current" => reply[u].mpAuth = "current"
    BY <1>4, <1>6, <2>2
  <2>4. mpAuth' = mpAuth
    BY <1>1, <1>6 DEF IssueAuth
  <2>5. \A u \in Tabs : request'[u].mpAuth => request[u].mpAuth
    BY <1>3
  <2>6. QED
    BY <2>3, <2>4, <2>5, NothingAdded
<1>7. QED
  BY <1>5, <1>6

LEMMA MovesHolders == ASSUME Typed, NEW t \in Tabs, Moves(t) PROVE NoNewHolder
<1> DEFINE b == BrowserOf[t]
<1>1. b \in Browsers
  BY BrowserOfAssumption
<1>2. ASSUME NEW op \in Ops, NEW dest \in Nodes \cup {None}, Send(t, op, dest)
      PROVE  NoNewHolder
  <2> DEFINE q == [op |-> op, dest |-> dest, psession |-> psession[b], mpNode |-> mpNode[b], mpAuth |-> mpAuth[b]]
  <2>1. psession[b] \in Sessions \cup {None} /\ mpNode[b] \in Nodes \cup {None} /\ mpAuth[b] \in BOOLEAN
    BY <1>1 DEF Typed
  <2>2. q.mpAuth = mpAuth[b]
    BY <2>1, RequestSet
  <2>3. request' = [request EXCEPT ![t] = q] /\ UNCHANGED <<mpAuth, reply>>
    BY <1>2 DEF Send, jar
  <2> HIDE DEF q
  <2>4. \A u \in Tabs : request'[u].mpAuth => request[u].mpAuth \/ (u = t /\ mpAuth[b])
    BY <2>2, <2>3 DEF Typed
  <2>5. QED
    BY <2>3, <2>4 DEF NoNewHolder, HoldsAuth
<1>3. CASE RootTunnel(t)
  <2>1. UNCHANGED <<mpAuth, request, reply>>
    BY <1>3 DEF RootTunnel, jar
  <2>2. QED
    BY <2>1, NothingAdded
<1>4. ASSUME Deliver(t) \/ ReplyLost(t)
      PROVE  NoNewHolder
  <2>1. /\ request' = [request EXCEPT ![t] = NoRequest]
        /\ reply' = [reply EXCEPT ![t] = NoReply]
    BY <1>4 DEF Deliver, ReplyLost
  <2>2. /\ \A u \in Tabs : request'[u].mpAuth => request[u].mpAuth
        /\ \A u \in Tabs : reply'[u].mpAuth = "current" => reply[u].mpAuth = "current"
    BY <2>1, Blank DEF Typed
  <2>3. \/ mpAuth' = mpAuth
        \/ mpAuth' = [mpAuth EXCEPT ![b] =
             IF reply[t].mpAuth = "keep" THEN mpAuth[b] ELSE reply[t].mpAuth = "current"]
    BY <1>4 DEF Deliver, ReplyLost, jar
  <2>4. \A c \in Browsers : mpAuth'[c] => mpAuth[c] \/ (c = b /\ reply[t].mpAuth = "current")
    BY <2>3 DEF Typed
  <2>5. QED
    BY <2>2, <2>4 DEF NoNewHolder, HoldsAuth
<1>5. QED
  BY <1>2, <1>3, <1>4 DEF Moves

LEMMA AroundHolders == ASSUME Around PROVE NoNewHolder
<1>1. UNCHANGED <<mpAuth, request, reply>>
  BY DEF Around, SidebarLogout, SessionExpires, NodeUp, NodeDown, jar
<1>2. QED
  BY <1>1, NothingAdded

LEMMA NobodyHolds ==
  ASSUME mpAuth = [b \in Browsers |-> FALSE], request = [t \in Tabs |-> NoRequest],
         reply = [t \in Tabs |-> NoReply]
  PROVE  \A c \in Browsers : ~HoldsAuth(c)
BY Blank DEF HoldsAuth

LEMMA RestartHolders == ASSUME MasterRestarts PROVE NoNewHolder
<1>1. /\ mpAuth' = [b \in Browsers |-> FALSE] /\ request' = [t \in Tabs |-> NoRequest]
      /\ reply' = [t \in Tabs |-> NoReply]
  BY DEF MasterRestarts
<1>2. QED
  BY <1>1, Blank DEF NoNewHolder, HoldsAuth

\* However many browsers and tabs there are, one browser at most has the current secret
\* of the management page, in its cookies or on the way (auth.go:20).
THEOREM SingleManager == Spec => []OneManager
<1>1. Init => OneManager
  BY NobodyHolds DEF Init, OneManager
<1>2. TypeOK /\ OneManager /\ [Next]_vars => OneManager'
  <2> SUFFICES ASSUME TypeOK, OneManager, [Next]_vars
               PROVE  OneManager'
    OBVIOUS
  <2>1. Typed
    BY TypeParts
  <2>2. NoNewHolder \/ \E t \in Tabs : OnlyHolder(BrowserOf[t])
    <3>1. CASE UNCHANGED vars
      BY <3>1, NothingAdded DEF vars, jar
    <3>2. QED
      BY <2>1, <3>1, NextParts, AroundHolders, RestartHolders, MovesHolders, HomeHolders,
         ServedHolders, PassedHolders
  <2>3. QED
    BY <2>2 DEF NoNewHolder, OnlyHolder, OneManager
<1>3. QED
  BY <1>1, <1>2, TypeCorrect, PTL DEF Spec

-----------------------------------------------------------------------------
(***************************************************************************)
(* The way of the local session of b, whose only tab is t.                 *)
(***************************************************************************)
Single(b, t) == Browsers = {b} /\ Tabs = {t}

Set(old, new) == IF new = Keep THEN old ELSE new

\* At home the session is in the cookies, away it is in the stash.
InPlace(b, p, n) == IF n = None THEN p = b ELSE stash = b

\* Nobody has signed in yet.
Fresh(b, t) ==
  /\ psession[b] = None /\ mpNode[b] = None /\ ~mpAuth[b] /\ b \notin valid /\ stash = None
  /\ ~request[t].mpAuth
  /\ reply[t].psession = Keep /\ reply[t].mpNode \in {Keep, None} /\ reply[t].mpAuth # "current"

\* The session is in place before a reply, and after it; a reply that does not carry
\* the session may be lost as well.
Carried(b, t) ==
  /\ phase[t] # "reply" => InPlace(b, psession[b], mpNode[b])
  /\ phase[t] = "reply" =>
       /\ InPlace(b, Set(psession[b], reply[t].psession), Set(mpNode[b], reply[t].mpNode))
       /\ reply[t].psession \in {Keep, None} => InPlace(b, psession[b], mpNode[b])

WayInv(b, t) ==
  ~lost =>
    /\ stash \in {None, b}
    /\ b \notin signedIn => Fresh(b, t)
    /\ phase[t] \in {"sent", "tunnel"} =>
         request[t].psession = psession[b] /\ request[t].mpNode = mpNode[b]
    /\ b \in signedIn => Carried(b, t)

LEMMA Names ==
  ASSUME NEW b, NEW t, Single(b, t)
  PROVE  /\ BrowserOf[t] = b /\ b # None /\ b # Keep /\ b \notin Nodes /\ None # Keep
         /\ None \notin Nodes /\ Keep \notin Nodes
         /\ b \in Browsers /\ t \in Tabs
BY BrowserOfAssumption, NamesAssumption DEF Single

LEMMA WayInit == ASSUME NEW b, NEW t, Single(b, t), Init PROVE WayInv(b, t)
<1>1. /\ stash = None /\ signedIn = {} /\ phase[t] = "idle" /\ psession[b] = None /\ mpNode[b] = None
      /\ mpAuth[b] = FALSE /\ valid = {} /\ request[t] = NoRequest /\ reply[t] = NoReply
  BY Names DEF Init
<1>2. QED
  BY <1>1, Blank DEF WayInv, Fresh

\* Whichever way the browser comes home, its session is in its cookies afterwards.
LEMMA HomeWay ==
  ASSUME NEW b, NEW t, Single(b, t), TypeOK, WayInv(b, t), Home(t)
  PROVE  WayInv(b, t)'
<1>1. Typed
  BY TypeParts
<1>2. /\ GoHome(t) /\ UNCHANGED <<jar, valid, request, signedIn, lost>>
      /\ phase[t] \in {"sent", "tunnel"}
  BY Names, HomeGoesHome
<1>3. /\ phase'[t] = "reply"
      /\ reply'[t].psession = (IF stash = None THEN Keep ELSE stash)
      /\ reply'[t].mpNode = None /\ reply'[t].mpAuth = "keep"
      /\ stash' = None
  BY <1>1, <1>2, Names, GoHomeTyped
<1> SUFFICES ASSUME ~lost
             PROVE  WayInv(b, t)'
  BY <1>2 DEF WayInv
<1>4. stash \in {None, b} /\ (b \notin signedIn => Fresh(b, t)) /\ (b \in signedIn => Carried(b, t))
  BY DEF WayInv
<1>5. b \notin signedIn => Fresh(b, t)'
  BY <1>2, <1>3, <1>4 DEF Fresh, jar
<1>6. b \in signedIn => InPlace(b, psession[b], mpNode[b])
  BY <1>2, <1>4 DEF Carried
<1>7. b \in signedIn => Carried(b, t)'
  BY <1>2, <1>3, <1>4, <1>6, Names DEF Carried, InPlace, Set, jar
<1>8. QED
  BY <1>2, <1>3, <1>5, <1>7 DEF WayInv

\* Behind the gate the browser has signed in; leaving the local panel stashes the session
\* it carries, and leaving a node keeps the one in the stash.
LEMMA PassedWay ==
  ASSUME NEW b, NEW t, Single(b, t), TypeOK, WayInv(b, t), Passed(t)
  PROVE  WayInv(b, t)'
<1>1. Typed /\ t \in Tabs
  BY TypeParts, Names
<1>2. /\ Gate(t) /\ IssueAuth(t) /\ phase[t] = "sent"
      /\ UNCHANGED <<psession, mpNode, valid, online, signedIn, lost>>
  BY <1>1, PassedGate
<1> SUFFICES ASSUME ~lost
             PROVE  WayInv(b, t)'
  BY <1>2 DEF WayInv
<1>3. /\ stash \in {None, b} /\ (b \notin signedIn => Fresh(b, t)) /\ (b \in signedIn => Carried(b, t))
      /\ request[t].psession = psession[b] /\ request[t].mpNode = mpNode[b]
  BY <1>2 DEF WayInv
<1>4. b \in signedIn
  <2>1. SUFFICES ASSUME b \notin signedIn
                 PROVE  FALSE
    OBVIOUS
  <2>2. request[t].psession = None /\ ~request[t].mpAuth
    BY <1>3, <2>1 DEF Fresh
  <2>3. None \notin valid
    BY <1>1, NamesAssumption DEF Typed
  <2>4. QED
    BY <1>2, <2>2, <2>3 DEF Gate, LocalPanelCodeOK
<1>5. InPlace(b, psession[b], mpNode[b])
  BY <1>2, <1>3, <1>4 DEF Carried
<1>6. CASE AnswerAndIssue(t, Keep, Keep) /\ stash' = stash
  <2>1. phase'[t] = "reply" /\ reply'[t].psession = Keep /\ reply'[t].mpNode = Keep
    BY <1>1, <1>2, <1>6, GateTyped
  <2>2. Carried(b, t)'
    BY <1>2, <1>5, <1>6, <2>1 DEF Carried, InPlace, Set
  <2>3. QED
    BY <1>2, <1>3, <1>4, <1>6, <2>1, <2>2 DEF WayInv
<1>7. ASSUME request[t].dest \in Nodes, AnswerAndIssue(t, None, request[t].dest),
             stash' = IF request[t].mpNode = None THEN Stashed(request[t].psession) ELSE stash
      PROVE  WayInv(b, t)'
  <2>1. phase'[t] = "reply" /\ reply'[t].psession = None /\ reply'[t].mpNode = request[t].dest
    BY <1>1, <1>2, <1>7, GateTyped
  <2>2. stash' = b
    BY <1>3, <1>5, <1>7, Names DEF InPlace, Stashed
  <2>3. Carried(b, t)'
    BY <1>2, <1>5, <1>7, <2>1, <2>2, Names DEF Carried, InPlace, Set
  <2>4. QED
    BY <1>2, <1>4, <2>1, <2>2, <2>3 DEF WayInv
<1>8. QED
  BY <1>1, <1>6, <1>7, PassedGate

\* A sign-in puts the local session into the cookies; a node's panel answers only a
\* browser whose session is in the stash.
LEMMA ServedWay ==
  ASSUME NEW b, NEW t, Single(b, t), TypeOK, WayInv(b, t), Served(t)
  PROVE  WayInv(b, t)'
<1>1. Typed /\ TunnelToNode /\ t \in Tabs /\ b \in Browsers
  BY TypeParts, Names
<1>2. UNCHANGED <<jar, stash, online, request, lost>> /\ phase[t] \in {"sent", "tunnel"}
  BY DEF Served, RootLocal, TunnelAnswers, GateRefuses
<1> SUFFICES ASSUME ~lost
             PROVE  WayInv(b, t)'
  BY <1>2 DEF WayInv
<1>3. /\ stash \in {None, b} /\ (b \notin signedIn => Fresh(b, t))
      /\ b \in signedIn => InPlace(b, psession[b], mpNode[b])
      /\ request[t].psession = psession[b] /\ request[t].mpNode = mpNode[b]
  BY <1>2 DEF WayInv, Carried
<1>4. CASE RootLocal(t) /\ request[t].op = "signin"
  <2>1. Answer(t, b, Keep) /\ signedIn' = signedIn \cup {b} /\ request[t].mpNode = None
    BY <1>4, Names DEF RootLocal
  <2>2. b \in Sessions \cup {None, Keep}
    BY <1>1 DEF Sessions
  <2>3. phase'[t] = "reply" /\ reply'[t].psession = b /\ reply'[t].mpNode = Keep
    BY <1>1, <2>1, <2>2, AnswerTyped
  <2>4. Carried(b, t)'
    BY <1>2, <1>3, <2>1, <2>3, Names DEF Carried, InPlace, Set, jar
  <2>5. QED
    BY <1>2, <1>3, <2>1, <2>3, <2>4 DEF WayInv
<1>5. ASSUME Answer(t, Keep, Keep), UNCHANGED <<valid, signedIn>>
      PROVE  WayInv(b, t)'
  <2>1. phase'[t] = "reply" /\ reply'[t].psession = Keep /\ reply'[t].mpNode = Keep /\ reply'[t].mpAuth = "keep"
    BY <1>1, <1>5, AnswerTyped
  <2>2. b \notin signedIn => Fresh(b, t)'
    BY <1>2, <1>3, <1>5, <2>1 DEF Fresh, jar
  <2>3. b \in signedIn => Carried(b, t)'
    BY <1>2, <1>3, <2>1 DEF Carried, InPlace, Set, jar
  <2>4. QED
    BY <1>2, <1>3, <1>5, <2>1, <2>2, <2>3 DEF WayInv
<1>6. ASSUME phase[t] = "tunnel", Answer(t, request[t].mpNode, Keep), UNCHANGED <<valid, signedIn>>
      PROVE  WayInv(b, t)'
  <2>1. mpNode[b] \in Nodes /\ request[t].mpNode = mpNode[b]
    BY <1>1, <1>3, <1>6 DEF TunnelToNode
  <2>2. phase'[t] = "reply" /\ reply'[t].psession = mpNode[b] /\ reply'[t].mpNode = Keep
    BY <1>1, <1>6, <2>1, AnswerTyped DEF Sessions
  <2>3. b \in signedIn /\ stash = b
    BY <1>3, <2>1, Names DEF Fresh, InPlace
  <2>4. Carried(b, t)'
    BY <1>2, <2>1, <2>2, <2>3, Names DEF Carried, InPlace, Set, jar
  <2>5. QED
    BY <1>2, <1>3, <1>6, <2>2, <2>3, <2>4 DEF WayInv
<1>7. QED
  <2>1. CASE RootLocal(t)
    BY <1>4, <1>5, <2>1 DEF RootLocal
  <2>2. CASE TunnelAnswers(t)
    BY <1>5, <1>6, <2>2 DEF TunnelAnswers
  <2>3. CASE GateRefuses(t) /\ request[t].op \in {"api", "rotate"}
    BY <1>5, <2>3 DEF GateRefuses
  <2>4. QED
    BY <2>1, <2>2, <2>3 DEF Served

\* A reply that arrives makes its cookies the browser's.
LEMMA DeliverWay ==
  ASSUME NEW b, NEW t, Single(b, t), TypeOK, WayInv(b, t), Deliver(t)
  PROVE  WayInv(b, t)'
<1>1. Typed /\ t \in Tabs /\ b \in Browsers /\ BrowserOf[t] = b
  BY TypeParts, Names
<1>2. /\ phase[t] = "reply"
      /\ psession'[b] = Set(psession[b], reply[t].psession)
      /\ mpNode'[b] = Set(mpNode[b], reply[t].mpNode)
      /\ UNCHANGED <<valid, stash, online, signedIn, lost>>
  BY <1>1 DEF Deliver, Set, Typed
<1>3. phase'[t] = "idle" /\ request'[t] = NoRequest /\ reply'[t] = NoReply
  BY <1>1 DEF Deliver, Typed
<1> SUFFICES ASSUME ~lost
             PROVE  WayInv(b, t)'
  BY <1>2 DEF WayInv
<1>4. stash \in {None, b} /\ (b \notin signedIn => Fresh(b, t)) /\ (b \in signedIn => Carried(b, t))
  BY DEF WayInv
<1>5. b \notin signedIn => Fresh(b, t)'
  <2> SUFFICES ASSUME b \notin signedIn
               PROVE  Fresh(b, t)'
    OBVIOUS
  <2>1. Fresh(b, t)
    BY <1>4
  <2>2. psession'[b] = None /\ mpNode'[b] = None /\ b \notin valid' /\ stash' = None
    BY <1>2, <2>1, Names DEF Fresh, Set
  <2>3. /\ mpAuth' = [mpAuth EXCEPT ![b] =
               IF reply[t].mpAuth = "keep" THEN mpAuth[b] ELSE reply[t].mpAuth = "current"]
        /\ ~mpAuth[b] /\ reply[t].mpAuth # "current"
    BY <1>1, <2>1 DEF Fresh, Deliver
  <2>4. ~mpAuth'[b]
    BY <1>1, <2>3 DEF Typed
  <2>5. QED
    BY <1>3, <2>2, <2>4, Blank DEF Fresh
<1>6. b \in signedIn => Carried(b, t)'
  BY <1>2, <1>3, <1>4 DEF Carried, InPlace
<1>7. QED
  BY <1>2, <1>3, <1>4, <1>5, <1>6 DEF WayInv

\* A reply that is lost without the session on it leaves the session where it was.
LEMMA ReplyLostWay ==
  ASSUME NEW b, NEW t, Single(b, t), TypeOK, WayInv(b, t), ReplyLost(t)
  PROVE  WayInv(b, t)'
<1>1. Typed /\ t \in Tabs /\ b \in Browsers
  BY TypeParts, Names
<1>2. /\ phase[t] = "reply" /\ UNCHANGED <<jar, valid, stash, online, signedIn>>
      /\ ~lost' => ~lost /\ reply[t].psession \in {Keep, None}
  BY DEF ReplyLost
<1>3. phase'[t] = "idle" /\ request'[t] = NoRequest /\ reply'[t] = NoReply
  BY <1>1 DEF ReplyLost, Typed
<1> SUFFICES ASSUME ~lost'
             PROVE  WayInv(b, t)'
  BY DEF WayInv
<1>4. stash \in {None, b} /\ (b \notin signedIn => Fresh(b, t)) /\ (b \in signedIn => Carried(b, t))
  BY <1>2 DEF WayInv
<1>5. b \notin signedIn => Fresh(b, t)'
  BY <1>2, <1>3, <1>4, Blank DEF Fresh, jar
<1>6. b \in signedIn => Carried(b, t)'
  BY <1>2, <1>3, <1>4 DEF Carried, InPlace, jar
<1>7. QED
  BY <1>2, <1>3, <1>4, <1>5, <1>6 DEF WayInv

\* A request carries the cookies of the moment; with one tab they are still the
\* browser's when the master reads them.
LEMMA RequestWay ==
  ASSUME NEW b, NEW t, Single(b, t), TypeOK, WayInv(b, t),
         RootTunnel(t) \/ \E op \in Ops, dest \in Nodes \cup {None} : Send(t, op, dest)
  PROVE  WayInv(b, t)'
<1>1. Typed /\ t \in Tabs /\ b \in Browsers /\ BrowserOf[t] = b
  BY TypeParts, Names
<1>2. UNCHANGED <<jar, valid, stash, online, reply, signedIn, lost>>
      /\ phase[t] # "reply" /\ phase'[t] \in {"sent", "tunnel"}
  BY <1>1 DEF RootTunnel, Send, Typed
<1> SUFFICES ASSUME ~lost
             PROVE  WayInv(b, t)'
  BY <1>2 DEF WayInv
<1>3. stash \in {None, b} /\ (b \notin signedIn => Fresh(b, t)) /\ (b \in signedIn => Carried(b, t))
  BY DEF WayInv
<1>4. /\ request'[t].psession = psession[b] /\ request'[t].mpNode = mpNode[b]
      /\ request'[t].mpAuth \in {request[t].mpAuth, mpAuth[b]}
  <2>1. CASE RootTunnel(t)
    BY <1>1, <2>1 DEF RootTunnel, WayInv
  <2>2. ASSUME NEW op \in Ops, NEW dest \in Nodes \cup {None}, Send(t, op, dest)
        PROVE  /\ request'[t].psession = psession[b] /\ request'[t].mpNode = mpNode[b]
               /\ request'[t].mpAuth \in {request[t].mpAuth, mpAuth[b]}
    <3> DEFINE q == [op |-> op, dest |-> dest, psession |-> psession[b], mpNode |-> mpNode[b],
                     mpAuth |-> mpAuth[b]]
    <3>1. psession[b] \in Sessions \cup {None} /\ mpNode[b] \in Nodes \cup {None} /\ mpAuth[b] \in BOOLEAN
      BY <1>1 DEF Typed
    <3>2. q \in Requests /\ q.psession = psession[b] /\ q.mpNode = mpNode[b] /\ q.mpAuth = mpAuth[b]
      BY <3>1, RequestSet
    <3>3. request' = [request EXCEPT ![t] = q]
      BY <1>1, <2>2 DEF Send
    <3> HIDE DEF q
    <3>4. request'[t] = q
      BY <1>1, <3>2, <3>3 DEF Typed
    <3>5. QED
      BY <3>2, <3>4
  <2>3. QED
    BY <2>1, <2>2
<1>5. b \notin signedIn => Fresh(b, t)'
  BY <1>2, <1>3, <1>4 DEF Fresh, jar
<1>6. b \in signedIn => Carried(b, t)'
  BY <1>2, <1>3 DEF Carried, InPlace, jar
<1>7. QED
  BY <1>2, <1>3, <1>4, <1>5, <1>6 DEF WayInv, jar

\* Nodes come and go and sessions expire; a logout on a node is a loss.
LEMMA AroundWay ==
  ASSUME NEW b, NEW t, Single(b, t), TypeOK, WayInv(b, t), Around
  PROVE  WayInv(b, t)'
<1> SUFFICES ASSUME ~lost'
             PROVE  WayInv(b, t)'
  BY DEF WayInv
<1>1. /\ UNCHANGED <<jar, stash, phase, request, reply, signedIn, lost>> /\ valid' \subseteq valid
  BY DEF Around, SidebarLogout, SessionExpires, NodeUp, NodeDown
<1>2. Fresh(b, t) => Fresh(b, t)'
  BY <1>1 DEF Fresh, jar
<1>3. Carried(b, t) => Carried(b, t)'
  BY <1>1 DEF Carried, InPlace, jar
<1>4. QED
  BY <1>1, <1>2, <1>3 DEF WayInv, jar

\* A restart loses nothing only if the session is in the cookies.
LEMMA RestartWay ==
  ASSUME NEW b, NEW t, Single(b, t), TypeOK, WayInv(b, t), MasterRestarts
  PROVE  WayInv(b, t)'
<1>1. Typed /\ t \in Tabs /\ b \in Browsers
  BY TypeParts, Names
<1> SUFFICES ASSUME ~lost'
             PROVE  WayInv(b, t)'
  BY DEF WayInv
<1>2. /\ ~lost /\ stash = None /\ reply[t].psession \notin Sessions
      /\ phase'[t] = "idle" /\ request'[t] = NoRequest /\ reply'[t] = NoReply
      /\ stash' = None /\ ~mpAuth'[b] /\ UNCHANGED <<psession, mpNode, valid, signedIn>>
  BY <1>1 DEF MasterRestarts
<1>3. (b \notin signedIn => Fresh(b, t)) /\ (b \in signedIn => Carried(b, t))
  BY <1>2 DEF WayInv
<1>4. reply[t].psession \in {None, Keep}
  BY <1>1, <1>2, ReplyFields DEF Typed
<1>5. b \notin signedIn => Fresh(b, t)'
  BY <1>2, <1>3, Blank DEF Fresh
<1>6. b \in signedIn => Carried(b, t)'
  BY <1>2, <1>3, <1>4, Names DEF Carried, InPlace
<1>7. QED
  BY <1>2, <1>5, <1>6 DEF WayInv

LEMMA WayStep ==
  ASSUME NEW b, NEW t, Single(b, t), TypeOK, WayInv(b, t), [Next]_vars
  PROVE  WayInv(b, t)'
<1>1. CASE UNCHANGED vars
  BY <1>1 DEF vars, jar, WayInv, Fresh, Carried, InPlace
<1>2. CASE Moves(t)
  BY <1>2, DeliverWay, ReplyLostWay, RequestWay DEF Moves
<1>3. \A u \in Tabs : u = t
  BY DEF Single
<1>4. QED
  BY <1>1, <1>2, <1>3, NextParts, AroundWay, RestartWay, HomeWay, ServedWay, PassedWay

LEMMA WayHolds == ASSUME NEW b, NEW t, Single(b, t) PROVE Spec => [](TypeOK /\ WayInv(b, t))
<1>1. Init => WayInv(b, t)
  BY WayInit
<1>2. TypeOK /\ WayInv(b, t) /\ [Next]_vars => WayInv(b, t)'
  BY WayStep
<1>3. QED
  BY <1>1, <1>2, TypeCorrect, PTL DEF Spec

-----------------------------------------------------------------------------
(***************************************************************************)
(* What follows for one browser with one tab, and any number of nodes.     *)
(***************************************************************************)

\* The local session of a browser that has signed in is in its cookies, in the stash or
\* in the reply on its way (switch.go:19, design_notes.md section 2).
THEOREM SessionKept ==
  ASSUME NEW b, NEW t, Single(b, t)
  PROVE  Spec => []LocalSessionKept
<1>1. TypeOK /\ WayInv(b, t) => LocalSessionKept
  <2> SUFFICES ASSUME TypeOK, WayInv(b, t), ~lost, NEW c \in signedIn
               PROVE  Kept(c)
    BY DEF LocalSessionKept
  <2>1. c = b /\ t \in Tabs /\ BrowserOf[t] = b
    BY Names, TypeParts DEF Typed, Single
  <2>2. Carried(b, t)
    BY <2>1 DEF WayInv
  <2>3. psession[b] = b \/ stash = b \/ reply[t].psession = b
    BY <2>2, Names DEF Carried, InPlace, Set
  <2>4. QED
    BY <2>1, <2>3 DEF Kept
<1>2. QED
  BY <1>1, WayHolds, PTL

\* The local panel is never asked with the session of a node (server.go:184-185).
THEOREM LocalSeesLocal ==
  ASSUME NEW b, NEW t, Single(b, t)
  PROVE  Spec => []LocalPanelSeesLocal
<1>1. TypeOK /\ WayInv(b, t) => LocalPanelSeesLocal
  <2> SUFFICES ASSUME WayInv(b, t), ~lost, phase[t] = "sent", request[t].mpNode = None
               PROVE  request[t].psession \notin Nodes
    BY DEF LocalPanelSeesLocal, Single
  <2>1. request[t].psession = psession[b] /\ mpNode[b] = None
    BY DEF WayInv
  <2>2. psession[b] \in {None, b}
    BY <2>1 DEF WayInv, Fresh, Carried, InPlace
  <2>3. QED
    BY <2>1, <2>2, Names
<1>2. QED
  BY <1>1, WayHolds, PTL

\* At home the browser has its own session in its cookies (README.md:66).
THEOREM HomeIsLocal ==
  ASSUME NEW b, NEW t, Single(b, t)
  PROVE  Spec => []HomeMeansLocal
<1>1. TypeOK /\ WayInv(b, t) => HomeMeansLocal
  <2> SUFFICES ASSUME TypeOK, WayInv(b, t), ~lost, NEW c \in signedIn, mpNode[c] = None, Settled(c)
               PROVE  psession[c] = c
    BY DEF HomeMeansLocal
  <2>1. c = b /\ t \in Tabs /\ BrowserOf[t] = b
    BY Names, TypeParts DEF Typed, Single
  <2>2. QED
    BY <2>1 DEF WayInv, Carried, InPlace, Settled
<1>2. QED
  BY <1>1, WayHolds, PTL

\* Away the local session waits in the stash of the master (switch.go:19-20).
THEOREM AwayIsStashed ==
  ASSUME NEW b, NEW t, Single(b, t)
  PROVE  Spec => []AwayMeansStashed
<1>1. TypeOK /\ WayInv(b, t) => AwayMeansStashed
  <2> SUFFICES ASSUME TypeOK, WayInv(b, t), ~lost, NEW c \in signedIn, mpNode[c] # None, Settled(c)
               PROVE  stash = c
    BY DEF AwayMeansStashed
  <2>1. c = b /\ t \in Tabs /\ BrowserOf[t] = b
    BY Names, TypeParts DEF Typed, Single
  <2>2. QED
    BY <2>1 DEF WayInv, Carried, InPlace, Settled
<1>2. QED
  BY <1>1, WayHolds, PTL
=============================================================================
