---------------------------- MODULE AgentTunnel ----------------------------
(***************************************************************************)
(* The reverse tunnel between the agents and the master: the agent's       *)
(* reconnect loop (agent/client.go), the master's handler of /agent/ws     *)
(* (master/server.go), the registry of sessions (master/registry.go) with  *)
(* the proxy requests that use it, and the rotation of the token that      *)
(* admits an agent (master/token.go).                                      *)
(*                                                                         *)
(* A connection is a slot of Conns.  A slot stands for a new connection    *)
(* each time it is dialled, which is possible once neither end, the        *)
(* registry nor a request refers to the one before it.                     *)
(*                                                                         *)
(* Left out: the contents of the register message, the timestamp window of *)
(* the signature, the length of the backoff between two dials, and a       *)
(* repair of master.json by hand.                                          *)
(***************************************************************************)
EXTENDS Naturals

CONSTANTS
  Agents,        \* agent identifiers
  Conns,         \* connection slots
  Owner,         \* Owner[c]: the agent that dials slot c
  Requests,      \* goroutines of the master that open streams to agents
  Rotators,      \* concurrent calls of RotateToken
  NoConn,        \* "no connection"
  NoToken, Bad,  \* master.json: without a token, or cut off in a write
  Down,          \* "no master is running"
  MaxFaults,     \* bound: broken links and master restarts in a behaviour
  MaxTokens      \* bound: tokens generated after the first in a behaviour

ASSUME OwnerAssumption == Owner \in [Conns -> Agents]
ASSUME NoConnAssumption == NoConn \notin Conns
ASSUME NoTokenAssumption ==
  /\ {NoToken, Bad, Down} \cap Nat = {}
  /\ NoToken # Bad /\ Down \notin {NoToken, Bad}
ASSUME BoundAssumption == MaxFaults \in Nat /\ MaxTokens \in Nat

VARIABLES
  registry,   \* byID: the session of an agent, or NoConn
  handler,    \* progress of handleAgentWS on a connection
  mux,        \* the master's smux session on a connection
  link,       \* TRUE while the transport carries data
  signed,     \* the token a connection was signed with
  agent,      \* progress of connectOnce on an agent
  agentConn,  \* the connection the agent uses
  cfgToken,   \* the token in the agent's configuration
  token,      \* Server.Token of the process that runs
  disk,       \* the token in master.json
  unsaved,    \* history: the last write of master.json has failed
  minted,     \* the tokens generated so far, 0 the first
  rot,        \* progress of a RotateToken call
  rotToken,   \* the token that call generated
  rotPend,    \* agents that call has listed and not yet visited
  doomed,     \* history: sessions registered when that call set the token
  req,        \* progress of a request
  reqConn,    \* the session a request got from the registry
  faults      \* faults left

connVars == <<handler, mux, link, signed>>
agentVars == <<agent, agentConn, cfgToken>>
tokenVars == <<token, disk, unsaved, minted>>
rotVars == <<rot, rotToken, rotPend, doomed>>
reqVars == <<req, reqConn>>
vars == <<registry, connVars, agentVars, tokenVars, rotVars, reqVars, faults>>

Tokens == 0 .. MaxTokens

TypeOK ==
  /\ registry \in [Agents -> Conns \cup {NoConn}]
  /\ handler \in [Conns -> {"idle", "dialed", "reading", "acked", "serving"}]
  /\ mux \in [Conns -> {"none", "live", "broken", "closed"}]
  /\ link \in [Conns -> BOOLEAN]
  /\ signed \in [Conns -> Tokens]
  /\ agent \in [Agents -> {"backoff", "dialing", "connected"}]
  /\ agentConn \in [Agents -> Conns \cup {NoConn}]
  /\ cfgToken \in [Agents -> Tokens]
  /\ token \in Tokens \cup {Down} /\ disk \in Tokens \cup {NoToken, Bad}
  /\ unsaved \in BOOLEAN /\ minted \in Tokens
  /\ rot \in [Rotators -> {"idle", "minted", "saving", "saved", "set", "closing"}]
  /\ rotToken \in [Rotators -> Tokens]
  /\ rotPend \in [Rotators -> SUBSET Agents]
  /\ doomed \in [Rotators -> SUBSET Conns]
  /\ req \in [Requests -> {"idle", "got", "dropping"}]
  /\ reqConn \in [Requests -> Conns \cup {NoConn}]
  /\ faults \in 0 .. MaxFaults

\* New has loaded the first token or generated it; it ignores the error of saving it.
Init ==
  /\ registry = [a \in Agents |-> NoConn]
  /\ handler = [c \in Conns |-> "idle"]
  /\ mux = [c \in Conns |-> "none"]
  /\ link = [c \in Conns |-> FALSE]
  /\ signed = [c \in Conns |-> 0]
  /\ agent = [a \in Agents |-> "backoff"]
  /\ agentConn = [a \in Agents |-> NoConn]
  /\ cfgToken = [a \in Agents |-> 0]
  /\ token = 0 /\ minted = 0
  /\ disk \in {0, NoToken, Bad} /\ unsaved \in BOOLEAN
  /\ disk # 0 => unsaved
  /\ rot = [k \in Rotators |-> "idle"]
  /\ rotToken = [k \in Rotators |-> 0]
  /\ rotPend = [k \in Rotators |-> {}]
  /\ doomed = [k \in Rotators |-> {}]
  /\ req = [r \in Requests |-> "idle"]
  /\ reqConn = [r \in Requests |-> NoConn]
  /\ faults = MaxFaults

-----------------------------------------------------------------------------
(* The registry.                                                           *)

IsClosed(c) == mux[c] = "closed"

\* Mutant: the closed check of Get is forgotten.
GetEvenClosed(a) == registry[a]

\* What Get(a) returns: the registered session unless its mux is closed.
Get(a) ==
  IF registry[a] # NoConn /\ ~IsClosed(registry[a]) THEN registry[a] ELSE NoConn

\* Close() of the smux sessions in C: it closes the transport under them too.
Close(C) ==
  /\ mux' = [c \in Conns |-> IF c \in C THEN "closed" ELSE mux[c]]
  /\ link' = [c \in Conns |-> link[c] /\ c \notin C]

\* Mutant: Put leaves the session it replaces open.
PutLeavingOld(c) ==
  /\ UNCHANGED <<mux, link>>
  /\ registry' = [registry EXCEPT ![Owner[c]] = c]

\* Mutant: Put keeps an entry that is already there.
PutIfAbsent(c) ==
  /\ UNCHANGED <<mux, link>>
  /\ registry' = [registry EXCEPT ![Owner[c]] = IF @ = NoConn THEN c ELSE @]

\* Put: the unclosed session that is replaced is closed under the same lock.
Put(c) ==
  /\ Close({Get(Owner[c])} \ {NoConn})
  /\ registry' = [registry EXCEPT ![Owner[c]] = c]

\* Mutant: Remove deletes whatever is registered under the identifier.
RemoveAny(a, c) == registry' = [registry EXCEPT ![a] = NoConn]

\* Remove: only if the mux registered is still the caller's.
Remove(a, c) ==
  registry' = [registry EXCEPT ![a] = IF @ = c THEN NoConn ELSE @]

-----------------------------------------------------------------------------
(* connectOnce and Run of the agent.                                       *)

Unused(c) ==
  /\ handler[c] = "idle"
  /\ agentConn[Owner[c]] # c
  /\ registry[Owner[c]] # c
  /\ \A r \in Requests : reqConn[r] # c

\* The agent signs with its token and dials; without a master it backs off again.
Dial(a, c) ==
  /\ agent[a] = "backoff"
  /\ token # Down
  /\ Owner[c] = a
  /\ Unused(c)
  /\ agent' = [agent EXCEPT ![a] = "dialing"]
  /\ agentConn' = [agentConn EXCEPT ![a] = c]
  /\ handler' = [handler EXCEPT ![c] = "dialed"]
  /\ mux' = [mux EXCEPT ![c] = "none"]
  /\ link' = [link EXCEPT ![c] = TRUE]
  /\ signed' = [signed EXCEPT ![c] = cfgToken[a]]
  /\ doomed' = [k \in Rotators |-> doomed[k] \ {c}]
  /\ UNCHANGED <<registry, cfgToken, tokenVars, rot, rotToken, rotPend, reqVars, faults>>

\* RegisterOK arrives: the agent opens its side of smux and accepts streams.
AckArrives(a) ==
  /\ agent[a] = "dialing"
  /\ link[agentConn[a]]
  /\ handler[agentConn[a]] \in {"acked", "serving"}
  /\ agent' = [agent EXCEPT ![a] = "connected"]
  /\ UNCHANGED <<registry, connVars, agentConn, cfgToken, tokenVars, rotVars, reqVars, faults>>

\* connectOnce returns an error (dial, register or AcceptStream); Run backs off.
Disconnects(a) ==
  /\ agent[a] # "backoff"
  /\ ~link[agentConn[a]]
  /\ agent' = [agent EXCEPT ![a] = "backoff"]
  /\ agentConn' = [agentConn EXCEPT ![a] = NoConn]
  /\ UNCHANGED <<registry, connVars, cfgToken, tokenVars, rotVars, reqVars, faults>>

\* The administrator reruns the install command: the agent restarts with the
\* token the master hands out now.
Reinstall(a) ==
  /\ token # Down /\ cfgToken[a] # token
  /\ cfgToken' = [cfgToken EXCEPT ![a] = token]
  /\ agent' = [agent EXCEPT ![a] = "backoff"]
  /\ agentConn' = [agentConn EXCEPT ![a] = NoConn]
  /\ link' = [c \in Conns |-> link[c] /\ c # agentConn[a]]
  /\ UNCHANGED <<registry, handler, mux, signed, tokenVars, rotVars, reqVars, faults>>

-----------------------------------------------------------------------------
(* handleAgentWS of the master.                                            *)

VerifyToken(c) == signed[c] = token

\* VerifyToken, then Accept; a wrong signature is answered 401.
Verify(c) ==
  /\ handler[c] = "dialed"
  /\ \/ /\ VerifyToken(c)
        /\ handler' = [handler EXCEPT ![c] = "reading"]
        /\ UNCHANGED link
     \/ /\ ~VerifyToken(c)
        /\ handler' = [handler EXCEPT ![c] = "idle"]
        /\ link' = [link EXCEPT ![c] = FALSE]
  /\ UNCHANGED <<registry, mux, signed, agentVars, tokenVars, rotVars, reqVars, faults>>

\* The register message is read, RegisterOK is written, smux.Server starts.
Acknowledge(c) ==
  /\ handler[c] = "reading"
  /\ link[c]
  /\ handler' = [handler EXCEPT ![c] = "acked"]
  /\ mux' = [mux EXCEPT ![c] = "live"]
  /\ UNCHANGED <<registry, link, signed, agentVars, tokenVars, rotVars, reqVars, faults>>

\* Accept, the read of the register message or the write of RegisterOK fails.
HandlerFails(c) ==
  /\ handler[c] \in {"dialed", "reading"}
  /\ ~link[c]
  /\ handler' = [handler EXCEPT ![c] = "idle"]
  /\ UNCHANGED <<registry, mux, link, signed, agentVars, tokenVars, rotVars, reqVars, faults>>

\* reg.Put, after which the handler waits on CloseChan.
PutSession(c) ==
  /\ handler[c] = "acked"
  /\ Put(c)
  /\ handler' = [handler EXCEPT ![c] = "serving"]
  /\ UNCHANGED <<signed, agentVars, tokenVars, rotVars, reqVars, faults>>

\* Mutant: the handler returns without reg.Remove.
SessionEndsUnremoved(c) ==
  /\ handler[c] = "serving"
  /\ IsClosed(c)
  /\ handler' = [handler EXCEPT ![c] = "idle"]
  /\ UNCHANGED <<registry, mux, link, signed, agentVars, tokenVars, rotVars, reqVars, faults>>

\* CloseChan fires: reg.Remove(id, session) and the handler returns.
SessionEnds(c) ==
  /\ handler[c] = "serving"
  /\ IsClosed(c)
  /\ Remove(Owner[c], c)
  /\ handler' = [handler EXCEPT ![c] = "idle"]
  /\ UNCHANGED <<mux, link, signed, agentVars, tokenVars, rotVars, reqVars, faults>>

-----------------------------------------------------------------------------
(* smux on a transport that has failed.                                    *)

\* A failed read leaves the session unclosed, but no stream opens on it.
ReadError(c) ==
  /\ mux[c] = "live"
  /\ ~link[c]
  /\ mux' = [mux EXCEPT ![c] = "broken"]
  /\ UNCHANGED <<registry, handler, link, signed, agentVars, tokenVars, rotVars, reqVars, faults>>

\* The keepalive timeout closes a session that hears nothing.
KeepaliveExpires(c) ==
  /\ mux[c] \in {"live", "broken"}
  /\ ~link[c]
  /\ Close({c})
  /\ UNCHANGED <<registry, handler, signed, agentVars, tokenVars, rotVars, reqVars, faults>>

-----------------------------------------------------------------------------
(* A request to an agent: proxyHTTP, proxyWebSocket and the control calls. *)

ReqGet(r, a) ==
  /\ req[r] = "idle"
  /\ Get(a) # NoConn
  /\ req' = [req EXCEPT ![r] = "got"]
  /\ reqConn' = [reqConn EXCEPT ![r] = Get(a)]
  /\ UNCHANGED <<registry, connVars, agentVars, tokenVars, rotVars, faults>>

\* OpenStream succeeds: what follows does not touch the registry.
ReqOpens(r) ==
  /\ req[r] = "got"
  /\ mux[reqConn[r]] = "live"
  /\ req' = [req EXCEPT ![r] = "idle"]
  /\ reqConn' = [reqConn EXCEPT ![r] = NoConn]
  /\ UNCHANGED <<registry, connVars, agentVars, tokenVars, rotVars, faults>>

\* OpenStream fails: dropDeadSession closes the mux ...
ReqDrops(r) ==
  /\ req[r] = "got"
  /\ mux[reqConn[r]] # "live"
  /\ Close({reqConn[r]})
  /\ req' = [req EXCEPT ![r] = "dropping"]
  /\ UNCHANGED <<registry, handler, signed, agentVars, tokenVars, rotVars, reqConn, faults>>

\* ... and then removes the session, whatever is registered by now.
ReqRemoves(r) ==
  /\ req[r] = "dropping"
  /\ Remove(Owner[reqConn[r]], reqConn[r])
  /\ req' = [req EXCEPT ![r] = "idle"]
  /\ reqConn' = [reqConn EXCEPT ![r] = NoConn]
  /\ UNCHANGED <<connVars, agentVars, tokenVars, rotVars, faults>>

-----------------------------------------------------------------------------
(* RotateToken.                                                            *)

RotateGenerate(k) ==
  /\ rot[k] = "idle"
  /\ token # Down
  /\ minted < MaxTokens
  /\ minted' = minted + 1
  /\ rotToken' = [rotToken EXCEPT ![k] = minted + 1]
  /\ rot' = [rot EXCEPT ![k] = "minted"]
  /\ UNCHANGED <<registry, connVars, agentVars, token, disk, unsaved, rotPend, doomed, reqVars, faults>>

\* RotateToken returns an error.
RotateFails(k) ==
  /\ rot' = [rot EXCEPT ![k] = "idle"]
  /\ rotToken' = [rotToken EXCEPT ![k] = 0]

\* Mutant: the error of SaveMaster is ignored.
RotateOpensUnchecked(k) ==
  /\ rot[k] = "minted"
  /\ \/ /\ disk = Bad
        /\ RotateFails(k)
        /\ UNCHANGED <<disk, unsaved>>
     \/ /\ disk # Bad
        /\ disk' = Bad
        /\ rot' = [rot EXCEPT ![k] = "saving"]
        /\ UNCHANGED <<unsaved, rotToken>>
     \/ /\ disk # Bad
        /\ rot' = [rot EXCEPT ![k] = "saved"]
        /\ unsaved' = TRUE
        /\ UNCHANGED <<disk, rotToken>>
  /\ UNCHANGED <<registry, connVars, agentVars, token, minted, rotPend, doomed, reqVars, faults>>

\* LoadMasterOrEmpty, which a file that has been cut off fails, and SaveMaster, which
\* empties the file, if it can open it, ...
RotateOpens(k) ==
  /\ rot[k] = "minted"
  /\ \/ /\ disk = Bad
        /\ RotateFails(k)
        /\ UNCHANGED <<disk, unsaved>>
     \/ /\ disk # Bad
        /\ disk' = Bad
        /\ rot' = [rot EXCEPT ![k] = "saving"]
        /\ UNCHANGED <<unsaved, rotToken>>
     \/ /\ disk # Bad
        /\ RotateFails(k)
        /\ unsaved' = TRUE
        /\ UNCHANGED disk
  /\ UNCHANGED <<registry, connVars, agentVars, token, minted, rotPend, doomed, reqVars, faults>>

\* ... and writes it.  A write that fails leaves the file cut off; the token in memory
\* is the old one then.
RotateSave(k) ==
  /\ rot[k] = "saving"
  /\ \/ /\ disk' = rotToken[k]
        /\ unsaved' = FALSE
        /\ rot' = [rot EXCEPT ![k] = "saved"]
        /\ UNCHANGED rotToken
     \/ /\ disk' = Bad
        /\ unsaved' = TRUE
        /\ RotateFails(k)
  /\ UNCHANGED <<registry, connVars, agentVars, token, minted, rotPend, doomed, reqVars, faults>>

RotateSet(k) ==
  /\ rot[k] = "saved"
  /\ token' = rotToken[k]
  /\ rot' = [rot EXCEPT ![k] = "set"]
  /\ doomed' = [doomed EXCEPT ![k] = {Get(a) : a \in Agents} \ {NoConn}]
  /\ UNCHANGED <<registry, connVars, agentVars, disk, unsaved, minted, rotToken, rotPend, reqVars, faults>>

\* reg.List(): a snapshot of the agents whose session is not closed.
RotateList(k) ==
  /\ rot[k] = "set"
  /\ rotPend' = [rotPend EXCEPT ![k] = {a \in Agents : Get(a) # NoConn}]
  /\ rot' = [rot EXCEPT ![k] = "closing"]
  /\ UNCHANGED <<registry, connVars, agentVars, tokenVars, rotToken, doomed, reqVars, faults>>

\* One turn of the loop: the session a has now, if any, is closed.  (That Get
\* and Close are two steps makes no difference: a session replaced between them
\* has been closed by Put, and closing it a little earlier changes nothing.)
RotateClose(k, a) ==
  /\ rot[k] = "closing"
  /\ a \in rotPend[k]
  /\ Close({Get(a)} \ {NoConn})
  /\ rotPend' = [rotPend EXCEPT ![k] = @ \ {a}]
  /\ UNCHANGED <<registry, handler, signed, agentVars, tokenVars, rot, rotToken, doomed, reqVars, faults>>

\* Mutant: the loop over the agents is left early.
RotateReturnEarly(k) ==
  /\ rot[k] = "closing"
  /\ rot' = [rot EXCEPT ![k] = "idle"]
  /\ rotToken' = [rotToken EXCEPT ![k] = 0]
  /\ UNCHANGED <<registry, connVars, agentVars, tokenVars, rotPend, doomed, reqVars, faults>>

RotateReturn(k) ==
  /\ rot[k] = "closing"
  /\ rotPend[k] = {}
  /\ rot' = [rot EXCEPT ![k] = "idle"]
  /\ rotToken' = [rotToken EXCEPT ![k] = 0]
  /\ UNCHANGED <<registry, connVars, agentVars, tokenVars, rotPend, doomed, reqVars, faults>>

-----------------------------------------------------------------------------
(* Faults.                                                                 *)

\* The transport of c fails; neither end knows yet.
Cut(c) ==
  /\ link[c]
  /\ faults > 0
  /\ faults' = faults - 1
  /\ link' = [link EXCEPT ![c] = FALSE]
  /\ UNCHANGED <<registry, handler, mux, signed, agentVars, tokenVars, rotVars, reqVars>>

\* Mutant: New does not ask whether there is a token.
NewUnasked ==
  \/ /\ disk # Bad
     /\ token' = disk
     /\ UNCHANGED <<disk, unsaved, minted>>
  \/ /\ disk = Bad
     /\ token' = Down
     /\ UNCHANGED <<disk, unsaved, minted>>

\* The writes of master.json by New, of all it holds; an error is logged or ignored.
NewSaves ==
  \/ disk' = token' /\ unsaved' = FALSE
  \/ disk' \in {disk, Bad} /\ unsaved' = TRUE

\* New: the token of master.json, or a new one if there is none.  A file that does not
\* parse ends the process, and every one that systemd starts after it.
New ==
  \/ /\ disk \in Tokens
     /\ token' = disk
     /\ NewSaves \/ UNCHANGED <<disk, unsaved>>
     /\ UNCHANGED minted
  \/ /\ disk = NoToken
     /\ minted < MaxTokens
     /\ minted' = minted + 1
     /\ token' = minted + 1
     /\ NewSaves
  \/ /\ disk = Bad
     /\ token' = Down
     /\ UNCHANGED <<disk, unsaved, minted>>

\* The master process dies, in the middle of whatever it does, and starts again.
MasterRestarts ==
  /\ token # Down
  /\ faults > 0
  /\ faults' = faults - 1
  /\ registry' = [a \in Agents |-> NoConn]
  /\ handler' = [c \in Conns |-> "idle"]
  /\ mux' = [c \in Conns |-> "none"]
  /\ link' = [c \in Conns |-> FALSE]
  /\ New
  /\ rot' = [k \in Rotators |-> "idle"]
  /\ rotToken' = [k \in Rotators |-> 0]
  /\ rotPend' = [k \in Rotators |-> {}]
  /\ doomed' = [k \in Rotators |-> {}]
  /\ req' = [r \in Requests |-> "idle"]
  /\ reqConn' = [r \in Requests |-> NoConn]
  /\ UNCHANGED <<signed, agentVars>>

\* systemd starts it again and again, to no avail.
StartsInVain ==
  /\ token = Down
  /\ UNCHANGED vars

-----------------------------------------------------------------------------
HandlerStep(c) ==
  \/ Verify(c) \/ Acknowledge(c) \/ HandlerFails(c) \/ PutSession(c)
  \/ SessionEnds(c) \/ KeepaliveExpires(c)

AgentStep(a) ==
  \/ \E c \in Conns : Dial(a, c)
  \/ AckArrives(a) \/ Disconnects(a)

RequestStep(r) == ReqOpens(r) \/ ReqDrops(r) \/ ReqRemoves(r)

RotateStep(k) ==
  \/ RotateOpens(k) \/ RotateSave(k) \/ RotateSet(k) \/ RotateList(k) \/ RotateReturn(k)
  \/ \E a \in Agents : RotateClose(k, a)

Next ==
  \/ \E c \in Conns : HandlerStep(c) \/ ReadError(c) \/ Cut(c)
  \/ \E a \in Agents : AgentStep(a) \/ Reinstall(a)
  \/ \E r \in Requests : RequestStep(r) \/ \E a \in Agents : ReqGet(r, a)
  \/ \E k \in Rotators : RotateStep(k) \/ RotateGenerate(k)
  \/ MasterRestarts \/ StartsInVain

Spec == Init /\ [][Next]_vars

\* The goroutines of the master run, the agent's loop never gives up, and a
\* dead transport is noticed by the keepalive.  Nothing obliges a user to
\* send a request, an administrator to act or a fault to happen.
FairSpec ==
  /\ Spec
  /\ \A c \in Conns : WF_vars(HandlerStep(c))
  /\ \A a \in Agents : WF_vars(AgentStep(a))
  /\ \A r \in Requests : WF_vars(RequestStep(r))
  /\ \A k \in Rotators : WF_vars(RotateStep(k))
-----------------------------------------------------------------------------
(* Properties.                                                             *)

\* The registry and the goroutines that wait on its sessions match.  A handler that
\* waits on the CloseChan of an unclosed session is the one the registry leads to
\* (registry.go, Put and Remove): otherwise nothing but the keepalive could ever end
\* it.  And an entry has a handler that will remove it (server.go, the end of
\* handleAgentWS).
NoOrphanSession ==
  \A c \in Conns :
    handler[c] = "serving" /\ ~IsClosed(c) => registry[Owner[c]] = c

NoStaleEntry ==
  \A a \in Agents :
    registry[a] # NoConn => /\ Owner[registry[a]] = a
                            /\ handler[registry[a]] = "serving"

NoLeakedSession == NoOrphanSession /\ NoStaleEntry

\* Both ends agree: when an agent that takes itself for connected has an intact
\* transport and the master has put its session, requests for the agent go to
\* that very session and not to one of an earlier connection.
LinkedAgentIsRegistered ==
  \A a \in Agents :
    /\ agent[a] = "connected"
    /\ link[agentConn[a]]
    /\ handler[agentConn[a]] = "serving"
    => Get(a) = agentConn[a]

\* When RotateToken has returned, every session that was registered at the
\* moment the token changed is closed, whatever replaced or dropped it since.
RotationDropsRegistered ==
  \A k \in Rotators : rot[k] = "idle" => \A c \in doomed[k] : IsClosed(c)

\* Between rotations a restart loads the token in memory (token.go:19, "the caller is
\* responsible for the disk"), unless the last write of master.json has failed; and then
\* it finds no token at all.  It never takes up one that was in force before, or one
\* that RotateToken has reported as failed.
TokenDurable ==
  token # Down /\ (\A k \in Rotators : rot[k] = "idle") =>
    disk = token \/ (unsaved /\ disk \in {NoToken, Bad})

\* Remove never takes away a session that still works: outside a restart an
\* entry disappears only when its mux is closed (registry.go:67).
OnlyDeadEntriesDropped ==
  [][MasterRestarts \/
     \A a \in Agents :
       registry[a] # NoConn /\ registry'[a] = NoConn => IsClosed(registry[a])]_vars

\* The inductive invariant of the proofs: NoStaleEntry and NoOrphanSession with
\* what they rest on.  A mux exists exactly from Acknowledge on, and a closed
\* one has no transport; ...
MuxMatchesHandler ==
  \A c \in Conns :
    /\ handler[c] \in {"dialed", "reading"} => mux[c] = "none"
    /\ handler[c] \in {"acked", "serving"} => mux[c] # "none"
    /\ handler[c] = "idle" => mux[c] \in {"none", "closed"}
    /\ IsClosed(c) => ~link[c]

\* ... an agent uses a connection of its own, which the master has accepted if
\* the agent takes itself for connected over an intact transport; ...
AgentHoldsConn ==
  \A a \in Agents :
    /\ (agent[a] = "backoff") <=> (agentConn[a] = NoConn)
    /\ agentConn[a] # NoConn => Owner[agentConn[a]] = a
    /\ agent[a] = "connected" /\ link[agentConn[a]] =>
         handler[agentConn[a]] \in {"acked", "serving"}

\* ... a request holds a session that has been put, and drops only a closed one; ...
RequestHoldsSession ==
  \A r \in Requests :
    /\ (req[r] = "idle") <=> (reqConn[r] = NoConn)
    /\ req[r] # "idle" => /\ handler[reqConn[r]] \in {"serving", "idle"}
                          /\ mux[reqConn[r]] # "none"
    /\ req[r] = "dropping" => IsClosed(reqConn[r])

\* ... and a rotation still has before it every session it must close.
RotationTracks ==
  \A k \in Rotators : \A c \in doomed[k] :
    \/ IsClosed(c)
    \/ /\ handler[c] = "serving"
       /\ \/ rot[k] = "set"
          \/ rot[k] = "closing" /\ Owner[c] \in rotPend[k]

TunnelInv ==
  /\ NoStaleEntry
  /\ NoOrphanSession
  /\ MuxMatchesHandler
  /\ AgentHoldsConn
  /\ RequestHoldsSession
  /\ RotationTracks

\* The registry with all its users implements the directory of TunnelDirectory.
Directory == INSTANCE TunnelDirectory WITH
  current <- [a \in Agents |-> {Get(a)} \ {NoConn}],
  ended <- {c \in Conns : IsClosed(c)}

ImplementsDirectory == Directory!Spec

\* An agent is reachable: its connection is up and is the one the registry has.
Online(a) ==
  /\ agent[a] = "connected"
  /\ link[agentConn[a]]
  /\ Get(a) = agentConn[a]

\* An agent that holds the current token ends up online, however the broken
\* links, restarts and late handlers of its earlier connections interleave.
AgentComesBack ==
  \A a \in Agents : <>[](cfgToken[a] = token) => <>[]Online(a)

\* A session whose transport is gone does not stay in the registry: the agent
\* disappears from the node list or is replaced.
DeadSessionLeaves ==
  \A c \in Conns : (registry[Owner[c]] = c /\ ~link[c]) ~> (registry[Owner[c]] # c)
=============================================================================
