# Verification of 1pm (1panel-agent)

1pm puts one gateway in front of many 1Panel hosts. A *master* takes over the port
of the 1Panel on its own host and serves it from there; an *agent* on every other
host dials the master over a websocket, and the master reaches that host's 1Panel
through streams multiplexed (smux) on this connection. A browser moves between the
panels with one cookie jar on one origin.

This directory holds TLA+ models of the parts of 1pm whose correctness depends on
the order in which things happen, the TLC configurations that check them on small
instances, and proofs, checked by TLAPS, that hold for every instance.
`PROJECT.json` maps every definition to the lines of source it models, and lists
the runs, the mutants that show each property can fail, the hazards and the
theorems.

    tlc -workers 2 -config Takeover.cfg Takeover     # one run
    tlapm Takeover_proofs.tla                        # one proof

Paths below are relative to `src/internal/` unless they start with `docs/` or `cmd/`.


## 1. Inventory

### Components, their state and their operations

| component | source | state | operations | module |
|---|---|---|---|---|
| Tunnel and registry | master/server.go, master/registry.go, agent/client.go | `byID`, one smux session per connection, the agent's current session and backoff | dial, verify, acknowledge, `Put`, `Get`, `List`, `Remove`, `dropDeadSession` | AgentTunnel |
| Token | master/token.go, config/sign.go | `Server.Token`, the token in master.json, the one in each agent's configuration | `VerifyToken`, `RotateToken` | AgentTunnel |
| Panel switching and the gate of the management page | master/switch.go, auth.go, cookies.go, server.go (`handleRoot`) | cookies `psession`, `mp_node`, `mp_auth`; `localSessCookies`; the `mp_auth` secret | `handleSwitch`, `restoreLocalAndRedirect`, `redirectToMasterLogin`, `ensureMPAuth` | SessionSwitch |
| Proxied streams and framing | protocol/protocol.go, master/server.go, agent/client.go | what is on its way in a stream; progress of both handlers | `CopyChunks`, `ChunkReader`, `proxyHTTP`, `proxyWebSocket`, `handleHTTP`, `handleWS` | TunnelStream |
| Session of an agent at its panel | agent/client.go | `sessCookies`, `sessUntil`, login cooldown | `getSessionCookies`, `clearSession`, the retry of `handleHTTP` | AgentProxy |
| Takeover and uninstall | master/prepare.go, server.go (`New`), uninstall.go, config/master.go | master.json; the port 1Panel is configured for; the port it listens on | `EnsureTakeover`, `SaveMaster`, `Clean` | Takeover |
| Certificate, listener, upstream | master/tls.go, server.go, panel/ssl.go | two files of 1Panel, `certStore`, `lastMod`, scheme of `LocalPanel` | the reloader's tick, `onChange` | PanelTLS |
| SSL switch | master/panel_ssl.go, agent/panel_control.go | `master_tls` of each agent in memory and on disk | `handlePanelSSL`, `broadcastPanelControl`, `applyMasterTLS` | PanelTLS |
| Updates | master/update.go, selfupdate.go, agent/update.go, release/download.go, cmd | the binary of a host and the release its service runs; `updateStatus` | download, checksum, replace, restart; `runForceUpdate` | Update |
| Panel upgrades | agent/panel_upgrade.go, panel/api.go | the agent's cached session | ask for the version, upgrade, drop the session | AgentProxy |
| Hardening of an agent's panel | agent/harden.go, detect.go | 1Panel's settings and process, `PanelURL` | SSL off, wait, look again, bind to 127.0.0.1, wait | PanelHardening, AgentHost |
| Roles of a host and agent.json | role/role.go, config/config.go, agent/install.go, uninstall.go, master/install.go, install.sh, cmd | agent.json and the copies of it in memory, units, marks of both roles | `agent run`, `agent install`, `setpwd`, both scripts, `uninstall` | AgentHost |
| Login at a panel | panel/login.go, encrypt.go | none of its own | a login reaches the panel or fails | PanelHardening, AgentProxy |
| Command line | cmd | none | `run`, `install`, `setpwd`, `update`, `uninstall`, `master` | AgentHost, Update, Takeover |
| Host statistics | master/stats.go, agent/stats.go, hoststats | figures in the registry's entries | fetch, `UpdateStats` | not modelled |
| Management page and injected script, compression, units | master/ui.go, inject.go, protocol/compress.go, deploy | none | presentation, conversion | not modelled |

### How they interact

- *Agents and master* exchange messages over a transport that may break at any
  moment without either end knowing: the handshake, then smux streams, each of which
  carries one request.
- *Goroutines of the master* share the registry (one mutex per operation, none
  across operations), the token, the stash of the local session, `updateStatus` and
  `certStore`. Nearly every hazard is a pair of such operations with something else
  in between: `Get` and `OpenStream`, `VerifyToken` and `Put`, `List` and `Close`.
- *Master and 1Panel* share files (settings, certificate) and processes (restart);
  each step of one may be followed by a crash of the other.
- *Processes of one host* share agent.json, the units and the panel: the agent's
  service, `setpwd`, the agent script, install.sh and `uninstall` read the file when they
  start and write the whole of it later, and harden the same panel without knowing of
  each other.
- *Browser and master* share cookies: a request carries those of the moment it was
  sent and its reply changes those of the moment it arrives.

### What makes it hard, and what makes it correct

| component | hard | correct if |
|---|---|---|
| Tunnel | an agent has several connections at once, whose handlers run late; failed links are noticed at different times by both ends; restarts | one current session per agent, replaced in one step; no session leaked, no entry left; both ends agree; an agent comes back |
| Token | a rotation runs beside handshakes | what was registered when the token changed is disconnected; disk and memory agree |
| Switching | one cookie name for all panels; a node goes away in any request | the local session is never lost, never overwritten in the stash, never replaced by a node's |
| Streams | partial reads; either end stops in the middle; frames and raw bytes on one stream | in step, whole if undisturbed, nobody waits for ever |
| Agent's session | concurrent requests and an upgrade, one cache, a retry | one answer, one execution at most, a dropped session stays dropped |
| Hardening | the panel restarts by itself while it is looked at; two hardenings at once | a hardening that ends well leaves the panel closed |
| Roles, agent.json | installations beside services that restart; a file written from an old copy; a crash inside a write | never both roles; an installation stays installed |
| Takeover | a crash between any two of: save ports, change port, restart panel, save token | the public port is kept; an uninstall undoes everything |
| TLS | the reloader reads a pair of files 1Panel is writing; agents are told ahead of what they do | torn pairs do not stay; agents are told when the listener is ready and come back |
| Updates | two force updates; lost answers; a restart by the updated process itself | every agent accounted for; a success is one; the new binary runs |

The hazards at their lines are in `PROJECT.json`, with the properties that cover
them or the reason why none does.


## 2. Plan

Order of the modules, the most important behaviour first:

1. `AgentTunnel`, with `TunnelDirectory` as the abstract specification it
   implements, and `AgentTunnel_proofs`. *Done.*
2. `SessionSwitch` (one browser with one tab, then several of both) and its proofs.
   *Done.*
3. `TunnelStream` and `AgentProxy`, the two halves of a request, with `PanelRequest`
   as the abstract specification of the second, and their proofs. *Done.*
4. `Takeover`, with `PortLease` as the abstract specification it implements, and
   `Takeover_proofs`. *Done.*
5. `Update`, with `Rollout` as that of its force updates, and `PanelTLS`, and their
   proofs. *Done.*
6. `PanelHardening` and `AgentHost`, which composes it with the services and commands
   of a host, and `AgentHost_proofs`. *Done.*

To come:

- Decreasing measures for the other loops whose end is only model-checked, as
  `TunnelStream` and the reloader of `PanelTLS` have one.
- `PublicPortKept` and `NeverBoth` on one host together: `Takeover` inside `AgentHost`.

Every module is written to be proved about as well as checked: parameters are
CONSTANTS with named assumptions, one action per operation, invariants are
conjunctions of named parts, and none declares a RECURSIVE operator.


## 3. The modules

**AgentTunnel** models `connectOnce` and `Run` of the agent, `handleAgentWS`, the
registry, the requests that look sessions up, and `RotateToken`. A connection is a
slot of `Conns`; the slot is dialled anew once no end, no registry entry and no
request refers to it, so that a finite number of slots stands for any number of
connections of which only so many overlap. `handler[c]` is the place in
`handleAgentWS`: `dialed`, `reading` (verified, accepted), `acked` (RegisterOK
written, smux running), `serving` (put; waits on CloseChan). `mux` is the master's
session: a failed read leaves it `broken` but not closed, as smux does, until the
keepalive or a request closes it. Each registry operation is one step, as it is
under the mutex; `ReqDrops` and `ReqRemoves` are two, because `dropDeadSession`
closes and then removes. A crash of the master forgets everything but `disk`. Like every
write of the program's files, a save empties master.json first (config/master.go:80), so a
crash or an error in the middle leaves it cut off (`Bad`), and the master that starts
then ends at once, each time (`Down`, `StartsInVain`). A file without a token
(`NoToken`) is where `New` generates the first one, whose failed save it does not notice
(server.go:74); `unsaved` records that the last write of the file has failed. A
`RotateToken` whose save fails keeps the old token in memory and has destroyed the one on
disk.

**TunnelDirectory** says what the registry promises: per agent at most one current
tunnel; a new one takes over in the step in which the old one ends; what has ended is
never handed out again. `AgentTunnel` implements it under
`current <- {Get(a)}`, `ended <- {c : IsClosed(c)}`.

**SessionSwitch** models one cookie jar per browser and every way in and out of a
node: the switch, the way home by the page, by a node that is offline, by a stream
that cannot be opened and by a node's redirect to its login. `Send` copies the
cookies into the request and `Deliver` applies the reply, so that whatever happens in
between meets the cookies of two different moments. A reply to which a secret was issued
sets `mp_auth` to a value that may be worthless when it arrives (`AuthCookies`), because
another tab or browser has passed the gate since. A rotation of the token issues
a new secret to a browser that holds the current one already (`Issue`, token.go:74). `lost` records what ends a
session by design: a restart of the master, a reply that never arrives, the
sidebar's logout.

**TunnelStream** is one request from end to end: the two directions of its stream as
sequences of frames with the way they end (open, plain EOF, error), both handlers,
and `CopyChunks` as the set of outcomes one turn of its loop may have (bytes, bytes
with EOF, EOF, an error with or without bytes). `SessionFails` cuts what is on the
way anywhere, each direction with an error or with a plain EOF: the end that closes its
`Mux` itself gives its own readers an EOF. `MasterWaits` and `AgentWaits` say where each handler waits for the other;
`Work` bounds the steps that are left: what each handler has still to read and write, by
its place in the code, and the frames on the way.

**AgentProxy** is the agent's side above the stream: `getSessionCookies` and
`clearSession` are atomic (`sessMu`), and any number of requests, websockets and upgrades
of the panel run between them. Whether a user is configured and whether a password is there that can be
decrypted are two questions: a redirect to the login is tried again if there is a
user (client.go:294), a login needs both. A websocket is not tried again; an upgrade asks for the
version and then for the upgrade with one session, and drops that session once the upgrade
has begun. What the panel answers is external; that a redirect to the login or a 401
means "not carried out" is assumed of it.

**PanelRequest** says what the master may rely on when it sends a request to a node's
panel: carried out once at most, answered once, not carried out after the answer, no
success told of a request that was not carried out. `AgentProxy` implements it under
`carried <- executed`.

**Takeover** has the port 1Panel is configured for (`dbPort`) and the one it listens
on (`panelAt`) as two variables, because "1panel update port" changes the first and a
restart the second. `New` is seven steps, between any two of which the process may
end; a write of master.json may fail before or after it has emptied the file (`Bad`).
`Clean` runs against a master anywhere in `New`. The administrator may change the
port or restart 1Panel at any moment.

**PortLease** is what the takeover promises: the master borrows the port 1Panel has
and no other, under a lease on record; serves its users on that port only while it holds
the lease; sends 1Panel to the port the lease names and nowhere else; and gives the
lease up only with 1Panel configured for its own port again, unless something came between. `Takeover`
implements it with the two ports of master.json as the lease and the port 1Panel is
configured for as `panel`.

**Update** has a binary and a running release per host, updaters of three kinds (by
tunnel, by the page, by `1pm update`), and the force update with its goroutine per
agent. `Downloads` is the set of results that `DownloadBinary` may have given what
each mirror may answer. The goroutine that restarts a service is the step `Restart`;
an updater of kind `cli` has none, since its process ends first.

**Rollout** is what the reader of the status sees of the force updates: one at a time;
one verdict for each agent it is for, once, and a good one only for an agent that has been
updated; closed, with the number of good verdicts, when none is owed. `Update` implements it
with the goroutines that are not done as `waiting`; the sessions, the deadline, a second
request and the updates that nobody asked for over the tunnel do not show.

**PanelTLS** gives each certificate a version, which is its content and its file
time. The reloader stats, reads the certificate and reads the key in three steps,
with 1Panel writing in between; a certificate that appears or goes is first stored and
then told to the upstream (`onChange`, tls.go:77, 86), and the listener serves in
between. A handler of the SSL switch waits for the files, then
for a whole tick, then tells the agents.

**PanelHardening** is `EnsureLocalPanelHardening` step by step against a panel whose
settings change at once and whose process follows by a restart of its own. A look at the
port (`ss`) sees the process, not the settings. `place[p]` is where a process is in the
function; an answer of the panel may be lost after it has done what it was asked for.

**AgentHost** composes the hardenings of the agent's service and of `setpwd` with the
rest of a host: the file agent.json with each process's copy, the units, the agent
script, install.sh, the master's service and `uninstall`, each in its order of
tests, stops, writes and starts. A process killed inside `os.WriteFile`, or a write that
fails there, leaves the file `Bad`. `systemctl stop` is assumed to work (`quietExec` ignores
its error, uninstall.go:17). `agent install` looks at the role and saves in one step; a master that
comes up in between is met by the tests of the services. That the administrator runs one command at a time (but for install.sh, which may
run beside the agent's script) is an assumption, and so is that a script's `setpwd` is the
only one while the script runs.

What each module leaves out is said in its head.


## 4. The runs

| run | instance | distinct states | what it shows |
|---|---|---|---|
| tunnel | 1 agent, 2 connections, 1 request, 1 rotation, 2 faults | 81,604 | registry, handlers and their users agree, TunnelDirectory is implemented, a restart finds the token in memory or none, an agent with the current token ends up online, dead sessions leave |
| switch | 1 browser, 1 tab, 2 nodes | 9,160 | the local session is kept, stashed while away, found at home, and only it goes to the local panel |
| stream | 2 chunks each way, 1 raw frame each way | 5,451 | framing in step, exchanges whole, the handlers never wait for each other, both end |
| agent_proxy | 2 requests or websockets, 1 upgrade, 3 logins | 2,543,541 | PanelRequest is implemented, a dropped session is gone, the login page is the last resort |
| takeover | 2 ports (one moves up, one down), 3 faults, 2 changes, uninstalls | 78,137 | the public port is kept, PortLease is implemented, an uninstall restores, the master comes up |
| update | 2 agents (one hangs), 2 force updates, 1 `1pm update`, 1 update of the master, 2 mirrors, 1 fault | 339,465 | Rollout is implemented: one force update at a time, all accounted for, no false success; the service runs what it has put in place |
| panel_tls | 2 agents, 2 overlapping requests, 2 certificates, 2 faults | 308,384 | agents told in step, a reloader with nothing new in sight is right, listener and upstream follow the files, the agents told come back |
| agent_host | 1 host, 2 commands, 1 fault, 1 change by the panel's user | 4,035,979 | never two roles, an installation is not undone by an older copy, a hardening that saw the panel at rest leaves it closed |

Four runs end in a violation of what a comment or the documentation says:

- **stream_cut** (`OnlyWholeBody`, protocol.go:165). The browser stops in the middle
  of an upload; `proxyHTTP` returns and closes the stream where a length is due;
  `io.ReadFull` returns a plain EOF, `ChunkReader` passes it on (protocol.go:188) and
  `io.ReadAll` of `handleHTTP` takes the part for the whole and gives it to the panel.
- **takeover_crash** (`Ensured`, prepare.go:15). The master ends after
  `UpdateServerPort` and before the restart of 1Panel, or that restart fails. Every
  later start compares the *configured* port (prepare.go:35), finds it right, restarts
  nothing, waits 45 s and ends. `ComesUp`, which does hold, is the same under the
  condition that 1Panel runs on the port it is configured for.
- **update_cli** (`CliUpdateTakes`, docs/cli.md:42). `UpdateSelf` leaves the restart to
  a goroutine that sleeps 800 ms (agent/update.go:87, selfupdate.go:62); `runUpdate`
  prints that it restarts and returns, and the goroutine ends with its process. The
  next `1pm update` is a process of the new binary and finds itself up to date.
- **hardening** (`HardenedAlways`, docs/design_notes.md:75). SSL is on and the panel
  listens on every address. The hardening switches SSL off; the certificate files go at
  once, `waitPanelSSLReady` returns two seconds later, and the second look (harden.go:65)
  *replaces* the first while the panel restarts. Nothing listens, so the panel counts as
  closed (harden.go:129), the bind is skipped and the hardening ends without an error.

### Bounds

Two connection slots for one agent hold the session that is up and one that is older
or newer, which is every role in the races of `Put` and `Remove`; slots are used again, so
the number of reconnections is not bounded, only the number of faults. Several agents
meet only in the loop of `RotateToken`; the proofs cover any number of them, and of
connections, requests and rotations. The run has one rotator: with two, `save` and `set`
of both may interleave and `TokenDurable` fails (see the hazard at token.go:48). Its one
token beyond the first is either the one of a rotation or the one that `New` generates
for a file without any; the first save may have failed before the run begins (`Init`).

Two chunks are a chunk that is the last and one that is not. Two faults reach a
crash while the recovery from another is under way; three in `takeover`, because a
failed save, a crash and a failed restart in one takeover are the interesting case.
Ports 8090 and 60000 are on either side of the overflow at 65535 - 10000; the proofs
cover every port. In `agent_proxy` three logins let two requests each drop a session
the other has obtained, with an upgrade beside them; the initial states choose which
requests are websockets and whether a password is configured. In `agent_host` two
commands and a fault let any two of script, `setpwd`, install.sh and uninstall meet, with
a service that restarts between them; the initial states are a host without 1pm and one
that is an agent already. One fault suffices in `update`, where the faults are already
spread over two hosts, three updaters and two mirrors; with two the run exceeds a few
minutes. `CHECK_DEADLOCK FALSE` stands where the system may stop: every request
answered, every update over, the master uninstalled; `stream` has its end as the
explicit stutter `Finished`, so that a deadlock of the two handlers would be found.

### Exceptions stated in properties

They are there because the code really fails there; each is a hazard.

- `TokenDurable`: a restart after a write of master.json that failed (`unsaved`) finds no
  token on disk, never an older one. If the failed write was the first, before the file
  existed, the next start generates a token no agent has; if it cut the file off,
  the master does not start again until somebody repairs it.
- `LocalSessionKept` and its siblings: histories in which a restart, a lost reply or a
  logout took the session (`lost`).
- `PublicPortKept`, `UninstallRestores`: writes of master.json that failed (`lost`) and
  uninstalls that failed or during which the port was changed (`hurt`).
- `ImplementsRollout`: binaries no checksum was found for (`unlisted`) count as updated. A mirror that
  answers a request for checksums.txt with a page of its own switches the check off,
  though GitHub, the next prefix, has the list.
- `ServiceUpdateTakes`: hosts where systemctl failed, and binaries put in place by
  `1pm update`.
- `HardenedMeansClosed`: hardenings whose look at the port met a panel that was
  down or due for a restart, or a host without `ss` (`sound`), and changes by the
  panel's user since.
- `InstallTakes`: an agent.json destroyed by a process killed while it writes, or by a
  write that fails.
- `RestIsRight`, `UpstreamFollows`: `Stuck`, a scheme that `New` took from files gone before the first
  tick. `ToldComeBack`: agents that could not write their file (`unsaved`), and
  broadcasts that overlap (`Alone`, in `calm`).

`PanelTLS` rests on one timing assumption, the code's own: the six seconds before the
broadcast contain a whole tick of the five-second reloader. Its certificate is
self-signed, so that an agent on ws does not follow the redirect to https; with a
trusted certificate fewer agents need the broadcast.

### Fairness

Weak fairness only, and only of steps that nothing but the process itself decides:

- `AgentTunnel`: each handler, the keepalive (smux's own timer), the agent's loop
  (`Run` never returns), each request and rotation in progress. Not of `Cut`,
  restarts, reinstalls, new requests or new rotations.
- `TunnelStream`: both handlers. That the panel answers the request it was given is an
  assumption about 1Panel: the agent's HTTP client sets no time limit
  (agent/client.go:493), so a panel that never answers keeps both handlers. The browser
  sends its body or goes away.
- `Takeover`: the master's start (Restart=on-failure in the unit) and the boot of
  1Panel. `ComesUp` is conditional on a service that stays enabled and a panel that
  stays on its configured port.
- `Update`: updaters; a download ends by success or failure. Force updates need no
  fairness, since what is said of them is safety.
- `PanelTLS`: the ticker, the handlers, the agents' loops, and 1Panel ending a change
  of its files that it has begun.


## 5. The proofs

TLAPS checks 10,225 obligations in eight modules. Nothing is assumed beyond the named
assumptions on the constants, and TLC evaluates those in every run. Every safety
invariant and safety action property the passing runs check is proved, and all four
refinements, for every value of the constants; what an instance has to be restricted for
is said below.

**AgentTunnel_proofs**, for any agents, connections, requests, rotators and bounds,
from `OwnerAssumption` (a slot belongs to an agent), `NoConnAssumption`,
`NoTokenAssumption` (what is no token is none) and `BoundAssumption`:

- `TypeCorrect`: `Spec => []TypeOK`.
- `TunnelInvariant`: `TunnelInv` is inductive relative to `TypeOK`. Its first two parts,
  `NoStaleEntry` (no entry outlives its handler) and `NoOrphanSession` (a handler that
  waits is in the registry), which together give `NoLeakedSession`, are not inductive alone: that `Remove` leaves no orphan needs that the
  remover is the session's own handler or a request that has closed it
  (`RequestHoldsSession`), that a fresh connection is not mistaken for an old one needs
  that a mux exists from `Acknowledge` on (`MuxMatchesHandler`), and that `Dial` meets
  no slot in use needs that an agent holds connections of its own (`AgentHoldsConn`).
- `NoLeak` (`NoLeakedSession`), `Agreement`
  (`LinkedAgentIsRegistered`) and `RotationDrops` (`RotationDropsRegistered`, by
  `RotationTracks`: a session that must be closed is closed, or its agent is still
  ahead of the loop) follow from it.
- `DropsOnlyDead`: the action property `OnlyDeadEntriesDropped`, which no run checks.
- `TokenKept` (`TokenDurable`, for at most one rotator), from `SaveInv`: while a rotation
  writes, the file is cut off; between its save and its set it still holds the token it has
  saved; and else disk and memory agree, or the last write, by a rotation or by `New`,
  has failed and left no token.
- `Refinement`: `Spec => Directory!Spec`. Each step of the tunnel is a `Publish`,
  `Abort`, `End`, `Forget`, `Reset` or a stutter of the directory.

**Takeover_proofs**, for any set of ports in 1 .. 65535 and any bounds, from
`PortAssumption` and `BoundAssumption`:

- `InternalPortValid`: the internal port of every port is a port and another one.
- `TakeoverInvariant`: `TypeOK /\ RecordInv /\ KeptInv /\ UndoneInv` is inductive.
  `RecordInv` relates master.json and the copy `New` works on: the two ports are
  recorded together, and past `RecordPorts` the copy holds those of the file, if that
  holds any. `KeptInv` adds that, while no write has failed, they are the ones of
  before the takeover, and that without a file 1Panel is still on its own port.
  `UndoneInv` follows an uninstall that has not failed: whenever 1Panel is configured for
  its own port it listens there, is down, or is about to be restarted. The case of `Move`
  needs `InternalPortValid`: the panel leaves its port when it is moved.
- From it `TypeCorrect`, `PublicPortKeptAlways`, `UninstallRestoresAlways` and, as an
  action property that no run checks, `PortsWrittenOnceAlways`.
- `LeaseRefinement`: `Spec => Lease!Spec`. `RecordInv` makes `RecordPorts` a `Borrow` of the
  port 1Panel has and `Serve` a `Serve` on the port of the lease, and keeps every other write
  of the file from touching the lease; `KeptInv` lets `Clean` send 1Panel back to the
  port it had. What is not sound any more (a write that failed) is under no promise.

`MaxPort` and `Port` stay folded in the leaves: with the literal 65535 in sight the
provers enumerate.

**SessionSwitch_proofs**. `TypeCorrect` and `SingleManager` are for any browsers,
tabs and nodes. The theorems on the local session are for one browser with one tab and any
number of nodes, which is what one stash is made for: `WayInv` follows the local session, which is in the cookies at home and
in the stash while away, before a reply is delivered and after it, unless the reply itself
carries it. From it `SessionKept`, `LocalSeesLocal`, `HomeIsLocal`
and `AwayIsStashed`.
`SingleManager`: a step adds no holder of the current secret of the
management page (`NoNewHolder`), or it issues one and leaves its own browser as the only
holder (`OnlyHolder`), requests and replies on their way included. The run has one browser,
for which this says nothing, so the theorem stands without a run.

**TunnelStream_proofs**, for bodies and responses of any length and any number of raw
writes, from `ChunksAssumption`. What is on the way has a `Shape`: a message comes first,
a length goes with its bytes, nothing but raw bytes follows an end. A lemma for each way
to take frames off and to add them says what becomes of shape, first and last frame, and
of `Body`, twice the number of chunks. Then `StreamInv` is inductive:

- `KindInv`: what only a websocket sees; `ReaderInv`: what each reader finds first;
  `WriterInv`: what each writer has written last, or how far its reader has come;
- `BoundInv`: chunks read, on the way and not yet sent are never more than there were,
  which is what keeps `got` in its type; `CountInv`: while nobody stops in the middle they
  are as many, and neither handler has ended before the other can.

From it `AlwaysInStep` and `AlwaysWhole`: the run's two chunks stand for any number.

That an exchange ends rests on two facts that are safety and are proved. `NeverStuck`: by
`EndInv` a handler that waits to read has something on the way, or its writer has not
ended; a writer that is through is at a place where it does not wait for that reader; so
the two never wait for each other (`NobodyWaitsForBoth`). `WorkRunsOut` (`StepsRunOut`, which no run checks): every step makes `Work`
smaller, by a lemma per action that sets what a handler takes off the way and puts on it
against what its place is worth; with `StepsBounded`, no exchange takes more than
`3 * BodyChunks + 3 * RespChunks + 4 * RawFrames + 19` steps, the cut of the session among
them. Only the fairness of the handlers and of the panel is left to TLC.

**AgentProxy_proofs**, for any requests and logins. `ProgressInv` says of each request
what its place in the code tells of the panel's part in it, `SessionInv` that the session
of a second attempt was issued after that of the first (sessions are numbered as the panel
issues them, and the cache never goes back). `ProxyInvariant`, `DroppedForGood`,
`LastResort`, and `Refinement`: each step is `CarryOut`, `Answer` or a stutter of
`PanelRequest`.

**Update_proofs**, for any agents, updaters, force updates, mirrors and bounds.
`CallerInv`, `SignalInv` and `StatusInv` tie each goroutine of a force update to its
updater and to the status: one force update runs, and an agent it still waits for has no
result yet. `GoodInv`: whoever can lead to a success in the status is at a host with
the latest release. `Accounted` and `SuccessIsTrue` follow, and with them
`RolloutRefinement`: `StartForceUpdate` is a `Begin`, since the agents that were gone and
those with a goroutine are together the agents listed; `Report` is a `Verdict` on an
agent that has none; `Finish` is the `Close`; a start of the master's service forgets; and
every other step leaves the report alone and no agent worse off (`Unnoticed`). Neither
`Accounted` nor `SuccessIsTrue` has a run: the refinement, which a run checks, says more.

**PanelTLS_proofs**, for any agents, uses of the switch, certificates and faults.
`PairInv`: between two changes of 1Panel the two files belong together. `SteadyInv`: a
handler that has seen the files it wants, with nothing written since, still sees them.
`TickInv`: a tick that began after that reads these very files, and once one is over the
store holds what they say. `ToldWhenServed` follows.

`RestInv` is what makes a comparison of file times enough, which is no matter of course,
since the reloader stats first and reads afterwards: the directory holds no
certificate but the latest, and no later key (`NewestInv`); what has been read after a look
at the latest files is the latest certificate or none, so the time remembered is
the latest one only if the store holds that certificate (`LookInv`); the upstream
has the scheme of the store from the first look that found a certificate (`SchemeInv`). From
it `RestsRightly` (`RestIsRight`): a tick that would change nothing has nothing to change.
`ReloaderSettles` (`TicksSettle`, which no run checks) adds a measure, `StepsToRest`: while
1Panel leaves the files alone, each step of the reloader makes it smaller, or it is at rest;
it starts at seven at most, in a tick that began before the last write. The two are
the safety half of `UpstreamFollows`.

**AgentHost_proofs**, for any number of faults, commands and changes of the panel.
`ClosedInv` is what a hardening on its way knows of the panel's settings: past the
certificate files SSL is off, past a sound look the address is closed. `RoleInv`: a service
past its test has its own mark, so the two cannot both have passed. `InstallInv`: from the
stop of the old service on nobody holds an older copy of agent.json. `Closed`, `OneRole`
and `Installed` follow.

**Only model-checked.** Liveness (`AgentComesBack`, `DeadSessionLeaves`, `RequestEnds`,
`NobodyWaits`, `ComesUp`, `ServiceUpdateTakes`, `UpstreamFollows`, `ToldComeBack`):
fairness and ENABLED are out of the prover's reach. Of `RequestEnds` and `NobodyWaits` the
safety half is proved (`NeverStuck`, `WorkRunsOut`): what TLC adds is that a handler which can
step does. Of `UpstreamFollows` it is `RestsRightly` and `ReloaderSettles`, and TLC adds that
the reloader ticks.


## 6. Not modelled, and why

- HTML, JavaScript, the rewriting of headers and gzip: conversions of data without
  state.
- The login protocol of 1Panel, the encryption of agent.json, HMAC: a signature is the
  token it was made with; a login succeeds, fails or does not reach the panel.
- Host statistics: display only.
- The local session with two tabs or two browsers (cookies.go:77, switch.go:62): the
  models have both, but docs/design_notes.md promises the stash to one browser and says
  nothing of two tabs, and the properties of the local session do not hold for them: an
  answer of a node that arrives after another tab has come home replaces the restored
  session; a second browser overwrites the stash or takes it. A restart of the master forgets the stash by design.
- A master.json or agent.json cut off by a crash or an error (config/master.go:80,
  config.go:94) is in the models (`Bad`); nothing promises that a host recovers from it, and
  no property says so.
- The data race on the address of the panel (agent/client.go:81): the strings are
  normally rewritten with the value they have; the models read one value.
- An agent that is offline during a broadcast (panel_ssl.go:107): README.md:123 of the
  program leaves it to the administrator.
- The questions, downloads and output of the scripts, and the units: where they matter
  (the service is enabled, systemd restarts what fails) they are assumptions or actions
  of `Takeover`, `Update` and `AgentHost`.
- smux's flow control: its buffers are taken to be large enough. A browser that does
  not read may hold back other streams of the same session.
