---------------------------- MODULE TunnelStream ----------------------------
(***************************************************************************)
(* One proxied request: the stream that carries it through the tunnel, the *)
(* master's end (proxyHTTP, proxyWebSocket in master/server.go), the       *)
(* agent's end (handleStream, handleHTTP, handleWS in agent/client.go) and *)
(* the framing between them (protocol/protocol.go).                        *)
(*                                                                         *)
(* A body is a number of chunks; a chunk is the two writes of CopyChunks,  *)
(* its length and its bytes, and an empty chunk ends the body.  The        *)
(* messages RequestMeta and ResponseMeta are one frame each.  After a 101  *)
(* the stream carries raw bytes.                                           *)
(*                                                                         *)
(* Left out: headers, cookies, the second attempt after a login (module    *)
(* AgentProxy), and the size of the buffers.                               *)
(***************************************************************************)
EXTENDS Naturals, Sequences

CONSTANTS
  BodyChunks,  \* chunks of the request body
  RespChunks,  \* chunks of the panel's response
  RawFrames    \* bound: raw writes of each end of a websocket

ASSUME ChunksAssumption ==
  BodyChunks \in Nat /\ RespChunks \in Nat /\ RawFrames \in Nat

VARIABLES
  kind,     \* the type of the stream
  up, down, \* what is on the way to the agent and back: frames, and how it ends
  left,     \* chunks of the body the browser has not sent yet
  master,   \* progress of the master's handler
  agent,    \* progress of the agent's handler
  got,      \* chunks of the body the agent has read
  panelGot, \* the lengths of the bodies the panel was given, one at most
  resp,     \* the response: streamed or whole, its chunks, those not sent yet
  relayed,  \* chunks of the response the master has read
  outcome,  \* what the browser has been told
  raw,      \* raw writes left to each end
  broken,   \* the session under the stream has failed
  aborted   \* history: the browser or the panel stopped in the middle

wires == <<up, down>>
masterVars == <<left, master, relayed, outcome>>
agentVars == <<agent, got, panelGot, resp>>
vars == <<kind, wires, masterVars, agentVars, raw, broken, aborted>>

None == "none"
Frames == {"meta", "len", "data", "end", "resp", "resp101", "raw"}
Wire == [q : Seq(Frames), end : {"open", "eof", "error"}]
Chunk == <<"len", "data">>

TypeOK ==
  /\ kind \in {"http", "ws"}
  /\ up \in Wire /\ down \in Wire
  /\ left \in 0 .. BodyChunks
  /\ master \in {"meta", "body", "await", "relay", "raw", "done"}
  /\ agent \in {"meta", "body", "panel", "copy", "raw", "done"}
  /\ got \in 0 .. BodyChunks
  /\ panelGot \subseteq 0 .. BodyChunks
  /\ resp \in [streams : BOOLEAN, chunks : Nat, left : Nat]
  /\ relayed \in Nat
  /\ outcome \in {None, "502", "finished", "gone", "upgraded"}
  /\ raw \in [{"master", "agent"} -> 0 .. RawFrames]
  /\ broken \in BOOLEAN /\ aborted \in BOOLEAN

Init ==
  /\ kind \in {"http", "ws"}
  /\ up = [q |-> <<>>, end |-> "open"]
  /\ down = [q |-> <<>>, end |-> "open"]
  /\ left = IF kind = "http" THEN BodyChunks ELSE 0
  /\ master = "meta" /\ agent = "meta"
  /\ got = 0 /\ panelGot = {}
  /\ resp = [streams |-> FALSE, chunks |-> 0, left |-> 0]
  /\ relayed = 0 /\ outcome = None
  /\ raw = [e \in {"master", "agent"} |-> RawFrames]
  /\ broken = FALSE /\ aborted = FALSE

-----------------------------------------------------------------------------
(* The stream (smux).  A write on a broken session is lost or fails; it    *)
(* may fail once the other end has closed.                                 *)

Written(w, fs) == IF broken THEN w ELSE [w EXCEPT !.q = @ \o fs]
MayFail(back) == broken \/ back.end # "open"
Closed(w) == IF w.end = "open" THEN [w EXCEPT !.end = "eof"] ELSE w
First(w) == IF w.q = <<>> THEN None ELSE Head(w.q)
Rest(w, n) == [w EXCEPT !.q = SubSeq(@, n + 1, Len(@))]

-----------------------------------------------------------------------------
(* protocol.go.                                                            *)

Turn(out, n, end) == [out |-> out, left |-> n, end |-> end]

\* Mutant: the bytes that come together with the end of the source are dropped.
CopyDroppingLast(n) ==
  IF n <= 1 THEN {Turn(<<"end">>, 0, "yes")} ELSE {Turn(Chunk, n - 1, "no")}

\* Mutant: at the end of the source the buffer is written once more.
CopyRepeatingLast(n) ==
  IF n = 0 THEN {Turn(Chunk \o <<"end">>, 0, "yes")} ELSE {Turn(Chunk, n - 1, "no")}

\* Mutant: the empty chunk is forgotten.
CopyUnended(n) ==
  IF n = 0 THEN {Turn(<<>>, 0, "yes")} ELSE {Turn(Chunk, n - 1, "no")}

\* CopyChunks, one turn of its loop over a source with n chunks left: Read
\* returns bytes, bytes with the end, the end alone, or an error with or without
\* bytes; an error ends the copy without the empty chunk.
CopyChunks(n) ==
  IF n = 0 THEN {Turn(<<"end">>, 0, "yes")}
  ELSE {Turn(Chunk, n - 1, "no"), Turn(<<>>, n, "error"), Turn(Chunk, n, "error")}
       \cup (IF n = 1 THEN {Turn(Chunk \o <<"end">>, 0, "yes")} ELSE {})

\* ChunkReader.Read: a chunk, the empty chunk, or the end of the stream.
HasChunk(w) == Len(w.q) >= 2 /\ SubSeq(w.q, 1, 2) = Chunk
HasEnd(w) == First(w) = "end"

\* The stream has ended where a frame is due.  io.ReadFull returns a plain EOF if
\* it got nothing at all, before a length as well as before its bytes.
Ended(w) == w.end # "open" /\ w.q \in {<<>>, <<"len">>}

-----------------------------------------------------------------------------
(* The master's end.                                                       *)

\* Mutant: the handler returns and leaves the stream open.
MasterReturnsOpen(o) ==
  /\ master' = "done"
  /\ outcome' = o
  /\ UNCHANGED up

\* The handler returns; its deferred Close ends the stream.
MasterReturns(o) ==
  /\ master' = "done"
  /\ outcome' = o
  /\ up' = Closed(up)

MasterSendsMeta ==
  /\ master = "meta"
  /\ \/ /\ up' = Written(up, <<"meta">>)
        /\ master' = "body"
        /\ UNCHANGED outcome
     \/ MayFail(down) /\ MasterReturns("502")
  /\ UNCHANGED <<kind, down, left, relayed, agentVars, raw, broken, aborted>>

\* CopyChunks of the body the browser sends; for a websocket it is http.NoBody.
MasterCopies ==
  /\ master = "body"
  /\ \/ \E c \in CopyChunks(left) :
          /\ left' = c.left
          /\ aborted' = (aborted \/ c.end = "error")
          /\ IF c.end = "error"
             THEN /\ up' = Closed(Written(up, c.out))
                  /\ master' = "done"
                  /\ outcome' = "502"
             ELSE /\ up' = Written(up, c.out)
                  /\ master' = IF c.end = "yes" THEN "await" ELSE "body"
                  /\ UNCHANGED outcome
     \/ MayFail(down) /\ MasterReturns("502") /\ UNCHANGED <<left, aborted>>
  /\ UNCHANGED <<kind, down, relayed, agentVars, raw, broken>>

\* ReadJSON of the response; the browser gets its head, or 502.
MasterReadsHead ==
  /\ master = "await"
  /\ \/ /\ First(down) \in {"resp", "resp101"}
        /\ down' = Rest(down, 1)
        /\ master' = IF First(down) = "resp" THEN "relay" ELSE "raw"
        /\ outcome' = IF First(down) = "resp" THEN outcome ELSE "upgraded"
        /\ UNCHANGED up
     \/ Ended(down) /\ MasterReturns("502") /\ UNCHANGED down
  /\ UNCHANGED <<kind, left, relayed, agentVars, raw, broken, aborted>>

\* A streamed response is copied to the browser, whatever ends it; one that is
\* read as a whole is answered 502 if the stream fails, but not if it just ends.
MasterRelays ==
  /\ master = "relay"
  /\ \/ /\ HasChunk(down)
        /\ down' = Rest(down, 2)
        /\ relayed' = relayed + 1
        /\ UNCHANGED <<up, master, outcome>>
     \/ /\ HasEnd(down)
        /\ down' = Rest(down, 1)
        /\ MasterReturns("finished")
        /\ UNCHANGED relayed
     \/ /\ Ended(down)
        /\ MasterReturns(IF resp.streams \/ kind = "ws" \/ down.end = "eof"
                         THEN "finished" ELSE "502")
        /\ UNCHANGED <<down, relayed>>
  /\ UNCHANGED <<kind, left, agentVars, raw, broken, aborted>>

\* The browser goes away: a write of a response that is relayed as it comes
\* fails, or the websocket closes.  A whole response is read to its end first.
BrowserLeaves ==
  /\ master = "raw" \/ (master = "relay" /\ (resp.streams \/ kind = "ws"))
  /\ MasterReturns("gone")
  /\ aborted' = TRUE
  /\ UNCHANGED <<kind, down, left, relayed, agentVars, raw, broken>>

\* A websocket: raw bytes both ways until one of the two copies ends.
MasterRaw ==
  /\ master = "raw"
  /\ \/ /\ First(down) = "raw"
        /\ down' = Rest(down, 1)
        /\ UNCHANGED <<up, master, outcome, raw>>
     \/ /\ raw["master"] > 0
        /\ raw' = [raw EXCEPT !["master"] = @ - 1]
        /\ up' = Written(up, <<"raw">>)
        /\ UNCHANGED <<down, master, outcome>>
     \/ /\ down.q = <<>> /\ down.end # "open"
        /\ MasterReturns("upgraded")
        /\ UNCHANGED <<down, raw>>
  /\ UNCHANGED <<kind, left, relayed, agentVars, broken, aborted>>

-----------------------------------------------------------------------------
(* The agent's end.                                                        *)

AgentReturns(fs) ==
  /\ agent' = "done"
  /\ down' = Closed(Written(down, fs))

\* writeErr: a response of its own, which may be lost with the stream.
ErrorResponse == <<"resp">> \o Chunk \o <<"end">>
AgentWritesErr ==
  /\ AgentReturns(ErrorResponse)
  /\ resp' = [streams |-> FALSE, chunks |-> 1, left |-> 0]

AgentReadsMeta ==
  /\ agent = "meta"
  /\ \/ /\ First(up) = "meta"
        /\ up' = Rest(up, 1)
        /\ \/ agent' = "body" /\ UNCHANGED <<down, resp>>
           \/ kind = "http" /\ AgentWritesErr   \* a bad URL, the body is not read
     \/ Ended(up) /\ AgentReturns(<<>>) /\ UNCHANGED <<up, resp>>
  /\ UNCHANGED <<kind, masterVars, got, panelGot, raw, broken, aborted>>

\* Mutant: handleWS does not drain the upgrade's empty body.
AgentSkipsBody ==
  /\ agent = "body"
  /\ \/ /\ HasChunk(up)
        /\ up' = Rest(up, 2)
        /\ got' = got + 1
        /\ UNCHANGED <<agent, down, panelGot, resp>>
     \/ /\ HasEnd(up) \/ kind = "ws"
        /\ up' = IF kind = "ws" THEN up ELSE Rest(up, 1)
        /\ agent' = "panel"
        /\ panelGot' = {got}
        /\ UNCHANGED <<down, got, resp>>
  /\ UNCHANGED <<kind, masterVars, raw, broken, aborted>>

\* io.ReadAll of the body, which goes to the panel if the stream ends with a plain
\* EOF; handleWS discards the body and goes on whatever ends it.
AgentReadsBody ==
  /\ agent = "body"
  /\ \/ /\ HasChunk(up)
        /\ up' = Rest(up, 2)
        /\ got' = got + 1
        /\ UNCHANGED <<agent, down, panelGot, resp>>
     \/ /\ HasEnd(up)
        /\ up' = Rest(up, 1)
        /\ agent' = "panel"
        /\ panelGot' = {got}
        /\ UNCHANGED <<down, got, resp>>
     \/ /\ Ended(up)
        /\ up.end = "eof" \/ kind = "ws"
        /\ agent' = "panel"
        /\ panelGot' = {got}
        /\ UNCHANGED <<up, down, got, resp>>
     \/ /\ Ended(up)
        /\ up.end = "error" /\ kind = "http"
        /\ AgentWritesErr
        /\ UNCHANGED <<up, got, panelGot>>
  /\ UNCHANGED <<kind, masterVars, raw, broken, aborted>>

\* The panel answers: with a response, with 101 to an upgrade, or not at all.
PanelAnswers ==
  /\ agent = "panel"
  /\ \/ \E s \in BOOLEAN :
          /\ resp' = [streams |-> s, chunks |-> RespChunks, left |-> RespChunks]
          /\ agent' = "copy"
          /\ down' = Written(down, <<"resp">>)
     \/ /\ kind = "ws"
        /\ agent' = "raw"
        /\ down' = Written(down, <<"resp101">>)
        /\ UNCHANGED resp
     \/ AgentWritesErr
     \/ MayFail(up) /\ AgentReturns(<<>>) /\ UNCHANGED resp
  /\ UNCHANGED <<kind, up, masterVars, got, panelGot, raw, broken, aborted>>

\* CopyChunks of the response; its error is ignored.  A response that is not
\* streamed has been read before, so only a streamed one can fail here.
AgentCopies ==
  /\ agent = "copy"
  /\ \/ \E c \in CopyChunks(resp.left) :
          /\ c.end = "error" => resp.streams \/ kind = "ws"
          /\ resp' = [resp EXCEPT !.left = c.left]
          /\ aborted' = (aborted \/ c.end = "error")
          /\ IF c.end = "no"
             THEN down' = Written(down, c.out) /\ UNCHANGED agent
             ELSE AgentReturns(c.out)
     \/ MayFail(up) /\ AgentReturns(<<>>) /\ UNCHANGED <<resp, aborted>>
  /\ UNCHANGED <<kind, up, masterVars, got, panelGot, raw, broken>>

AgentRaw ==
  /\ agent = "raw"
  /\ \/ /\ First(up) = "raw"
        /\ up' = Rest(up, 1)
        /\ UNCHANGED <<down, agent, raw>>
     \/ /\ raw["agent"] > 0
        /\ raw' = [raw EXCEPT !["agent"] = @ - 1]
        /\ down' = Written(down, <<"raw">>)
        /\ UNCHANGED <<up, agent>>
     \/ /\ up.q = <<>> /\ up.end # "open"
        /\ AgentReturns(<<>>)
        /\ UNCHANGED <<up, raw>>
  /\ UNCHANGED <<kind, masterVars, got, panelGot, resp, broken, aborted>>

\* The panel closes the websocket.
PanelLeaves ==
  /\ agent = "raw"
  /\ AgentReturns(<<>>)
  /\ aborted' = TRUE
  /\ UNCHANGED <<kind, up, masterVars, got, panelGot, resp, raw, broken>>

-----------------------------------------------------------------------------
\* The session fails with what is on the way cut off somewhere.  A reader gets an
\* error, or a plain EOF if it was the other end that closed the session (the agent
\* on its way out, the master in Put, dropDeadSession or RotateToken): the websocket
\* is then closed normally.
Prefixes(q) == {SubSeq(q, 1, n) : n \in 0 .. Len(q)}
SessionFails ==
  /\ ~broken
  /\ broken' = TRUE
  /\ \E u \in Prefixes(up.q), d \in Prefixes(down.q), e, f \in {"eof", "error"} :
       /\ up' = [q |-> u, end |-> IF u = up.q /\ up.end = "eof" THEN "eof" ELSE e]
       /\ down' = [q |-> d, end |-> IF d = down.q /\ down.end = "eof" THEN "eof" ELSE f]
  /\ UNCHANGED <<kind, masterVars, agentVars, raw, aborted>>

Finished ==
  /\ master = "done" /\ agent = "done"
  /\ UNCHANGED vars

MasterStep ==
  MasterSendsMeta \/ MasterCopies \/ MasterReadsHead \/ MasterRelays \/ MasterRaw

AgentStep ==
  AgentReadsMeta \/ AgentReadsBody \/ PanelAnswers \/ AgentCopies \/ AgentRaw

Next ==
  \/ MasterStep \/ AgentStep
  \/ BrowserLeaves \/ PanelLeaves \/ SessionFails
  \/ Finished

Spec == Init /\ [][Next]_vars

\* The goroutines of both ends run, the browser sends its body or goes away, and
\* the panel, on which the agent sets no time limit, answers what it was given.
FairSpec == Spec /\ WF_vars(MasterStep) /\ WF_vars(AgentStep)

-----------------------------------------------------------------------------
(* Properties.                                                             *)

\* Each end reads the frame it expects: neither takes the end of a body for
\* bytes of a websocket, or a length for a message (client.go:364).
InStep ==
  /\ agent = "meta" => First(up) \in {None, "meta"}
  /\ agent = "body" => First(up) \in {None, "len", "end"}
  /\ agent = "raw" => First(up) \in {None, "raw"}
  /\ master = "await" => First(down) \in {None, "resp", "resp101"}
  /\ master = "relay" => First(down) \in {None, "len", "end"}
  /\ master = "raw" => First(down) \in {None, "raw"}

\* When nobody stops in the middle, the panel gets the whole body and the browser
\* the whole response (protocol.go:139, CopyChunks).
Undisturbed == ~aborted /\ ~broken
ExchangeWhole ==
  Undisturbed => /\ kind = "http" => panelGot \subseteq {BodyChunks}
                 /\ outcome = "finished" => relayed = resp.chunks

\* What protocol.go:165 says of ChunkReader, that it reads until the empty chunk:
\* a body that has not been sent to its end is not given to the panel.
OnlyWholeBody == kind = "http" => panelGot \subseteq {BodyChunks}

\* Where an end can only wait for the other: ReadRequestMeta, ReadJSON, ChunkReader
\* or the copy of raw bytes finds neither what it reads nor the end of the stream.
Silent(w) == w.q = <<>> /\ w.end = "open"
MasterWaits ==
  \/ master = "await" /\ First(down) \notin {"resp", "resp101"} /\ ~Ended(down)
  \/ master = "relay" /\ ~HasChunk(down) /\ ~HasEnd(down) /\ ~Ended(down)
  \/ master = "raw" /\ Silent(down)
AgentWaits ==
  \/ agent = "meta" /\ First(up) # "meta" /\ ~Ended(up)
  \/ agent = "body" /\ ~HasChunk(up) /\ ~HasEnd(up) /\ ~Ended(up)
  \/ agent = "raw" /\ Silent(up)

\* The two ends never wait for each other, and none waits for one that has returned,
\* whoever has failed, left or answered early (server.go:310, client.go:253).  Only an
\* idle websocket is silent both ways.
NoMutualWait ==
  /\ MasterWaits => agent # "done" /\ (AgentWaits => master = "raw" /\ agent = "raw")
  /\ AgentWaits => master # "done"

\* What a handler may still do, in its place: more than the frames it may put on the way
\* from there, which are two for each chunk and four for an error response.
MasterPlace ==
  CASE master = "meta" -> 3 * left + 9
    [] master = "body" -> 3 * left + 7
    [] master = "await" -> 3
    [] master \in {"relay", "raw"} -> 1
    [] master = "done" -> 0
AgentPlace ==
  CASE agent = "meta" -> 3 * RespChunks + 9
    [] agent = "body" -> 3 * RespChunks + 8
    [] agent = "panel" -> 3 * RespChunks + 7
    [] agent = "copy" -> 3 * resp.left + 4
    [] agent = "raw" -> 1
    [] agent = "done" -> 0
Work ==
  Len(up.q) + Len(down.q) + 2 * raw["master"] + 2 * raw["agent"]
  + MasterPlace + AgentPlace + (IF broken THEN 0 ELSE 1)

\* Every step brings the request closer to its end: no sequence of failures makes an
\* end read, write or copy for ever, whatever the lengths (protocol.go:139).
StepsRunOut == [][Work' \in Nat /\ Work' < Work]_vars

\* A request ends, whatever fails on the way, unless it has become a websocket.
RequestEnds == <>(master \in {"done", "raw"})

\* Neither end is left behind on a stream the other has finished with.
NobodyWaits ==
  /\ master = "done" ~> agent = "done"
  /\ agent = "done" ~> master = "done"
=============================================================================
