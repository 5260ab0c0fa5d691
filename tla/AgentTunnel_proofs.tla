------------------------- MODULE AgentTunnel_proofs -------------------------
(* Proofs about AgentTunnel, for any number of agents, connections,        *)
(* requests and concurrent rotations.                                      *)
EXTENDS AgentTunnel, TLAPS

USE DEF Tokens, connVars, agentVars, tokenVars, rotVars, reqVars

(***************************************************************************)
(* Every variable keeps its type.                                          *)
(***************************************************************************)
LEMMA GetType ==
  ASSUME TypeOK, NEW a \in Agents
  PROVE  /\ Get(a) \in Conns \cup {NoConn}
         /\ Get(a) # NoConn => Get(a) = registry[a] /\ ~IsClosed(registry[a])
         /\ registry[a] # NoConn /\ ~IsClosed(registry[a]) => Get(a) = registry[a]
BY DEF TypeOK, Get

LEMMA CloseType ==
  ASSUME TypeOK, NEW C, Close(C)
  PROVE  /\ mux' \in [Conns -> {"none", "live", "broken", "closed"}]
         /\ link' \in [Conns -> BOOLEAN]
         /\ \A c \in Conns : c \in C => mux'[c] = "closed" /\ ~link'[c]
         /\ \A c \in Conns : c \notin C => mux'[c] = mux[c] /\ link'[c] = link[c]
BY DEF TypeOK, Close

LEMMA TypeStep ==
  ASSUME TypeOK, [Next]_vars
  PROVE  TypeOK'
<1> USE OwnerAssumption, BoundAssumption
<1>1. ASSUME NEW c \in Conns, HandlerStep(c) PROVE TypeOK'
  <2>1. CASE Verify(c)
    BY <2>1 DEF TypeOK, Verify
  <2>2. CASE Acknowledge(c)
    BY <2>2 DEF TypeOK, Acknowledge
  <2>3. CASE HandlerFails(c)
    BY <2>3 DEF TypeOK, HandlerFails
  <2>4. CASE PutSession(c)
    BY <2>4, CloseType DEF TypeOK, PutSession, Put
  <2>5. CASE SessionEnds(c)
    BY <2>5 DEF TypeOK, SessionEnds, Remove
  <2>6. CASE KeepaliveExpires(c)
    BY <2>6, CloseType DEF TypeOK, KeepaliveExpires
  <2>7. QED
    BY <1>1, <2>1, <2>2, <2>3, <2>4, <2>5, <2>6 DEF HandlerStep
<1>2. ASSUME NEW c \in Conns, ReadError(c) PROVE TypeOK'
  BY <1>2 DEF TypeOK, ReadError
<1>3. ASSUME NEW c \in Conns, Cut(c) PROVE TypeOK'
  BY <1>3 DEF TypeOK, Cut
<1>4. ASSUME NEW a \in Agents, AgentStep(a) PROVE TypeOK'
  <2>1. ASSUME NEW c \in Conns, Dial(a, c) PROVE TypeOK'
    BY <2>1 DEF TypeOK, Dial
  <2>2. CASE AckArrives(a)
    BY <2>2 DEF TypeOK, AckArrives
  <2>3. CASE Disconnects(a)
    BY <2>3 DEF TypeOK, Disconnects
  <2>4. QED
    BY <1>4, <2>1, <2>2, <2>3 DEF AgentStep
<1>5. ASSUME NEW a \in Agents, Reinstall(a) PROVE TypeOK'
  BY <1>5 DEF TypeOK, Reinstall
<1>6. ASSUME NEW r \in Requests, RequestStep(r) PROVE TypeOK'
  <2>1. CASE ReqOpens(r)
    BY <2>1 DEF TypeOK, ReqOpens
  <2>2. CASE ReqDrops(r)
    BY <2>2, CloseType DEF TypeOK, ReqDrops
  <2>3. CASE ReqRemoves(r)
    BY <2>3 DEF TypeOK, ReqRemoves, Remove
  <2>4. QED
    BY <1>6, <2>1, <2>2, <2>3 DEF RequestStep
<1>7. ASSUME NEW r \in Requests, NEW a \in Agents, ReqGet(r, a) PROVE TypeOK'
  BY <1>7, GetType DEF TypeOK, ReqGet
<1>8. ASSUME NEW k \in Rotators, RotateStep(k) PROVE TypeOK'
  <2>1. CASE RotateOpens(k) \/ RotateSave(k)
    <3>1. disk' \in Tokens \cup {NoToken, Bad}
      BY <2>1 DEF TypeOK, RotateOpens, RotateSave
    <3>2. unsaved' \in BOOLEAN
      BY <2>1, Zenon DEF TypeOK, RotateOpens, RotateSave
    <3>3. /\ rot' \in [Rotators -> {"idle", "minted", "saving", "saved", "set", "closing"}]
          /\ rotToken' \in [Rotators -> Tokens]
      BY <2>1 DEF TypeOK, RotateOpens, RotateSave, RotateFails
    <3>4. QED
      BY <2>1, <3>1, <3>2, <3>3 DEF TypeOK, RotateOpens, RotateSave
  <2>2. CASE RotateSet(k)
    <3>1. {Get(a) : a \in Agents} \ {NoConn} \in SUBSET Conns
      BY GetType
    <3>2. QED
      BY <2>2, <3>1 DEF TypeOK, RotateSet
  <2>3. CASE RotateList(k)
    BY <2>3 DEF TypeOK, RotateList
  <2>4. CASE RotateReturn(k)
    BY <2>4 DEF TypeOK, RotateReturn
  <2>5. ASSUME NEW a \in Agents, RotateClose(k, a) PROVE TypeOK'
    BY <2>5, CloseType DEF TypeOK, RotateClose
  <2>6. QED
    BY <1>8, <2>1, <2>2, <2>3, <2>4, <2>5 DEF RotateStep
<1>9. ASSUME NEW k \in Rotators, RotateGenerate(k) PROVE TypeOK'
  BY <1>9 DEF TypeOK, RotateGenerate
<1>10. CASE MasterRestarts
  <2>1. token' \in Tokens \cup {Down} /\ minted' \in Tokens
    BY <1>10 DEF TypeOK, MasterRestarts, New
  <2>2. token' \in Tokens \/ disk' = disk
    BY <1>10 DEF TypeOK, MasterRestarts, New
  <2>3. disk' \in Tokens \cup {NoToken, Bad}
    BY <1>10, <2>2 DEF TypeOK, MasterRestarts, New, NewSaves
  <2>4. unsaved' \in BOOLEAN
    BY <1>10, Zenon DEF TypeOK, MasterRestarts, New, NewSaves
  <2>5. QED
    BY <1>10, <2>1, <2>3, <2>4 DEF TypeOK, MasterRestarts
<1>11. CASE StartsInVain \/ UNCHANGED vars
  BY <1>11 DEF TypeOK, StartsInVain, vars
<1>12. QED
  BY <1>1, <1>2, <1>3, <1>4, <1>5, <1>6, <1>7, <1>8, <1>9, <1>10, <1>11 DEF Next

\* Type correctness of the tunnel for every instance.
THEOREM TypeCorrect == Spec => []TypeOK
<1>1. Init => TypeOK
  BY BoundAssumption DEF Init, TypeOK
<1>2. TypeOK /\ [Next]_vars => TypeOK'
  BY TypeStep
<1>3. QED
  BY <1>1, <1>2, PTL DEF Spec

(***************************************************************************)
(* TunnelInv is inductive.  The steps that close a mux (PutSession,        *)
(* KeepaliveExpires, ReqDrops, RotateClose) and the ones that remove an    *)
(* entry (SessionEnds, ReqRemoves) are where its parts need each other.    *)
(***************************************************************************)
LEMMA InvStep ==
  ASSUME TypeOK, TunnelInv, [Next]_vars
  PROVE  TunnelInv'
<1> USE OwnerAssumption, NoConnAssumption
    DEF TunnelInv, TypeOK, NoStaleEntry, NoOrphanSession, MuxMatchesHandler,
        AgentHoldsConn, RequestHoldsSession, RotationTracks, IsClosed
<1>1. ASSUME NEW c \in Conns, Verify(c) PROVE TunnelInv'
  BY <1>1 DEF Verify
<1>2. ASSUME NEW c \in Conns, Acknowledge(c) PROVE TunnelInv'
  BY <1>2 DEF Acknowledge
<1>3. ASSUME NEW c \in Conns, HandlerFails(c) PROVE TunnelInv'
  BY <1>3 DEF HandlerFails
<1>4. ASSUME NEW c \in Conns, PutSession(c) PROVE TunnelInv'
  BY <1>4, CloseType, GetType DEF PutSession, Put
<1>5. ASSUME NEW c \in Conns, SessionEnds(c) PROVE TunnelInv'
  BY <1>5, GetType DEF SessionEnds, Remove
<1>6. ASSUME NEW c \in Conns, KeepaliveExpires(c) PROVE TunnelInv'
  BY <1>6, CloseType DEF KeepaliveExpires
<1>7. ASSUME NEW c \in Conns, ReadError(c) PROVE TunnelInv'
  BY <1>7 DEF ReadError
<1>8. ASSUME NEW c \in Conns, Cut(c) PROVE TunnelInv'
  BY <1>8 DEF Cut
<1>9. ASSUME NEW a \in Agents, NEW c \in Conns, Dial(a, c) PROVE TunnelInv'
  BY <1>9 DEF Dial, Unused
<1>10. ASSUME NEW a \in Agents, AckArrives(a) PROVE TunnelInv'
  BY <1>10 DEF AckArrives
<1>11. ASSUME NEW a \in Agents, Disconnects(a) PROVE TunnelInv'
  BY <1>11 DEF Disconnects
<1>12. ASSUME NEW a \in Agents, Reinstall(a) PROVE TunnelInv'
  BY <1>12 DEF Reinstall
<1>13. ASSUME NEW r \in Requests, NEW a \in Agents, ReqGet(r, a) PROVE TunnelInv'
  BY <1>13, GetType DEF ReqGet
<1>14. ASSUME NEW r \in Requests, ReqOpens(r) PROVE TunnelInv'
  BY <1>14 DEF ReqOpens
<1>15. ASSUME NEW r \in Requests, ReqDrops(r) PROVE TunnelInv'
  BY <1>15, CloseType DEF ReqDrops
<1>16. ASSUME NEW r \in Requests, ReqRemoves(r) PROVE TunnelInv'
  BY <1>16, GetType DEF ReqRemoves, Remove
<1>17. ASSUME NEW k \in Rotators, RotateGenerate(k) PROVE TunnelInv'
  BY <1>17 DEF RotateGenerate
<1>18. ASSUME NEW k \in Rotators, RotateOpens(k) \/ RotateSave(k) PROVE TunnelInv'
  BY <1>18 DEF RotateOpens, RotateSave, RotateFails
<1>19. ASSUME NEW k \in Rotators, RotateSet(k) PROVE TunnelInv'
  BY <1>19, GetType DEF RotateSet
<1>20. ASSUME NEW k \in Rotators, RotateList(k) PROVE TunnelInv'
  BY <1>20, GetType DEF RotateList
<1>21. ASSUME NEW k \in Rotators, NEW a \in Agents, RotateClose(k, a) PROVE TunnelInv'
  BY <1>21, CloseType, GetType DEF RotateClose
<1>22. ASSUME NEW k \in Rotators, RotateReturn(k) PROVE TunnelInv'
  BY <1>22 DEF RotateReturn
<1>23. CASE MasterRestarts
  BY <1>23 DEF MasterRestarts
<1>24. CASE StartsInVain \/ UNCHANGED vars
  BY <1>24 DEF StartsInVain, vars
<1>25. QED
  BY <1>1, <1>2, <1>3, <1>4, <1>5, <1>6, <1>7, <1>8, <1>9, <1>10, <1>11, <1>12, <1>13, <1>14, <1>15, <1>16, <1>17, <1>18, <1>19, <1>20, <1>21, <1>22, <1>23, <1>24
     DEF Next, HandlerStep, AgentStep, RequestStep, RotateStep

\* The inductive invariant holds in every reachable state.
THEOREM TunnelInvariant == Spec => []TunnelInv
<1>1. Init => TunnelInv
  BY NoConnAssumption
     DEF Init, TunnelInv, NoStaleEntry, NoOrphanSession, MuxMatchesHandler,
         AgentHoldsConn, RequestHoldsSession, RotationTracks, IsClosed
<1>2. TypeOK /\ TunnelInv /\ [Next]_vars => TunnelInv'
  BY InvStep
<1>3. QED
  BY <1>1, <1>2, TypeCorrect, PTL DEF Spec

\* No session of the master is leaked and no entry is left behind.
THEOREM NoLeak == Spec => []NoLeakedSession
<1>1. TunnelInv => NoLeakedSession
  BY DEF TunnelInv, NoLeakedSession
<1>2. QED
  BY <1>1, TunnelInvariant, PTL

\* The agent that is up and the registry agree on the session.
THEOREM Agreement == Spec => []LinkedAgentIsRegistered
<1>1. TypeOK /\ TunnelInv => LinkedAgentIsRegistered
  BY NoConnAssumption
     DEF TypeOK, TunnelInv, LinkedAgentIsRegistered, AgentHoldsConn,
         NoOrphanSession, MuxMatchesHandler, Get, IsClosed
<1>2. QED
  BY <1>1, TypeCorrect, TunnelInvariant, PTL

\* A rotation that has returned has closed what was registered when it began.
THEOREM RotationDrops == Spec => []RotationDropsRegistered
<1>1. TypeOK /\ TunnelInv => RotationDropsRegistered
  BY DEF TunnelInv, RotationTracks, RotationDropsRegistered
<1>2. QED
  BY <1>1, TypeCorrect, TunnelInvariant, PTL

\* What TokenDurable rests on: while a rotation writes, the file is cut off; between its
\* save and its set the rotation still has the token that was saved; and else the file has
\* the token in memory, or the last write has failed and left none.
SaveInv ==
  /\ token # Down /\ (\A k \in Rotators : rot[k] \notin {"saving", "saved"}) =>
       disk = token \/ (unsaved /\ disk \in {NoToken, Bad})
  /\ \A k \in Rotators : rot[k] = "saving" => disk = Bad
  /\ \A k \in Rotators : rot[k] = "saved" => rotToken[k] = disk

\* With one rotation at a time a restart takes up the token in memory, or, if the last write
\* has failed, none: a failed first save (server.go:74), a rotation that failed before it had
\* emptied the file or after, and a crash in the middle of a write included (token.go:48, 51).
THEOREM TokenKept ==
  ASSUME \A k, l \in Rotators : k = l
  PROVE  Spec => []TokenDurable
<1>1. Init => SaveInv
  BY DEF Init, SaveInv
<1>2. ASSUME TypeOK, SaveInv, [Next]_vars
      PROVE  SaveInv'
  <2> USE <1>2, NoTokenAssumption DEF TypeOK, SaveInv
  <2>1. UNCHANGED <<token, disk, unsaved, rot, rotToken>> => SaveInv'
    OBVIOUS
  <2>2. ASSUME NEW k \in Rotators, RotateStep(k) PROVE SaveInv'
    <3>1. CASE RotateOpens(k)
      BY <3>1 DEF RotateOpens, RotateFails
    <3>2. CASE RotateSave(k)
      BY <3>2 DEF RotateSave, RotateFails
    <3>3. CASE RotateSet(k)
      BY <3>3 DEF RotateSet
    <3>4. CASE RotateList(k) \/ RotateReturn(k)
      BY <3>4 DEF RotateList, RotateReturn
    <3>5. CASE \E a \in Agents : RotateClose(k, a)
      BY <3>5, <2>1 DEF RotateClose
    <3>6. QED
      BY <2>2, <3>1, <3>2, <3>3, <3>4, <3>5 DEF RotateStep
  <2>3. ASSUME NEW k \in Rotators, RotateGenerate(k) PROVE SaveInv'
    BY <2>3 DEF RotateGenerate
  <2>4. CASE MasterRestarts
    <3>1. token' # Down => disk' = token' \/ (unsaved' /\ disk' \in {NoToken, Bad})
      BY <2>4 DEF MasterRestarts, New, NewSaves
    <3>2. \A k \in Rotators : rot'[k] = "idle"
      BY <2>4 DEF MasterRestarts
    <3>3. QED
      BY <3>1, <3>2
  <2>5. ASSUME NEW c \in Conns, HandlerStep(c) \/ ReadError(c) \/ Cut(c) PROVE SaveInv'
    BY <2>5, <2>1 DEF HandlerStep, Verify, Acknowledge, HandlerFails, PutSession, SessionEnds,
                      KeepaliveExpires, ReadError, Cut
  <2>6. ASSUME NEW a \in Agents, AgentStep(a) \/ Reinstall(a) PROVE SaveInv'
    <3>1. ASSUME NEW c \in Conns, Dial(a, c) PROVE SaveInv'
      BY <3>1, <2>1 DEF Dial
    <3>2. QED
      BY <2>6, <2>1, <3>1 DEF AgentStep, AckArrives, Disconnects, Reinstall
  <2>7. ASSUME NEW r \in Requests, RequestStep(r) \/ \E a \in Agents : ReqGet(r, a)
        PROVE  SaveInv'
    BY <2>7, <2>1 DEF RequestStep, ReqOpens, ReqDrops, ReqRemoves, ReqGet
  <2>8. CASE StartsInVain \/ UNCHANGED vars
    BY <2>8, <2>1 DEF StartsInVain, vars
  <2>9. QED
    BY <2>2, <2>3, <2>4, <2>5, <2>6, <2>7, <2>8 DEF Next
<1>3. SaveInv => TokenDurable
  BY DEF SaveInv, TokenDurable
<1>4. QED
  BY <1>1, <1>2, <1>3, TypeCorrect, PTL DEF Spec

\* Only a restart of the master removes an entry whose session still works.
THEOREM DropsOnlyDead == Spec => OnlyDeadEntriesDropped
<1> DEFINE Dead(a) == registry[a] # NoConn /\ registry'[a] = NoConn => IsClosed(registry[a])
<1>1. ASSUME TypeOK, TunnelInv, [Next]_vars
      PROVE  [MasterRestarts \/ \A a \in Agents : Dead(a)]_vars
  <2> SUFFICES ASSUME Next, ~MasterRestarts, NEW a \in Agents
               PROVE  Dead(a)
    BY <1>1
  <2> USE OwnerAssumption, NoConnAssumption DEF TypeOK
  <2>1. ASSUME NEW c \in Conns, HandlerStep(c) PROVE Dead(a)
    BY <2>1, <1>1 DEF HandlerStep, Verify, Acknowledge, HandlerFails, PutSession, Put,
                      SessionEnds, Remove, KeepaliveExpires
  <2>2. ASSUME NEW r \in Requests, RequestStep(r) PROVE Dead(a)
    BY <2>2, <1>1 DEF RequestStep, ReqOpens, ReqDrops, ReqRemoves, Remove, TunnelInv,
                      RequestHoldsSession
  <2>3. UNCHANGED registry => Dead(a)
    BY <1>1
  <2>4. QED
    BY <2>1, <2>2, <2>3
       DEF Next, AgentStep, RotateStep, ReadError, Cut, Dial, AckArrives, Disconnects,
           Reinstall, ReqGet, RotateOpens, RotateSave, RotateSet, RotateList, RotateReturn,
           RotateClose, RotateGenerate, StartsInVain, vars
<1>2. QED
  BY <1>1, TypeCorrect, TunnelInvariant, PTL DEF Spec, OnlyDeadEntriesDropped

(***************************************************************************)
(* The tunnel implements the directory.  Most steps leave what it shows    *)
(* alone; the others are named below.                                      *)
(***************************************************************************)
Shown == [a \in Agents |-> {Get(a)} \ {NoConn}]
Gone == {c \in Conns : IsClosed(c)}

LEMMA SameShown ==
  ASSUME UNCHANGED registry, \A c \in Conns : IsClosed(c)' <=> IsClosed(c), TypeOK
  PROVE  Shown' = Shown /\ Gone' = Gone
BY DEF Shown, Gone, Get, TypeOK

\* Closing the session that Get(a) returns is the end of a's tunnel.
LEMMA CloseCurrent ==
  ASSUME TypeOK, NoStaleEntry, NEW a \in Agents, Get(a) # NoConn,
         Close({Get(a)}), UNCHANGED registry
  PROVE  Directory!End(a)
<1> USE OwnerAssumption, NoConnAssumption DEF TypeOK, NoStaleEntry
<1>1. Get(a) \in Conns /\ registry[a] = Get(a) /\ Owner[Get(a)] = a
  BY GetType
<1>2. Gone' = Gone \cup Shown[a]
  BY <1>1, CloseType DEF Gone, Shown, IsClosed
<1>3. Shown' = [Shown EXCEPT ![a] = {}]
  <2>1. Get(a)' = NoConn
    BY <1>1, CloseType DEF Get, IsClosed
  <2>2. ASSUME NEW b \in Agents, b # a PROVE Get(b)' = Get(b)
    BY <1>1, <2>2, CloseType DEF Get, IsClosed
  <2>3. ASSUME NEW b \in Agents
        PROVE  Shown'[b] = IF b = a THEN {} ELSE Shown[b]
    BY <2>1, <2>2 DEF Shown
  <2>4. QED
    BY <2>3 DEF Shown
<1>4. Shown[a] # {}
  BY <1>1 DEF Shown
<1>5. QED
  BY <1>2, <1>3, <1>4 DEF Directory!End, Shown, Gone

\* A mux that was never registered may die too, and closing a closed one is nothing.
LEMMA CloseUnpublished ==
  ASSUME TypeOK, NEW c \in Conns, Get(Owner[c]) # c, Close({c}), UNCHANGED registry, NoStaleEntry
  PROVE  Directory!Abort(c) \/ UNCHANGED Directory!vars
<1> USE OwnerAssumption, NoConnAssumption DEF TypeOK
<1>1. Gone' = Gone \cup {c}
  BY CloseType DEF Gone, IsClosed
<1>2. Shown' = Shown
  <2>1. ASSUME NEW b \in Agents PROVE Get(b)' = Get(b)
    BY CloseType DEF Get, IsClosed, NoStaleEntry
  <2>2. QED
    BY <2>1 DEF Shown
<1>3. c \notin Shown[Owner[c]]
  BY DEF Shown
<1>4. CASE c \in Gone
  <2>1. Gone' = Gone
    BY <1>1, <1>4
  <2>2. QED
    BY <1>2, <2>1 DEF Directory!vars, Shown, Gone
<1>5. CASE c \notin Gone
  BY <1>1, <1>2, <1>3, <1>5 DEF Directory!Abort, Shown, Gone
<1>6. QED
  BY <1>4, <1>5

\* Put publishes the new session, or ends the old one if the new one is dead.
LEMMA PutShows ==
  ASSUME TypeOK, TunnelInv, NEW c \in Conns, PutSession(c)
  PROVE  \/ Directory!Publish(c)
         \/ Directory!End(Owner[c])
         \/ UNCHANGED Directory!vars
<1> DEFINE a == Owner[c]
<1> USE OwnerAssumption, NoConnAssumption DEF TypeOK
<1>1. a \in Agents /\ Get(a) # c /\ Get(a) \in Conns \cup {NoConn}
  <2>1. a \in Agents
    OBVIOUS
  <2>2. registry[a] # c
    BY <2>1 DEF PutSession, TunnelInv, NoStaleEntry
  <2>3. QED
    BY <2>1, <2>2, GetType
<1>2. Close({Get(a)} \ {NoConn}) /\ registry' = [registry EXCEPT ![a] = c]
  BY DEF PutSession, Put
<1>3. Gone' = Gone \cup Shown[a]
  BY <1>1, <1>2, CloseType DEF Gone, Shown, IsClosed
<1>4. IsClosed(c)' <=> IsClosed(c)
  BY <1>1, <1>2, CloseType DEF IsClosed
<1>5. ASSUME NEW b \in Agents, b # a PROVE Get(b)' = Get(b)
  <2>1. Get(a) # registry[b] \/ registry[b] = NoConn
    BY <1>5, <1>1, GetType DEF TunnelInv, NoStaleEntry
  <2>2. registry'[b] = registry[b]
    BY <1>2, <1>5
  <2>3. QED
    BY <2>1, <2>2, <1>1, <1>2, CloseType DEF Get, IsClosed
<1>6. Get(a)' = IF IsClosed(c) THEN NoConn ELSE c
  BY <1>1, <1>2, <1>4 DEF Get
<1>7. Shown' = [Shown EXCEPT ![a] = IF IsClosed(c) THEN {} ELSE {c}]
  <2>1. ASSUME NEW b \in Agents
        PROVE  Shown'[b] = IF b = a THEN (IF IsClosed(c) THEN {} ELSE {c}) ELSE Shown[b]
    BY <1>5, <1>6, <1>1 DEF Shown
  <2>2. QED
    BY <2>1 DEF Shown
<1>8. CASE ~IsClosed(c)
  BY <1>1, <1>3, <1>7, <1>8 DEF Directory!Publish, Shown, Gone
<1>9. CASE IsClosed(c) /\ Shown[a] # {}
  BY <1>1, <1>3, <1>7, <1>9 DEF Directory!End, Shown, Gone
<1>10. CASE IsClosed(c) /\ Shown[a] = {}
  <2>1. Shown' = Shown
    BY <1>1, <1>7, <1>10 DEF Shown
  <2>2. Gone' = Gone
    BY <1>3, <1>10
  <2>3. QED
    BY <2>1, <2>2 DEF Directory!vars, Shown, Gone
<1>11. QED
  BY <1>8, <1>9, <1>10

\* Removing the entry of a closed session changes nothing that Get shows.
LEMMA RemoveShows ==
  ASSUME TypeOK, NEW c \in Conns, IsClosed(c), Remove(Owner[c], c), UNCHANGED mux
  PROVE  UNCHANGED Directory!vars
<1> USE OwnerAssumption, NoConnAssumption DEF TypeOK
<1>1. ASSUME NEW b \in Agents PROVE Get(b)' = Get(b)
  BY DEF Get, Remove, IsClosed
<1>2. Shown' = Shown /\ Gone' = Gone
  BY <1>1 DEF Shown, Gone, IsClosed
<1>3. QED
  BY <1>2 DEF Directory!vars, Shown, Gone

LEMMA RefineStep ==
  ASSUME TypeOK, TunnelInv, [Next]_vars
  PROVE  [Directory!Next]_(Directory!vars)
<1> USE OwnerAssumption, NoConnAssumption
<1> DEFINE Quiet == UNCHANGED registry /\ \A c \in Conns : IsClosed(c)' <=> IsClosed(c)
<1>1. Quiet => UNCHANGED Directory!vars
  BY SameShown DEF Directory!vars, Shown, Gone
<1>2. ASSUME NEW c \in Conns, Close({c}), UNCHANGED registry
      PROVE  [Directory!Next]_(Directory!vars)
  <2>1. Owner[c] \in Agents
    OBVIOUS
  <2>2. CASE Get(Owner[c]) = c
    BY <1>2, <2>1, <2>2, CloseCurrent DEF Directory!Next, TunnelInv
  <2>3. CASE Get(Owner[c]) # c
    BY <1>2, <2>3, CloseUnpublished DEF Directory!Next, TunnelInv
  <2>4. QED
    BY <2>2, <2>3
<1>3. ASSUME NEW c \in Conns, HandlerStep(c) PROVE [Directory!Next]_(Directory!vars)
  <2>1. CASE Verify(c) \/ HandlerFails(c)
    BY <2>1, <1>1 DEF Verify, HandlerFails, IsClosed
  <2>2. CASE Acknowledge(c)
    BY <2>2, <1>1 DEF Acknowledge, IsClosed, TunnelInv, MuxMatchesHandler, TypeOK
  <2>3. CASE PutSession(c)
    BY <2>3, PutShows DEF Directory!Next, TypeOK
  <2>4. CASE SessionEnds(c)
    BY <2>4, RemoveShows DEF SessionEnds
  <2>5. CASE KeepaliveExpires(c)
    BY <2>5, <1>2 DEF KeepaliveExpires
  <2>6. QED
    BY <1>3, <2>1, <2>2, <2>3, <2>4, <2>5 DEF HandlerStep
<1>4. ASSUME NEW c \in Conns, ReadError(c) PROVE [Directory!Next]_(Directory!vars)
  BY <1>4, <1>1 DEF ReadError, IsClosed, TypeOK
<1>5. ASSUME NEW a \in Agents, NEW c \in Conns, Dial(a, c)
      PROVE  [Directory!Next]_(Directory!vars)
  <2>1. Shown' = Shown
    <3>1. ASSUME NEW b \in Agents PROVE Get(b)' = Get(b)
      BY <1>5 DEF Dial, Unused, Get, IsClosed, TypeOK, TunnelInv, NoStaleEntry
    <3>2. QED
      BY <3>1 DEF Shown
  <2>2. Gone' = Gone \ {c}
    BY <1>5 DEF Dial, Gone, IsClosed, TypeOK
  <2>3. QED
    BY <2>1, <2>2 DEF Directory!Next, Directory!Forget, Directory!vars, Shown, Gone
<1>6. ASSUME NEW r \in Requests, ReqDrops(r) PROVE [Directory!Next]_(Directory!vars)
  BY <1>6, <1>2 DEF ReqDrops, TypeOK, TunnelInv, RequestHoldsSession
<1>7. ASSUME NEW r \in Requests, ReqRemoves(r) PROVE [Directory!Next]_(Directory!vars)
  BY <1>7, RemoveShows DEF ReqRemoves, connVars, TypeOK, TunnelInv, RequestHoldsSession
<1>8. ASSUME NEW k \in Rotators, NEW a \in Agents, RotateClose(k, a)
      PROVE  [Directory!Next]_(Directory!vars)
  <2>1. CASE Get(a) = NoConn
    BY <1>8, <2>1, <1>1, CloseType DEF RotateClose, IsClosed
  <2>2. CASE Get(a) # NoConn
    <3>1. {Get(a)} \ {NoConn} = {Get(a)} /\ Get(a) \in Conns
      BY <2>2, GetType
    <3>2. QED
      BY <1>8, <3>1, <1>2 DEF RotateClose
  <2>3. QED
    BY <2>1, <2>2
<1>9. CASE MasterRestarts
  <2>1. Shown' = [a \in Agents |-> {}] /\ Gone' = {}
    BY <1>9 DEF MasterRestarts, Shown, Gone, Get, IsClosed
  <2>2. QED
    BY <2>1 DEF Directory!Next, Directory!Reset, Shown, Gone
<1>10. CASE StartsInVain \/ UNCHANGED vars
  BY <1>10, <1>1 DEF StartsInVain, vars, IsClosed
<1>11. ASSUME NEW r \in Requests, NEW a \in Agents, ReqGet(r, a) \/ ReqOpens(r)
       PROVE  [Directory!Next]_(Directory!vars)
  BY <1>11, <1>1 DEF ReqGet, ReqOpens, IsClosed
<1>12. ASSUME NEW a \in Agents, AckArrives(a) \/ Disconnects(a) \/ Reinstall(a)
       PROVE  [Directory!Next]_(Directory!vars)
  BY <1>12, <1>1 DEF AckArrives, Disconnects, Reinstall, IsClosed
<1>13. ASSUME NEW c \in Conns, Cut(c) PROVE [Directory!Next]_(Directory!vars)
  BY <1>13, <1>1 DEF Cut, IsClosed
<1>14. ASSUME NEW r \in Requests, ReqOpens(r) PROVE [Directory!Next]_(Directory!vars)
  BY <1>14, <1>1 DEF ReqOpens, IsClosed
<1>15. ASSUME NEW k \in Rotators,
              \/ RotateGenerate(k) \/ RotateOpens(k) \/ RotateSave(k) \/ RotateSet(k)
              \/ RotateList(k) \/ RotateReturn(k)
       PROVE  [Directory!Next]_(Directory!vars)
  BY <1>15, <1>1 DEF RotateGenerate, RotateOpens, RotateSave, RotateSet, RotateList, RotateReturn,
                      RotateFails, IsClosed
<1>16. QED
  BY <1>3, <1>4, <1>5, <1>6, <1>7, <1>8, <1>9, <1>10, <1>11, <1>12, <1>13, <1>14, <1>15
     DEF Next, AgentStep, RequestStep, RotateStep

\* The registry and everything that uses it implement the abstract directory:
\* one current tunnel per agent, handed over in one step, never revived.
THEOREM Refinement == Spec => ImplementsDirectory
<1>1. Init => Directory!Init
  BY NoConnAssumption DEF Init, Directory!Init, Get, IsClosed
<1>2. QED
  BY <1>1, RefineStep, TypeCorrect, TunnelInvariant, PTL
     DEF Spec, ImplementsDirectory, Directory!Spec
=============================================================================
