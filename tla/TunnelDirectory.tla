-------------------------- MODULE TunnelDirectory --------------------------
(***************************************************************************)
(* What the master's agent registry promises to its users (the reverse     *)
(* proxy, the node list, the control pushes), without saying how: for an   *)
(* agent there is at most one current tunnel, a new tunnel takes over in   *)
(* one step with the end of the old one, and a tunnel that has ended is    *)
(* never handed out again.  AgentTunnel implements it.                     *)
(***************************************************************************)

CONSTANTS
  Agents,  \* the agent identifiers
  Conns,   \* the identities tunnels may have
  Owner    \* Owner[c] is the agent whose tunnel c is

VARIABLES
  current,  \* current[a]: the set of tunnels handed out for a (0 or 1 of them)
  ended     \* tunnels that were current and may not come back

vars == <<current, ended>>

Init ==
  /\ current = [a \in Agents |-> {}]
  /\ ended = {}

\* Tunnel c becomes the one tunnel of its agent; the one before it ends.
Publish(c) ==
  /\ c \notin ended
  /\ c \notin current[Owner[c]]
  /\ ended' = ended \cup current[Owner[c]]
  /\ current' = [current EXCEPT ![Owner[c]] = {c}]

\* A tunnel dies before it was ever published.
Abort(c) ==
  /\ c \notin ended
  /\ c \notin current[Owner[c]]
  /\ ended' = ended \cup {c}
  /\ UNCHANGED current

\* The current tunnel of an agent ends.
End(a) ==
  /\ current[a] # {}
  /\ ended' = ended \cup current[a]
  /\ current' = [current EXCEPT ![a] = {}]

\* Nobody holds the ended tunnel c any more: its identity may be used again.
Forget(c) ==
  /\ c \in ended
  /\ ended' = ended \ {c}
  /\ UNCHANGED current

\* The master process restarts and every tunnel is gone.
Reset ==
  /\ current' = [a \in Agents |-> {}]
  /\ ended' = {}

Next ==
  \/ \E c \in Conns : Publish(c) \/ Abort(c) \/ Forget(c)
  \/ \E a \in Agents : End(a)
  \/ Reset

Spec == Init /\ [][Next]_vars
=============================================================================
