--------------------------- MODULE MCAgentTunnel ---------------------------
(* Instances of AgentTunnel for TLC.                                       *)
EXTENDS AgentTunnel

CONSTANTS a1, c1, c2

\* One agent with two connections: the one that is up and a late one.
OneAgent == {a1}
TwoConns == {c1, c2}
OneOwner == [c \in TwoConns |-> a1]
=============================================================================
