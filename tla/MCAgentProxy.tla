---------------------------- MODULE MCAgentProxy ----------------------------
(* Instances of AgentProxy for TLC.                                        *)
EXTENDS AgentProxy, TLC

CONSTANTS r1, r2, u1

\* Two requests and an upgrade of the panel.
RequestSymmetry == Permutations({r1, r2})
=============================================================================
