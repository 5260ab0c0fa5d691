----------------------------- MODULE MCPanelTLS -----------------------------
(* Instances of PanelTLS for TLC. *)
EXTENDS PanelTLS, TLC

CONSTANTS on, off

\* SSL is switched on and off, by two who do not wait for each other.
OnAndOff == (on :> TRUE) @@ (off :> FALSE)
=============================================================================
