-------------------------- MODULE MCSessionSwitch --------------------------
(* Instances of SessionSwitch for TLC.                                     *)
EXTENDS SessionSwitch, TLC

CONSTANTS b1, t1, n1, n2

OneTab == [t \in {t1} |-> b1]
NodeSymmetry == Permutations({n1, n2})
=============================================================================
