------------------------------ MODULE PortLease ------------------------------
(***************************************************************************)
(* What the takeover of 1Panel's port promises, without saying how: the    *)
(* master borrows the port 1Panel had, and no other, for as long as it     *)
(* holds a lease that is on record; it sends 1Panel to the port the lease  *)
(* names and nowhere else, and hands the port back before it gives up the  *)
(* lease.  All of this ends with the first record that is damaged.         *)
(* Takeover implements it.                                                 *)
(***************************************************************************)
CONSTANT Port  \* the ports, and 0 for none

VARIABLES
  own,       \* the port 1Panel uses of its own accord
  panel,     \* the port 1Panel is configured to use
  lease,     \* what is on record: the port borrowed and the one 1Panel is sent to
  public,    \* the port the master serves its users on, or 0
  sound,     \* every record made was written
  disturbed  \* giving back has failed, was cut off, or 1Panel's port changed meanwhile

vars == <<own, panel, lease, public, sound, disturbed>>

NoLease == [public |-> 0, internal |-> 0]
Held == lease # NoLease

Init ==
  /\ own \in Port \ {0} /\ panel = own
  /\ lease = NoLease /\ public = 0
  /\ sound = TRUE /\ disturbed = FALSE

\* The lease is of the port 1Panel has, and names another one for it.
Borrow ==
  /\ ~Held /\ public = 0
  /\ lease' \in [public : {own}, internal : Port \ {0, own}]
  /\ UNCHANGED <<own, panel, public, disturbed>>

\* 1Panel is sent away only under a lease, and back only while nobody serves.
SendAway == Held /\ panel' = lease.internal /\ UNCHANGED <<own, lease, public, disturbed>>
SendBack ==
  /\ Held /\ public = 0
  /\ panel' = lease.public
  /\ UNCHANGED <<own, lease, public, disturbed>>

Serve == Held /\ public' = lease.public /\ UNCHANGED <<own, panel, lease, disturbed>>
Stop == public' = 0 /\ UNCHANGED <<own, panel, lease, disturbed>>

\* The lease ends with 1Panel back on its port.
GiveUp ==
  /\ public = 0
  /\ disturbed \/ panel = own
  /\ lease' = NoLease
  /\ UNCHANGED <<own, panel, public, disturbed>>

Disturb == disturbed' = TRUE /\ UNCHANGED <<own, panel, lease, public>>

\* The administrator changes the port, never to the one the master serves on; without a
\* lease the new port is 1Panel's own.
Change ==
  /\ panel' \in Port \ {0, public}
  /\ own' = IF Held THEN own ELSE panel'
  /\ disturbed' \in {disturbed, TRUE}
  /\ UNCHANGED <<lease, public>>

Next ==
  \/ /\ UNCHANGED sound
     /\ Borrow \/ SendAway \/ SendBack \/ Serve \/ Stop \/ GiveUp \/ Disturb \/ Change
  \/ sound' = FALSE

Spec == Init /\ [][Next]_vars
=============================================================================
