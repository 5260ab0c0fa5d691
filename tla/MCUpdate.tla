------------------------------ MODULE MCUpdate ------------------------------
(* Instances of Update for TLC. *)
EXTENDS Update, TLC

CONSTANTS a1, a2, m, u1, u2, u3, u4

\* A tunnel update and "1pm update" at one agent, and the page's update of the
\* master; another agent hangs.
MixedHosts == (u1 :> a1) @@ (u3 :> a1) @@ (u4 :> m)
MixedKinds == (u1 :> "tunnel") @@ (u3 :> "cli") @@ (u4 :> "web")
OneHost == (u3 :> a1)
OneKind == (u3 :> "cli")

\* A mirror that serves pages for binaries, and GitHub.
SomePages == <<{"fail", "page"}, {"fail", "good"}>>
NoPages == <<{"fail", "good"}, {"fail", "good"}>>

\* Everything works.
AllGood == <<{"good"}, {"good"}>>
=============================================================================
