-------------------------- MODULE PanelHardening --------------------------
(***************************************************************************)
(* EnsureLocalPanelHardening (agent/harden.go): the 1Panel of an agent's   *)
(* host must speak plain http and listen on 127.0.0.1 only.  It is run by  *)
(* the agent service at every start and by "1pm agent setpwd", possibly    *)
(* by both at once, against a panel that restarts by itself some time      *)
(* after each change of its settings.                                      *)
(*                                                                         *)
(* The certificate files exist while SSL is on, and change with the        *)
(* setting; what the panel does with its port changes with its restart.    *)
(* The panel (1Panel) is external: it is modelled from what the code asks  *)
(* of it.                                                                  *)
(*                                                                         *)
(* Left out: ports, the security entrance, how long the waits are (a wait  *)
(* may run into its limit whenever its condition does not hold).           *)
(***************************************************************************)
EXTENDS Naturals

CONSTANTS
  Hardeners,    \* processes that run EnsureLocalPanelHardening
  SsWorks,      \* TRUE if the host has the command ss
  MaxAdmin      \* bound: changes of the panel's settings by its user

ASSUME SsAssumption == SsWorks \in BOOLEAN
ASSUME AdminAssumption == MaxAdmin \in Nat

VARIABLES
  certs,      \* the panel's SSL setting: server.crt and server.key exist
  bindAll,    \* the panel's bind setting is another than 127.0.0.1
  panel,      \* what the running panel does: Down, or [ssl, all]
  place,      \* place[p]: where p is in EnsureLocalPanelHardening
  https,      \* https[p]: the scheme of cfg.PanelURL in p
  result,     \* result[p]: how p's last hardening ended
  sound,      \* history: the processes whose looks at the port met a panel at rest
  admin       \* changes by the panel's user so far

settings == <<certs, bindAll>>
hardenVars == <<certs, bindAll, panel, place, https, result, sound, admin>>

Down == [ssl |-> FALSE, all |-> FALSE, up |-> FALSE]
Up(s, a) == [ssl |-> s, all |-> a, up |-> TRUE]
PanelStates == {Down} \cup {Up(s, a) : s, a \in BOOLEAN}

Places == {"out", "fill", "look", "sslOff", "sslWait", "relook", "bind", "bindWait", "finish"}

HardenTypeOK ==
  /\ certs \in BOOLEAN
  /\ bindAll \in BOOLEAN
  /\ panel \in PanelStates
  /\ place \in [Hardeners -> Places]
  /\ https \in [Hardeners -> BOOLEAN]
  /\ result \in [Hardeners -> {"none", "ok", "error"}]
  /\ sound \subseteq Hardeners
  /\ admin \in 0 .. MaxAdmin

HardenInit ==
  /\ certs \in BOOLEAN
  /\ bindAll \in BOOLEAN
  /\ panel = Up(certs, bindAll)
  /\ place = [p \in Hardeners |-> "out"]
  /\ https = [p \in Hardeners |-> FALSE]
  /\ result = [p \in Hardeners |-> "none"]
  /\ sound = {}
  /\ admin = 0

-----------------------------------------------------------------------------
(* The panel.                                                              *)

\* Its settings and its process agree: no restart is due.
AtRest == panel = Up(certs, bindAll)

\* A panel whose settings have changed restarts by itself.
PanelStops ==
  /\ panel.up
  /\ ~AtRest
  /\ panel' = Down
  /\ UNCHANGED <<settings, place, https, result, sound, admin>>

PanelStarts ==
  /\ panel = Down
  /\ panel' = Up(certs, bindAll)
  /\ UNCHANGED <<settings, place, https, result, sound, admin>>

\* Its user switches SSL or the address in the panel: whatever a hardening has seen
\* before no longer counts.
AdminChanges ==
  /\ admin < MaxAdmin
  /\ panel.up
  /\ \/ certs' = ~certs /\ UNCHANGED bindAll
     \/ bindAll' = ~bindAll /\ UNCHANGED certs
  /\ admin' = admin + 1
  /\ sound' = {}
  /\ UNCHANGED <<panel, place, https, result>>

\* panel.Login followed by a call of the API: the panel is up and speaks the scheme.
Reaches(p) == panel.up /\ panel.ssl = https[p]

\* listensExternally: ss shows the port on another address than 127.0.0.1.  Without
\* ss, and while the panel is down, nothing is shown.
ListensExternally == SsWorks /\ panel.up /\ panel.all

-----------------------------------------------------------------------------
(* EnsureLocalPanelHardening.                                              *)

At(p, here) == place[p] = here

Goto(p, there) == place' = [place EXCEPT ![p] = there]

End(p, how) ==
  /\ Goto(p, "out")
  /\ result' = [result EXCEPT ![p] = how]

Begin(p) ==
  /\ At(p, "out")
  /\ Goto(p, "fill")
  /\ result' = [result EXCEPT ![p] = "none"]
  /\ sound' = sound \cup {p}
  /\ UNCHANGED <<settings, panel, https, admin>>

\* An error at any place ends it: the panel's CLI fails, a login fails, the panel
\* does not answer, a wait runs into its limit.
Fails(p, here) ==
  /\ At(p, here)
  /\ End(p, "error")
  /\ UNCHANGED <<settings, panel, https, sound, admin>>

\* AutofillPanel: the scheme of PanelURL follows the files.
Fill(p) ==
  /\ At(p, "fill")
  /\ https' = [https EXCEPT ![p] = certs]
  /\ Goto(p, "look")
  /\ UNCHANGED <<settings, panel, result, sound, admin>>

\* A look that finds nothing listening on other addresses says something about the
\* settings only if there is an ss, the panel is up and no restart is due.
LookedAt(p) == sound' = IF SsWorks /\ AtRest THEN sound ELSE sound \ {p}

\* needSSLOff and needBind: nothing to do, or a password is needed.
Compliant(p) ==
  /\ At(p, "look")
  /\ ~certs
  /\ ~ListensExternally
  /\ End(p, "ok")
  /\ LookedAt(p)
  /\ UNCHANGED <<settings, panel, https, admin>>

NeedsWork(p) ==
  /\ At(p, "look")
  /\ certs \/ ListensExternally
  /\ Goto(p, IF certs THEN "sslOff" ELSE "bind")
  /\ UNCHANGED <<settings, panel, https, result, sound, admin>>

\* Login and UpdateSSL(false): the panel removes the files at once.
SslOff(p) ==
  /\ At(p, "sslOff")
  /\ Reaches(p)
  /\ certs' = FALSE
  /\ Goto(p, "sslWait")
  /\ UNCHANGED <<bindAll, panel, https, result, sound, admin>>

\* waitPanelSSLReady(false) returns; PanelURL becomes http and is saved.
SslGone(p) ==
  /\ At(p, "sslWait")
  /\ ~certs
  /\ https' = [https EXCEPT ![p] = FALSE]
  /\ Goto(p, "relook")
  /\ UNCHANGED <<settings, panel, result, sound, admin>>

\* Mutant: after SSL the address is taken to be in order.
RelookNever(p) ==
  /\ At(p, "relook")
  /\ Goto(p, "finish")
  /\ UNCHANGED <<settings, panel, https, result, sound, admin>>

\* needBind is taken again, while the panel may be restarting.
Relook(p) ==
  /\ At(p, "relook")
  /\ IF ListensExternally
     THEN Goto(p, "bind") /\ UNCHANGED sound
     ELSE Goto(p, "finish") /\ LookedAt(p)
  /\ UNCHANGED <<settings, panel, https, result, admin>>

\* Login and UpdateBindInfo("127.0.0.1").
Bind(p) ==
  /\ At(p, "bind")
  /\ Reaches(p)
  /\ bindAll' = FALSE
  /\ Goto(p, "bindWait")
  /\ UNCHANGED <<certs, panel, https, result, sound, admin>>

\* waitListenLocalhost returns: the port is closed to others, or the panel down.
BindDone(p) ==
  /\ At(p, "bindWait")
  /\ ~ListensExternally
  /\ Goto(p, "finish")
  /\ UNCHANGED <<settings, panel, https, result, sound, admin>>

\* AutofillPanel again; PanelURL is http in any case and is saved.
Finish(p) ==
  /\ At(p, "finish")
  /\ https' = [https EXCEPT ![p] = FALSE]
  /\ End(p, "ok")
  /\ UNCHANGED <<settings, panel, sound, admin>>

\* Places where an error is possible; a wait fails while its condition does not
\* hold (waitPanelSSLReady, waitListenLocalhost).
FailingPlaces == {"fill", "look", "sslOff", "bind", "finish"}

HardenFails(p) ==
  \/ \E here \in FailingPlaces : Fails(p, here)
  \/ certs /\ Fails(p, "sslWait")
  \/ ListensExternally /\ Fails(p, "bindWait")

\* The panel has done as it was told, but its answer does not arrive.
AnswerLost(p) ==
  /\ \/ At(p, "sslOff") /\ certs' = FALSE /\ UNCHANGED bindAll
     \/ At(p, "bind") /\ bindAll' = FALSE /\ UNCHANGED certs
  /\ Reaches(p)
  /\ End(p, "error")
  /\ UNCHANGED <<panel, https, sound, admin>>

\* Steps that log in at the panel, steps that end in config.Save, and the others.
HardenLoggedIn(p) == SslOff(p) \/ Bind(p) \/ AnswerLost(p)

HardenSaving(p) == SslGone(p) \/ Finish(p)

HardenQuietly(p) ==
  Fill(p) \/ Compliant(p) \/ NeedsWork(p) \/ Relook(p) \/ BindDone(p) \/ HardenFails(p)

PanelStep == PanelStops \/ PanelStarts \/ AdminChanges

HardenNext ==
  \/ PanelStep
  \/ \E p \in Hardeners :
       Begin(p) \/ HardenLoggedIn(p) \/ HardenSaving(p) \/ HardenQuietly(p)

HardenSpec == HardenInit /\ [][HardenNext]_hardenVars

-----------------------------------------------------------------------------
(* Properties.                                                             *)

\* A hardening that ends well, and whose looks at the port met a panel at rest, leaves
\* the panel on http and 127.0.0.1 until its user changes that (harden.go:17).  The
\* look after the restart (harden.go:65) is what can go wrong: see HardenedAlways.
HardenedMeansClosed ==
  \A p \in sound : result[p] = "ok" => ~certs /\ ~bindAll

\* "After the installation and at every agent run, BindAddress=127.0.0.1 and SSL
\* Disable are checked and enforced" (docs/design_notes.md, section 11).
HardenedAlways ==
  admin = 0 => \A p \in Hardeners : result[p] = "ok" => ~certs /\ ~bindAll
=============================================================================
