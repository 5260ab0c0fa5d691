---------------------------- MODULE PanelRequest ----------------------------
(***************************************************************************)
(* What the master may rely on when it sends requests through a tunnel to  *)
(* the panel of a node: each is carried out once at most and answered once.*)
(* AgentProxy, with its cached session and its second attempt, implements  *)
(* it.                                                                     *)
(***************************************************************************)
EXTENDS Naturals

CONSTANTS
  Requests,   \* requests to the panel of one node
  Answers     \* what the master may be told

VARIABLES
  carried,    \* carried[r]: how often the panel has carried r out
  answers     \* answers[r]: what the master was told

vars == <<carried, answers>>

Init ==
  /\ carried = [r \in Requests |-> 0]
  /\ answers = [r \in Requests |-> {}]

Open(r) == answers[r] = {}

CarryOut(r) ==
  /\ Open(r)
  /\ carried[r] = 0
  /\ carried' = [carried EXCEPT ![r] = 1]
  /\ UNCHANGED answers

\* A success is told only of a request that was carried out.
Answer(r) ==
  /\ Open(r)
  /\ \E a \in Answers :
       /\ a = "ok" => carried[r] = 1
       /\ answers' = [answers EXCEPT ![r] = {a}]
  /\ UNCHANGED carried

Next == \E r \in Requests : CarryOut(r) \/ Answer(r)

Spec == Init /\ [][Next]_vars
=============================================================================
