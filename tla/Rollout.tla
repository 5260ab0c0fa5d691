------------------------------- MODULE Rollout -------------------------------
(***************************************************************************)
(* What the update of all online agents promises its reader: one rollout   *)
(* at a time; every agent it is for gets one verdict, once; a good verdict *)
(* only if the agent has been updated; and it closes when no verdict is    *)
(* owed, with the number of the good ones.  How an agent comes to its      *)
(* verdict, and what becomes of its session meanwhile, is left open.       *)
(* Update implements it.                                                   *)
(***************************************************************************)
EXTENDS FiniteSets

CONSTANT Agents

VARIABLES
  open,     \* a rollout is under way
  total,    \* the number of agents it is for
  ok,       \* the number of successes, once it has closed
  waiting,  \* the agents that are owed a verdict
  good,     \* those with a good one
  bad,      \* those with a bad one
  updated   \* the agents with the latest release, whoever has updated them

report == <<open, total, ok, waiting, good, bad>>
vars == <<report, updated>>

Blank == ~open /\ total = 0 /\ ok = 0 /\ waiting = {} /\ good = {} /\ bad = {}

Init == Blank /\ updated \in SUBSET Agents

\* An agent that is not there any more gets its verdict at once.
Begin ==
  /\ ~open /\ open'
  /\ good' = {} /\ ok' = 0
  /\ waiting' \in SUBSET Agents /\ bad' \in SUBSET (Agents \ waiting')
  /\ total' = Cardinality(waiting' \cup bad')
  /\ UNCHANGED updated

Verdict(a) ==
  /\ open /\ a \in waiting
  /\ waiting' = waiting \ {a}
  /\ \/ a \in updated /\ good' = good \cup {a} /\ UNCHANGED bad
     \/ bad' = bad \cup {a} /\ UNCHANGED good
  /\ UNCHANGED <<open, total, ok, updated>>

Close ==
  /\ open /\ ~open'
  /\ waiting = {}
  /\ ok' = Cardinality(good)
  /\ UNCHANGED <<total, waiting, good, bad, updated>>

\* The report is not on disk: a restart of the master leaves it blank.
Forget == Blank' /\ UNCHANGED updated

\* An agent that has been updated stays so.
Improve ==
  /\ updated' \in SUBSET Agents /\ updated \subseteq updated'
  /\ UNCHANGED report

Next == Begin \/ (\E a \in Agents : Verdict(a)) \/ Close \/ Forget \/ Improve

Spec == Init /\ [][Next]_vars
=============================================================================
