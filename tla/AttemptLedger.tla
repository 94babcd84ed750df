--------------------------- MODULE AttemptLedger ----------------------------
(***************************************************************************)
(* What the control plane promises about the attempts of a run's tasks,    *)
(* with no word of ticks, pods, reports or reapers: a ledger that opens at *)
(* attempt one, books one attempt at a time against the retries and the    *)
(* operator's grants and one re-placement at a time against its own        *)
(* budget, and records a success only against a proof of that attempt or   *)
(* the operator's word.                                                    *)
(*                                                                         *)
(* One statement may book an entry for several tasks.                      *)
(***************************************************************************)
EXTENDS Integers

CONSTANTS Tasks, MaxTries, infraMaxAttempts

VARIABLES
  attempt,  \* attempt[t]: 0 before the task is made
  places,   \* places[t]: re-placements of it after an infra failure
  granted,  \* granted[t]: attempts the operator added by clearing it
  won,      \* tasks recorded as a success
  byHand,   \* tasks whose state is the operator's word
  proven    \* <<t, n>>: user code of attempt n of t has ended with success

ledger == <<attempt, places, granted, won, byHand, proven>>

Init ==
  /\ attempt = [t \in Tasks |-> 0]
  /\ places = [t \in Tasks |-> 0]
  /\ granted = [t \in Tasks |-> 0]
  /\ won = {}
  /\ byHand = {}
  /\ proven = {}

\* How far the entry of t moves: attempts, re-placements, grants.
Books(t, n, p, g) ==
  /\ attempt'[t] = attempt[t] + n
  /\ places'[t] = places[t] + p
  /\ granted'[t] = granted[t] + g

\* The state of t may change, its entry does not.
Settle(t) == Books(t, 0, 0, 0)

\* The first attempt, or a retry: never from a success nor to one.
Attempt(t) ==
  /\ attempt[t] < MaxTries[t] + granted[t]
  /\ Books(t, 1, 0, 0)
  /\ t \notin won \cup won'

\* A re-placement keeps the attempt.
Replace(t) ==
  /\ places[t] < infraMaxAttempts
  /\ Books(t, 0, 1, 0)
  /\ t \notin won \cup won'

\* A clear may start from anything and pays for the attempt it starts; what was
\* said by hand no longer holds.
Clear(t) == Books(t, 1, 0, 1) /\ t \notin won' \cup byHand'

Next ==
  /\ \A t \in Tasks : Settle(t) \/ Attempt(t) \/ Replace(t) \/ Clear(t)
  /\ proven \subseteq proven'
  /\ \A t \in won' : t \in byHand' \/ <<t, attempt'[t]>> \in proven'

Spec == Init /\ [][Next]_ledger
=============================================================================
