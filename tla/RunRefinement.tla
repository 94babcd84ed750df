--------------------------- MODULE RunRefinement ----------------------------
(***************************************************************************)
(* The run of RunLifecycle read as an AttemptLedger: the counters are those*)
(* of the rows, and the proofs are the outcome records of the pods.        *)
(***************************************************************************)
EXTENDS RunLifecycle

\* The attempts whose pod has an outcome record that says success.
Proven == {<<pods[p].task, pods[p].try>> : p \in {q \in Pods : pods[q].out = "success"}}

Ledger == INSTANCE AttemptLedger WITH
  attempt <- [t \in Tasks |-> ti[t].try],
  places <- [t \in Tasks |-> ti[t].infraAttempts],
  granted <- clears,
  won <- {t \in Tasks : ti[t].state = "success"},
  byHand <- marked,
  proven <- Proven

\* The run implements the ledger: whatever a writer read before, its statement
\* books at most one attempt or one re-placement per task, from a row that has
\* it to spend and, but for a clear, has not succeeded; and no success appears
\* without its proof (the guarded UPDATEs of runs.sql under the plans of
\* PlanRun, the reports, the reconciler, the reapers and the operator).
ImplementsLedger == Ledger!Spec
=============================================================================
