----------------------------- MODULE RunClaims -----------------------------
(***************************************************************************)
(* What comments and design records of the repository say of a run's life  *)
(* and the code does not keep.  Each is checked by a run of its own that   *)
(* ends in a counterexample.                                               *)
(***************************************************************************)
EXTENDS RunLifecycle

\* handleDispatchFailure: "A dispatch failure is infrastructure, not a task
\* failure, so it never consumes the task's try_number".  A task none of whose
\* dispatches was ever accepted is still on its first attempt.  But a row failed
\* by FailDispatchExhausted carries no failure kind, so the planner takes it for
\* an ordinary failure and retries it.
DispatchFailureKeepsTry ==
  \A t \in Tasks : ti[t].try > 1 => \E p \in Pods : pods[p].task = t

\* ReportTaskResult: "Guarded on both the source state and the attempt, matching
\* the other three writes to this table (FailTaskInstanceIfActive,
\* RescheduleTaskInstance, RecordHeartbeat)": a late report never lands on another
\* attempt.  RescheduleTaskInstance is guarded on the state alone.
LateRescheduleIgnored ==
  [][\A p \in Pods : ReportOutcome(p) /\ pods[p].try # ti[pods[p].task].try
       => UNCHANGED ti]_vars

\* IsAgentLost: "The reaper only fires on TIs that did heartbeat at least once and
\* then went silent"; one that "has not completed its first interval yet" is alive.
\* No reset clears last_heartbeat_at, so the silence may be that of an earlier
\* attempt while the current one has not reached its first interval.
OnlySilentAgentsReaped ==
  [][\A t \in Tasks : ListAgentLost(t) =>
       pods[ti[t].beat].try = ti[t].try]_vars
=============================================================================
