------------------------------ MODULE TaskRow ------------------------------
(***************************************************************************)
(* One row of task_instances and every write the control plane makes to    *)
(* it (internal/storage/queries/runs.sql), each as an operator from the    *)
(* row before to the row after.  A guarded UPDATE that matches no row      *)
(* leaves it as it is.                                                     *)
(*                                                                         *)
(* A row keeps what the scheduler, the reapers and the reports decide on:  *)
(*   state    the task_state, "absent" before MaterializeTasks             *)
(*   try      try_number, bumped in place                                  *)
(*   infra    last_failure_kind = 'infra'                                  *)
(*   infraAttempts, dispatchAttempts                                       *)
(*   beat     last_heartbeat_at: the pod that stamped it last, or NoPod    *)
(* Timestamps that only gate when a step may happen (retry delay,          *)
(* reschedule_at, next_dispatch_at, thresholds) are left to the planner's  *)
(* and the reapers' choice of moment.                                      *)
(***************************************************************************)
EXTENDS Integers, TriggerRules

CONSTANTS Pods,    \* pod identities
          NoPod    \* last_heartbeat_at IS NULL

ASSUME NoPodAssumption == NoPod \notin Pods

Row == [state: TaskState \cup {"absent"}, try: Nat, infra: BOOLEAN,
        infraAttempts: Nat, dispatchAttempts: Nat, beat: Pods \cup {NoPod}]

AbsentRow == [state |-> "absent", try |-> 0, infra |-> FALSE,
              infraAttempts |-> 0, dispatchAttempts |-> 0, beat |-> NoPod]

\* MaterializeTasks: CreateTaskInstances copies one row per task.
CreateTaskInstance ==
  [AbsentRow EXCEPT !.state = "none", !.try = 1]

Exists(r) == r.state # "absent"

-----------------------------------------------------------------------------
(* Scheduler tick.                                                         *)

\* ApplyTransition / ApplyTransitions: no guard on the source state.
ApplyTransition(r, to) ==
  IF Exists(r) THEN [r EXCEPT !.state = to] ELSE r

\* The columns ResetTaskInstanceToNone and its variants have in common.
\* last_heartbeat_at and infra_attempts are not among them.
ResetColumns(r) ==
  [r EXCEPT !.state = "none", !.infra = FALSE, !.dispatchAttempts = 0]

\* Mutant: the retry release is not guarded on the state.
ResetTaskInstanceForRetry_unguarded(r) ==
  IF Exists(r) THEN [ResetColumns(r) EXCEPT !.try = r.try + 1] ELSE r

ResetTaskInstanceForRetry(r) ==
  IF r.state = "up_for_retry"
    THEN [ResetColumns(r) EXCEPT !.try = r.try + 1]
    ELSE r

\* Mutant: a re-placement also starts a new attempt.
ResetTaskInstanceInfraReplace_newTry(r) ==
  IF r.state = "failed" /\ r.infra
    THEN [ResetColumns(r) EXCEPT !.infraAttempts = r.infraAttempts + 1,
                                 !.try = r.try + 1]
    ELSE r

ResetTaskInstanceInfraReplace(r) ==
  IF r.state = "failed" /\ r.infra
    THEN [ResetColumns(r) EXCEPT !.infraAttempts = r.infraAttempts + 1]
    ELSE r

\* Keeps try_number and, unlike the other resets, dispatch_attempts.
RedispatchRescheduledTaskInstance(r) ==
  IF r.state = "up_for_reschedule"
    THEN [r EXCEPT !.state = "none", !.infra = FALSE]
    ELSE r

RecordDispatchFailure(r) ==
  IF r.state = "scheduled"
    THEN [r EXCEPT !.dispatchAttempts = r.dispatchAttempts + 1]
    ELSE r

\* last_failure_kind is not written.
FailDispatchExhausted(r) ==
  IF r.state = "scheduled" THEN [r EXCEPT !.state = "failed"] ELSE r

\* The buffered dispatcher's failure sink: no guard on try_number.
MarkTaskDispatchFailed(r) ==
  IF r.state \in {"scheduled", "queued"} THEN [r EXCEPT !.state = "failed"] ELSE r

-----------------------------------------------------------------------------
(* Agent reports.                                                          *)

\* Mutant: the report is not guarded on the attempt.
ReportApplies_anyTry(r, try) ==
  r.state \in {"none", "scheduled", "queued", "running"}

\* Whether ReportTaskResult of attempt try matches the row; the agent is told
\* to terminate when it does not.
ReportApplies(r, try) ==
  r.try = try /\ r.state \in {"none", "scheduled", "queued", "running"}

ReportTaskResult(r, try, to) ==
  IF ReportApplies(r, try) THEN [r EXCEPT !.state = to] ELSE r

\* The agent's reschedule report: guarded on the state only.
RescheduleTaskInstance(r) ==
  IF r.state \in {"running", "queued", "scheduled"}
    THEN [r EXCEPT !.state = "up_for_reschedule"]
    ELSE r

HeartbeatApplies(r, try) == r.try = try /\ r.state \in {"queued", "running"}

RecordTaskHeartbeat(r, try, pod) ==
  IF HeartbeatApplies(r, try) THEN [r EXCEPT !.beat = pod] ELSE r

-----------------------------------------------------------------------------
(* Warm placement.                                                         *)

\* Whether BindWarmAttempt of attempt try matches the row.
BindApplies(r, try) == r.try = try /\ r.state \in {"queued", "running"}

\* The re-offer of an attempt whose worker is gone.
RequeueForRedispatch(r, try) ==
  IF r.try = try /\ r.state = "queued" THEN [r EXCEPT !.state = "scheduled"] ELSE r

-----------------------------------------------------------------------------
(* Pod reconciler: guarded on the attempt and on the active states.        *)

ActiveStates == {"scheduled", "queued", "running"}

SettleIfActive(r, try, to) ==
  IF r.try = try /\ r.state \in ActiveStates THEN [r EXCEPT !.state = to] ELSE r

-----------------------------------------------------------------------------
(* Reapers: guarded on the state, not on the attempt.                      *)

\* Mutant: the mark is not guarded on the state the candidate was listed in.
MarkTaskLost_unguarded(r) ==
  IF Exists(r) THEN [r EXCEPT !.state = "failed", !.infra = TRUE] ELSE r

\* MarkTaskAgentLost and MarkTaskPodLost differ only in the message.
MarkTaskLost(r) ==
  IF r.state = "running" THEN [r EXCEPT !.state = "failed", !.infra = TRUE] ELSE r

MarkTaskDispatchLost(r) ==
  IF r.state = "queued" THEN [r EXCEPT !.state = "failed", !.infra = TRUE] ELSE r

MarkRunOrphanedTaskInstance(r) ==
  IF r.state \in ActiveStates THEN [r EXCEPT !.state = "failed"] ELSE r

-----------------------------------------------------------------------------
(* Operator.                                                               *)

\* Mutant: a clear starts counting attempts from one again.
ResetTaskInstanceToNone_restart(r) ==
  IF Exists(r) THEN [ResetColumns(r) EXCEPT !.try = 1] ELSE r

ResetTaskInstanceToNone(r) ==
  IF Exists(r) THEN [ResetColumns(r) EXCEPT !.try = r.try + 1] ELSE r

ResetFailedTaskInstance(r) ==
  IF r.state \in {"failed", "upstream_failed", "up_for_retry"}
    THEN [ResetColumns(r) EXCEPT !.try = r.try + 1]
    ELSE r
=============================================================================
