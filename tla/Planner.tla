------------------------------ MODULE Planner ------------------------------
(***************************************************************************)
(* The pure planning core of a scheduler tick (internal/scheduler/plan.go):*)
(* PlanRun decides, from a snapshot of a run's rows, which transitions to  *)
(* emit, and FinalizeRun whether the run is over.                          *)
(*                                                                         *)
(* snap is the snapshot, a row per task.  ready is the set of tasks whose  *)
(* time gate has elapsed at the snapshot's clock: retry_delay_seconds for  *)
(* up_for_retry, reschedule_at for up_for_reschedule, the re-place backoff *)
(* for an infra failure, next_dispatch_at for scheduled.                   *)
(***************************************************************************)
EXTENDS FiniteSets, TaskRow

CONSTANTS Tasks,             \* the tasks of the run
          Before,            \* Before[t]: the tasks listed before t in the spec
          DependsOn,         \* DependsOn[t]: the upstreams of t
          RuleOf,            \* RuleOf[t]: its trigger rule
          MaxTries,          \* MaxTries[t]: retries + 1
          infraMaxAttempts,  \* re-place budget of infra failures
          MaxActiveTasks     \* max_active_tasks of the DAG, 0 when unset

ASSUME PlannerAssumption ==
  /\ IsFiniteSet(Tasks)
  /\ Before \in [Tasks -> SUBSET Tasks]
  /\ \A t \in Tasks : t \notin Before[t]
  /\ \A t, u \in Tasks : t # u => t \in Before[u] \/ u \in Before[t]
  /\ \A t, u \in Tasks : t \in Before[u] => Before[t] \subseteq Before[u]
  /\ DependsOn \in [Tasks -> SUBSET Tasks]
  /\ RuleOf \in [Tasks -> TriggerRule]
  /\ MaxTries \in [Tasks -> Nat \ {0}]
  /\ infraMaxAttempts \in Nat
  /\ MaxActiveTasks \in Nat

\* No transition planned for a task.
Keep == "keep"

\* What a plan may say of a task.
PlanTarget == {Keep, "none", "scheduled", "queued", "skipped", "upstream_failed",
               "up_for_retry"}

-----------------------------------------------------------------------------

\* The load-time reading of last_failure_kind: inert on any other state.
InfraFailed(r) == r.state = "failed" /\ r.infra

\* Mutants: each budget allows one more.
infraReplaceable_oneMore(r) == InfraFailed(r) /\ r.infraAttempts <= infraMaxAttempts

retriable_oneMore(t, r) == r.try <= MaxTries[t]

infraReplaceable(r) == InfraFailed(r) /\ r.infraAttempts < infraMaxAttempts

retriable(t, r) == r.try < MaxTries[t]

\* A failed row the scheduler will still bring back: an infra failure only
\* through its own budget, any other only through the retry budget.
Recoverable(t, r) ==
  IF InfraFailed(r) THEN infraReplaceable(r)
                    ELSE r.state = "failed" /\ retriable(t, r)

Parked(r) == r.state \in {"up_for_retry", "up_for_reschedule"}

\* Mutants: downstream planning sees a failure that will be retried, or one that
\* will be re-placed, as final.
effective_raw(snap, ready) == [t \in Tasks |-> snap[t].state]

effective_infraFinal(snap, ready) ==
  [t \in Tasks |->
     LET r == snap[t] IN
     IF Recoverable(t, r) /\ ~InfraFailed(r) THEN "up_for_retry"
     ELSE IF Parked(r) /\ t \in ready THEN "none"
     ELSE r.state]

\* The state downstream planning sees once planRetryTransitions has run.
effective(snap, ready) ==
  [t \in Tasks |->
     LET r == snap[t] IN
     IF Recoverable(t, r)
       THEN IF InfraFailed(r) /\ t \in ready THEN "none" ELSE "up_for_retry"
     ELSE IF Parked(r) /\ t \in ready THEN "none"
     ELSE r.state]

-----------------------------------------------------------------------------
(* Admission: the per-DAG max_active_tasks gate.                           *)

ActiveTaskCount(snap) ==
  Cardinality({t \in Tasks : snap[t].state \in {"queued", "running"}})

Dispatchable(snap, ready) == {t \in ready : snap[t].state = "scheduled"}

\* Mutant: what this plan already promoted is not counted.
Admitted_uncounted(snap, ready, t) ==
  MaxActiveTasks = 0 \/ ActiveTaskCount(snap) < MaxActiveTasks

\* t is among the first headroom dispatchable tasks, in spec order.
Admitted(snap, ready, t) ==
  \/ MaxActiveTasks = 0
  \/ ActiveTaskCount(snap) + Cardinality(Dispatchable(snap, ready) \cap Before[t])
       < MaxActiveTasks

-----------------------------------------------------------------------------

decideStart(t, states) ==
  LET d == EvaluateTriggerRule(RuleOf[t], DependsOn[t], states)
  IN CASE d = "schedule"        -> "scheduled"
       [] d = "skip"            -> "skipped"
       [] d = "upstream_failed" -> "upstream_failed"
       [] OTHER                 -> Keep

\* The retry rail: failed, up_for_retry and up_for_reschedule rows.
planRetryTransition(t, r, ready) ==
  IF r.state = "failed"
    THEN IF ~Recoverable(t, r) THEN Keep
         ELSE IF ~InfraFailed(r) THEN "up_for_retry"
         ELSE IF t \in ready THEN "none" ELSE Keep
    ELSE IF t \in ready THEN "none" ELSE Keep

\* Whether planRetryTransitions emits for t, so ahead of the main loop.
OnRetryRail(r) == r.state = "failed" \/ Parked(r)

PlanRun(snap, ready) ==
  [t \in Tasks |->
     LET r == snap[t] IN
     CASE OnRetryRail(r)        -> planRetryTransition(t, r, ready)
       [] r.state = "none"      -> decideStart(t, effective(snap, ready))
       [] r.state = "scheduled" ->
            IF t \in ready /\ Admitted(snap, ready, t) THEN "queued" ELSE Keep
       [] OTHER                 -> Keep]

\* t comes before u in the emitted order: the retry rail first, each rail in
\* spec order.
PlannedBefore(snap, t, u) ==
  IF OnRetryRail(snap[t]) # OnRetryRail(snap[u])
    THEN OnRetryRail(snap[t])
    ELSE t \in Before[u]

-----------------------------------------------------------------------------

\* Mutant: a run ends when nothing is active, rather than when all is settled.
FinalizeRun_quiet(snap) ==
  IF \E t \in Tasks : snap[t].state \in ActiveStates \/ Parked(snap[t])
                        \/ Recoverable(t, snap[t])
    THEN Keep
  ELSE IF \E t \in Tasks : snap[t].state \in {"failed", "upstream_failed"}
    THEN "failed"
  ELSE "success"

\* The terminal run state, or Keep while some task is not settled.
FinalizeRun(snap) ==
  IF \E t \in Tasks : ~IsTerminal(snap[t].state) \/ Recoverable(t, snap[t])
    THEN Keep
  ELSE IF \E t \in Tasks : snap[t].state \in {"failed", "upstream_failed"}
    THEN "failed"
  ELSE "success"
=============================================================================
