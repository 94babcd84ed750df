-------------------------- MODULE RunBudget_proofs --------------------------
(***************************************************************************)
(* Type correctness, and the retry, re-place and dispatch budgets, for     *)
(* every DAG, every budget and any number of pods, faults and operator     *)
(* requests.                                                               *)
(*                                                                         *)
(* A budget is checked on a snapshot and spent on a row that has moved on  *)
(* since.  BudgetInv ties the two: what the tick still means to do fits into*)
(* what the row has left now.  Before it come the lemmas on what every     *)
(* statement may do to a row and every action to the run, on which the     *)
(* theorems about RunLifecycle rest.                                       *)
(***************************************************************************)
EXTENDS RunLifecycle, TLAPS

-----------------------------------------------------------------------------
(* What each statement may do to a row.                                    *)

\* A write that leaves the attempt and its budgets alone, does not park the row
\* for a retry and does not unmake it.
Mild(r, s) ==
  /\ s \in Row
  /\ s.try = r.try
  /\ s.infraAttempts = r.infraAttempts
  /\ s.dispatchAttempts <= r.dispatchAttempts
  /\ s.state = "up_for_retry" => r.state = "up_for_retry"
  /\ s.state = "absent" => r.state = "absent"

\* Moving a row to any state but up_for_retry is mild, and so is leaving it.
LEMMA MildState ==
  ASSUME NEW r \in Row, NEW to \in TaskState, to # "up_for_retry"
  PROVE  /\ Mild(r, r)
         /\ Mild(r, [r EXCEPT !.state = to])
         /\ Mild(r, [r EXCEPT !.state = to, !.infra = TRUE])
         /\ Mild(r, [r EXCEPT !.state = to, !.infra = FALSE])
<1>1. Mild(r, r)
  BY DEF Mild, Row
<1> to # "absent"
  BY DEF TaskState
<1>2. Mild(r, [r EXCEPT !.state = to])
  BY DEF Mild, Row
<1>3. ASSUME NEW k \in BOOLEAN
      PROVE  Mild(r, [r EXCEPT !.state = to, !.infra = k])
  <2> DEFINE s == [r EXCEPT !.state = to, !.infra = k]
  <2>1. s \in Row
    BY Zenon DEF Row
  <2>2. /\ s.try = r.try /\ s.infraAttempts = r.infraAttempts
        /\ s.dispatchAttempts = r.dispatchAttempts /\ s.state = to
    BY DEF Row
  <2> QED
    BY <2>1, <2>2 DEF Mild, Row
<1> QED
  BY Zenon, <1>1, <1>2, <1>3

\* The row before MaterializeTasks and the one it creates are rows.
LEMMA RowOK ==
  /\ AbsentRow \in Row
  /\ CreateTaskInstance \in Row
BY Zenon DEF Row, AbsentRow, CreateTaskInstance, TaskState

\* The writes of agents, reconciler, reapers and the tick's plain transitions.
LEMMA MildWrites ==
  ASSUME NEW r \in Row, NEW try, NEW pod \in Pods
  PROVE  /\ \A to \in TaskState \ {"up_for_retry"} :
              /\ Mild(r, ApplyTransition(r, to))
              /\ Mild(r, ReportTaskResult(r, try, to))
              /\ Mild(r, SettleIfActive(r, try, to))
         /\ Mild(r, RescheduleTaskInstance(r))
         /\ Mild(r, RecordTaskHeartbeat(r, try, pod))
         /\ Mild(r, RedispatchRescheduledTaskInstance(r))
         /\ Mild(r, FailDispatchExhausted(r))
         /\ Mild(r, MarkTaskDispatchFailed(r))
         /\ Mild(r, MarkTaskLost(r))
         /\ Mild(r, MarkTaskDispatchLost(r))
         /\ Mild(r, MarkRunOrphanedTaskInstance(r))
<1>1. Mild(r, RecordTaskHeartbeat(r, try, pod))
  BY DEF Mild, Row, RecordTaskHeartbeat
<1>2. {"none", "failed", "up_for_reschedule"} \subseteq TaskState
  BY DEF TaskState
<1> QED
  BY Zenon, <1>1, <1>2, MildState DEF ApplyTransition, ReportTaskResult, SettleIfActive,
     RescheduleTaskInstance, RedispatchRescheduledTaskInstance,
     FailDispatchExhausted, MarkTaskDispatchFailed, MarkTaskLost,
     MarkTaskDispatchLost, MarkRunOrphanedTaskInstance

\* A reset for a new attempt: applied, or matching no row.
NewAttempt(r, s) ==
  \/ s = r
  \/ /\ s \in Row
     /\ s.state = "none"
     /\ s.try = r.try + 1
     /\ s.infraAttempts = r.infraAttempts
     /\ s.dispatchAttempts = 0

\* What the common part of the resets does to a row.
LEMMA ResetColumnsOK ==
  ASSUME NEW r \in Row
  PROVE  /\ ResetColumns(r) \in Row
         /\ ResetColumns(r).state = "none"
         /\ ResetColumns(r).try = r.try
         /\ ResetColumns(r).infraAttempts = r.infraAttempts
         /\ ResetColumns(r).dispatchAttempts = 0
<1> DEFINE s == [r EXCEPT !.state = "none", !.infra = FALSE, !.dispatchAttempts = 0]
<1>1. s \in Row
  BY Zenon DEF Row, TaskState
<1>2. /\ s.state = "none" /\ s.try = r.try
      /\ s.infraAttempts = r.infraAttempts /\ s.dispatchAttempts = 0
  BY DEF Row
<1> QED
  BY <1>1, <1>2 DEF ResetColumns

\* A reset that bumps try_number starts a new attempt.
LEMMA NextTryOK ==
  ASSUME NEW r \in Row
  PROVE  NewAttempt(r, [ResetColumns(r) EXCEPT !.try = r.try + 1])
<1> DEFINE c == ResetColumns(r)
           s == [c EXCEPT !.try = r.try + 1]
<1>1. r.try + 1 \in Nat
  BY DEF Row
<1> HIDE DEF c
<1>2. c \in Row /\ c.state = "none" /\ c.infraAttempts = r.infraAttempts
      /\ c.dispatchAttempts = 0
  BY ResetColumnsOK DEF c
<1>3. s \in Row
  BY <1>1, <1>2 DEF Row
<1>4. /\ s.state = "none" /\ s.try = r.try + 1
      /\ s.infraAttempts = r.infraAttempts /\ s.dispatchAttempts = 0
  BY <1>2 DEF Row
<1> QED
  BY <1>3, <1>4 DEF NewAttempt, c

\* The two clears and the retry release either start a new attempt or leave the
\* row; the retry release only starts one from up_for_retry.
LEMMA NewAttempts ==
  ASSUME NEW r \in Row
  PROVE  /\ NewAttempt(r, ResetTaskInstanceForRetry(r))
         /\ r.state # "up_for_retry" => ResetTaskInstanceForRetry(r) = r
         /\ NewAttempt(r, ResetTaskInstanceToNone(r))
         /\ NewAttempt(r, ResetFailedTaskInstance(r))
BY NextTryOK DEF ResetTaskInstanceForRetry, ResetTaskInstanceToNone,
   ResetFailedTaskInstance, NewAttempt

\* An infra re-place keeps the attempt and spends one re-placement, or matches
\* no row.
LEMMA InfraReplaceOK ==
  ASSUME NEW r \in Row
  PROVE  LET s == ResetTaskInstanceInfraReplace(r) IN
         \/ s = r
         \/ /\ s \in Row
            /\ s.state = "none"
            /\ s.try = r.try
            /\ s.infraAttempts = r.infraAttempts + 1
            /\ s.dispatchAttempts = 0
<1> DEFINE c == ResetColumns(r)
           s == [c EXCEPT !.infraAttempts = r.infraAttempts + 1]
<1>1. r.infraAttempts + 1 \in Nat
  BY DEF Row
<1> HIDE DEF c
<1>2. c \in Row /\ c.state = "none" /\ c.try = r.try /\ c.dispatchAttempts = 0
  BY ResetColumnsOK DEF c
<1>3. s \in Row
  BY <1>1, <1>2 DEF Row
<1>4. /\ s.state = "none" /\ s.try = r.try
      /\ s.infraAttempts = r.infraAttempts + 1 /\ s.dispatchAttempts = 0
  BY <1>2 DEF Row
<1> QED
  BY <1>3, <1>4 DEF ResetTaskInstanceInfraReplace, c

\* A recorded dispatch failure adds at most one to dispatch_attempts.
LEMMA DispatchFailureOK ==
  ASSUME NEW r \in Row
  PROVE  LET s == RecordDispatchFailure(r) IN
         /\ s \in Row
         /\ s.try = r.try
         /\ s.state = r.state
         /\ s.infraAttempts = r.infraAttempts
         /\ s.dispatchAttempts <= r.dispatchAttempts + 1
BY DEF RecordDispatchFailure, Row

-----------------------------------------------------------------------------
(* What a plan may contain.                                                *)

\* What a trigger rule condemns a task to.
Doomed == {"skipped", "upstream_failed"}

\* A plan moves a task to up_for_retry only within its retry budget, and
\* releases an infra failure only within the re-place budget.
LEMMA PlanWithinBudget ==
  ASSUME NEW snap \in [Tasks -> Row], NEW ready \in SUBSET Tasks
  PROVE  /\ PlanRun(snap, ready) \in [Tasks -> PlanTarget]
         /\ \A t \in Tasks :
              /\ PlanRun(snap, ready)[t] = "up_for_retry" => snap[t].try < MaxTries[t]
              /\ PlanRun(snap, ready)[t] = "none" /\ InfraFailed(snap[t])
                   => snap[t].infraAttempts < infraMaxAttempts
<1> DEFINE plan == PlanRun(snap, ready)
<1>1. ASSUME NEW t \in Tasks
      PROVE  decideStart(t, effective(snap, ready))
               \in {"scheduled", "skipped", "upstream_failed", Keep}
  BY DEF decideStart
<1>2. ASSUME NEW t \in Tasks
      PROVE  planRetryTransition(t, snap[t], ready) \in {"up_for_retry", "none", Keep}
  BY DEF planRetryTransition
<1>3. plan = [t \in Tasks |-> plan[t]]
  BY DEF PlanRun
<1>4. ASSUME NEW t \in Tasks
      PROVE  /\ OnRetryRail(snap[t]) => plan[t] = planRetryTransition(t, snap[t], ready)
             /\ ~OnRetryRail(snap[t]) =>
                  plan[t] \in {"scheduled", "skipped", "upstream_failed", "queued", Keep}
  BY <1>1 DEF PlanRun, OnRetryRail, Parked
<1> HIDE DEF plan
<1>5. ASSUME NEW t \in Tasks
      PROVE  plan[t] \in PlanTarget
  BY <1>2, <1>4 DEF PlanTarget
<1>6. ASSUME NEW t \in Tasks, plan[t] = "up_for_retry"
      PROVE  snap[t].try < MaxTries[t]
  BY <1>4, <1>6 DEF planRetryTransition, Recoverable, retriable, Keep, InfraFailed
<1>7. ASSUME NEW t \in Tasks, plan[t] = "none", InfraFailed(snap[t])
      PROVE  snap[t].infraAttempts < infraMaxAttempts
  BY <1>4, <1>7 DEF planRetryTransition, Recoverable, infraReplaceable, Keep, InfraFailed,
     OnRetryRail
<1> QED
  BY <1>3, <1>5, <1>6, <1>7 DEF plan

-----------------------------------------------------------------------------
(* Steps that leave every budget alone.                                    *)

\* The tick ends, or drops entries of its plan.
TickShrinks ==
  \/ tick' = IdleTick
  \/ /\ tick'.snap = tick.snap
     /\ \A t \in Tasks : tick'.todo[t] \in {tick.todo[t], Keep}
     /\ tick'.pc \in {tick.pc, "plan", "launch"}

MildStep ==
  /\ \A t \in Tasks : Mild(ti[t], ti'[t])
  /\ clears' = clears
  /\ TickShrinks

\* The fields of a tick that holds nothing.
LEMMA IdleTickOK ==
  /\ IdleTick.pc = "idle"
  /\ IdleTick.task = NoTask
  /\ IdleTick.snap = [t \in Tasks |-> AbsentRow]
  /\ IdleTick.todo = [t \in Tasks |-> Keep]
  /\ IdleTick.snap \in [Tasks -> Row]
  /\ IdleTick.todo \in [Tasks -> PlanTarget]
BY RowOK DEF IdleTick, PlanTarget

\* A tick that holds nothing is a tick.
LEMMA IdleTickType == IdleTick \in TickRecord
BY RowOK DEF IdleTick, PlanTarget, TickRecord

\* A step of another actor leaves the tick and its plan alone.
LEMMA SameTick == ASSUME UNCHANGED tick PROVE TickShrinks
BY DEF TickShrinks

\* Dropping one entry of the plan.
LEMMA DonePlannedOK ==
  ASSUME TypeOK, NEW t \in Tasks \cup {NoTask}, DonePlanned(t)
  PROVE  TickShrinks /\ tick' \in TickRecord
<1>1. tick \in [pc: {"idle", "materialize", "start", "plan", "launch"},
                snap: [Tasks -> Row], todo: [Tasks -> PlanTarget],
                task: Tasks \cup {NoTask}]
  BY DEF TypeOK, TickRecord
<1>2. tick'.pc = "plan" /\ tick'.snap = tick.snap /\ tick'.task = NoTask
      /\ tick'.todo = [tick.todo EXCEPT ![t] = Keep]
  BY <1>1 DEF DonePlanned
<1>3. tick' = [pc |-> tick'.pc, snap |-> tick'.snap, todo |-> tick'.todo,
               task |-> tick'.task]
  BY Zenon, <1>1 DEF DonePlanned
<1>4. tick'.todo \in [Tasks -> PlanTarget]
      /\ \A u \in Tasks : tick'.todo[u] \in {tick.todo[u], Keep}
  BY Zenon, <1>1, <1>2 DEF PlanTarget
<1> QED
  BY <1>1, <1>2, <1>3, <1>4 DEF TickShrinks, TickRecord

\* One row written mildly.
LEMMA OneMildRow ==
  ASSUME ti \in [Tasks -> Row], NEW t, NEW r,
         t \in Tasks => Mild(ti[t], r),
         ti' = [ti EXCEPT ![t] = r]
  PROVE  /\ ti' \in [Tasks -> Row]
         /\ \A u \in Tasks : Mild(ti[u], ti'[u])
<1>1. ASSUME NEW u \in Tasks PROVE ti'[u] = (IF u = t THEN r ELSE ti[u])
  OBVIOUS
<1>2. ASSUME NEW u \in Tasks PROVE Mild(ti[u], ti[u])
  BY DEF Mild, Row
<1>3. ASSUME NEW u \in Tasks PROVE Mild(ti[u], ti'[u])
  BY <1>1, <1>2
<1> QED
  BY Zenon, <1>3 DEF Mild

\* A step that writes no row.
LEMMA NoRow ==
  ASSUME ti \in [Tasks -> Row], UNCHANGED ti
  PROVE  \A u \in Tasks : Mild(ti[u], ti'[u])
BY DEF Mild, Row

\* The pods of a step that sets the phase, the record or the deletion mark.
LEMMA PodPhaseOK ==
  ASSUME pods \in [Pods -> PodRecord], NEW p \in Pods,
         NEW st \in LiveSt \cup {"unused", "exited", "gone"}
  PROVE  [pods EXCEPT ![p].st = st] \in [Pods -> PodRecord]
<1>1. [pods[p] EXCEPT !.st = st] \in PodRecord
  BY DEF PodRecord
<1> QED
  BY <1>1

\* The pods of a step that sets the phase and the outcome record.
LEMMA PodOutcomeOK ==
  ASSUME pods \in [Pods -> PodRecord], NEW p \in Pods,
         NEW st \in LiveSt \cup {"unused", "exited", "gone"},
         NEW out \in {"none", "success", "failed", "reschedule"}
  PROVE  [pods EXCEPT ![p].st = st, ![p].out = out] \in [Pods -> PodRecord]
<1>1. [[pods[p] EXCEPT !.st = st] EXCEPT !.out = out] \in PodRecord
  BY Zenon DEF PodRecord
<1> QED
  BY <1>1

\* A pod given a deletion timestamp.
LEMMA PodDeleteOK ==
  ASSUME pods \in [Pods -> PodRecord], NEW p \in Pods
  PROVE  [pods[p] EXCEPT !.del = TRUE] \in PodRecord
BY Zenon DEF PodRecord

\* A created pod is the pod of the current attempt.
LEMMA CreatePodOK ==
  ASSUME TypeOK, NEW t \in Tasks, CreatePod(t)
  PROVE  pods' \in [Pods -> PodRecord]
<1>1. ti[t].try \in Nat
  BY DEF TypeOK, Row
<1>2. [task |-> t, try |-> ti[t].try, st |-> "pending", out |-> "none", del |-> FALSE]
        \in PodRecord
  BY <1>1 DEF PodRecord, LiveSt
<1> QED
  BY <1>2 DEF CreatePod, TypeOK

\* A step keeps the count of injected faults within its bound.
LEMMA FaultOK ==
  ASSUME TypeOK, Fault \/ NoFault
  PROVE  faults' \in 0..MaxFaults
BY LifecycleAssumption DEF TypeOK, Fault, NoFault

-----------------------------------------------------------------------------
(* Every action, seen as a mild step or as one of the six that are not.    *)

\* ActiveRuns and PlanRun keep the types.
LEMMA TickSnapshotType ==
  ASSUME TypeOK, NEW ready \in SUBSET Tasks, TickSnapshot(ready)
  PROVE  TypeOK'
<1>1. [IdleTick EXCEPT !.pc = "materialize"] \in TickRecord
  BY RowOK DEF IdleTick, TickRecord, PlanTarget
<1>2. PlanRun(ti, ready) \in [Tasks -> PlanTarget]
  BY PlanWithinBudget DEF TypeOK
<1>3. [pc |-> "plan", snap |-> ti, todo |-> PlanRun(ti, ready), task |-> NoTask]
        \in TickRecord
  BY <1>2 DEF TickRecord, TypeOK
<1>4. tick' \in TickRecord
  BY <1>1, <1>3 DEF TickSnapshot
<1> QED
  BY <1>4 DEF TypeOK, TickSnapshot, human

\* MaterializeTasks keeps the types.
LEMMA MaterializeType ==
  ASSUME TypeOK, MaterializeTasks
  PROVE  TypeOK'
<1>1. [tick EXCEPT !.pc = "start"] \in TickRecord
  BY DEF TypeOK, TickRecord
<1>2. ti' \in [Tasks -> Row]
  BY RowOK DEF MaterializeTasks, TypeOK
<1> QED
  BY <1>1, <1>2 DEF TypeOK, MaterializeTasks, human

\* The mild steps of the tick and of the dispatch workers.
LEMMA SchedulerMild ==
  ASSUME TypeOK,
         \/ StartRun \/ RecordQueued \/ Finalize \/ TickAbort
         \/ \E t \in Tasks : Dispatch(t) \/ DispatchBackpressure(t) \/ WorkerDispatch(t)
  PROVE  TypeOK' /\ MildStep
<1> USE DEF MildStep
<1>1. CASE StartRun
  BY <1>1, IdleTickType, NoRow DEF StartRun, TypeOK, human, DagRunState, TickShrinks
<1>2. CASE RecordQueued
  <2>1. tick.task \in Tasks \cup {NoTask}
    BY DEF TypeOK, TickRecord
  <2>2. TickShrinks /\ tick' \in TickRecord
    BY <1>2, <2>1, DonePlannedOK DEF RecordQueued
  <2>3. tick.task \in Tasks => Mild(ti[tick.task], ApplyTransition(ti[tick.task], "queued"))
    BY Zenon, MildState DEF TypeOK, ApplyTransition, TaskState
  <2>4. ti' \in [Tasks -> Row] /\ \A u \in Tasks : Mild(ti[u], ti'[u])
    BY Zenon, <1>2, <2>3, OneMildRow DEF RecordQueued, TypeOK
  <2> QED
    BY Zenon, <1>2, <2>2, <2>4 DEF RecordQueued, TypeOK, human
<1>3. CASE Finalize
  BY Zenon, <1>3, IdleTickType, NoRow
     DEF Finalize, TypeOK, human, DagRunState, TickShrinks, FinalizeRun, Keep
<1>4. CASE TickAbort
  BY Zenon, <1>4, IdleTickType, NoRow, FaultOK DEF TickAbort, TypeOK, human, TickShrinks
<1>5. ASSUME NEW t \in Tasks, Dispatch(t)
      PROVE  TypeOK' /\ MildStep
  <2>1. tick' \in TickRecord /\ TickShrinks
    BY Zenon, <1>5 DEF Dispatch, TypeOK, TickRecord, TickShrinks
  <2>2. pods' \in [Pods -> PodRecord]
    BY Zenon, <1>5, CreatePodOK DEF Dispatch, TypeOK
  <2>3. queue' \in [Tasks -> Nat]
    <3>1. queue' = queue \/ queue' = [queue EXCEPT ![t] = queue[t] + 1]
      BY Zenon, <1>5 DEF Dispatch
    <3>2. queue \in [Tasks -> Nat] /\ queue[t] + 1 \in Nat
      BY DEF TypeOK
    <3> QED
      BY <3>1, <3>2
  <2> QED
    BY Zenon, <1>5, <2>1, <2>2, <2>3, NoRow DEF Dispatch, TypeOK, human
<1>6. ASSUME NEW t \in Tasks, DispatchBackpressure(t)
      PROVE  TypeOK' /\ MildStep
  <2>1. tick' \in TickRecord /\ TickShrinks
    BY <1>6, DonePlannedOK DEF DispatchBackpressure
  <2>2. faults' \in 0..MaxFaults
    BY <1>6, FaultOK DEF DispatchBackpressure
  <2> QED
    BY Zenon, <1>6, <2>1, <2>2, NoRow DEF DispatchBackpressure, TypeOK, human
<1>7. ASSUME NEW t \in Tasks, WorkerDispatch(t)
      PROVE  TypeOK' /\ MildStep
  <2>1. Mild(ti[t], MarkTaskDispatchFailed(ti[t]))
    BY Zenon, MildState DEF TypeOK, MarkTaskDispatchFailed, TaskState
  <2>2. ti' \in [Tasks -> Row] /\ \A u \in Tasks : Mild(ti[u], ti'[u])
    BY Zenon, <1>7, <2>1, OneMildRow, NoRow DEF WorkerDispatch, TypeOK
  <2>3. pods' \in [Pods -> PodRecord]
    BY Zenon, <1>7, CreatePodOK DEF WorkerDispatch, TypeOK
  <2>4. faults' \in 0..MaxFaults
    BY <1>7, FaultOK DEF WorkerDispatch
  <2>5. queue' \in [Tasks -> Nat]
    <3>1. queue \in [Tasks -> Nat] /\ queue[t] > 0
          /\ queue' = [queue EXCEPT ![t] = queue[t] - 1]
      BY Zenon, <1>7 DEF WorkerDispatch, TypeOK
    <3>2. queue[t] - 1 \in Nat
      BY <3>1
    <3> QED
      BY <3>1, <3>2
  <2> QED
    BY Zenon, <1>7, <2>2, <2>3, <2>4, <2>5, SameTick DEF WorkerDispatch, TypeOK, human
<1> QED
  BY Zenon, <1>1, <1>2, <1>3, <1>4, <1>5, <1>6, <1>7

\* The agents and their pods.
LEMMA PodMild ==
  ASSUME TypeOK, PodStep
  PROVE  TypeOK' /\ MildStep
<1> USE DEF MildStep
<1>1. PICK p \in Pods :
        \/ ReportRunning(p) \/ Heartbeat(p) \/ ReportOutcome(p)
        \/ \E out \in {"success", "failed", "reschedule"} : TaskEnds(p, out)
        \/ PodDies(p) \/ PodVanishes(p) \/ PodStops(p) \/ PodRemoved(p)
  BY DEF PodStep
<1> DEFINE t == pods[p].task
           r == ti[t]
<1>2. \A st \in {"running", "reporting", "exited", "gone"} :
        SetPod(p, st) => pods' \in [Pods -> PodRecord]
  <2>1. pods \in [Pods -> PodRecord]
    BY DEF TypeOK
  <2>2. \A st \in {"running", "reporting", "exited", "gone"} :
          st \in LiveSt \cup {"unused", "exited", "gone"}
    BY DEF LiveSt
  <2> QED
    BY <2>1, <2>2, PodPhaseOK DEF SetPod
<1>3. t \in Tasks =>
        /\ \A to \in {"running", "success", "failed"} :
             Mild(r, ReportTaskResult(r, pods[p].try, to))
        /\ Mild(r, RecordTaskHeartbeat(r, pods[p].try, p))
        /\ Mild(r, ReportState(r, pods[p]))
  <2> HAVE t \in Tasks
  <2>1. r \in Row
    BY DEF TypeOK
  <2>2. \A to \in {"none", "running", "success", "failed"} :
          to \in TaskState \ {"up_for_retry"}
    BY DEF TaskState
  <2>3. pods[p].out \in {"none", "success", "failed", "reschedule"}
    BY DEF TypeOK, PodRecord
  <2> HIDE DEF t, r
  <2> QED
    BY Zenon, <2>1, <2>2, <2>3, MildWrites DEF ReportState
<1>4. CASE ReportRunning(p)
  <2>1. ti' \in [Tasks -> Row] /\ \A u \in Tasks : Mild(ti[u], ti'[u])
    BY Zenon, <1>3, <1>4, OneMildRow DEF ReportRunning, TypeOK
  <2>2. pods' \in [Pods -> PodRecord] /\ faults' \in 0..MaxFaults
    BY Zenon, <1>2, <1>4, FaultOK DEF ReportRunning, Acked, TypeOK
  <2> QED
    BY Zenon, <1>4, <2>1, <2>2, SameTick DEF ReportRunning, TypeOK, human
<1>5. CASE Heartbeat(p)
  <2>1. ti' \in [Tasks -> Row] /\ \A u \in Tasks : Mild(ti[u], ti'[u])
    BY Zenon, <1>3, <1>5, OneMildRow DEF Heartbeat, TypeOK
  <2>2. pods' \in [Pods -> PodRecord]
    BY Zenon, <1>5, PodOutcomeOK DEF Heartbeat, TypeOK, LiveSt
  <2> QED
    BY Zenon, <1>5, <2>1, <2>2, SameTick DEF Heartbeat, TypeOK, human
<1>6. CASE ReportOutcome(p)
  <2>1. ti' \in [Tasks -> Row] /\ \A u \in Tasks : Mild(ti[u], ti'[u])
    BY Zenon, <1>3, <1>6, OneMildRow DEF ReportOutcome, TypeOK
  <2>2. pods' \in [Pods -> PodRecord] /\ faults' \in 0..MaxFaults
    BY <1>2, <1>6, FaultOK DEF ReportOutcome, Acked, TypeOK
  <2> QED
    BY Zenon, <1>6, <2>1, <2>2, SameTick DEF ReportOutcome, TypeOK, human
<1>7. ASSUME NEW out \in {"success", "failed", "reschedule"}, TaskEnds(p, out)
      PROVE  TypeOK' /\ MildStep
  <2>1. pods' \in [Pods -> PodRecord]
    BY Zenon, <1>7, PodOutcomeOK DEF TaskEnds, TypeOK, LiveSt
  <2> QED
    BY Zenon, <1>7, <2>1, NoRow, SameTick DEF TaskEnds, TypeOK, human
<1>8. CASE PodDies(p)
  BY Zenon, <1>2, <1>8, FaultOK, NoRow, SameTick DEF PodDies, TypeOK, human
<1>9. CASE PodVanishes(p)
  BY Zenon, <1>2, <1>9, FaultOK, NoRow, SameTick DEF PodVanishes, TypeOK, human
<1>10. CASE PodStops(p)
  <2>1. (IF pods[p].st = "running" THEN "failed" ELSE pods[p].out)
          \in {"none", "success", "failed", "reschedule"}
    BY DEF TypeOK, PodRecord
  <2>2. pods' \in [Pods -> PodRecord]
    BY Zenon, <1>10, <2>1, PodOutcomeOK DEF PodStops, TypeOK
  <2> QED
    BY Zenon, <1>10, <2>2, NoRow, SameTick DEF PodStops, TypeOK, human
<1>11. CASE PodRemoved(p)
  BY <1>2, <1>11, NoRow, SameTick DEF PodRemoved, TypeOK, human
<1> QED
  BY Zenon, <1>1, <1>4, <1>5, <1>6, <1>7, <1>8, <1>9, <1>10, <1>11

\* The reconciler and the reapers.
LEMMA MaintenanceMild ==
  ASSUME TypeOK, MaintenanceStep
  PROVE  TypeOK' /\ MildStep
<1> USE DEF MildStep
<1>1. ASSUME NEW p \in Pods, Reconcile(p) \/ ReconcileStuck(p)
      PROVE  TypeOK' /\ MildStep
  <2> DEFINE t == pods[p].task
  <2>1. classifyPod(pods[p]) \in TaskState \ {"up_for_retry"}
        /\ "failed" \in TaskState \ {"up_for_retry"}
    BY DEF classifyPod, TaskState
  <2>2. t \in Tasks => ti[t] \in Row
    BY DEF TypeOK
  <2>3. t \in Tasks => /\ Mild(ti[t], SettleIfActive(ti[t], pods[p].try, classifyPod(pods[p])))
                       /\ Mild(ti[t], SettleIfActive(ti[t], pods[p].try, "failed"))
    BY Zenon, <2>1, <2>2, MildWrites
  <2>4. ti' \in [Tasks -> Row] /\ \A u \in Tasks : Mild(ti[u], ti'[u])
    BY Zenon, <1>1, <2>3, OneMildRow DEF Reconcile, ReconcileStuck, TypeOK
  <2>5. [pods EXCEPT ![p].st = "gone"] \in [Pods -> PodRecord]
        /\ [pods EXCEPT ![p].del = TRUE] \in [Pods -> PodRecord]
    BY Zenon, PodPhaseOK, PodDeleteOK DEF TypeOK
  <2>6. pods' \in [Pods -> PodRecord]
    BY Zenon, <1>1, <2>5 DEF Reconcile, ReconcileStuck, SetPod, TypeOK
  <2>7. faults' \in 0..MaxFaults
    BY Zenon, <1>1, FaultOK DEF Reconcile, ReconcileStuck
  <2> QED
    BY Zenon, <1>1, <2>4, <2>6, <2>7, SameTick DEF Reconcile, ReconcileStuck, TypeOK, human
<1>2. ASSUME NEW t \in Tasks, ListAgentLost(t) \/ ListPodLost(t) \/ ListDispatchLost(t)
      PROVE  TypeOK' /\ MildStep
  <2>1. PICK kind \in {"agent_lost", "pod_lost", "dispatch_lost"} : ListCandidate(kind, t)
    BY <1>2 DEF ListAgentLost, ListPodLost, ListDispatchLost
  <2>2. ti[t].try \in Nat
    BY DEF TypeOK, Row
  <2>3. cand' \in CandRecord
    BY <2>1, <2>2 DEF ListCandidate, CandRecord
  <2> QED
    BY Zenon, <2>1, <2>3, NoRow, SameTick DEF ListCandidate, TypeOK, human
<1>3. NoCand \in CandRecord
  BY DEF NoCand, CandRecord
<1>4. \A pc \in {"mark", "teardown"} : [cand EXCEPT !.pc = pc] \in CandRecord
  BY DEF TypeOK, CandRecord
<1>5. CASE LookAtPods
  <2>1. cand' \in CandRecord
    BY <1>3, <1>4, <1>5 DEF LookAtPods
  <2> QED
    BY <1>5, <2>1, NoRow, SameTick DEF LookAtPods, TypeOK, human
<1>6. CASE MarkCandidate
  <2>1. cand' \in CandRecord
    BY <1>3, <1>4, <1>6 DEF MarkCandidate
  <2> DEFINE r == ti[cand.task]
  <2>2. cand.task \in Tasks => Mild(r, MarkTaskDispatchLost(r)) /\ Mild(r, MarkTaskLost(r))
    BY Zenon, MildState DEF TypeOK, MarkTaskDispatchLost, MarkTaskLost, TaskState
  <2>3. ti' \in [Tasks -> Row] /\ \A u \in Tasks : Mild(ti[u], ti'[u])
    BY Zenon, <1>6, <2>2, OneMildRow DEF MarkCandidate, TypeOK
  <2> QED
    BY Zenon, <1>6, <2>1, <2>3, SameTick DEF MarkCandidate, TypeOK, human
<1>7. CASE ListOrphan
  <2>1. cand' \in CandRecord
    BY Zenon, <1>7 DEF ListOrphan, NoCand, CandRecord
  <2> QED
    BY <1>7, <2>1, NoRow, SameTick DEF ListOrphan, TypeOK, human
<1>8. CASE ReapRun
  <2>1. cand' \in CandRecord
    BY <1>4, <1>8 DEF ReapRun
  <2>2. \A u \in Tasks : Mild(ti[u], MarkRunOrphanedTaskInstance(ti[u]))
    BY Zenon, MildState DEF TypeOK, MarkRunOrphanedTaskInstance, TaskState
  <2>3. \A u \in Tasks : Mild(ti[u], ti'[u])
    BY <1>8, <2>2, NoRow DEF ReapRun, TypeOK
  <2>4. ti' \in [Tasks -> Row]
    BY <1>8, <2>2 DEF ReapRun, TypeOK, Mild
  <2>5. run' \in DagRunState
    BY <1>8 DEF ReapRun, TypeOK, DagRunState
  <2> QED
    BY <1>8, <2>1, <2>3, <2>4, <2>5, SameTick DEF ReapRun, TypeOK, human
<1>9. CASE DeletePods
  <2>1. pods' \in [Pods -> PodRecord]
    BY <1>9, PodDeleteOK DEF DeletePods, TypeOK
  <2>2. faults' \in 0..MaxFaults
    BY <1>9, FaultOK DEF DeletePods
  <2> QED
    BY <1>3, <1>9, <2>1, <2>2, NoRow, SameTick DEF DeletePods, TypeOK, human
<1> QED
  BY Zenon, <1>1, <1>2, <1>5, <1>6, <1>7, <1>8, <1>9 DEF MaintenanceStep

\* The operator's requests, clears apart, and a crash of the server.
LEMMA OperatorMild ==
  ASSUME TypeOK,
         \/ \E S \in SUBSET Tasks, onlyFailed, reopen \in BOOLEAN :
              ClearRequest(S, onlyFailed, reopen)
         \/ ClearReopen \/ ClearAbort
         \/ \E t \in Tasks, to \in {"success", "failed", "skipped"} : MarkTask(t, to)
         \/ \E to \in DagRunState : MarkRun(to)
         \/ ServerCrash
  PROVE  TypeOK' /\ MildStep
<1> USE DEF MildStep
<1>1. NoOp \in OpRecord
  BY DEF NoOp, OpRecord
<1>2. ops < MaxOps => ops + 1 \in 0..MaxOps
  BY LifecycleAssumption DEF TypeOK
<1>3. ASSUME NEW S \in SUBSET Tasks, NEW onlyFailed \in BOOLEAN, NEW reopen \in BOOLEAN,
             ClearRequest(S, onlyFailed, reopen)
      PROVE  TypeOK' /\ MildStep
  <2>1. (S = {}) \in BOOLEAN
    OBVIOUS
  <2>2. op' \in OpRecord
    BY Zenon, <1>3, <2>1 DEF ClearRequest, OpRecord
  <2> QED
    BY Zenon, <1>2, <1>3, <2>2, NoRow, SameTick DEF ClearRequest, TypeOK
<1>4. CASE ClearReopen
  BY Zenon, <1>1, <1>4, NoRow, SameTick DEF ClearReopen, TypeOK, DagRunState
<1>5. CASE ClearAbort
  BY Zenon, <1>1, <1>5, NoRow, SameTick, FaultOK DEF ClearAbort, TypeOK
<1>6. ASSUME NEW t \in Tasks, NEW to \in {"success", "failed", "skipped"}, MarkTask(t, to)
      PROVE  TypeOK' /\ MildStep
  <2>1. Mild(ti[t], ApplyTransition(ti[t], to))
    BY Zenon, MildState DEF TypeOK, ApplyTransition, TaskState
  <2>2. ti' \in [Tasks -> Row] /\ \A u \in Tasks : Mild(ti[u], ti'[u])
    BY Zenon, <1>6, <2>1, OneMildRow DEF MarkTask, TypeOK
  <2> QED
    BY Zenon, <1>2, <1>6, <2>2, SameTick DEF MarkTask, TypeOK
<1>7. ASSUME NEW to \in DagRunState, MarkRun(to)
      PROVE  TypeOK' /\ MildStep
  BY Zenon, <1>2, <1>7, NoRow, SameTick DEF MarkRun, TypeOK
<1>8. CASE ServerCrash
  <2>1. cand' \in CandRecord
    BY <1>8 DEF ServerCrash, NoCand, CandRecord
  <2>2. queue' \in [Tasks -> Nat]
    BY <1>8 DEF ServerCrash
  <2> QED
    BY Zenon, <1>1, <1>8, <2>1, <2>2, IdleTickType, NoRow, FaultOK
       DEF ServerCrash, TypeOK, TickShrinks
<1> QED
  BY Zenon, <1>3, <1>4, <1>5, <1>6, <1>7, <1>8

-----------------------------------------------------------------------------
(* What an agent, the reconciler and the reapers may do to rows and pods.  *)

\* The pods of t: of an attempt it has had, with a record once they report, and
\* none that says reschedule.
PodsFit(t) ==
  \A p \in Pods : pods[p].task = t =>
    /\ pods[p].try <= ti[t].try
    /\ pods[p].out # "reschedule"
    /\ pods[p].st = "reporting" => pods[p].out # "none"

\* A pod keeps its attempt, does not come back to life, and gets a record when it
\* reports; only a sensor's says reschedule.
PodKept(p) ==
  /\ pods'[p].task = pods[p].task
  /\ pods'[p].try = pods[p].try
  /\ pods'[p].st \in LiveSt => pods[p].st \in LiveSt
  /\ pods'[p].st = "reporting" => pods[p].st = "reporting" \/ pods'[p].out # "none"
  /\ pods[p].st = "reporting" => pods'[p].out = pods[p].out
  /\ pods'[p].out = "reschedule" => pods[p].out = "reschedule" \/ pods[p].task \in Sensors

\* The report of a pod of the attempt, or its outcome settled by the reconciler:
\* once the row has ended the pod is not live.
Reported(t) ==
  \E p \in Pods :
    /\ pods[p].task = t /\ pods[p].try = ti[t].try
    /\ ti[t].state \in {"none", "scheduled", "queued", "running"}
    /\ ti'[t].infra = ti[t].infra
    /\ \/ ti'[t].state = "running" /\ pods[p].st \in LiveSt
       \/ ti'[t].state \in {"success", "failed"} /\ pods'[p].st \notin LiveSt

RowMoves(t) ==
  /\ ti'[t].try = ti[t].try
  /\ ti'[t].infraAttempts = ti[t].infraAttempts
  /\ \/ ti'[t].state = ti[t].state /\ ti'[t].infra = ti[t].infra
     \/ Reported(t)
     \/ /\ ti[t].state \in {"queued", "running"}
        /\ ti'[t].state = "failed" /\ ti'[t].infra
     \/ /\ ti[t].state \in ActiveStates
        /\ ti'[t].state = "failed" /\ ti'[t].infra = ti[t].infra /\ RunTerminal'

\* A run that is over stays over.
RunStays == RunTerminal => RunTerminal'

OutsideStep ==
  /\ UNCHANGED <<tick, queue>>
  /\ \A p \in Pods : PodKept(p)
  /\ \A t \in Tasks \ Sensors : RowMoves(t)
  /\ run' = run \/ run = "running"
  /\ RunStays

\* A step that leaves a row alone.
LEMMA RowStill == ASSUME NEW t, ti'[t] = ti[t] PROVE RowMoves(t)
BY DEF RowMoves

\* A step that leaves a pod alone.
LEMMA PodStill == ASSUME NEW p, pods'[p] = pods[p] PROVE PodKept(p)
BY DEF PodKept

\* A step that rewrites the row of one task.
LEMMA OneRowMoves ==
  ASSUME TypeOK, NEW t, NEW r, ti' = [ti EXCEPT ![t] = r],
         t \in Tasks \ Sensors => RowMoves(t)
  PROVE  \A u \in Tasks \ Sensors : RowMoves(u)
<1> TAKE u \in Tasks \ Sensors
<1>1. CASE u = t
  BY <1>1
<1>2. CASE u # t
  BY <1>2, RowStill DEF TypeOK
<1> QED
  BY <1>1, <1>2

\* A step that changes one pod.
LEMMA OnePodMoves ==
  ASSUME TypeOK, NEW p \in Pods, NEW pod, pods' = [pods EXCEPT ![p] = pod],
         PodKept(p)
  PROVE  \A q \in Pods : PodKept(q)
<1> TAKE q \in Pods
<1>1. CASE q = p
  BY <1>1
<1>2. CASE q # p
  BY <1>2, PodStill DEF TypeOK
<1> QED
  BY <1>1, <1>2

\* The agents and their pods, without faults.
LEMMA AgentsOutside ==
  ASSUME TypeOK, (\A t \in Tasks \ Sensors : PodsFit(t)), ~Fault, PodStep
  PROVE  OutsideStep
<1>1. PICK p \in Pods :
        \/ ReportRunning(p) \/ Heartbeat(p) \/ ReportOutcome(p)
        \/ \E out \in {"success", "failed", "reschedule"} : TaskEnds(p, out)
        \/ PodDies(p) \/ PodVanishes(p) \/ PodStops(p) \/ PodRemoved(p)
  BY DEF PodStep
<1> DEFINE t == pods[p].task
<1>2. pods[p] \in PodRecord /\ (t \in Tasks => ti[t] \in Row)
  BY DEF TypeOK
<1>3. UNCHANGED <<run, tick, queue>>
  BY Zenon, <1>1 DEF ReportRunning, Heartbeat, ReportOutcome, TaskEnds, PodDies, PodVanishes,
     PodStops, PodRemoved
<1>4. RunStays
  BY <1>3 DEF RunStays, RunTerminal
<1>5. SUFFICES (\A q \in Pods : PodKept(q)) /\ \A u \in Tasks \ Sensors : RowMoves(u)
  BY <1>3, <1>4 DEF OutsideStep
<1>6. CASE ReportRunning(p)
  <2>1. PICK st \in {"running", "exited"} : pods' = [pods EXCEPT ![p].st = st]
    BY <1>6 DEF ReportRunning, Acked, SetPod
  <2>2. pods[p].st = "pending" /\ ti' = [ti EXCEPT ![t] = ReportTaskResult(ti[t], pods[p].try, "running")]
    BY <1>6 DEF ReportRunning
  <2>3. PodKept(p)
    BY <1>2, <2>1, <2>2 DEF PodKept, PodRecord, LiveSt, TypeOK
  <2>4. ASSUME t \in Tasks
        PROVE  RowMoves(t)
    <3>1. ti'[t] = ReportTaskResult(ti[t], pods[p].try, "running")
      BY <2>2, <2>4 DEF TypeOK
    <3>2. CASE ReportApplies(ti[t], pods[p].try)
      <4>1. ti'[t] = [ti[t] EXCEPT !.state = "running"]
        BY <3>1, <3>2 DEF ReportTaskResult
      <4>2. /\ ti'[t].state = "running" /\ ti'[t].try = ti[t].try /\ ti'[t].infra = ti[t].infra
            /\ ti'[t].infraAttempts = ti[t].infraAttempts
        BY Zenon, <1>2, <2>4, <4>1 DEF Row
      <4>3. Reported(t)
        BY Zenon, <2>2, <3>2, <4>2 DEF Reported, ReportApplies, LiveSt
      <4> QED
        BY Zenon, <4>2, <4>3 DEF RowMoves
    <3>3. CASE ~ReportApplies(ti[t], pods[p].try)
      BY <3>1, <3>3, RowStill DEF ReportTaskResult
    <3> QED
      BY <3>2, <3>3
  <2> QED
    BY Zenon, <2>1, <2>2, <2>3, <2>4, OnePodMoves, OneRowMoves
<1>7. CASE Heartbeat(p)
  <2>1. ti' = [ti EXCEPT ![t] = RecordTaskHeartbeat(ti[t], pods[p].try, p)]
    BY <1>7 DEF Heartbeat
  <2>2. ASSUME t \in Tasks
        PROVE  RowMoves(t)
    BY Zenon, <1>2, <2>1, <2>2 DEF RowMoves, RecordTaskHeartbeat, TypeOK, Row
  <2>3. CASE pods' = pods
    BY Zenon, <2>1, <2>2, <2>3, OneRowMoves, PodStill
  <2>4. CASE pods' = [pods EXCEPT ![p].st = "reporting", ![p].out = "failed"]
    <3>1. PodKept(p)
      BY <1>2, <1>7, <2>4 DEF PodKept, PodRecord, LiveSt, TypeOK, Heartbeat
    <3> QED
      BY Zenon, <2>1, <2>2, <2>4, <3>1, OneRowMoves, OnePodMoves
  <2> QED
    BY Zenon, <1>7, <2>3, <2>4 DEF Heartbeat
<1>8. CASE ReportOutcome(p)
  <2>1. pods' = [pods EXCEPT ![p].st = "exited"]
    BY <1>8 DEF ReportOutcome, Acked, SetPod
  <2>2. pods[p].st = "reporting" /\ ti' = [ti EXCEPT ![t] = ReportState(ti[t], pods[p])]
    BY <1>8 DEF ReportOutcome
  <2>3. PodKept(p) /\ pods'[p].st \notin LiveSt
    BY <1>2, <2>1, <2>2 DEF PodKept, PodRecord, LiveSt, TypeOK
  <2>4. ASSUME t \in Tasks \ Sensors
        PROVE  RowMoves(t)
    <3>1. pods[p].out \in {"success", "failed"}
      BY Zenon, <1>2, <2>2, <2>4 DEF PodsFit, PodRecord
    <3>2. ti'[t] = ReportTaskResult(ti[t], pods[p].try, pods[p].out)
      BY Zenon, <2>2, <2>4, <3>1 DEF TypeOK, ReportState
    <3>3. CASE ReportApplies(ti[t], pods[p].try)
      <4>1. ti'[t] = [ti[t] EXCEPT !.state = pods[p].out]
        BY <3>2, <3>3 DEF ReportTaskResult
      <4>2. /\ ti'[t].state = pods[p].out /\ ti'[t].try = ti[t].try
            /\ ti'[t].infra = ti[t].infra /\ ti'[t].infraAttempts = ti[t].infraAttempts
        BY Zenon, <1>2, <2>4, <4>1 DEF Row
      <4>3. Reported(t)
        BY Zenon, <2>3, <3>1, <3>3, <4>2 DEF Reported, ReportApplies
      <4> QED
        BY Zenon, <4>2, <4>3 DEF RowMoves
    <3>4. CASE ~ReportApplies(ti[t], pods[p].try)
      BY <3>2, <3>4, RowStill DEF ReportTaskResult
    <3> QED
      BY <3>3, <3>4
  <2> QED
    BY Zenon, <2>1, <2>2, <2>3, <2>4, OnePodMoves, OneRowMoves
<1>9. CASE \E out \in {"success", "failed", "reschedule"} : TaskEnds(p, out)
  <2>1. PICK out \in {"success", "failed", "reschedule"} : TaskEnds(p, out)
    BY <1>9
  <2>2. PodKept(p)
    BY <1>2, <2>1 DEF PodKept, PodRecord, LiveSt, TypeOK, TaskEnds
  <2> QED
    BY Zenon, <2>1, <2>2, OnePodMoves, RowStill DEF TaskEnds
<1>10. CASE PodStops(p)
  <2>1. PodKept(p)
    BY Zenon, <1>2, <1>10 DEF PodKept, PodRecord, LiveSt, TypeOK, PodStops
  <2> QED
    BY Zenon, <1>10, <2>1, OnePodMoves, RowStill DEF PodStops
<1>11. CASE PodRemoved(p)
  <2>1. PodKept(p)
    BY <1>2, <1>11 DEF PodKept, PodRecord, LiveSt, TypeOK, PodRemoved, SetPod
  <2> QED
    BY Zenon, <1>11, <2>1, OnePodMoves, RowStill DEF PodRemoved, SetPod
<1>12. ~PodDies(p) /\ ~PodVanishes(p)
  BY DEF PodDies, PodVanishes
<1> QED
  BY <1>1, <1>6, <1>7, <1>8, <1>9, <1>10, <1>11, <1>12

\* The reconciler and the reapers, without faults.
LEMMA ReapersOutside ==
  ASSUME TypeOK, (\A t \in Tasks \ Sensors : PodsFit(t)), ~Fault, MaintenanceStep
  PROVE  OutsideStep
<1>1. ASSUME NEW p \in Pods, Reconcile(p) \/ ReconcileStuck(p)
      PROVE  OutsideStep
  <2> DEFINE t == pods[p].task
  <2>1. Reconcile(p)
    BY <1>1 DEF ReconcileStuck
  <2>2. pods[p] \in PodRecord /\ (t \in Tasks => ti[t] \in Row)
    BY DEF TypeOK
  <2>3. /\ pods[p].st = "exited" /\ UNCHANGED <<run, tick, queue>>
        /\ ti' = [ti EXCEPT ![t] = SettleIfActive(ti[t], pods[p].try, classifyPod(pods[p]))]
    BY <2>1 DEF Reconcile
  <2>4. (\A q \in Pods : PodKept(q)) /\ pods'[p].st \notin LiveSt
    <3>1. CASE UNCHANGED pods
      BY <2>3, <3>1, PodStill DEF LiveSt
    <3>2. CASE SetPod(p, "gone")
      <4>1. PodKept(p) /\ pods'[p].st \notin LiveSt
        BY <2>2, <2>3, <3>2 DEF PodKept, PodRecord, LiveSt, TypeOK, SetPod
      <4> QED
        BY Zenon, <3>2, <4>1, OnePodMoves DEF SetPod
    <3> QED
      BY Zenon, <2>1, <3>1, <3>2 DEF Reconcile
  <2>5. ASSUME t \in Tasks \ Sensors
        PROVE  RowMoves(t)
    <3>1. classifyPod(pods[p]) \in {"success", "failed"}
      BY <2>5 DEF PodsFit, classifyPod
    <3>2. ti'[t] = SettleIfActive(ti[t], pods[p].try, classifyPod(pods[p]))
      BY <2>3, <2>5 DEF TypeOK
    <3> HIDE DEF t
    <3>3. CASE pods[p].try = ti[t].try /\ ti[t].state \in ActiveStates
      <4>1. ti'[t] = [ti[t] EXCEPT !.state = classifyPod(pods[p])]
        BY <3>2, <3>3 DEF SettleIfActive
      <4>2. /\ ti'[t].state = classifyPod(pods[p]) /\ ti'[t].try = ti[t].try
            /\ ti'[t].infra = ti[t].infra /\ ti'[t].infraAttempts = ti[t].infraAttempts
        BY <2>2, <2>5, <4>1 DEF Row
      <4>3. Reported(t)
        BY Zenon, <2>4, <3>1, <3>3, <4>2 DEF Reported, ActiveStates, t
      <4> QED
        BY <4>2, <4>3 DEF RowMoves
    <3>4. CASE ~(pods[p].try = ti[t].try /\ ti[t].state \in ActiveStates)
      BY <3>2, <3>4, RowStill DEF SettleIfActive
    <3> QED
      BY <3>3, <3>4
  <2>6. \A u \in Tasks \ Sensors : RowMoves(u)
    BY Zenon, <2>3, <2>5, OneRowMoves
  <2> QED
    BY <2>3, <2>4, <2>6 DEF OutsideStep, RunStays, RunTerminal
<1>2. CASE \/ \E t \in Tasks : ListAgentLost(t) \/ ListPodLost(t) \/ ListDispatchLost(t)
           \/ LookAtPods \/ ListOrphan
  <2>1. UNCHANGED <<run, ti, tick, queue, pods>>
    BY Zenon, <1>2 DEF ListAgentLost, ListPodLost, ListDispatchLost, ListCandidate, LookAtPods,
       ListOrphan
  <2> QED
    BY <2>1, RowStill, PodStill DEF OutsideStep, RunStays, RunTerminal
<1>3. CASE MarkCandidate
  <2> DEFINE t == cand.task
  <2>1. PICK r : /\ ti' = [ti EXCEPT ![t] = r]
                 /\ r \in {MarkTaskDispatchLost(ti[t]), MarkTaskLost(ti[t])}
    BY Zenon, <1>3 DEF MarkCandidate
  <2>2. ASSUME t \in Tasks
        PROVE  RowMoves(t)
    <3>1. ti[t] \in Row /\ ti'[t] = r
      BY <2>1, <2>2 DEF TypeOK
    <3>2. \/ r = ti[t]
          \/ /\ ti[t].state \in {"queued", "running"}
             /\ r = [ti[t] EXCEPT !.state = "failed", !.infra = TRUE]
      BY <2>1 DEF MarkTaskDispatchLost, MarkTaskLost
    <3> HIDE DEF t
    <3>3. CASE /\ ti[t].state \in {"queued", "running"}
               /\ r = [ti[t] EXCEPT !.state = "failed", !.infra = TRUE]
      <4>1. /\ ti'[t].state = "failed" /\ ti'[t].infra = TRUE /\ ti'[t].try = ti[t].try
            /\ ti'[t].infraAttempts = ti[t].infraAttempts
        BY <3>1, <3>3 DEF Row
      <4> QED
        BY <3>3, <4>1 DEF RowMoves
    <3> QED
      BY <3>1, <3>2, <3>3, RowStill
  <2>3. UNCHANGED <<run, tick, queue, pods>>
    BY <1>3 DEF MarkCandidate
  <2>4. \A u \in Tasks \ Sensors : RowMoves(u)
    BY Zenon, <2>1, <2>2, OneRowMoves
  <2> QED
    BY <2>3, <2>4, PodStill DEF OutsideStep, RunStays, RunTerminal
<1>4. CASE ReapRun
  <2>1. ASSUME NEW t \in Tasks
        PROVE  RowMoves(t)
    <3>1. \/ ti'[t] = ti[t]
          \/ /\ ti[t].state \in ActiveStates /\ run' = "failed"
             /\ ti'[t] = [ti[t] EXCEPT !.state = "failed"]
      BY <1>4 DEF ReapRun, MarkRunOrphanedTaskInstance
    <3>2. ti[t] \in Row
      BY DEF TypeOK
    <3> QED
      BY Zenon, <3>1, <3>2, RowStill DEF RowMoves, Row, RunTerminal
  <2>2. UNCHANGED <<tick, queue, pods>> /\ RunStays /\ (run' = run \/ run = "running")
    BY <1>4 DEF ReapRun, RunStays, RunTerminal
  <2> QED
    BY <2>1, <2>2, PodStill DEF OutsideStep
<1>5. CASE DeletePods
  <2>1. UNCHANGED <<run, ti, tick, queue>>
    BY <1>5 DEF DeletePods
  <2>2. ASSUME NEW p \in Pods
        PROVE  PodKept(p)
    <3>1. pods'[p] = pods[p] \/ pods'[p] = [pods[p] EXCEPT !.del = TRUE]
      BY Zenon, <1>5 DEF DeletePods
    <3>2. pods[p] \in PodRecord
      BY DEF TypeOK
    <3> QED
      BY Zenon, <3>1, <3>2, PodStill DEF PodKept, PodRecord
  <2> QED
    BY <2>1, <2>2, RowStill DEF OutsideStep, RunStays, RunTerminal
<1> QED
  BY <1>1, <1>2, <1>3, <1>4, <1>5 DEF MaintenanceStep


\* What a row has left.  A row parked for a retry still has an attempt.
RowBudget(t, r) ==
  /\ r.try <= MaxTries[t] + clears[t]
  /\ r.state = "up_for_retry" => r.try < MaxTries[t] + clears[t]
  /\ r.infraAttempts <= infraMaxAttempts
  /\ r.dispatchAttempts < dispatchMaxAttempts

\* What the tick still means to do to the row fits into what the row has left
\* now, not only into what its snapshot had.  A tick that starts a run has no
\* plan.
PlanBudget(t, r) ==
  /\ tick.pc = "materialize" => tick.todo[t] = Keep
  /\ tick.todo[t] = "up_for_retry" => r.try < MaxTries[t] + clears[t]
  /\ tick.todo[t] = "none" /\ InfraFailed(tick.snap[t])
       => r.infraAttempts < infraMaxAttempts
  /\ tick.todo[t] = "queued" => r.dispatchAttempts <= tick.snap[t].dispatchAttempts

BudgetInv == \A t \in Tasks : RowBudget(t, ti[t]) /\ PlanBudget(t, ti[t])

\* The quantities the budgets compare are numbers.
LEMMA BudgetNumbers ==
  ASSUME TypeOK, NEW t \in Tasks
  PROVE  /\ ti[t].try \in Nat /\ ti[t].infraAttempts \in Nat
         /\ ti[t].dispatchAttempts \in Nat /\ tick.snap[t].dispatchAttempts \in Nat
         /\ clears[t] \in Nat /\ MaxTries[t] \in Nat /\ infraMaxAttempts \in Nat
         /\ dispatchMaxAttempts \in Nat /\ 0 < dispatchMaxAttempts
<1>1. /\ ti[t].try \in Nat /\ ti[t].infraAttempts \in Nat
      /\ ti[t].dispatchAttempts \in Nat /\ tick.snap[t].dispatchAttempts \in Nat
      /\ clears[t] \in Nat
  BY DEF TypeOK, Row, TickRecord
<1>2. MaxTries[t] \in Nat /\ infraMaxAttempts \in Nat
  BY PlannerAssumption
<1>3. dispatchMaxAttempts \in Nat /\ 0 < dispatchMaxAttempts
  BY LifecycleAssumption
<1> QED
  BY <1>1, <1>2, <1>3

\* A mild write keeps the budgets of its row.
LEMMA MildKeepsRowBudget ==
  ASSUME TypeOK, NEW t \in Tasks, NEW r, Mild(ti[t], r), RowBudget(t, ti[t])
  PROVE  RowBudget(t, r)
<1>1. r.dispatchAttempts < dispatchMaxAttempts
  <2>1. r.dispatchAttempts \in Nat
    BY DEF Mild, Row
  <2>2. r.dispatchAttempts <= ti[t].dispatchAttempts
    BY DEF Mild
  <2>3. ti[t].dispatchAttempts < dispatchMaxAttempts
    BY DEF RowBudget
  <2> QED
    BY <2>1, <2>2, <2>3, BudgetNumbers
<1>2. /\ r.try <= MaxTries[t] + clears[t]
      /\ r.state = "up_for_retry" => r.try < MaxTries[t] + clears[t]
      /\ r.infraAttempts <= infraMaxAttempts
  BY DEF Mild, RowBudget
<1> QED
  BY <1>1, <1>2 DEF RowBudget

\* A mild step keeps every budget.
LEMMA MildKeepsBudget ==
  ASSUME TypeOK, TypeOK', BudgetInv, MildStep
  PROVE  BudgetInv'
<1> SUFFICES ASSUME NEW t \in Tasks
             PROVE  RowBudget(t, ti[t])' /\ PlanBudget(t, ti[t])'
  BY DEF BudgetInv
<1>1. /\ RowBudget(t, ti[t]) /\ PlanBudget(t, ti[t])
      /\ Mild(ti[t], ti'[t]) /\ clears' = clears
  BY DEF BudgetInv, MildStep
<1>2. /\ ti[t].try \in Nat /\ ti[t].infraAttempts \in Nat /\ ti[t].dispatchAttempts \in Nat
      /\ ti'[t].dispatchAttempts \in Nat /\ clears[t] \in Nat
      /\ tick.snap[t].dispatchAttempts \in Nat
  BY Zenon DEF TypeOK, Row, TickRecord
<1>3. RowBudget(t, ti[t])'
  <2>1. RowBudget(t, ti'[t])
    BY <1>1, MildKeepsRowBudget
  <2> QED
    BY Zenon, <1>1, <2>1 DEF RowBudget
<1>4. CASE tick' = IdleTick
  <2>1. tick'.todo[t] = Keep
    BY <1>4, IdleTickOK
  <2> QED
    BY <1>3, <2>1 DEF PlanBudget, Keep
<1>5. CASE /\ tick'.snap = tick.snap
           /\ \A u \in Tasks : tick'.todo[u] \in {tick.todo[u], Keep}
           /\ tick'.pc \in {tick.pc, "plan", "launch"}
  <2>1. tick'.snap[t] = tick.snap[t] /\ tick'.todo[t] \in {tick.todo[t], Keep}
    BY <1>5
  <2>2. /\ ti'[t].try = ti[t].try /\ ti'[t].infraAttempts = ti[t].infraAttempts
        /\ ti'[t].dispatchAttempts <= ti[t].dispatchAttempts
    BY <1>1 DEF Mild
  <2>3. CASE tick'.todo[t] = Keep
    BY <1>3, <2>3 DEF PlanBudget, Keep
  <2>4. CASE tick'.todo[t] = tick.todo[t]
    <3>1. tick'.pc = "materialize" => tick'.todo[t] = Keep
      BY Zenon, <1>1, <1>5, <2>4 DEF PlanBudget
    <3>2. tick'.todo[t] = "queued" => ti'[t].dispatchAttempts <= tick'.snap[t].dispatchAttempts
      <4>1. SUFFICES ASSUME tick.todo[t] = "queued"
                     PROVE  ti'[t].dispatchAttempts <= tick.snap[t].dispatchAttempts
        BY <2>1, <2>4
      <4>2. ti[t].dispatchAttempts <= tick.snap[t].dispatchAttempts
        BY <1>1, <4>1 DEF PlanBudget
      <4> QED
        BY <1>2, <2>2, <4>2
    <3> QED
      BY Zenon, <1>1, <1>3, <2>1, <2>2, <2>4, <3>1, <3>2 DEF PlanBudget
  <2> QED
    BY <2>1, <2>3, <2>4
<1> QED
  BY <1>4, <1>5 DEF MildStep, TickShrinks

\* A step that rewrites the row of one planned task and drops it from the plan
\* keeps the types, and the budgets when the new row keeps its own.
LEMMA OnePlannedRow ==
  ASSUME TypeOK, NEW t \in Tasks, NEW r \in Row,
         ti' = [ti EXCEPT ![t] = r], DonePlanned(t),
         pods' \in [Pods -> PodRecord], faults' \in 0..MaxFaults,
         UNCHANGED <<run, queue, cand, human>>
  PROVE  /\ TypeOK'
         /\ BudgetInv /\ RowBudget(t, r) => BudgetInv'
<1>1. TickShrinks /\ tick' \in TickRecord
  BY DonePlannedOK
<1>2. TypeOK'
  BY <1>1 DEF TypeOK, human
<1>3. ASSUME BudgetInv, RowBudget(t, r)
      PROVE  BudgetInv'
  <2>1. /\ tick'.snap = tick.snap /\ tick'.pc = "plan"
        /\ tick'.todo = [tick.todo EXCEPT ![t] = Keep]
    BY DEF DonePlanned, TypeOK, TickRecord
  <2>2. tick.todo \in [Tasks -> PlanTarget]
    BY DEF TypeOK, TickRecord
  <2>3. tick'.todo[t] = Keep /\ ti'[t] = r
    BY <2>1, <2>2 DEF TypeOK
  <2>4. ASSUME NEW u \in Tasks, u # t
        PROVE  tick'.todo[u] = tick.todo[u] /\ ti'[u] = ti[u]
    BY <2>1, <2>2, <2>4 DEF TypeOK
  <2>5. clears' = clears
    BY DEF human
  <2>6. RowBudget(t, ti[t])' /\ PlanBudget(t, ti[t])'
    BY <1>3, <2>3, <2>5 DEF RowBudget, PlanBudget, Keep
  <2>7. ASSUME NEW u \in Tasks, u # t
        PROVE  RowBudget(u, ti[u])' /\ PlanBudget(u, ti[u])'
    BY Zenon, <1>3, <2>1, <2>4, <2>5, <2>7 DEF BudgetInv, RowBudget, PlanBudget
  <2> QED
    BY <2>6, <2>7 DEF BudgetInv
<1> QED
  BY <1>2, <1>3

\* The none rail: the release of a retry uses the attempt that parking left
\* room for, an infra re-place the re-placement that planning left room for.
LEMMA ResetTaskOK ==
  ASSUME TypeOK, NEW t \in Tasks, ResetTask(t)
  PROVE  TypeOK' /\ (BudgetInv => BudgetInv')
<1> DEFINE old == ti[t]
           new == ResetPlanned(tick.snap[t], ti[t])
<1>1. old \in Row
  BY DEF TypeOK
<1>2. /\ old.try \in Nat /\ old.infraAttempts \in Nat /\ old.dispatchAttempts \in Nat
      /\ clears[t] \in Nat
  BY DEF TypeOK, Row
<1>3. Mild(old, RedispatchRescheduledTaskInstance(old))
  BY Zenon, <1>1, MildState DEF RedispatchRescheduledTaskInstance, TaskState
<1>4. new \in Row
  BY <1>1, <1>3, NewAttempts, InfraReplaceOK DEF ResetPlanned, NewAttempt, Mild
<1>5. ASSUME BudgetInv PROVE RowBudget(t, new)
  <2>1. RowBudget(t, old) /\ PlanBudget(t, old) /\ tick.todo[t] = "none"
    BY <1>5 DEF BudgetInv, ResetTask, Planned
  <2>2. CASE tick.snap[t].state = "up_for_reschedule"
    <3>1. new = RedispatchRescheduledTaskInstance(old)
      BY <2>2 DEF ResetPlanned
    <3> QED
      BY <1>3, <2>1, <3>1, MildKeepsRowBudget
  <2>3. CASE tick.snap[t].state # "up_for_reschedule" /\ InfraFailed(tick.snap[t])
    <3>1. old.infraAttempts < infraMaxAttempts
      BY <2>1, <2>3 DEF PlanBudget
    <3>2. new = ResetTaskInstanceInfraReplace(old)
      BY <2>3 DEF ResetPlanned
    <3>3. CASE new = old
      BY <2>1, <3>3
    <3>4. CASE new # old
      <4>1. /\ new.state = "none" /\ new.try = old.try /\ new.dispatchAttempts = 0
            /\ new.infraAttempts = old.infraAttempts + 1
        BY <1>1, <3>2, <3>4, InfraReplaceOK
      <4>2. new.infraAttempts <= infraMaxAttempts
        BY <3>1, <4>1, BudgetNumbers
      <4>3. new.dispatchAttempts < dispatchMaxAttempts
        BY Zenon, <4>1, BudgetNumbers
      <4> QED
        BY Zenon, <2>1, <4>1, <4>2, <4>3 DEF RowBudget
    <3> QED
      BY <3>3, <3>4
  <2>4. CASE tick.snap[t].state # "up_for_reschedule" /\ ~InfraFailed(tick.snap[t])
    <3>1. new = ResetTaskInstanceForRetry(old)
      BY <2>4 DEF ResetPlanned
    <3>2. NewAttempt(old, new) /\ (old.state # "up_for_retry" => new = old)
      BY <1>1, <3>1, NewAttempts
    <3>3. CASE new = old
      BY <2>1, <3>3
    <3>4. CASE new # old
      <4>1. /\ new.state = "none" /\ new.try = old.try + 1 /\ new.dispatchAttempts = 0
            /\ new.infraAttempts = old.infraAttempts
        BY Zenon, <3>2, <3>4 DEF NewAttempt
      <4>2. old.try < MaxTries[t] + clears[t]
        BY <2>1, <3>2, <3>4 DEF RowBudget
      <4>3. new.try <= MaxTries[t] + clears[t] /\ new.dispatchAttempts < dispatchMaxAttempts
        BY <4>1, <4>2, BudgetNumbers
      <4> QED
        BY Zenon, <2>1, <4>1, <4>3 DEF RowBudget
    <3> QED
      BY <3>3, <3>4
  <2> QED
    BY <2>2, <2>3, <2>4
<1>6. /\ ti' = [ti EXCEPT ![t] = new] /\ DonePlanned(t)
      /\ pods' \in [Pods -> PodRecord] /\ faults' \in 0..MaxFaults
      /\ UNCHANGED <<run, queue, cand, human>>
  BY DEF ResetTask, TypeOK
<1> HIDE DEF new, old
<1> QED
  BY Zenon, <1>4, <1>5, <1>6, OnePlannedRow

\* A rejected dispatch: the count on the row is at most the one in the
\* snapshot, so the row stays below the limit the snapshot was compared with.
LEMMA DispatchRejectedOK ==
  ASSUME TypeOK, NEW t \in Tasks, DispatchRejected(t)
  PROVE  TypeOK' /\ (BudgetInv => BudgetInv')
<1> DEFINE old == ti[t]
           new == handleDispatchFailure(tick.snap[t], ti[t])
<1>1. old \in Row
  BY DEF TypeOK
<1>2. /\ old.try \in Nat /\ old.infraAttempts \in Nat /\ old.dispatchAttempts \in Nat
      /\ clears[t] \in Nat /\ tick.snap[t].dispatchAttempts \in Nat
  BY DEF TypeOK, Row, TickRecord
<1>3. Mild(old, FailDispatchExhausted(old))
  BY Zenon, <1>1, MildState DEF FailDispatchExhausted, TaskState
<1>4. new \in Row
  BY Zenon, <1>1, <1>3, DispatchFailureOK DEF handleDispatchFailure, Mild
<1>5. ASSUME BudgetInv PROVE RowBudget(t, new)
  <2>1. RowBudget(t, old) /\ PlanBudget(t, old) /\ tick.todo[t] = "queued"
    BY <1>5 DEF BudgetInv, DispatchRejected, Planned
  <2>2. CASE tick.snap[t].dispatchAttempts + 1 >= dispatchMaxAttempts
    <3>1. new = FailDispatchExhausted(old)
      BY <2>2 DEF handleDispatchFailure
    <3> QED
      BY <1>3, <2>1, <3>1, MildKeepsRowBudget
  <2>3. CASE ~(tick.snap[t].dispatchAttempts + 1 >= dispatchMaxAttempts)
    <3>1. new = RecordDispatchFailure(old)
      BY <2>3 DEF handleDispatchFailure
    <3>2. old.dispatchAttempts <= tick.snap[t].dispatchAttempts
      BY <2>1 DEF PlanBudget
    <3>3. /\ new.try = old.try /\ new.state = old.state
          /\ new.infraAttempts = old.infraAttempts
          /\ new.dispatchAttempts <= old.dispatchAttempts + 1
          /\ new.dispatchAttempts \in Nat
      BY Zenon, <1>1, <1>4, <3>1, DispatchFailureOK DEF Row
    <3>4. new.dispatchAttempts < dispatchMaxAttempts
      BY <1>2, <2>3, <3>2, <3>3, LifecycleAssumption
    <3> QED
      BY Zenon, <2>1, <3>3, <3>4 DEF RowBudget
  <2> QED
    BY <2>2, <2>3
<1>6. pods' \in [Pods -> PodRecord]
  BY CreatePodOK DEF DispatchRejected, TypeOK
<1>7. faults' \in 0..MaxFaults
  BY FaultOK DEF DispatchRejected, TypeOK
<1>8. PICK r \in {old, new} : ti' = [ti EXCEPT ![t] = r]
  BY Zenon DEF DispatchRejected
<1>9. DonePlanned(t) /\ UNCHANGED <<run, queue, cand, human>>
  BY DEF DispatchRejected
<1>10. r \in Row /\ (BudgetInv => RowBudget(t, r))
  BY <1>1, <1>4, <1>5 DEF BudgetInv
<1> HIDE DEF new, old
<1> QED
  BY Zenon, <1>6, <1>7, <1>8, <1>9, <1>10, OnePlannedRow

\* The batch: parking for a retry is the one planned transition that is not
\* mild, and the plan left room for it.
LEMMA FlushOK ==
  ASSUME TypeOK, FlushTransitions
  PROVE  TypeOK' /\ (BudgetInv => BudgetInv')
<1>1. PICK to \in PlanTarget \ {Keep, "queued", "none"} :
        /\ ti' = [u \in Tasks |-> IF tick.todo[u] = to THEN ApplyTransition(ti[u], to)
                                                     ELSE ti[u]]
        /\ tick' = [tick EXCEPT !.todo = [u \in Tasks |-> IF tick.todo[u] = to THEN Keep
                                                          ELSE tick.todo[u]]]
  <2>1. PICK t \in FirstPlanned(Batched) :
          LET to == tick.todo[t]
              group == {u \in Tasks : tick.todo[u] = to}
          IN /\ ti' = [u \in Tasks |-> IF u \in group THEN ApplyTransition(ti[u], to)
                                                      ELSE ti[u]]
             /\ tick' = [tick EXCEPT !.todo = [u \in Tasks |-> IF u \in group THEN Keep
                                                               ELSE tick.todo[u]]]
    BY Zenon DEF FlushTransitions
  <2>2. t \in Tasks /\ tick.todo[t] \notin {"queued", "none", Keep}
    BY <2>1 DEF FirstPlanned, Batched
  <2>3. tick.todo[t] \in PlanTarget \ {Keep, "queued", "none"}
    BY <2>2 DEF TypeOK, TickRecord
  <2> QED
    BY Zenon, <2>1, <2>3
<1>2. to \in TaskState
  BY DEF PlanTarget, TaskState
<1>3. ASSUME NEW u \in Tasks
      PROVE  /\ ti'[u] \in Row
             /\ ti'[u].try = ti[u].try
             /\ ti'[u].infraAttempts = ti[u].infraAttempts
             /\ ti'[u].dispatchAttempts = ti[u].dispatchAttempts
             /\ ti'[u].state = "up_for_retry" =>
                  ti[u].state = "up_for_retry" \/ tick.todo[u] = "up_for_retry"
  <2>1. ti[u] \in Row
    BY DEF TypeOK
  <2>2. ti'[u] = ti[u] \/ (tick.todo[u] = to /\ ti'[u] = [ti[u] EXCEPT !.state = to])
    BY <1>1 DEF ApplyTransition
  <2> QED
    BY <1>2, <2>1, <2>2 DEF Row
<1>4. ti' \in [Tasks -> Row]
  BY <1>1, <1>3
<1>5. /\ tick'.snap = tick.snap /\ tick'.pc = tick.pc
      /\ tick'.todo = [u \in Tasks |-> IF tick.todo[u] = to THEN Keep ELSE tick.todo[u]]
  BY <1>1 DEF TypeOK, TickRecord
<1>6. [u \in Tasks |-> IF tick.todo[u] = to THEN Keep ELSE tick.todo[u]]
        \in [Tasks -> PlanTarget]
  BY DEF TypeOK, TickRecord, PlanTarget
<1>7. tick' \in TickRecord
  BY Zenon, <1>1, <1>6 DEF TypeOK, TickRecord
<1>8. TypeOK'
  BY Zenon, <1>4, <1>7 DEF FlushTransitions, TypeOK, human
<1>9. ASSUME BudgetInv, NEW u \in Tasks
      PROVE  RowBudget(u, ti[u])' /\ PlanBudget(u, ti[u])'
  <2>1. clears' = clears
    BY DEF FlushTransitions, human
  <2>2. RowBudget(u, ti[u]) /\ PlanBudget(u, ti[u])
    BY <1>9 DEF BudgetInv
  <2>3. /\ tick'.todo[u] \in {tick.todo[u], Keep} /\ tick'.snap[u] = tick.snap[u]
        /\ tick'.pc = tick.pc
    BY <1>5
  <2>4. RowBudget(u, ti[u])'
    BY Zenon, <1>3, <2>1, <2>2 DEF RowBudget, PlanBudget
  <2>5. PlanBudget(u, ti[u])'
    BY Zenon, <1>3, <2>1, <2>2, <2>3 DEF PlanBudget, Keep
  <2> QED
    BY <2>4, <2>5
<1> QED
  BY <1>8, <1>9 DEF BudgetInv

\* A clear grants one attempt with every try_number it bumps.
LEMMA ClearResetOK ==
  ASSUME TypeOK, ClearReset
  PROVE  TypeOK' /\ (BudgetInv => BudgetInv')
<1>1. PICK S \in SUBSET Tasks : ClearRows(S)
  BY Zenon DEF ClearReset, TypeOK, OpRecord
<1>2. op' \in OpRecord
  <2>1. \A pc \in {"reset", "reopen"} : [op EXCEPT !.pc = pc] \in OpRecord
    BY DEF TypeOK, OpRecord
  <2>2. ASSUME NEW t, NEW pc \in {"reset", "reopen"}
        PROVE  [op EXCEPT !.todo = op.todo \ {t}, !.pc = pc] \in OpRecord
    BY Zenon DEF TypeOK, OpRecord
  <2>3. CASE op' = [op EXCEPT !.pc = "reopen"]
    BY <2>1, <2>3
  <2>4. CASE \E t \in op.todo :
               op' = [op EXCEPT !.todo = op.todo \ {t},
                                !.pc = IF op.todo = {t} THEN "reopen" ELSE "reset"]
    <3>1. PICK t \in op.todo :
            op' = [op EXCEPT !.todo = op.todo \ {t},
                             !.pc = IF op.todo = {t} THEN "reopen" ELSE "reset"]
      BY Zenon, <2>4
    <3>2. CASE op.todo = {t}
      BY Zenon, <2>2, <3>1, <3>2
    <3>3. CASE op.todo # {t}
      BY Zenon, <2>2, <3>1, <3>3
    <3> QED
      BY <3>2, <3>3
  <2> QED
    BY Zenon, <2>3, <2>4 DEF ClearReset
<1>3. UNCHANGED <<run, tick, queue, pods, cand, ops, faults>>
  BY Zenon DEF ClearReset
<1>4. ASSUME NEW t \in Tasks
      PROVE  /\ ti'[t] \in Row
             /\ clears'[t] \in Nat
             /\ \/ ti'[t] = ti[t] /\ clears'[t] = clears[t]
                \/ /\ ti'[t].state = "none"
                   /\ ti'[t].try = ti[t].try + 1
                   /\ ti'[t].infraAttempts = ti[t].infraAttempts
                   /\ ti'[t].dispatchAttempts = 0
                   /\ clears'[t] = clears[t] + 1
  <2>1. ti[t] \in Row /\ clears[t] \in Nat
    BY DEF TypeOK
  <2>2. NewAttempt(ti[t], ClearedRow(ti[t]))
    BY <2>1, NewAttempts DEF ClearedRow
  <2>3. ti'[t] = (IF t \in S THEN ClearedRow(ti[t]) ELSE ti[t])
    BY <1>1 DEF ClearRows
  <2>4. clears'[t] = (IF t \in S /\ ClearedRow(ti[t]) # ti[t] THEN clears[t] + 1
                                                             ELSE clears[t])
    BY <1>1 DEF ClearRows
  <2> QED
    BY <2>1, <2>2, <2>3, <2>4 DEF NewAttempt
<1>5. ti' \in [Tasks -> Row] /\ clears' \in [Tasks -> Nat] /\ marked' \subseteq Tasks
  BY Zenon, <1>1, <1>4 DEF ClearRows, TypeOK
<1>6. TypeOK'
  BY <1>2, <1>3, <1>5 DEF TypeOK
<1>7. ASSUME BudgetInv, NEW t \in Tasks
      PROVE  RowBudget(t, ti[t])' /\ PlanBudget(t, ti[t])'
  <2>1. RowBudget(t, ti[t]) /\ PlanBudget(t, ti[t])
    BY <1>7 DEF BudgetInv
  <2>2. ti[t].try \in Nat /\ clears[t] \in Nat /\ tick.snap[t].dispatchAttempts \in Nat
        /\ MaxTries[t] \in Nat
    BY PlannerAssumption DEF TypeOK, Row, TickRecord
  <2>3. tick' = tick
    BY <1>3
  <2>4. CASE ti'[t] = ti[t] /\ clears'[t] = clears[t]
    BY Zenon, <2>1, <2>3, <2>4 DEF RowBudget, PlanBudget
  <2>5. CASE /\ ti'[t].state = "none" /\ ti'[t].try = ti[t].try + 1
             /\ ti'[t].infraAttempts = ti[t].infraAttempts
             /\ ti'[t].dispatchAttempts = 0 /\ clears'[t] = clears[t] + 1
    <3>1. /\ ti[t].try <= MaxTries[t] + clears[t] => ti'[t].try <= MaxTries[t] + clears'[t]
          /\ ti[t].try < MaxTries[t] + clears[t] => ti'[t].try < MaxTries[t] + clears'[t]
      BY <2>2, <2>5
    <3>2. /\ ti'[t].dispatchAttempts < dispatchMaxAttempts
          /\ ti'[t].dispatchAttempts <= tick.snap[t].dispatchAttempts
      BY <2>5, BudgetNumbers
    <3>3. RowBudget(t, ti[t])'
      BY Zenon, <2>1, <2>5, <3>1, <3>2 DEF RowBudget
    <3>4. PlanBudget(t, ti[t])'
      BY Zenon, <2>1, <2>3, <2>5, <3>1, <3>2 DEF PlanBudget
    <3> QED
      BY <3>3, <3>4
  <2> QED
    BY <1>4, <2>4, <2>5
<1> QED
  BY <1>6, <1>7 DEF BudgetInv

\* A fresh plan fits the rows it was made from.
LEMMA TickSnapshotOK ==
  ASSUME TypeOK, BudgetInv, NEW ready \in SUBSET Tasks, TickSnapshot(ready)
  PROVE  BudgetInv'
<1> SUFFICES ASSUME NEW t \in Tasks
             PROVE  RowBudget(t, ti[t])' /\ PlanBudget(t, ti[t])'
  BY DEF BudgetInv
<1>1. ti' = ti /\ clears' = clears
  BY DEF TickSnapshot, human
<1>2. RowBudget(t, ti[t])'
  BY <1>1 DEF BudgetInv, RowBudget
<1>3. CASE tick' = [IdleTick EXCEPT !.pc = "materialize"]
  <2>1. tick'.todo = IdleTick.todo
    BY <1>3 DEF IdleTick
  <2>2. tick'.todo[t] = Keep
    BY <2>1, IdleTickOK
  <2> QED
    BY <1>2, <2>2 DEF PlanBudget, Keep
<1>4. CASE tick' = [pc |-> "plan", snap |-> ti, todo |-> PlanRun(ti, ready),
                    task |-> NoTask]
  <2>1. tick'.snap[t] = ti[t] /\ tick'.todo[t] = PlanRun(ti, ready)[t] /\ tick'.pc = "plan"
    BY <1>4
  <2>2. /\ PlanRun(ti, ready)[t] = "up_for_retry" => ti[t].try < MaxTries[t]
        /\ PlanRun(ti, ready)[t] = "none" /\ InfraFailed(ti[t])
             => ti[t].infraAttempts < infraMaxAttempts
    BY PlanWithinBudget DEF TypeOK
  <2>3. /\ clears[t] \in Nat /\ MaxTries[t] \in Nat /\ ti[t].try \in Nat
        /\ ti[t].dispatchAttempts \in Nat
    BY PlannerAssumption DEF TypeOK, Row
  <2>4. tick'.todo[t] = "up_for_retry" => ti[t].try < MaxTries[t] + clears[t]
    <3>1. tick'.todo[t] = "up_for_retry" => ti[t].try < MaxTries[t]
      BY <2>1, <2>2
    <3>2. ti[t].try < MaxTries[t] => ti[t].try < MaxTries[t] + clears[t]
      BY <2>3
    <3> QED
      BY <3>1, <3>2
  <2>5. ti[t].dispatchAttempts <= tick'.snap[t].dispatchAttempts
    <3>1. ti[t].dispatchAttempts <= ti[t].dispatchAttempts
      BY <2>3
    <3> QED
      BY <2>1, <3>1
  <2> QED
    BY Zenon, <1>1, <1>2, <2>1, <2>2, <2>4, <2>5 DEF PlanBudget
<1> QED
  BY <1>3, <1>4 DEF TickSnapshot

\* New rows start their first attempt with nothing spent.
LEMMA MaterializeOK ==
  ASSUME TypeOK, BudgetInv, MaterializeTasks
  PROVE  BudgetInv'
<1> SUFFICES ASSUME NEW t \in Tasks
             PROVE  RowBudget(t, ti[t])' /\ PlanBudget(t, ti[t])'
  BY DEF BudgetInv
<1>1. clears' = clears /\ tick'.todo[t] = Keep /\ tick'.pc = "start"
  BY DEF MaterializeTasks, human, TypeOK, TickRecord, BudgetInv, PlanBudget
<1>2. PlanBudget(t, ti[t])'
  BY <1>1 DEF PlanBudget, Keep
<1>3. RowBudget(t, ti[t])
  BY DEF BudgetInv
<1>4. clears[t] \in Nat /\ MaxTries[t] \in Nat \ {0}
  BY PlannerAssumption DEF TypeOK
<1>5. CASE ti'[t] = ti[t]
  BY <1>1, <1>2, <1>3, <1>5 DEF RowBudget
<1>6. CASE ti'[t] = CreateTaskInstance
  <2>1. /\ ti'[t].try = 1 /\ ti'[t].state = "none"
        /\ ti'[t].infraAttempts = 0 /\ ti'[t].dispatchAttempts = 0
    BY <1>6 DEF CreateTaskInstance, AbsentRow
  <2> QED
    BY <1>1, <1>2, <1>4, <2>1, PlannerAssumption, LifecycleAssumption DEF RowBudget
<1> QED
  BY <1>5, <1>6 DEF MaterializeTasks

-----------------------------------------------------------------------------
(* The theorems.                                                           *)

\* The six actions that are not mild, and the stuttering ones.
LEMMA OtherSteps ==
  ASSUME TypeOK, [Next]_vars
  PROVE  \/ TypeOK' /\ MildStep
         \/ TypeOK' /\ (BudgetInv => BudgetInv')
<1>1. CASE UNCHANGED vars
  BY Zenon, <1>1 DEF vars, human, TypeOK, BudgetInv, RowBudget, PlanBudget
<1>2. CASE SchedulerStep
  <2>1. CASE \E ready \in SUBSET Tasks : TickSnapshot(ready)
    BY <2>1, TickSnapshotType, TickSnapshotOK
  <2>2. CASE TickIdle
    BY <1>1, <2>2 DEF TickIdle
  <2>3. CASE MaterializeTasks
    BY <2>3, MaterializeType, MaterializeOK
  <2>4. CASE \E t \in Tasks : ResetTask(t)
    BY <2>4, ResetTaskOK
  <2>5. CASE \E t \in Tasks : DispatchRejected(t)
    BY <2>5, DispatchRejectedOK
  <2>6. CASE FlushTransitions
    BY <2>6, FlushOK
  <2>7. CASE \/ StartRun \/ RecordQueued \/ Finalize \/ TickAbort
             \/ \E t \in Tasks : Dispatch(t) \/ DispatchBackpressure(t)
    BY <2>7, SchedulerMild
  <2> QED
    BY <1>2, <2>1, <2>2, <2>3, <2>4, <2>5, <2>6, <2>7 DEF SchedulerStep
<1>3. CASE \E t \in Tasks : WorkerDispatch(t)
  BY <1>3, SchedulerMild
<1>4. CASE PodStep
  BY <1>4, PodMild
<1>5. CASE MaintenanceStep
  BY <1>5, MaintenanceMild
<1>6. CASE OperatorStep
  BY <1>6, OperatorMild, ClearResetOK DEF OperatorStep
<1>7. CASE ServerCrash
  BY <1>7, OperatorMild
<1> QED
  BY <1>1, <1>2, <1>3, <1>4, <1>5, <1>6, <1>7 DEF Next

\* Every reachable state is well typed: no writer puts a row, the run, a plan, a
\* pod or a request into a shape the schema and the code do not have.
THEOREM TypeCorrect == Spec => []TypeOK
<1>1. Init => TypeOK
  <2>1. UnusedPod \in PodRecord
    BY DEF UnusedPod, PodRecord
  <2>2. NoCand \in CandRecord /\ NoOp \in OpRecord
    BY DEF NoCand, CandRecord, NoOp, OpRecord
  <2> QED
    BY <2>1, <2>2, RowOK, IdleTickType, LifecycleAssumption DEF Init, TypeOK, DagRunState
<1>2. TypeOK /\ [Next]_vars => TypeOK'
  BY OtherSteps
<1> QED
  BY <1>1, <1>2, PTL DEF Spec

\* BudgetInv is inductive relative to the types: whatever was planned from a
\* snapshot still fits the row when it is applied, for any interleaving.
THEOREM BudgetsHold == Spec => []BudgetInv
<1>1. Init => BudgetInv
  <2> SUFFICES ASSUME Init, NEW t \in Tasks
               PROVE  RowBudget(t, ti[t]) /\ PlanBudget(t, ti[t])
    BY DEF BudgetInv
  <2>1. ti[t] = AbsentRow /\ clears[t] = 0 /\ tick = IdleTick
    BY DEF Init
  <2>2. tick.todo[t] = Keep
    BY <2>1, IdleTickOK
  <2>3. /\ AbsentRow.try = 0 /\ AbsentRow.state = "absent"
        /\ AbsentRow.infraAttempts = 0 /\ AbsentRow.dispatchAttempts = 0
    BY DEF AbsentRow
  <2>4. MaxTries[t] \in Nat \ {0}
    BY PlannerAssumption
  <2>5. RowBudget(t, ti[t])
    BY <2>1, <2>3, <2>4, PlannerAssumption, LifecycleAssumption DEF RowBudget
  <2>6. PlanBudget(t, ti[t])
    BY <2>2 DEF PlanBudget, Keep
  <2> QED
    BY <2>5, <2>6
<1>2. TypeOK /\ TypeOK' /\ BudgetInv /\ [Next]_vars => BudgetInv'
  BY OtherSteps, MildKeepsBudget
<1> QED
  BY <1>1, <1>2, TypeCorrect, PTL DEF Spec

\* A task never gets more attempts than its retries plus the operator's clears.
THEOREM RetryBudgetHolds == Spec => []RetryBudget
<1>1. BudgetInv => RetryBudget
  BY DEF BudgetInv, RowBudget, RetryBudget
<1> QED
  BY <1>1, BudgetsHold, PTL

\* A task is never re-placed more than infraMaxAttempts times.
THEOREM InfraBudgetHolds == Spec => []InfraBudget
<1>1. BudgetInv => InfraBudget
  BY DEF BudgetInv, RowBudget, InfraBudget
<1> QED
  BY <1>1, BudgetsHold, PTL

\* dispatch_attempts stays below dispatchMaxAttempts on every row.
THEOREM DispatchBudgetHolds == Spec => []DispatchBudget
<1>1. BudgetInv => DispatchBudget
  BY DEF BudgetInv, RowBudget, DispatchBudget
<1> QED
  BY <1>1, BudgetsHold, PTL

\* Without faults and operator requests so far, there were none before, and the
\* step is nobody's but the scheduler's, an agent's or the maintenance loop's.
LEMMA QuietSteps ==
  ASSUME TypeOK, [Next]_vars, faults' = 0, ops' = 0, faults = 0 /\ ops = 0 => op = NoOp
  PROVE  /\ faults = 0 /\ ops = 0 /\ ~Fault /\ op' = op
         /\ \/ SchedulerStep \/ \E t \in Tasks : WorkerDispatch(t)
            \/ PodStep \/ MaintenanceStep \/ UNCHANGED vars
<1>1. faults \in Nat /\ ops \in Nat
  BY LifecycleAssumption DEF TypeOK
<1>2. ~Fault
  BY <1>1 DEF Fault
<1>3. ASSUME OperatorStep \/ ServerCrash
      PROVE  FALSE
  <2>1. ~ServerCrash /\ ~ClearAbort
    BY <1>2 DEF ServerCrash, ClearAbort
  <2>2. CASE \/ \E S \in SUBSET Tasks, onlyFailed, reopen \in BOOLEAN :
                  ClearRequest(S, onlyFailed, reopen)
             \/ \E t \in Tasks, to \in {"success", "failed", "skipped"} : MarkTask(t, to)
             \/ \E to \in DagRunState : MarkRun(to)
    BY <1>1, <2>2 DEF ClearRequest, MarkTask, MarkRun
  <2>3. CASE ClearReset \/ ClearReopen
    <3>1. ops = 0 /\ faults = 0 /\ op.pc \in {"reset", "reopen"}
      BY Zenon, <2>3 DEF ClearReset, ClearReopen
    <3> QED
      BY <3>1 DEF NoOp
  <2> QED
    BY <1>3, <2>1, <2>2, <2>3 DEF OperatorStep
<1>4. \/ SchedulerStep \/ \E t \in Tasks : WorkerDispatch(t)
      \/ PodStep \/ MaintenanceStep \/ UNCHANGED vars
  BY <1>3 DEF Next
<1>5. CASE SchedulerStep
  <2>1. UNCHANGED <<op, ops>>
    BY Zenon, <1>5 DEF SchedulerStep, TickSnapshot, TickIdle, MaterializeTasks, StartRun, ResetTask,
       Dispatch, DispatchRejected, DispatchBackpressure, RecordQueued, FlushTransitions,
       Finalize, TickAbort, human, vars
  <2>2. UNCHANGED faults
    BY Zenon, <1>2, <1>5 DEF SchedulerStep, TickSnapshot, TickIdle, MaterializeTasks, StartRun,
       ResetTask, Dispatch, DispatchRejected, DispatchBackpressure, RecordQueued,
       FlushTransitions, Finalize, TickAbort, NoFault, vars
  <2> QED
    BY <1>2, <1>4, <2>1, <2>2
<1>6. CASE \E t \in Tasks : WorkerDispatch(t)
  BY Zenon, <1>2, <1>4, <1>6 DEF WorkerDispatch, NoFault, human
<1>7. CASE PodStep
  <2>1. UNCHANGED <<faults, op, ops>>
    BY Zenon, <1>2, <1>7 DEF PodStep, ReportRunning, Heartbeat, ReportOutcome, TaskEnds, PodDies,
       PodVanishes, PodStops, PodRemoved, Acked, NoFault, human
  <2> QED
    BY <1>2, <1>4, <2>1
<1>8. CASE MaintenanceStep
  <2>1. UNCHANGED <<faults, op, ops>>
    BY <1>2, <1>8 DEF MaintenanceStep, Reconcile, ReconcileStuck, ListAgentLost, ListPodLost,
       ListDispatchLost, ListCandidate, LookAtPods, MarkCandidate, ListOrphan, ReapRun,
       DeletePods, NoFault, human
  <2> QED
    BY <1>2, <1>4, <2>1
<1>9. CASE UNCHANGED vars
  BY <1>2, <1>4, <1>9 DEF vars, human
<1> QED
  BY <1>4, <1>5, <1>6, <1>7, <1>8, <1>9
=============================================================================
