------------------------ MODULE RunEvidence_proofs ------------------------
(***************************************************************************)
(* A success in the database was earned, attempts only move forward, and   *)
(* the run implements the ledger of attempts: the proofs of                *)
(* SuccessHasEvidence, AttemptsNeverDecrease and ImplementsLedger.         *)
(*                                                                         *)
(* Only three writes make a row a success: an agent's report, the pod      *)
(* reconciler, and the operator's mark.  The first two are guarded on the  *)
(* attempt of a pod whose outcome record says success, and that record is  *)
(* final: it is written once, when user code ends, and a pod created later *)
(* takes an identity that never carried one.                               *)
(***************************************************************************)
EXTENDS RunBudget_proofs, RunRefinement

Evidence(t, try) ==
  \E p \in Pods : pods[p].task = t /\ pods[p].try = try /\ pods[p].out = "success"

\* A pod whose user code has not ended has no outcome record.
NoRecordYet ==
  \A p \in Pods : pods[p].st \in {"unused", "pending", "running"} => pods[p].out = "none"

EvidenceInv == NoRecordYet /\ SuccessHasEvidence

\* A step that leaves every success record where it is.
RecordsKept ==
  \A p \in Pods : pods[p].out = "success" =>
    /\ pods'[p].out = "success"
    /\ pods'[p].task = pods[p].task
    /\ pods'[p].try = pods[p].try

\* A write that makes no row a success, nor moves one to another attempt.
Quiet(r, s) == s.state = "success" => r.state = "success" /\ s.try = r.try

\* A step that needs no new evidence.
QuietStep ==
  /\ \A t \in Tasks : Quiet(ti[t], ti'[t])
  /\ marked' = marked

\* A row that is a success after the step has its evidence then, if it had it
\* before.
Earned(t) ==
  ti'[t].state = "success" /\ t \notin marked' =>
    \/ ti[t].state = "success" /\ ti'[t].try = ti[t].try /\ t \notin marked
    \/ Evidence(t, ti'[t].try)

\* Evidence outlives a step that keeps the records.
LEMMA EvidenceKept ==
  ASSUME SuccessHasEvidence, RecordsKept, \A t \in Tasks : Earned(t)
  PROVE  SuccessHasEvidence'
<1> SUFFICES ASSUME NEW t \in Tasks, ti'[t].state = "success", t \notin marked'
             PROVE  \E p \in Pods : /\ pods'[p].task = t
                                    /\ pods'[p].try = ti'[t].try
                                    /\ pods'[p].out = "success"
  BY DEF SuccessHasEvidence
<1>1. Evidence(t, ti'[t].try)
  BY DEF Earned, SuccessHasEvidence, Evidence
<1> QED
  BY <1>1 DEF Evidence, RecordsKept

\* A quiet step earns nothing.
LEMMA QuietEarns ==
  ASSUME QuietStep
  PROVE  \A t \in Tasks : Earned(t)
BY DEF QuietStep, Quiet, Earned

-----------------------------------------------------------------------------
(* Writes.                                                                 *)

\* Moving a row to any state but success is quiet, and so is leaving it.
LEMMA QuietState ==
  ASSUME NEW r \in Row, NEW to \in TaskState \ {"success"}
  PROVE  /\ Quiet(r, r)
         /\ Quiet(r, [r EXCEPT !.state = to])
         /\ Quiet(r, [r EXCEPT !.state = to, !.infra = TRUE])
         /\ Quiet(r, [r EXCEPT !.state = to, !.infra = FALSE])
BY DEF Quiet, Row

\* The writes of the actors that are quiet on every row.
LEMMA QuietWrites ==
  ASSUME NEW r \in Row, NEW try, NEW pod \in Pods
  PROVE  /\ \A to \in TaskState \ {"success"} :
              /\ Quiet(r, ApplyTransition(r, to))
              /\ Quiet(r, ReportTaskResult(r, try, to))
              /\ Quiet(r, SettleIfActive(r, try, to))
         /\ Quiet(r, RescheduleTaskInstance(r))
         /\ Quiet(r, RecordTaskHeartbeat(r, try, pod))
         /\ Quiet(r, MarkTaskDispatchFailed(r))
         /\ Quiet(r, MarkTaskLost(r))
         /\ Quiet(r, MarkTaskDispatchLost(r))
         /\ Quiet(r, MarkRunOrphanedTaskInstance(r))
<1>1. {"failed", "up_for_reschedule"} \subseteq TaskState \ {"success"}
  BY DEF TaskState
<1>2. \A to \in TaskState \ {"success"} :
        /\ Quiet(r, ApplyTransition(r, to))
        /\ Quiet(r, ReportTaskResult(r, try, to))
        /\ Quiet(r, SettleIfActive(r, try, to))
  BY Zenon, QuietState DEF ApplyTransition, ReportTaskResult, SettleIfActive
<1>3. Quiet(r, RescheduleTaskInstance(r))
  BY Zenon, <1>1, QuietState DEF RescheduleTaskInstance
<1>4. Quiet(r, RecordTaskHeartbeat(r, try, pod))
  BY DEF RecordTaskHeartbeat, Quiet, Row
<1>5. Quiet(r, MarkTaskDispatchFailed(r)) /\ Quiet(r, MarkTaskLost(r))
  BY Zenon, <1>1, QuietState DEF MarkTaskDispatchFailed, MarkTaskLost
<1>6. Quiet(r, MarkTaskDispatchLost(r)) /\ Quiet(r, MarkRunOrphanedTaskInstance(r))
  BY Zenon, <1>1, QuietState DEF MarkTaskDispatchLost, MarkRunOrphanedTaskInstance
<1> QED
  BY <1>2, <1>3, <1>4, <1>5, <1>6

\* A rejected dispatch is quiet, counted or given up on.
LEMMA QuietDispatchFailure ==
  ASSUME NEW r \in Row, NEW snapRow
  PROVE  Quiet(r, handleDispatchFailure(snapRow, r))
<1>1. "failed" \in TaskState \ {"success"}
  BY DEF TaskState
<1>2. Quiet(r, FailDispatchExhausted(r))
  BY Zenon, <1>1, QuietState DEF FailDispatchExhausted
<1>3. Quiet(r, RecordDispatchFailure(r))
  BY DispatchFailureOK DEF Quiet
<1> QED
  BY <1>2, <1>3 DEF handleDispatchFailure

\* The resets of the tick and of a clear are quiet.
LEMMA QuietResets ==
  ASSUME NEW r \in Row, NEW snapRow
  PROVE  /\ Quiet(r, ResetPlanned(snapRow, r))
         /\ Quiet(r, ClearedRow(r))
<1>1. Quiet(r, RedispatchRescheduledTaskInstance(r))
  <2>1. "none" \in TaskState \ {"success"}
    BY DEF TaskState
  <2> QED
    BY Zenon, <2>1, QuietState DEF RedispatchRescheduledTaskInstance
<1>2. Quiet(r, ResetTaskInstanceInfraReplace(r))
  BY InfraReplaceOK DEF Quiet
<1>3. Quiet(r, ResetTaskInstanceForRetry(r)) /\ Quiet(r, ClearedRow(r))
  BY NewAttempts DEF NewAttempt, Quiet, ClearedRow
<1> QED
  BY <1>1, <1>2, <1>3 DEF ResetPlanned

\* One row rewritten, the others as they were.
LEMMA OneQuietRow ==
  ASSUME ti \in [Tasks -> Row], NEW t, NEW r,
         t \in Tasks => Quiet(ti[t], r),
         ti' = [ti EXCEPT ![t] = r]
  PROVE  \A u \in Tasks : Quiet(ti[u], ti'[u])
BY DEF Quiet

\* A step that writes no row.
LEMMA NoQuietRow ==
  ASSUME UNCHANGED ti
  PROVE  \A u \in Tasks : Quiet(ti[u], ti'[u])
BY DEF Quiet

-----------------------------------------------------------------------------
(* Pods.                                                                   *)

\* A step that leaves the pods alone.
LEMMA SamePods ==
  ASSUME UNCHANGED pods, NoRecordYet
  PROVE  NoRecordYet' /\ RecordsKept
BY DEF NoRecordYet, RecordsKept

\* A new pod takes an unused identity, which has no record.
LEMMA CreatePodKeeps ==
  ASSUME TypeOK, NoRecordYet, NEW t \in Tasks, CreatePod(t)
  PROVE  NoRecordYet' /\ RecordsKept
<1>1. PICK p \in Pods :
        /\ pods[p].st = "unused"
        /\ pods' = [pods EXCEPT ![p] = [task |-> t, try |-> ti[t].try, st |-> "pending",
                                        out |-> "none", del |-> FALSE]]
  BY Zenon DEF CreatePod
<1>2. pods[p].out = "none"
  BY <1>1 DEF NoRecordYet
<1>3. \A q \in Pods \ {p} : pods'[q] = pods[q]
  BY <1>1 DEF TypeOK
<1>4. pods'[p].out = "none"
  BY <1>1 DEF TypeOK
<1> QED
  BY <1>2, <1>3, <1>4 DEF NoRecordYet, RecordsKept

\* A pod that moves to a later phase keeps its record, if it has one.
LEMMA PhaseKeeps ==
  ASSUME TypeOK, NoRecordYet, NEW p \in Pods, pods[p].st # "unused",
         NEW st, NEW out,
         \/ /\ pods' = [pods EXCEPT ![p].st = st]
            /\ st \in {"reporting", "exited", "gone"} \/ pods[p].st = "pending"
         \/ /\ pods' = [pods EXCEPT ![p].st = st, ![p].out = out]
            /\ st \in {"reporting", "exited"}
            /\ pods[p].st \in {"pending", "running"} \/ out = pods[p].out
  PROVE  NoRecordYet' /\ RecordsKept
<1>1. pods[p] \in PodRecord
  BY DEF TypeOK
<1>2. \A q \in Pods \ {p} : pods'[q] = pods[q]
  BY DEF TypeOK
<1>3. /\ pods'[p].task = pods[p].task /\ pods'[p].try = pods[p].try
      /\ pods'[p].st = st
      /\ pods'[p].out \in {pods[p].out, out}
  BY <1>1 DEF TypeOK, PodRecord
<1>4. pods[p].out = "success" => pods'[p].out = "success"
  BY <1>1 DEF TypeOK, PodRecord, NoRecordYet
<1>5. st \in {"unused", "pending", "running"} => pods'[p].out = "none"
  BY <1>1 DEF TypeOK, PodRecord, NoRecordYet
<1> QED
  BY <1>2, <1>3, <1>4, <1>5 DEF NoRecordYet, RecordsKept

\* Deletion timestamps do not touch the records.
LEMMA DeleteKeeps ==
  ASSUME TypeOK, NoRecordYet,
         \A p \in Pods : pods'[p] \in {pods[p], [pods[p] EXCEPT !.del = TRUE]}
  PROVE  NoRecordYet' /\ RecordsKept
<1>1. \A p \in Pods : /\ pods'[p].task = pods[p].task /\ pods'[p].try = pods[p].try
                      /\ pods'[p].st = pods[p].st /\ pods'[p].out = pods[p].out
  BY DEF TypeOK, PodRecord
<1> QED
  BY <1>1 DEF NoRecordYet, RecordsKept

-----------------------------------------------------------------------------
(* Actions.                                                                *)

\* What every step does for the evidence.
EvidenceStep == NoRecordYet' /\ RecordsKept /\ \A t \in Tasks : Earned(t)

\* The scheduler tick makes no row a success.
LEMMA SchedulerEarns ==
  ASSUME TypeOK, NoRecordYet, SchedulerStep
  PROVE  EvidenceStep
<1> USE DEF EvidenceStep
<1>1. marked' = marked
  BY Zenon DEF SchedulerStep, TickSnapshot, TickIdle, MaterializeTasks, StartRun, ResetTask,
         Dispatch, DispatchRejected, DispatchBackpressure, RecordQueued,
         FlushTransitions, Finalize, TickAbort, human, vars
<1>2. ASSUME \A u \in Tasks : Quiet(ti[u], ti'[u])
      PROVE  \A u \in Tasks : Earned(u)
  BY <1>1, <1>2, QuietEarns DEF QuietStep
<1>3. CASE \/ \E ready \in SUBSET Tasks : TickSnapshot(ready)
           \/ TickIdle \/ StartRun \/ Finalize \/ TickAbort
           \/ \E t \in Tasks : DispatchBackpressure(t)
  <2>1. UNCHANGED <<ti, pods>>
    BY Zenon, <1>3 DEF TickSnapshot, TickIdle, StartRun, Finalize, TickAbort,
                DispatchBackpressure, vars
  <2> QED
    BY <1>2, <2>1, NoQuietRow, SamePods
<1>4. CASE MaterializeTasks
  <2>1. \A u \in Tasks : Quiet(ti[u], ti'[u])
    BY <1>4 DEF MaterializeTasks, CreateTaskInstance, AbsentRow, Quiet
  <2> QED
    BY <1>2, <1>4, <2>1, SamePods DEF MaterializeTasks
<1>5. ASSUME NEW t \in Tasks, ResetTask(t)
      PROVE  EvidenceStep
  <2>1. Quiet(ti[t], ResetPlanned(tick.snap[t], ti[t]))
    BY QuietResets DEF TypeOK
  <2>2. \A u \in Tasks : Quiet(ti[u], ti'[u])
    BY Zenon, <1>5, <2>1, OneQuietRow DEF ResetTask, TypeOK
  <2> QED
    BY <1>2, <1>5, <2>2, SamePods DEF ResetTask
<1>6. ASSUME NEW t \in Tasks, Dispatch(t)
      PROVE  EvidenceStep
  BY <1>2, <1>6, NoQuietRow, SamePods, CreatePodKeeps DEF Dispatch
<1>7. ASSUME NEW t \in Tasks, DispatchRejected(t)
      PROVE  EvidenceStep
  <2>1. Quiet(ti[t], handleDispatchFailure(tick.snap[t], ti[t])) /\ Quiet(ti[t], ti[t])
    BY QuietDispatchFailure DEF TypeOK, Quiet
  <2>2. PICK r : Quiet(ti[t], r) /\ ti' = [ti EXCEPT ![t] = r]
    BY Zenon, <1>7, <2>1 DEF DispatchRejected
  <2>3. \A u \in Tasks : Quiet(ti[u], ti'[u])
    BY Zenon, <2>2, OneQuietRow DEF TypeOK
  <2> QED
    BY <1>2, <1>7, <2>3, SamePods, CreatePodKeeps DEF DispatchRejected
<1>8. CASE RecordQueued
  <2>1. tick.task \in Tasks => Quiet(ti[tick.task], ApplyTransition(ti[tick.task], "queued"))
    <3>1. "queued" \in TaskState \ {"success"}
      BY DEF TaskState
    <3> QED
      BY Zenon, <3>1, QuietState DEF TypeOK, ApplyTransition
  <2>2. \A u \in Tasks : Quiet(ti[u], ti'[u])
    BY Zenon, <1>8, <2>1, OneQuietRow DEF RecordQueued, TypeOK
  <2> QED
    BY <1>2, <1>8, <2>2, SamePods DEF RecordQueued
<1>9. CASE FlushTransitions
  <2>1. PICK to \in TaskState \ {"success"} :
          ti' = [u \in Tasks |-> IF tick.todo[u] = to THEN ApplyTransition(ti[u], to)
                                                      ELSE ti[u]]
    <3>1. PICK t \in FirstPlanned(Batched) :
            ti' = [u \in Tasks |-> IF u \in {v \in Tasks : tick.todo[v] = tick.todo[t]}
                                     THEN ApplyTransition(ti[u], tick.todo[t])
                                     ELSE ti[u]]
      BY <1>9 DEF FlushTransitions
    <3>2. t \in Tasks /\ tick.todo[t] # Keep
      BY <3>1 DEF FirstPlanned, Batched
    <3>3. tick.todo[t] \in PlanTarget \ {Keep}
      BY <3>2 DEF TypeOK, TickRecord
    <3>4. tick.todo[t] \in TaskState \ {"success"}
      BY <3>3 DEF PlanTarget, TaskState
    <3> QED
      BY <3>1, <3>4
  <2>2. \A u \in Tasks : Quiet(ti[u], ApplyTransition(ti[u], to)) /\ Quiet(ti[u], ti[u])
    BY Zenon, QuietState DEF TypeOK, ApplyTransition
  <2>3. \A u \in Tasks : Quiet(ti[u], ti'[u])
    BY <2>1, <2>2
  <2> QED
    BY <1>2, <1>9, <2>3, SamePods DEF FlushTransitions
<1> QED
  BY <1>3, <1>4, <1>5, <1>6, <1>7, <1>8, <1>9 DEF SchedulerStep

\* Nor do the dispatch workers.
LEMMA WorkerEarns ==
  ASSUME TypeOK, NoRecordYet, NEW t \in Tasks, WorkerDispatch(t)
  PROVE  EvidenceStep
<1>1. Quiet(ti[t], MarkTaskDispatchFailed(ti[t]))
  <2>1. "failed" \in TaskState \ {"success"}
    BY DEF TaskState
  <2> QED
    BY Zenon, <2>1, QuietState DEF TypeOK, MarkTaskDispatchFailed
<1>2. \A u \in Tasks : Quiet(ti[u], ti'[u])
  BY <1>1, OneQuietRow, NoQuietRow DEF WorkerDispatch, TypeOK
<1>3. NoRecordYet' /\ RecordsKept
  BY SamePods, CreatePodKeeps DEF WorkerDispatch
<1> QED
  BY <1>2, <1>3, QuietEarns DEF WorkerDispatch, human, QuietStep, EvidenceStep

\* One row rewritten by a write that is quiet or has its evidence at hand.
LEMMA OneEarnedRow ==
  ASSUME ti \in [Tasks -> Row], NEW t, NEW r, marked' = marked,
         t \in Tasks => Quiet(ti[t], r) \/ Evidence(t, r.try),
         ti' = [ti EXCEPT ![t] = r]
  PROVE  \A u \in Tasks : Earned(u)
BY DEF Quiet, Earned

\* An agent's report is a success only for the attempt of its own pod.
LEMMA ReportEarns ==
  ASSUME TypeOK, NEW p \in Pods, NEW r \in Row
  PROVE  \/ Quiet(r, ReportState(r, pods[p]))
         \/ Evidence(pods[p].task, ReportState(r, pods[p]).try)
<1>1. CASE pods[p].out = "success"
  <2>1. ReportState(r, pods[p]) = ReportTaskResult(r, pods[p].try, "success")
    BY <1>1 DEF ReportState
  <2>2. CASE ReportApplies(r, pods[p].try)
    <3>1. ReportState(r, pods[p]).try = pods[p].try
      BY <2>1, <2>2 DEF ReportTaskResult, ReportApplies, Row
    <3> QED
      BY <1>1, <3>1 DEF Evidence
  <2>3. CASE ~ReportApplies(r, pods[p].try)
    BY <2>1, <2>3 DEF ReportTaskResult, Quiet
  <2> QED
    BY <2>2, <2>3
<1>2. CASE pods[p].out = "reschedule"
  BY <1>2, QuietWrites DEF ReportState
<1>3. CASE pods[p].out \in {"none", "failed"}
  <2>1. pods[p].out \in TaskState \ {"success"}
    BY <1>3 DEF TaskState
  <2> QED
    BY Zenon, <1>3, <2>1, QuietWrites DEF ReportState
<1> QED
  BY <1>1, <1>2, <1>3 DEF TypeOK, PodRecord

\* The reconciler settles a success only on a record of the row's attempt.
LEMMA SettleEarns ==
  ASSUME TypeOK, NEW p \in Pods, NEW r \in Row
  PROVE  LET s == SettleIfActive(r, pods[p].try, classifyPod(pods[p])) IN
         Quiet(r, s) \/ Evidence(pods[p].task, s.try)
<1>1. CASE pods[p].out = "success"
  <2>1. classifyPod(pods[p]) = "success"
    BY <1>1 DEF classifyPod
  <2>2. CASE r.try = pods[p].try
    <3>1. SettleIfActive(r, pods[p].try, "success").try = pods[p].try
      BY <2>2 DEF SettleIfActive, Row
    <3> QED
      BY <1>1, <2>1, <3>1 DEF Evidence
  <2>3. CASE r.try # pods[p].try
    BY <2>1, <2>3 DEF SettleIfActive, Quiet
  <2> QED
    BY Zenon, <2>2, <2>3
<1>2. CASE pods[p].out # "success"
  <2>1. classifyPod(pods[p]) \in TaskState \ {"success"}
    BY <1>2 DEF classifyPod, TaskState
  <2> QED
    BY Zenon, <2>1, QuietWrites
<1> QED
  BY Zenon, <1>1, <1>2

\* The agents and their pods: a record is written once, when user code ends.
LEMMA PodEarns ==
  ASSUME TypeOK, NoRecordYet, PodStep
  PROVE  EvidenceStep
<1> USE DEF EvidenceStep
<1>1. PICK p \in Pods :
        \/ ReportRunning(p) \/ Heartbeat(p) \/ ReportOutcome(p)
        \/ \E out \in {"success", "failed", "reschedule"} : TaskEnds(p, out)
        \/ PodDies(p) \/ PodVanishes(p) \/ PodStops(p) \/ PodRemoved(p)
  BY DEF PodStep
<1> DEFINE t == pods[p].task
<1>2. marked' = marked
  BY Zenon, <1>1 DEF ReportRunning, Heartbeat, ReportOutcome, TaskEnds, PodDies, PodVanishes,
              PodStops, PodRemoved, human
<1>3. t \in Tasks => ti[t] \in Row
  BY DEF TypeOK
<1>4. ASSUME UNCHANGED ti
      PROVE  \A u \in Tasks : Earned(u)
  BY <1>2, <1>4, NoQuietRow, QuietEarns DEF QuietStep
<1>5. CASE ReportRunning(p)
  <2>1. t \in Tasks => Quiet(ti[t], ReportTaskResult(ti[t], pods[p].try, "running"))
    <3>1. "running" \in TaskState \ {"success"}
      BY DEF TaskState
    <3> QED
      BY Zenon, <1>3, <3>1, QuietWrites
  <2>2. \A u \in Tasks : Earned(u)
    BY Zenon, <1>2, <1>5, <2>1, OneEarnedRow DEF ReportRunning, TypeOK
  <2>3. NoRecordYet' /\ RecordsKept
    BY Zenon, <1>5, PhaseKeeps, SamePods DEF ReportRunning, Acked, SetPod
  <2> QED
    BY <2>2, <2>3
<1>6. CASE Heartbeat(p)
  <2>1. t \in Tasks => Quiet(ti[t], RecordTaskHeartbeat(ti[t], pods[p].try, p))
    BY Zenon, <1>3, QuietWrites
  <2>2. \A u \in Tasks : Earned(u)
    BY Zenon, <1>2, <1>6, <2>1, OneEarnedRow DEF Heartbeat, TypeOK
  <2>3. NoRecordYet' /\ RecordsKept
    BY Zenon, <1>6, PhaseKeeps, SamePods DEF Heartbeat
  <2> QED
    BY <2>2, <2>3
<1>7. CASE ReportOutcome(p)
  <2>1. t \in Tasks => \/ Quiet(ti[t], ReportState(ti[t], pods[p]))
                       \/ Evidence(t, ReportState(ti[t], pods[p]).try)
    BY Zenon, <1>3, ReportEarns
  <2>2. \A u \in Tasks : Earned(u)
    BY Zenon, <1>2, <1>7, <2>1, OneEarnedRow DEF ReportOutcome, TypeOK
  <2>3. NoRecordYet' /\ RecordsKept
    BY Zenon, <1>7, PhaseKeeps, SamePods DEF ReportOutcome, Acked, SetPod
  <2> QED
    BY <2>2, <2>3
<1>8. ASSUME NEW out \in {"success", "failed", "reschedule"}, TaskEnds(p, out)
      PROVE  EvidenceStep
  <2>1. NoRecordYet' /\ RecordsKept
    BY Zenon, <1>8, PhaseKeeps DEF TaskEnds
  <2> QED
    BY <1>4, <1>8, <2>1 DEF TaskEnds
<1>9. CASE PodDies(p) \/ PodVanishes(p) \/ PodRemoved(p)
  <2>1. NoRecordYet' /\ RecordsKept
    BY Zenon, <1>9, PhaseKeeps DEF PodDies, PodVanishes, PodRemoved, SetPod, LiveSt
  <2> QED
    BY <1>4, <1>9, <2>1 DEF PodDies, PodVanishes, PodRemoved
<1>10. CASE PodStops(p)
  <2>1. NoRecordYet' /\ RecordsKept
    <3>1. CASE pods[p].st = "running"
      BY Zenon, <1>10, <3>1, PhaseKeeps DEF PodStops
    <3>2. CASE pods[p].st # "running"
      BY Zenon, <1>10, <3>2, PhaseKeeps DEF PodStops, LiveSt
    <3> QED
      BY <3>1, <3>2
  <2> QED
    BY <1>4, <1>10, <2>1 DEF PodStops
<1> QED
  BY <1>1, <1>5, <1>6, <1>7, <1>8, <1>9, <1>10

\* The reconciler and the reapers.
LEMMA MaintenanceEarns ==
  ASSUME TypeOK, NoRecordYet, MaintenanceStep
  PROVE  EvidenceStep
<1> USE DEF EvidenceStep
<1>1. marked' = marked
  BY Zenon DEF MaintenanceStep, Reconcile, ReconcileStuck, ListAgentLost, ListPodLost,
         ListDispatchLost, ListCandidate, LookAtPods, MarkCandidate, ListOrphan, ReapRun,
         DeletePods, human
<1>2. ASSUME \A u \in Tasks : Quiet(ti[u], ti'[u])
      PROVE  \A u \in Tasks : Earned(u)
  BY <1>1, <1>2, QuietEarns DEF QuietStep
<1>3. "failed" \in TaskState \ {"success"}
  BY DEF TaskState
<1>4. ASSUME NEW p \in Pods, Reconcile(p)
      PROVE  EvidenceStep
  <2> DEFINE t == pods[p].task
             s == SettleIfActive(ti[t], pods[p].try, classifyPod(pods[p]))
  <2>1. t \in Tasks => ti[t] \in Row
    BY DEF TypeOK
  <2>2. t \in Tasks => Quiet(ti[t], s) \/ Evidence(t, s.try)
    BY Zenon, <2>1, SettleEarns
  <2>3. \A u \in Tasks : Earned(u)
    BY Zenon, <1>1, <1>4, <2>2, OneEarnedRow DEF Reconcile, TypeOK
  <2>4. NoRecordYet' /\ RecordsKept
    BY Zenon, <1>4, PhaseKeeps, SamePods DEF Reconcile, SetPod
  <2> QED
    BY <2>3, <2>4
<1>5. ASSUME NEW p \in Pods, ReconcileStuck(p)
      PROVE  EvidenceStep
  <2> DEFINE t == pods[p].task
  <2>1. t \in Tasks => Quiet(ti[t], SettleIfActive(ti[t], pods[p].try, "failed"))
    BY Zenon, <1>3, QuietWrites DEF TypeOK
  <2>2. \A u \in Tasks : Earned(u)
    BY Zenon, <1>1, <1>5, <2>1, OneEarnedRow DEF ReconcileStuck, TypeOK
  <2>3. \A q \in Pods : pods'[q] \in {pods[q], [pods[q] EXCEPT !.del = TRUE]}
    BY <1>5 DEF ReconcileStuck, TypeOK
  <2> QED
    BY <2>2, <2>3, DeleteKeeps
<1>6. CASE \/ \E t \in Tasks : ListAgentLost(t) \/ ListPodLost(t) \/ ListDispatchLost(t)
           \/ LookAtPods \/ ListOrphan
  <2>1. UNCHANGED <<ti, pods>>
    BY Zenon, <1>6 DEF ListAgentLost, ListPodLost, ListDispatchLost, ListCandidate, LookAtPods,
                ListOrphan
  <2> QED
    BY <1>2, <2>1, NoQuietRow, SamePods
<1>7. CASE MarkCandidate
  <2> DEFINE r == ti[cand.task]
  <2>1. cand.task \in Tasks => Quiet(r, MarkTaskDispatchLost(r)) /\ Quiet(r, MarkTaskLost(r))
    BY Zenon, <1>3, QuietState DEF TypeOK, MarkTaskDispatchLost, MarkTaskLost
  <2>2. \A u \in Tasks : Quiet(ti[u], ti'[u])
    BY Zenon, <1>7, <2>1, OneQuietRow DEF MarkCandidate, TypeOK
  <2> QED
    BY <1>2, <1>7, <2>2, SamePods DEF MarkCandidate
<1>8. CASE ReapRun
  <2>1. \A u \in Tasks : Quiet(ti[u], MarkRunOrphanedTaskInstance(ti[u]))
    BY Zenon, <1>3, QuietState DEF TypeOK, MarkRunOrphanedTaskInstance
  <2>2. \A u \in Tasks : Quiet(ti[u], ti'[u])
    BY <1>8, <2>1, NoQuietRow DEF ReapRun
  <2> QED
    BY <1>2, <1>8, <2>2, SamePods DEF ReapRun
<1>9. CASE DeletePods
  <2>1. \A q \in Pods : pods'[q] \in {pods[q], [pods[q] EXCEPT !.del = TRUE]}
    BY <1>9 DEF DeletePods
  <2> QED
    BY <1>2, <1>9, <2>1, NoQuietRow, DeleteKeeps DEF DeletePods
<1> QED
  BY <1>4, <1>5, <1>6, <1>7, <1>8, <1>9 DEF MaintenanceStep

\* The operator: a mark is remembered until the clear that resets the row.
LEMMA OperatorEarns ==
  ASSUME TypeOK, NoRecordYet, OperatorStep
  PROVE  EvidenceStep
<1> USE DEF EvidenceStep
<1>1. NoRecordYet' /\ RecordsKept
  BY Zenon, SamePods DEF OperatorStep, ClearRequest, ClearReset, ClearReopen, ClearAbort,
                  MarkTask, MarkRun
<1>2. CASE \/ \E S \in SUBSET Tasks, onlyFailed, reopen \in BOOLEAN :
                ClearRequest(S, onlyFailed, reopen)
           \/ ClearReopen \/ ClearAbort
           \/ \E to \in DagRunState : MarkRun(to)
  <2>1. UNCHANGED <<ti, marked>>
    BY Zenon, <1>2 DEF ClearRequest, ClearReopen, ClearAbort, MarkRun
  <2> QED
    BY <1>1, <2>1, NoQuietRow, QuietEarns DEF QuietStep
<1>3. CASE ClearReset
  <2>0. op.todo \subseteq Tasks
    BY DEF TypeOK, OpRecord
  <2>a. ClearRows(Tasks) \/ \E t \in op.todo : ClearRows({t})
    BY Zenon, <1>3 DEF ClearReset
  <2>b. \E S \in SUBSET Tasks : ClearRows(S)
    <3>1. CASE ClearRows(Tasks)
      BY <3>1
    <3>2. ASSUME NEW t \in op.todo, ClearRows({t})
          PROVE  \E S \in SUBSET Tasks : ClearRows(S)
      <4>1. {t} \in SUBSET Tasks
        BY <2>0
      <4> QED
        BY <3>2, <4>1
    <3> QED
      BY Zenon, <2>a, <3>1, <3>2
  <2>1. PICK S \in SUBSET Tasks : ClearRows(S)
    BY <2>b
  <2>2. ASSUME NEW t \in Tasks
        PROVE  Earned(t)
    <3>1. ti[t] \in Row
      BY DEF TypeOK
    <3>2. NewAttempt(ti[t], ClearedRow(ti[t]))
      BY <3>1, NewAttempts DEF ClearedRow
    <3>3. ti'[t] = (IF t \in S THEN ClearedRow(ti[t]) ELSE ti[t])
      BY <2>1 DEF ClearRows
    <3>4. ti'[t] = ti[t] \/ ti'[t].state = "none"
      BY <3>2, <3>3 DEF NewAttempt
    <3>5. ti'[t] = ti[t] => (t \in marked => t \in marked')
      BY <2>1, <3>3 DEF ClearRows
    <3> QED
      BY <3>4, <3>5 DEF Earned
  <2> QED
    BY <1>1, <2>2
<1>4. ASSUME NEW t \in Tasks, NEW to \in {"success", "failed", "skipped"}, MarkTask(t, to)
      PROVE  EvidenceStep
  <2>1. \A u \in Tasks \ {t} : ti'[u] = ti[u] /\ (u \in marked => u \in marked')
    BY <1>4 DEF MarkTask, TypeOK
  <2>2. t \in marked' \/ (ti'[t] = ti[t] /\ marked' = marked)
    BY <1>4 DEF MarkTask, TypeOK, ApplyTransition
  <2> QED
    BY <1>1, <2>1, <2>2 DEF Earned
<1> QED
  BY <1>2, <1>3, <1>4 DEF OperatorStep

\* Whatever the step, records stay and a success has its evidence.
LEMMA EveryStepEarns ==
  ASSUME TypeOK, NoRecordYet, [Next]_vars
  PROVE  EvidenceStep
<1>1. CASE SchedulerStep
  BY <1>1, SchedulerEarns
<1>2. CASE \E t \in Tasks : WorkerDispatch(t)
  BY <1>2, WorkerEarns
<1>3. CASE PodStep
  BY <1>3, PodEarns
<1>4. CASE MaintenanceStep
  BY <1>4, MaintenanceEarns
<1>5. CASE OperatorStep
  BY <1>5, OperatorEarns
<1>6. CASE ServerCrash \/ UNCHANGED vars
  <2>1. UNCHANGED <<ti, pods, marked>>
    BY <1>6 DEF ServerCrash, vars, human
  <2> QED
    BY <2>1, NoQuietRow, QuietEarns, SamePods DEF EvidenceStep, QuietStep
<1> QED
  BY <1>1, <1>2, <1>3, <1>4, <1>5, <1>6 DEF Next

\* EvidenceInv is inductive relative to the types.
LEMMA EvidenceInductive ==
  ASSUME TypeOK, EvidenceInv, [Next]_vars
  PROVE  EvidenceInv'
BY EveryStepEarns, EvidenceKept DEF EvidenceInv, EvidenceStep

\* EvidenceInv holds along every behaviour.
LEMMA EvidenceHolds == Spec => []EvidenceInv
<1>1. Init => EvidenceInv
  <2> SUFFICES ASSUME Init PROVE EvidenceInv
    OBVIOUS
  <2>1. NoRecordYet
    BY DEF Init, NoRecordYet, UnusedPod
  <2>2. \A t \in Tasks : ti[t].state # "success"
    BY DEF Init, AbsentRow
  <2> QED
    BY <2>1, <2>2 DEF EvidenceInv, SuccessHasEvidence
<1>2. TypeOK /\ EvidenceInv /\ [Next]_vars => EvidenceInv'
  BY EvidenceInductive
<1> QED
  BY <1>1, <1>2, TypeCorrect, PTL DEF Spec

\* A row says success only when user code of that very attempt ended with success
\* or the operator said so, for any number of tasks, pods, faults and requests.
THEOREM SuccessIsEarned == Spec => []SuccessHasEvidence
<1>1. EvidenceInv => SuccessHasEvidence
  BY DEF EvidenceInv
<1> QED
  BY <1>1, EvidenceHolds, PTL

-----------------------------------------------------------------------------
(* Attempts only move forward, and the run implements the ledger of        *)
(* attempts.  Every statement moves the counters of a row in one of four   *)
(* ways (Booked), none of them back.  That the row had the attempt or the  *)
(* re-placement to spend is what BudgetInv says of the row after the       *)
(* statement, and that a success is proven is what SuccessHasEvidence says *)
(* of it.                                                                  *)

\* A row that MaterializeTasks has not made yet has used up nothing.
UnmadeRows ==
  \A t \in Tasks : ti[t].state = "absent" => ti[t].try = 0 /\ ti[t].infraAttempts = 0

\* How far the two counters of a row move.
Moves(r, s, n, p) ==
  /\ s.try = r.try + n
  /\ s.infraAttempts = r.infraAttempts + p

\* What a step may do to the counters of one row.  No step unmakes a row.
Booked(t, r, s) ==
  /\ s.state = "absent" => r.state = "absent" /\ Moves(r, s, 0, 0)
  /\ \/ Moves(r, s, 0, 0) /\ clears'[t] = clears[t]
     \/ /\ Moves(r, s, 1, 0) /\ clears'[t] = clears[t]
        /\ r.state # "success" /\ s.state # "success"
     \/ /\ Moves(r, s, 0, 1) /\ clears'[t] = clears[t]
        /\ r.state # "success" /\ s.state # "success"
     \/ /\ Moves(r, s, 1, 0) /\ clears'[t] = clears[t] + 1
        /\ s.state # "success" /\ t \notin marked'

\* A mild write books nothing.
LEMMA MildBooks ==
  ASSUME NEW t, NEW r \in Row, NEW s, Mild(r, s), clears'[t] = clears[t]
  PROVE  Booked(t, r, s)
<1>1. r.try \in Nat /\ r.infraAttempts \in Nat
  BY DEF Row
<1> QED
  BY <1>1 DEF Mild, Booked, Moves

\* The tick's resets book a retry, a re-placement, or nothing.
LEMMA ResetBooks ==
  ASSUME NEW t, NEW r \in Row, NEW snapRow, clears'[t] = clears[t]
  PROVE  Booked(t, r, ResetPlanned(snapRow, r))
<1>1. r.try \in Nat /\ r.infraAttempts \in Nat
  BY DEF Row
<1>2. Booked(t, r, r)
  BY <1>1 DEF Booked, Moves
<1>3. Booked(t, r, RedispatchRescheduledTaskInstance(r))
  <2>1. CASE r.state = "up_for_reschedule"
    <3>1. /\ RedispatchRescheduledTaskInstance(r).try = r.try
          /\ RedispatchRescheduledTaskInstance(r).infraAttempts = r.infraAttempts
          /\ RedispatchRescheduledTaskInstance(r).state = "none"
      BY <2>1 DEF RedispatchRescheduledTaskInstance, Row
    <3> QED
      BY <1>1, <3>1 DEF Booked, Moves
  <2> QED
    BY <1>2, <2>1 DEF RedispatchRescheduledTaskInstance
<1>4. Booked(t, r, ResetTaskInstanceInfraReplace(r))
  <2>1. CASE r.state = "failed"
    BY <1>1, <1>2, <2>1, InfraReplaceOK DEF Booked, Moves
  <2> QED
    BY <1>2, <2>1 DEF ResetTaskInstanceInfraReplace
<1>5. Booked(t, r, ResetTaskInstanceForRetry(r))
  <2>1. CASE r.state = "up_for_retry"
    BY <1>1, <1>2, <2>1, NewAttempts DEF Booked, Moves, NewAttempt
  <2> QED
    BY <1>2, <2>1, NewAttempts
<1> QED
  BY <1>3, <1>4, <1>5 DEF ResetPlanned

\* A clear books an attempt together with the grant that pays for it.
LEMMA ClearBooks ==
  ASSUME TypeOK, ClearReset, NEW t \in Tasks
  PROVE  Booked(t, ti[t], ti'[t])
<1>1. PICK S \in SUBSET Tasks : ClearRows(S)
  BY Zenon DEF ClearReset, TypeOK, OpRecord
<1>2. ti[t] \in Row /\ ti[t].try \in Nat /\ ti[t].infraAttempts \in Nat
  BY DEF TypeOK, Row
<1>3. NewAttempt(ti[t], ClearedRow(ti[t]))
  BY <1>2, NewAttempts DEF ClearedRow
<1>4. ti'[t] = (IF t \in S THEN ClearedRow(ti[t]) ELSE ti[t])
  BY <1>1 DEF ClearRows
<1>5. CASE t \in S /\ ClearedRow(ti[t]) # ti[t]
  <2>1. clears'[t] = clears[t] + 1 /\ t \notin marked'
    BY <1>1, <1>5 DEF ClearRows
  <2>2. /\ ti'[t].state = "none" /\ ti'[t].try = ti[t].try + 1
        /\ ti'[t].infraAttempts = ti[t].infraAttempts
    BY <1>3, <1>4, <1>5 DEF NewAttempt
  <2> QED
    BY <1>2, <2>1, <2>2 DEF Booked, Moves
<1>6. CASE ~(t \in S /\ ClearedRow(ti[t]) # ti[t])
  <2>1. clears'[t] = clears[t] /\ ti'[t] = ti[t]
    BY <1>1, <1>4, <1>6 DEF ClearRows
  <2> QED
    BY <1>2, <2>1 DEF Booked, Moves
<1> QED
  BY <1>5, <1>6

\* No step of any actor books more than one entry on a row.
LEMMA EveryStepBooks ==
  ASSUME TypeOK, UnmadeRows, [Next]_vars, NEW t \in Tasks
  PROVE  Booked(t, ti[t], ti'[t])
<1>1. ti[t] \in Row /\ ti \in [Tasks -> Row] /\ ti[t].try \in Nat /\ ti[t].infraAttempts \in Nat
  BY DEF TypeOK, Row
<1>2. CASE MildStep
  BY <1>1, <1>2, MildBooks DEF MildStep
<1>3. CASE ti'[t] = ti[t] /\ clears' = clears
  BY <1>1, <1>3 DEF Booked, Moves
<1>4. CASE MaterializeTasks
  <2>1. clears' = clears
    BY <1>4 DEF MaterializeTasks, human
  <2>2. CASE Exists(ti[t])
    BY <1>3, <1>4, <2>1, <2>2 DEF MaterializeTasks
  <2>3. CASE ~Exists(ti[t])
    <3>1. ti'[t] = CreateTaskInstance
      BY <1>4, <2>3 DEF MaterializeTasks
    <3>2. ti[t].try = 0 /\ ti[t].infraAttempts = 0 /\ ti[t].state = "absent"
      BY <2>3 DEF UnmadeRows, Exists
    <3>3. /\ CreateTaskInstance.try = 1 /\ CreateTaskInstance.infraAttempts = 0
          /\ CreateTaskInstance.state = "none"
      BY DEF CreateTaskInstance, AbsentRow
    <3> QED
      BY <2>1, <3>1, <3>2, <3>3 DEF Booked, Moves
  <2> QED
    BY <2>2, <2>3
<1>5. ASSUME NEW u \in Tasks, ResetTask(u)
      PROVE  Booked(t, ti[t], ti'[t])
  <2>1. clears' = clears
    BY <1>5 DEF ResetTask, human
  <2>2. CASE t = u
    BY <1>1, <1>5, <2>1, <2>2, ResetBooks DEF ResetTask
  <2>3. CASE t # u
    BY <1>1, <1>3, <1>5, <2>1, <2>3 DEF ResetTask
  <2> QED
    BY <2>2, <2>3
<1>6. ASSUME NEW u \in Tasks, DispatchRejected(u)
      PROVE  Booked(t, ti[t], ti'[t])
  <2>1. clears' = clears
    BY <1>6 DEF DispatchRejected, human
  <2>2. \/ ti'[t] = ti[t]
        \/ ti'[t] = RecordDispatchFailure(ti[t])
        \/ ti'[t] = FailDispatchExhausted(ti[t])
    BY Zenon, <1>1, <1>6 DEF DispatchRejected, handleDispatchFailure
  <2>3. /\ ti'[t].try = ti[t].try /\ ti'[t].infraAttempts = ti[t].infraAttempts
        /\ ti'[t].state = "absent" => ti[t].state = "absent"
    BY <1>1, <2>2, DispatchFailureOK DEF FailDispatchExhausted, Row
  <2> QED
    BY <1>1, <2>1, <2>3 DEF Booked, Moves
<1>7. CASE FlushTransitions
  <2>1. clears' = clears
    BY <1>7 DEF FlushTransitions, human
  <2>2. PICK u \in FirstPlanned(Batched) :
          ti'[t] = ti[t] \/ ti'[t] = ApplyTransition(ti[t], tick.todo[u])
    BY <1>7 DEF FlushTransitions
  <2>3. tick.todo[u] # "absent"
    BY <2>2 DEF FirstPlanned, Batched, TypeOK, TickRecord, PlanTarget, Keep
  <2>4. /\ ti'[t].try = ti[t].try /\ ti'[t].infraAttempts = ti[t].infraAttempts
        /\ ti'[t].state = "absent" => ti[t].state = "absent"
    BY <1>1, <2>2, <2>3 DEF ApplyTransition, Row
  <2> QED
    BY <1>1, <2>1, <2>4 DEF Booked, Moves
<1>8. CASE SchedulerStep
  <2>1. CASE \E ready \in SUBSET Tasks : TickSnapshot(ready)
    BY <1>3, <2>1 DEF TickSnapshot, human
  <2>2. CASE TickIdle
    BY <1>3, <2>2 DEF TickIdle, vars, human
  <2>3. CASE \/ StartRun \/ RecordQueued \/ Finalize \/ TickAbort
             \/ \E u \in Tasks : Dispatch(u) \/ DispatchBackpressure(u)
    BY <1>2, <2>3, SchedulerMild
  <2> QED
    BY <1>4, <1>5, <1>6, <1>7, <1>8, <2>1, <2>2, <2>3 DEF SchedulerStep
<1>9. CASE \E u \in Tasks : WorkerDispatch(u)
  BY <1>2, <1>9, SchedulerMild
<1>10. CASE PodStep
  BY <1>2, <1>10, PodMild
<1>11. CASE MaintenanceStep
  BY <1>2, <1>11, MaintenanceMild
<1>12. CASE OperatorStep
  BY <1>2, <1>12, OperatorMild, ClearBooks DEF OperatorStep
<1>13. CASE ServerCrash \/ UNCHANGED vars
  BY <1>3, <1>13 DEF ServerCrash, vars, human
<1> QED
  BY <1>8, <1>9, <1>10, <1>11, <1>12, <1>13 DEF Next

\* Rows not made yet have their counters at zero along every behaviour.
LEMMA UnmadeRowsHold == Spec => []UnmadeRows
<1>1. Init => UnmadeRows
  BY DEF Init, UnmadeRows, AbsentRow
<1>2. ASSUME TypeOK, UnmadeRows, [Next]_vars, NEW t \in Tasks, ti'[t].state = "absent"
      PROVE  ti'[t].try = 0 /\ ti'[t].infraAttempts = 0
  BY <1>2, EveryStepBooks DEF UnmadeRows, Booked, Moves
<1>3. TypeOK /\ UnmadeRows /\ [Next]_vars => UnmadeRows'
  BY <1>2 DEF UnmadeRows
<1> QED
  BY <1>1, <1>3, TypeCorrect, PTL DEF Spec

\* No writer, whatever it read before, takes a row back to an earlier attempt.
THEOREM AttemptsMoveForward == Spec => AttemptsNeverDecrease
<1>1. ASSUME TypeOK, UnmadeRows, [Next]_vars, NEW t \in Tasks
      PROVE  ti'[t].try >= ti[t].try /\ ti'[t].infraAttempts >= ti[t].infraAttempts
  <2>1. ti[t].try \in Nat /\ ti[t].infraAttempts \in Nat
    BY <1>1 DEF TypeOK, Row
  <2> QED
    BY <1>1, <2>1, EveryStepBooks DEF Booked, Moves
<1>2. TypeOK /\ UnmadeRows /\ [Next]_vars =>
        [\A t \in Tasks : /\ ti'[t].try >= ti[t].try
                          /\ ti'[t].infraAttempts >= ti[t].infraAttempts]_vars
  BY <1>1
<1> QED
  BY <1>2, UnmadeRowsHold, TypeCorrect, PTL DEF Spec, AttemptsNeverDecrease

\* What a step books, the row had to spend.
LEMMA BookedWithinBudget ==
  ASSUME TypeOK, TypeOK', BudgetInv', NEW t \in Tasks, Booked(t, ti[t], ti'[t])
  PROVE  \/ Ledger!Settle(t) \/ Ledger!Attempt(t) \/ Ledger!Replace(t) \/ Ledger!Clear(t)
<1>1. /\ ti[t].try \in Nat /\ ti[t].infraAttempts \in Nat /\ clears[t] \in Nat
      /\ MaxTries[t] \in Nat /\ infraMaxAttempts \in Nat
  BY BudgetNumbers
<1>2. ti'[t].try <= MaxTries[t] + clears'[t] /\ ti'[t].infraAttempts <= infraMaxAttempts
  BY DEF BudgetInv, RowBudget
<1>3. CASE Moves(ti[t], ti'[t], 0, 0) /\ clears'[t] = clears[t]
  <2>1. /\ ti'[t].try = ti[t].try + 0
        /\ ti'[t].infraAttempts = ti[t].infraAttempts + 0
        /\ clears'[t] = clears[t] + 0
    BY <1>1, <1>3 DEF Moves
  <2> QED
    BY <2>1 DEF Ledger!Settle, Ledger!Books
<1>4. CASE /\ Moves(ti[t], ti'[t], 1, 0) /\ clears'[t] = clears[t]
           /\ ti[t].state # "success" /\ ti'[t].state # "success"
  <2>1. /\ ti'[t].try = ti[t].try + 1
        /\ ti'[t].infraAttempts = ti[t].infraAttempts + 0
        /\ clears'[t] = clears[t] + 0
    BY <1>1, <1>4 DEF Moves
  <2>2. ti[t].try < MaxTries[t] + clears[t]
    BY <1>1, <1>2, <1>4, <2>1
  <2> QED
    BY Zenon, <1>4, <2>1, <2>2 DEF Ledger!Attempt, Ledger!Books
<1>5. CASE /\ Moves(ti[t], ti'[t], 0, 1) /\ clears'[t] = clears[t]
           /\ ti[t].state # "success" /\ ti'[t].state # "success"
  <2>1. /\ ti'[t].try = ti[t].try + 0
        /\ ti'[t].infraAttempts = ti[t].infraAttempts + 1
        /\ clears'[t] = clears[t] + 0
    BY <1>1, <1>5 DEF Moves
  <2>2. ti[t].infraAttempts < infraMaxAttempts
    BY <1>1, <1>2, <2>1
  <2> QED
    BY Zenon, <1>5, <2>1, <2>2 DEF Ledger!Replace, Ledger!Books
<1>6. CASE /\ Moves(ti[t], ti'[t], 1, 0) /\ clears'[t] = clears[t] + 1
           /\ ti'[t].state # "success" /\ t \notin marked'
  <2>1. /\ ti'[t].try = ti[t].try + 1
        /\ ti'[t].infraAttempts = ti[t].infraAttempts + 0
        /\ clears'[t] = clears[t] + 1
    BY <1>1, <1>6 DEF Moves
  <2> QED
    BY <1>6, <2>1 DEF Ledger!Clear, Ledger!Books
<1> QED
  BY Zenon, <1>3, <1>4, <1>5, <1>6 DEF Booked

\* No step takes a proof back.
LEMMA ProofsKept ==
  ASSUME TypeOK, NoRecordYet, [Next]_vars
  PROVE  Proven \subseteq Proven'
<1>1. RecordsKept
  BY EveryStepEarns DEF EvidenceStep
<1> QED
  BY <1>1 DEF RecordsKept, Proven

\* Every step of the run is a step of the ledger.
LEMMA EveryStepIsLedgered ==
  ASSUME TypeOK, TypeOK', BudgetInv', UnmadeRows, EvidenceInv, EvidenceInv', [Next]_vars
  PROVE  Ledger!Next
<1>1. \A t \in Tasks : \/ Ledger!Settle(t) \/ Ledger!Attempt(t)
                       \/ Ledger!Replace(t) \/ Ledger!Clear(t)
  BY EveryStepBooks, BookedWithinBudget
<1>2. Proven \subseteq Proven'
  BY ProofsKept DEF EvidenceInv
<1>3. ASSUME NEW t \in Tasks, ti'[t].state = "success", t \notin marked'
      PROVE  <<t, ti'[t].try>> \in Proven'
  BY <1>3 DEF EvidenceInv, SuccessHasEvidence, Proven
<1> QED
  BY <1>1, <1>2, <1>3 DEF Ledger!Next

\* The run implements the ledger of attempts, for every DAG, every budget and any
\* number of pods, faults and operator requests.
THEOREM RunImplementsLedger == Spec => ImplementsLedger
<1>1. Init => Ledger!Init
  BY DEF Init, Ledger!Init, AbsentRow, UnusedPod, Proven
<1>2. /\ TypeOK /\ TypeOK' /\ BudgetInv' /\ UnmadeRows /\ EvidenceInv /\ EvidenceInv'
      /\ [Next]_vars
      => [Ledger!Next]_(Ledger!ledger)
  BY EveryStepIsLedgered
<1> QED
  BY <1>1, <1>2, TypeCorrect, BudgetsHold, UnmadeRowsHold, EvidenceHolds, PTL
     DEF Spec, ImplementsLedger, Ledger!Spec
=============================================================================
