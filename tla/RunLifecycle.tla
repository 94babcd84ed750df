---------------------------- MODULE RunLifecycle ----------------------------
(***************************************************************************)
(* The life of one dag run under a single scheduler leader.                *)
(*                                                                         *)
(* Six actors write the run's rows with no transaction between them:       *)
(*   the scheduler tick    internal/scheduler/scheduler.go                 *)
(*   the dispatch workers  internal/dispatch/buffered.go                   *)
(*   the task agents       internal/agent/runner.go, through               *)
(*                         internal/agentrpc/server.go                     *)
(*   the pod reconciler    internal/executor/reconcile.go                  *)
(*   the reapers           internal/executor/*_reap.go                     *)
(*   the operator          internal/storage/repository.go (clear, mark)    *)
(* A step is one database statement, or one call to the cluster; what an   *)
(* actor read earlier and still holds in memory is in tick, queue, cand    *)
(* and op.                                                                 *)
(***************************************************************************)
EXTENDS Planner, Functions

CONSTANTS NoTask,
          Sensors,              \* tasks that may report up_for_reschedule
          dispatchMaxAttempts,
          BufferSize,           \* dispatch channel depth, 0 = synchronous
          Reapers,              \* the reapers that get to act
          MaxFaults,            \* bound on injected faults
          MaxOps                \* bound on operator requests

ASSUME LifecycleAssumption ==
  /\ NoTask \notin Tasks
  /\ Sensors \subseteq Tasks
  /\ dispatchMaxAttempts \in Nat \ {0}
  /\ BufferSize \in Nat
  /\ Reapers \subseteq {"agent_lost", "pod_lost", "dispatch_lost", "orphan"}
  /\ MaxFaults \in Nat
  /\ MaxOps \in Nat

VARIABLES
  run,     \* dag_runs.state
  ti,      \* the run's rows of task_instances
  tick,    \* what the tick holds in memory: snapshot and remaining plan
  queue,   \* queue[t]: requests for t in the dispatch channel
  pods,    \* task pods and the agent inside each
  cand,    \* the candidate the maintenance loop is reaping
  op,      \* the clear request in progress
  clears,  \* clears[t]: attempts the operator granted t by clearing it
  marked,  \* tasks whose state the operator set by hand since their last reset
  ops,     \* operator requests so far
  faults   \* injected faults so far

human == <<op, clears, marked, ops>>

vars == <<run, ti, tick, queue, pods, cand, human, faults>>

-----------------------------------------------------------------------------

DagRunState == {"queued", "running", "success", "failed"}

RunActive == run \in {"queued", "running"}
RunTerminal == run \in {"success", "failed"}

IdleTick == [pc |-> "idle", snap |-> [t \in Tasks |-> AbsentRow],
             todo |-> [t \in Tasks |-> Keep], task |-> NoTask]

NoCand == [kind |-> "none", pc |-> "idle", task |-> NoTask, try |-> 0]

NoOp == [pc |-> "idle", todo |-> {}, all |-> FALSE, onlyFailed |-> FALSE, reopen |-> FALSE]

\* st: "pending" until the agent's RUNNING report is acknowledged, "running"
\* while user code runs, "reporting" once its outcome is on the termination
\* log, "exited" once the container is terminated, "gone" once the object is
\* deleted.  out is the outcome record, "none" without one.  del is the
\* deletion timestamp.
UnusedPod == [task |-> NoTask, try |-> 0, st |-> "unused", out |-> "none",
              del |-> FALSE]

LiveSt == {"pending", "running", "reporting"}

\* TaskPodPresence for the attempt (t, try).
LivePods(t, try) ==
  {p \in Pods : pods[p].task = t /\ pods[p].try = try /\ pods[p].st \in LiveSt}

TaskPodPresence(t, try) ==
  IF LivePods(t, try) # {} THEN "live"
  ELSE IF \E p \in Pods : /\ pods[p].task = t
                          /\ pods[p].try = try
                          /\ pods[p].st = "exited"
    THEN "terminal"
  ELSE "absent"

Init ==
  /\ run = "queued"
  /\ ti = [t \in Tasks |-> AbsentRow]
  /\ tick = IdleTick
  /\ queue = [t \in Tasks |-> 0]
  /\ pods = [p \in Pods |-> UnusedPod]
  /\ cand = NoCand
  /\ op = NoOp
  /\ clears = [t \in Tasks |-> 0]
  /\ marked = {}
  /\ ops = 0
  /\ faults = 0

\* A step that needs something to go wrong.
Fault == faults < MaxFaults /\ faults' = faults + 1

NoFault == UNCHANGED faults

-----------------------------------------------------------------------------
(* The scheduler tick: Step, advance, applyPlanned.                        *)

\* ActiveRuns, then PlanRun or, for a queued run with no rows, the start
\* branch of advance.
TickSnapshot(ready) ==
  /\ tick.pc = "idle"
  /\ RunActive
  /\ tick' = IF run = "queued" /\ \A t \in Tasks : ~Exists(ti[t])
               THEN [IdleTick EXCEPT !.pc = "materialize"]
               ELSE [pc |-> "plan", snap |-> ti, todo |-> PlanRun(ti, ready),
                     task |-> NoTask]
  /\ UNCHANGED <<run, ti, queue, pods, cand, human, faults>>

\* A tick that finds no active run.
TickIdle ==
  /\ tick.pc = "idle"
  /\ RunTerminal
  /\ UNCHANGED vars

MaterializeTasks ==
  /\ tick.pc = "materialize"
  /\ ti' = [t \in Tasks |-> IF Exists(ti[t]) THEN ti[t] ELSE CreateTaskInstance]
  /\ tick' = [tick EXCEPT !.pc = "start"]
  /\ UNCHANGED <<run, queue, pods, cand, human, faults>>

StartRun ==
  /\ tick.pc = "start"
  /\ run' = "running"
  /\ tick' = IdleTick
  /\ UNCHANGED <<ti, queue, pods, cand, human, faults>>

\* The tasks whose planned transition is applied one by one, inside the loop.
PerTask == {t \in Tasks : tick.todo[t] \in {"queued", "none"}}

\* The tasks whose planned transition waits in the batch.
Batched == {t \in Tasks : tick.todo[t] \notin {"queued", "none", Keep}}

FirstPlanned(S) ==
  {t \in S : \A u \in S \ {t} : PlannedBefore(tick.snap, t, u)}

Planned(t, to) ==
  /\ tick.pc = "plan"
  /\ t \in FirstPlanned(PerTask)
  /\ tick.todo[t] = to

DonePlanned(t) == tick' = [tick EXCEPT !.pc = "plan", !.todo[t] = Keep, !.task = NoTask]

\* The none rail: which guarded reset runs is keyed on the snapshot's state.
ResetPlanned(snapRow, r) ==
  IF snapRow.state = "up_for_reschedule" THEN RedispatchRescheduledTaskInstance(r)
  ELSE IF InfraFailed(snapRow) THEN ResetTaskInstanceInfraReplace(r)
  ELSE ResetTaskInstanceForRetry(r)

ResetTask(t) ==
  /\ Planned(t, "none")
  /\ ti' = [ti EXCEPT ![t] = ResetPlanned(tick.snap[t], ti[t])]
  /\ DonePlanned(t)
  /\ UNCHANGED <<run, queue, pods, cand, human, faults>>

\* The executor creates the pod of t's current attempt under a fresh name.
CreatePod(t) ==
  \E p \in Pods :
    /\ pods[p].st = "unused"
    /\ pods' = [pods EXCEPT ![p] = [task |-> t, try |-> ti[t].try, st |-> "pending",
                                    out |-> "none", del |-> FALSE]]

QueueLength == SumFunction(queue)

\* launchQueued, first half: Dispatch returned no error.
Dispatch(t) ==
  /\ Planned(t, "queued")
  /\ \/ /\ BufferSize = 0
        /\ CreatePod(t)
        /\ UNCHANGED queue
     \/ /\ QueueLength < BufferSize
        /\ queue' = [queue EXCEPT ![t] = @ + 1]
        /\ UNCHANGED pods
  /\ tick' = [tick EXCEPT !.pc = "launch", !.task = t]
  /\ UNCHANGED <<run, ti, cand, human, faults>>

\* Mutant: the transition is not written.
RecordQueued_lost ==
  /\ tick.pc = "launch"
  /\ DonePlanned(tick.task)
  /\ UNCHANGED <<run, ti, queue, pods, cand, human, faults>>

\* launchQueued, second half: recordTransition to queued.
RecordQueued ==
  /\ tick.pc = "launch"
  /\ ti' = [ti EXCEPT ![tick.task] = ApplyTransition(@, "queued")]
  /\ DonePlanned(tick.task)
  /\ UNCHANGED <<run, queue, pods, cand, human, faults>>

\* Mutant: the rejection at hand is not counted.
handleDispatchFailure_uncounted(snapRow, r) ==
  IF snapRow.dispatchAttempts >= dispatchMaxAttempts
    THEN FailDispatchExhausted(r)
    ELSE RecordDispatchFailure(r)

\* handleDispatchFailure for a rejection, counted on the snapshot.
handleDispatchFailure(snapRow, r) ==
  IF snapRow.dispatchAttempts + 1 >= dispatchMaxAttempts
    THEN FailDispatchExhausted(r)
    ELSE RecordDispatchFailure(r)

\* The channel is full, or the apiserver refused the pod, or it accepted it
\* and the response was lost.  A rejection that cannot be recorded is only logged.
DispatchRejected(t) ==
  /\ Planned(t, "queued")
  /\ \E recorded \in BOOLEAN :
       /\ \/ /\ BufferSize > 0
             /\ QueueLength >= BufferSize
             /\ IF recorded THEN NoFault ELSE Fault
             /\ UNCHANGED pods
          \/ /\ BufferSize = 0
             /\ CreatePod(t) \/ UNCHANGED pods
             /\ Fault
       /\ ti' = [ti EXCEPT ![t] = IF recorded THEN handleDispatchFailure(tick.snap[t], @)
                                              ELSE @]
  /\ DonePlanned(t)
  /\ UNCHANGED <<run, queue, cand, human>>

\* backoffBackpressure: only next_dispatch_at is written.  A cluster with no
\* pod left to give always answers so.
DispatchBackpressure(t) ==
  /\ Planned(t, "queued")
  /\ BufferSize = 0
  /\ IF \E p \in Pods : pods[p].st = "unused" THEN Fault ELSE NoFault
  /\ DonePlanned(t)
  /\ UNCHANGED <<run, ti, queue, pods, cand, human>>

\* flushTransitions: one UPDATE per target state, in first-seen order.
FlushTransitions ==
  /\ tick.pc = "plan"
  /\ PerTask = {}
  /\ \E t \in FirstPlanned(Batched) :
       LET to == tick.todo[t]
           group == {u \in Tasks : tick.todo[u] = to}
       IN /\ ti' = [u \in Tasks |-> IF u \in group THEN ApplyTransition(ti[u], to)
                                                   ELSE ti[u]]
          /\ tick' = [tick EXCEPT !.todo = [u \in Tasks |-> IF u \in group THEN Keep
                                                            ELSE tick.todo[u]]]
  /\ UNCHANGED <<run, queue, pods, cand, human, faults>>

\* FinalizeRun on the snapshot, then SetRunState.
Finalize ==
  /\ tick.pc = "plan"
  /\ PerTask \cup Batched = {}
  /\ LET verdict == FinalizeRun(tick.snap)
     IN run' = IF verdict = Keep THEN run ELSE verdict
  /\ tick' = IdleTick
  /\ UNCHANGED <<ti, queue, pods, cand, human, faults>>

\* A store error ends the advance of the run; advanceSafely also recovers a
\* panic here.
TickAbort ==
  /\ tick.pc # "idle"
  /\ Fault
  /\ tick' = IdleTick
  /\ UNCHANGED <<run, ti, queue, pods, cand, human>>

SchedulerStep ==
  \/ \E ready \in SUBSET Tasks : TickSnapshot(ready)
  \/ TickIdle \/ MaterializeTasks \/ StartRun
  \/ \E t \in Tasks : ResetTask(t) \/ Dispatch(t) \/ DispatchRejected(t)
                        \/ DispatchBackpressure(t)
  \/ RecordQueued \/ FlushTransitions \/ Finalize \/ TickAbort

-----------------------------------------------------------------------------
(* The buffered dispatcher's workers (BufferSize > 0).                     *)

\* dispatchOne: the inner dispatcher reads the row's current attempt.  A
\* failure, or a panic, goes to the sink whatever the apiserver did.
WorkerDispatch(t) ==
  /\ queue[t] > 0
  /\ queue' = [queue EXCEPT ![t] = @ - 1]
  /\ \/ CreatePod(t) /\ NoFault /\ UNCHANGED ti
     \/ /\ CreatePod(t) \/ UNCHANGED pods
        /\ Fault
        /\ ti' = [ti EXCEPT ![t] = MarkTaskDispatchFailed(@)]
  /\ UNCHANGED <<run, tick, cand, human>>

-----------------------------------------------------------------------------
(* The agent in a pod: runOneAttempt, execute, heartbeat, reportRequest.   *)

SetPod(p, st) == pods' = [pods EXCEPT ![p].st = st]

\* The agent sees the reply, or the reply is lost and it will retry.
Acked(p, st) == \/ SetPod(p, st) /\ NoFault
                \/ UNCHANGED pods /\ Fault

ReportRunning(p) ==
  LET t == pods[p].task IN
  /\ pods[p].st = "pending"
  /\ Acked(p, IF ReportApplies(ti[t], pods[p].try) THEN "running" ELSE "exited")
  /\ ti' = [ti EXCEPT ![t] = ReportTaskResult(@, pods[p].try, "running")]
  /\ UNCHANGED <<run, tick, queue, cand, human>>

\* User code ends, or its environment cannot be built: the outcome record is
\* written before the report is attempted.
TaskEnds(p, out) ==
  /\ \/ pods[p].st = "running" /\ (out = "reschedule" => pods[p].task \in Sensors)
     \/ pods[p].st = "pending" /\ out = "failed"
  /\ pods' = [pods EXCEPT ![p].st = "reporting", ![p].out = out]
  /\ UNCHANGED <<run, ti, tick, queue, cand, human, faults>>

\* A heartbeat that no longer matches the row makes the agent kill the task.
Heartbeat(p) ==
  LET t == pods[p].task IN
  /\ pods[p].st = "running"
  /\ ti' = [ti EXCEPT ![t] = RecordTaskHeartbeat(@, pods[p].try, p)]
  /\ pods' = IF HeartbeatApplies(ti[t], pods[p].try) THEN pods
             ELSE [pods EXCEPT ![p].st = "reporting", ![p].out = "failed"]
  /\ UNCHANGED <<run, tick, queue, cand, human, faults>>

\* Mutant: a reschedule takes the path of the other results.
ReportState_unmapped(r, pod) == ReportTaskResult(r, pod.try, pod.out)

\* What the server writes for the outcome in p's report.
ReportState(r, pod) ==
  IF pod.out = "reschedule" THEN RescheduleTaskInstance(r)
                            ELSE ReportTaskResult(r, pod.try, pod.out)

ReportOutcome(p) ==
  LET t == pods[p].task IN
  /\ pods[p].st = "reporting"
  /\ ti' = [ti EXCEPT ![t] = ReportState(@, pods[p])]
  /\ Acked(p, "exited")
  /\ UNCHANGED <<run, tick, queue, cand, human>>

\* The container is killed, or the agent gives up before or during a report.
PodDies(p) ==
  /\ pods[p].st \in LiveSt
  /\ SetPod(p, "exited")
  /\ Fault
  /\ UNCHANGED <<run, ti, tick, queue, cand, human>>

\* The pod object disappears: node loss, or a deletion by someone else.
PodVanishes(p) ==
  /\ pods[p].st \in LiveSt \cup {"exited"}
  /\ SetPod(p, "gone")
  /\ Fault
  /\ UNCHANGED <<run, ti, tick, queue, cand, human>>

\* The kubelet stops a pod being deleted: SIGTERM makes a running agent kill
\* the task and record the failure, its report is cancelled.
PodStops(p) ==
  /\ pods[p].del
  /\ pods[p].st \in LiveSt
  /\ pods' = [pods EXCEPT ![p].st = "exited",
                          ![p].out = IF pods[p].st = "running" THEN "failed" ELSE @]
  /\ UNCHANGED <<run, ti, tick, queue, cand, human, faults>>

PodRemoved(p) ==
  /\ pods[p].del
  /\ pods[p].st = "exited"
  /\ SetPod(p, "gone")
  /\ UNCHANGED <<run, ti, tick, queue, cand, human, faults>>

PodStep ==
  \E p \in Pods :
    \/ ReportRunning(p) \/ Heartbeat(p) \/ ReportOutcome(p)
    \/ \E out \in {"success", "failed", "reschedule"} : TaskEnds(p, out)
    \/ PodDies(p) \/ PodVanishes(p) \/ PodStops(p) \/ PodRemoved(p)

-----------------------------------------------------------------------------
(* The pod reconciler.  One loop runs its sweep and then the reapers, so it *)
(* settles no pod while a reaper is on a candidate.                        *)

\* Mutant: a pod that ended without a record is taken for a success.
classifyPod_trusting(pod) ==
  CASE pod.out = "failed"     -> "failed"
    [] pod.out = "reschedule" -> "up_for_reschedule"
    [] OTHER                  -> "success"

\* The outcome record decides, and the failed phase without one.
classifyPod(pod) ==
  CASE pod.out = "success"    -> "success"
    [] pod.out = "reschedule" -> "up_for_reschedule"
    [] OTHER                  -> "failed"

\* settlePod and, for a reschedule record or past the grace period, collect;
\* a failed delete is only logged.
Reconcile(p) ==
  LET t == pods[p].task IN
  /\ cand = NoCand
  /\ pods[p].st = "exited"
  /\ ti' = [ti EXCEPT ![t] = SettleIfActive(@, pods[p].try, classifyPod(pods[p]))]
  /\ \/ SetPod(p, "gone") /\ NoFault
     \/ pods[p].out # "reschedule" /\ UNCHANGED pods /\ NoFault
     \/ pods[p].out = "reschedule" /\ UNCHANGED pods /\ Fault
  /\ UNCHANGED <<run, tick, queue, cand, human>>

\* A container that waited, when the sweep listed its pod, for a reason taken to be
\* unrecoverable; it may have come up since.
ReconcileStuck(p) ==
  LET t == pods[p].task IN
  /\ cand = NoCand
  /\ pods[p].st \in LiveSt
  /\ Fault
  /\ ti' = [ti EXCEPT ![t] = SettleIfActive(@, pods[p].try, "failed")]
  /\ pods' \in {pods, [pods EXCEPT ![p].del = TRUE]}
  /\ UNCHANGED <<run, tick, queue, cand, human>>

-----------------------------------------------------------------------------
(* The reapers, run one after the other by the maintenance loop: a list    *)
(* query, a look at the pods, a guarded mark, a teardown.                  *)

ListCandidate(kind, t) ==
  /\ kind \in Reapers
  /\ cand = NoCand
  /\ cand' = [kind |-> kind, pc |-> IF kind = "agent_lost" THEN "mark" ELSE "look",
              task |-> t, try |-> ti[t].try]
  /\ UNCHANGED <<run, ti, tick, queue, pods, human, faults>>

\* A running row whose last_heartbeat_at is older than the threshold.
ListAgentLost(t) ==
  /\ ti[t].state = "running"
  /\ ti[t].beat # NoPod
  /\ ListCandidate("agent_lost", t)

\* Mutant: only rows that have had a heartbeat are listed.
ListPodLost_beating(t) ==
  /\ ti[t].state = "running"
  /\ ti[t].beat # NoPod
  /\ ListCandidate("pod_lost", t)

\* A row running for longer than the grace period.
ListPodLost(t) ==
  /\ ti[t].state = "running"
  /\ ListCandidate("pod_lost", t)

\* A row queued for longer than the threshold.
ListDispatchLost(t) ==
  /\ ti[t].state = "queued"
  /\ ListCandidate("dispatch_lost", t)

\* The pod-lost reaper goes on only without any pod of the attempt, the
\* dispatch-lost reaper without a live one.
LookAtPods ==
  /\ cand.pc = "look"
  /\ LET seen == TaskPodPresence(cand.task, cand.try)
     IN cand' = IF seen = "absent" \/ (seen = "terminal" /\ cand.kind = "dispatch_lost")
                  THEN [cand EXCEPT !.pc = "mark"]
                  ELSE NoCand
  /\ UNCHANGED <<run, ti, tick, queue, pods, human, faults>>

\* MarkTaskAgentLost and MarkTaskPodLost say whether they matched a row and
\* stop when they did not; MarkTaskDispatchLost does not say.
MarkCandidate ==
  /\ cand.pc = "mark"
  /\ cand.kind # "orphan"
  /\ ti' = [ti EXCEPT ![cand.task] = IF cand.kind = "dispatch_lost"
                                       THEN MarkTaskDispatchLost(@)
                                       ELSE MarkTaskLost(@)]
  /\ cand' = IF cand.kind = "dispatch_lost" \/ ti[cand.task].state = "running"
               THEN [cand EXCEPT !.pc = "teardown"]
               ELSE NoCand
  /\ UNCHANGED <<run, tick, queue, pods, human, faults>>

\* ListOrphanCandidates: running, no task active, quiet past the threshold.
ListOrphan ==
  /\ "orphan" \in Reapers
  /\ cand = NoCand
  /\ run = "running"
  /\ \A t \in Tasks : ti[t].state \notin ActiveStates
  /\ cand' = [NoCand EXCEPT !.kind = "orphan", !.pc = "mark"]
  /\ UNCHANGED <<run, ti, tick, queue, pods, human, faults>>

\* One transaction, a no-op unless the run is still running; the caller
\* cannot tell.
ReapRun ==
  /\ cand.kind = "orphan"
  /\ cand.pc = "mark"
  /\ IF run = "running"
       THEN /\ run' = "failed"
            /\ ti' = [t \in Tasks |-> MarkRunOrphanedTaskInstance(ti[t])]
       ELSE UNCHANGED <<run, ti>>
  /\ cand' = [cand EXCEPT !.pc = "teardown"]
  /\ UNCHANGED <<tick, queue, pods, human, faults>>

\* DeleteTaskPod, pinned to the candidate's attempt, or DeleteRunPods.
\* Terminal pods are skipped; a failed delete is only logged.
DeletePods ==
  /\ cand.pc = "teardown"
  /\ \/ /\ pods' = [p \in Pods |->
                      IF /\ pods[p].st \in LiveSt
                         /\ \/ cand.kind = "orphan"
                            \/ pods[p].task = cand.task /\ pods[p].try = cand.try
                        THEN [pods[p] EXCEPT !.del = TRUE] ELSE pods[p]]
        /\ NoFault
     \/ UNCHANGED pods /\ Fault
  /\ cand' = NoCand
  /\ UNCHANGED <<run, ti, tick, queue, human>>

MaintenanceStep ==
  \/ \E p \in Pods : Reconcile(p) \/ ReconcileStuck(p)
  \/ \E t \in Tasks : ListAgentLost(t) \/ ListPodLost(t) \/ ListDispatchLost(t)
  \/ LookAtPods \/ MarkCandidate \/ ListOrphan \/ ReapRun \/ DeletePods

-----------------------------------------------------------------------------
(* The operator: clear and mark, through the API.                          *)

\* The request: some tasks, or with none named every failed task of the run; with
\* none named and only_failed off nothing is reset.
ClearRequest(S, onlyFailed, reopen) ==
  /\ op = NoOp
  /\ ops < MaxOps
  /\ op' = [pc |-> IF S = {} /\ ~onlyFailed THEN "reopen" ELSE "reset", todo |-> S,
            all |-> S = {}, onlyFailed |-> onlyFailed, reopen |-> reopen]
  /\ ops' = ops + 1
  /\ UNCHANGED <<run, ti, tick, queue, pods, cand, clears, marked, faults>>

ClearedRow(r) ==
  IF op.onlyFailed THEN ResetFailedTaskInstance(r) ELSE ResetTaskInstanceToNone(r)

\* The rows of S are reset in one statement.
ClearRows(S) ==
  LET reset == {t \in S : ClearedRow(ti[t]) # ti[t]} IN
  /\ ti' = [t \in Tasks |-> IF t \in S THEN ClearedRow(ti[t]) ELSE ti[t]]
  /\ clears' = [t \in Tasks |-> IF t \in reset THEN clears[t] + 1 ELSE clears[t]]
  /\ marked' = marked \ reset

\* resetTaskInstances: one statement per named task, or one for all.
ClearReset ==
  /\ op.pc = "reset"
  /\ \/ /\ op.all
        /\ ClearRows(Tasks)
        /\ op' = [op EXCEPT !.pc = "reopen"]
     \/ \E t \in op.todo :
          /\ ClearRows({t})
          /\ op' = [op EXCEPT !.todo = @ \ {t},
                              !.pc = IF op.todo = {t} THEN "reopen" ELSE "reset"]
  /\ UNCHANGED <<run, tick, queue, pods, cand, ops, faults>>

\* ReopenDagRunKeepingVersion, unless the request says not to.
ClearReopen ==
  /\ op.pc = "reopen"
  /\ run' = IF op.reopen THEN "queued" ELSE run
  /\ op' = NoOp
  /\ UNCHANGED <<ti, tick, queue, pods, cand, clears, marked, ops, faults>>

\* A store error, or the server dying, ends the request half way.
ClearAbort ==
  /\ op # NoOp
  /\ Fault
  /\ op' = NoOp
  /\ UNCHANGED <<run, ti, tick, queue, pods, cand, clears, marked, ops>>

\* SetTaskInstanceState.
MarkTask(t, to) ==
  /\ ops < MaxOps
  /\ ops' = ops + 1
  /\ ti' = [ti EXCEPT ![t] = ApplyTransition(@, to)]
  /\ marked' = IF Exists(ti[t]) THEN marked \cup {t} ELSE marked
  /\ UNCHANGED <<run, tick, queue, pods, cand, op, clears, faults>>

\* SetDagRunState.
MarkRun(to) ==
  /\ ops < MaxOps
  /\ ops' = ops + 1
  /\ run' = to
  /\ UNCHANGED <<ti, tick, queue, pods, cand, op, clears, marked, faults>>

OperatorStep ==
  \/ \E S \in SUBSET Tasks, onlyFailed, reopen \in BOOLEAN :
       ClearRequest(S, onlyFailed, reopen)
  \/ ClearReset \/ ClearReopen \/ ClearAbort
  \/ \E t \in Tasks, to \in {"success", "failed", "skipped"} : MarkTask(t, to)
  \/ \E to \in DagRunState : MarkRun(to)

-----------------------------------------------------------------------------

\* The server process dies: everything held in memory is lost.
ServerCrash ==
  /\ Fault
  /\ tick' = IdleTick
  /\ queue' = [t \in Tasks |-> 0]
  /\ cand' = NoCand
  /\ op' = NoOp
  /\ UNCHANGED <<run, ti, pods, clears, marked, ops>>

Next ==
  \/ SchedulerStep
  \/ \E t \in Tasks : WorkerDispatch(t)
  \/ PodStep
  \/ MaintenanceStep
  \/ OperatorStep
  \/ ServerCrash

Spec == Init /\ [][Next]_vars

\* A tick that took a snapshot goes on to its end.
TickGoesOn ==
  \/ MaterializeTasks \/ StartRun
  \/ \E t \in Tasks : ResetTask(t) \/ Dispatch(t) \/ DispatchRejected(t)
                        \/ DispatchBackpressure(t)
  \/ RecordQueued \/ FlushTransitions \/ Finalize

\* The scheduler loop ticks for ever and the delays it gates on are finite, so
\* again and again a snapshot finds them all elapsed.  The maintenance loop
\* comes round for ever too.  User code ends, at the latest at its execution
\* timeout.  No fairness on faults, heartbeats, the agent-lost and orphan
\* reapers, or the operator.
Fairness ==
  /\ SF_vars(TickSnapshot(Tasks))
  /\ WF_vars(TickGoesOn)
  /\ \A t \in Tasks : /\ WF_vars(WorkerDispatch(t))
                      /\ SF_vars(ListPodLost(t))
                      /\ SF_vars(ListDispatchLost(t))
  /\ \A p \in Pods : /\ WF_vars(ReportRunning(p))
                     /\ WF_vars(\E out \in {"success", "failed"} : TaskEnds(p, out))
                     /\ WF_vars(ReportOutcome(p))
                     /\ WF_vars(PodStops(p))
                     /\ SF_vars(Reconcile(p))
  /\ WF_vars(LookAtPods) /\ WF_vars(MarkCandidate)
  /\ WF_vars(ReapRun) /\ WF_vars(DeletePods)

FairSpec == Spec /\ Fairness

-----------------------------------------------------------------------------

TickRecord ==
  [pc: {"idle", "materialize", "start", "plan", "launch"},
   snap: [Tasks -> Row], todo: [Tasks -> PlanTarget], task: Tasks \cup {NoTask}]

PodRecord ==
  [task: Tasks \cup {NoTask}, try: Nat, st: LiveSt \cup {"unused", "exited", "gone"},
   out: {"none", "success", "failed", "reschedule"}, del: BOOLEAN]

CandRecord ==
  [kind: {"none", "agent_lost", "pod_lost", "dispatch_lost", "orphan"},
   pc: {"idle", "look", "mark", "teardown"}, task: Tasks \cup {NoTask}, try: Nat]

OpRecord ==
  [pc: {"idle", "reset", "reopen"}, todo: SUBSET Tasks, all: BOOLEAN,
   onlyFailed: BOOLEAN, reopen: BOOLEAN]

\* Every variable holds a value of its type: the rows and run states the
\* schema admits, and what each actor keeps in memory between two writes.
TypeOK ==
  /\ run \in DagRunState
  /\ ti \in [Tasks -> Row]
  /\ tick \in TickRecord
  /\ queue \in [Tasks -> Nat]
  /\ pods \in [Pods -> PodRecord]
  /\ cand \in CandRecord
  /\ op \in OpRecord
  /\ clears \in [Tasks -> Nat]
  /\ marked \subseteq Tasks
  /\ ops \in 0..MaxOps
  /\ faults \in 0..MaxFaults

\* However ticks, reports, reapers, clears, crashes and failovers interleave, a
\* task never gets more attempts than its retries allow plus one for every time
\* the operator cleared it (plan.go retriable, ResetForRetry).
RetryBudget == \A t \in Tasks : ti[t].try <= MaxTries[t] + clears[t]

\* The re-place budget is never overdrawn: infra_attempts stays within
\* infraMaxAttempts although the planner decides on a snapshot and the reset
\* only re-checks that the row is still an infra failure (plan.go
\* infraReplaceable, ResetForInfraReplace).
InfraBudget == \A t \in Tasks : ti[t].infraAttempts <= infraMaxAttempts

\* dispatch_attempts never reaches dispatchMaxAttempts on a row: the rejection
\* that would take it there fails the task instead (handleDispatchFailure).
DispatchBudget == \A t \in Tasks : ti[t].dispatchAttempts < dispatchMaxAttempts

\* A row says success only when user code of that very attempt ended with
\* success, or the operator said so: no race of reports, reconciler, reapers
\* and resets turns anything else into a success.
SuccessHasEvidence ==
  \A t \in Tasks : ti[t].state = "success" /\ t \notin marked =>
    \E p \in Pods : /\ pods[p].task = t
                    /\ pods[p].try = ti[t].try
                    /\ pods[p].out = "success"

\* t has been started: its row says so, or a pod or a request for it exists.
Started(t) ==
  \/ ti[t].state \notin {"absent", "none", "skipped", "upstream_failed"}
  \/ queue[t] > 0
  \/ \E p \in Pods : pods[p].task = t

RowStates == [t \in Tasks |-> ti[t].state]

\* The scheduler will not bring u back: only the operator changes its row.
Settled(u) == IsTerminal(ti[u].state) /\ ~Recoverable(u, ti[u])

\* Without operator requests, a task that has been started has a trigger rule
\* that the settled states of its upstreams satisfy, and they stay settled:
\* work never runs on the strength of an upstream that is later re-run
\* (decideStart on the effective states).
StartsOnSettledUpstreams ==
  ops = 0 => \A t \in Tasks : Started(t) =>
    /\ \A u \in DependsOn[t] : Settled(u)
    /\ EvaluateTriggerRule(RuleOf[t], DependsOn[t], RowStates) = "schedule"

\* Without operator requests, a task is condemned to upstream_failed or skipped
\* only by upstreams that are settled for good: whatever the others come to, its
\* trigger rule never lets it start.  A skip may turn out to be an upstream failure,
\* never the other way round (the comment on PlanRun, plan.go lines 24-26).
CondemnedBySettledUpstreams ==
  ops = 0 => \A t \in Tasks : ti[t].state \in {"upstream_failed", "skipped"} =>
    \A st \in [DependsOn[t] -> TaskState] :
      (\A u \in DependsOn[t] : Settled(u) => st[u] = ti[u].state) =>
        EvaluateTriggerRule(RuleOf[t], DependsOn[t], st)
          \in (IF ti[t].state = "skipped" THEN {"skip", "upstream_failed"}
                                         ELSE {"upstream_failed"})

\* Without operator requests a run that says success has nothing left to do and
\* nothing failed: every task ended in success or was skipped (FinalizeRun on a
\* snapshot that may be stale when SetRunState lands).
SuccessfulRunIsComplete ==
  ops = 0 /\ run = "success" =>
    \A t \in Tasks : ti[t].state \in {"success", "skipped"}

\* Without faults and operator requests, an attempt of a task that is no sensor and
\* was never re-placed is launched at most once: neither the double write around a
\* dispatch nor the reset rails give it a second pod (launchQueued, the guarded
\* resets).
OnePodPerAttempt ==
  faults = 0 /\ ops = 0 => \A p, q \in Pods :
    /\ p # q
    /\ pods[p].task \in Tasks \ Sensors
    /\ pods[p].task = pods[q].task
    /\ pods[p].try = pods[q].try
    => ti[pods[p].task].infraAttempts > 0

\* t holds a slot: its row says so, or a request or a live pod for it exists.
HoldsSlot(t) ==
  \/ ti[t].state \in {"queued", "running"}
  \/ queue[t] > 0
  \/ \E p \in Pods : pods[p].task = t /\ pods[p].st \in LiveSt

\* Without faults, operator requests, sensors and infra failures, at most
\* max_active_tasks tasks hold a slot: the headroom that PlanRun computes on a
\* snapshot is still there when each dispatch of the tick lands (admissionHeadroom).
WithinMaxActiveTasks ==
  /\ MaxActiveTasks > 0
  /\ faults = 0 /\ ops = 0 /\ Sensors = {}
  /\ \A t \in Tasks : ~ti[t].infra /\ ti[t].infraAttempts = 0
  => Cardinality({t \in Tasks : HoldsSlot(t)}) <= MaxActiveTasks

\* try_number and infra_attempts only grow: no writer rolls a row back to an
\* earlier attempt, whatever it read before.
AttemptsNeverDecrease ==
  [][\A t \in Tasks : /\ ti'[t].try >= ti[t].try
                      /\ ti'[t].infraAttempts >= ti[t].infraAttempts]_vars

\* Without operator requests every run ends and stays ended, whatever single
\* step is lost: an aborted tick, a crashed server, a dead or vanished pod, a
\* lost reply.  Ticks, reports, reconciler and reapers between them leave no row
\* that nobody will move.
EveryRunEnds == <>[]RunTerminal
=============================================================================
