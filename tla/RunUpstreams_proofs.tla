------------------------ MODULE RunUpstreams_proofs -------------------------
(***************************************************************************)
(* Tasks start, are condemned, and runs succeed, only on upstreams that are *)
(* settled for good: the proofs of StartsOnSettledUpstreams,               *)
(* CondemnedBySettledUpstreams and SuccessfulRunIsComplete.                *)
(*                                                                         *)
(* The scheduler decides on a snapshot and writes rows that have moved on   *)
(* since, and ApplyTransition does not look at the row it overwrites.  The  *)
(* argument is that a row which is terminal, not recoverable and not in the *)
(* plan of the tick (Firm) is out of everybody's reach: whatever was decided*)
(* on firm rows stays decided.                                             *)
(***************************************************************************)
EXTENDS RunBudget_proofs

\* u is settled, and the tick does not mean to write its row.
Firm(u) == Settled(u) /\ tick.todo[u] = Keep

\* The upstreams of t are firm and let it start.
MayStart(t) ==
  /\ \A u \in DependsOn[t] : Firm(u)
  /\ EvaluateTriggerRule(RuleOf[t], DependsOn[t], RowStates) = "schedule"

\* What the rule of a task condemned to state s may still come to.
Verdicts(s) == IF s = "skipped" THEN {"skip", "upstream_failed"} ELSE {"upstream_failed"}

\* The firm upstreams of t alone condemn it to s.
Condemned(t, s) ==
  \A st \in [DependsOn[t] -> TaskState] :
    (\A u \in DependsOn[t] : Firm(u) => st[u] = ti[u].state) =>
      EvaluateTriggerRule(RuleOf[t], DependsOn[t], st) \in Verdicts(s)

\* Plans that only a task allowed to start gets.
StartPlans == {"scheduled", "queued", "none", "up_for_retry"}

\* A settled row of the snapshot is settled still, and the same.
SnapshotHolds(t) ==
  /\ tick.pc \in {"plan", "launch"}
  /\ IsTerminal(tick.snap[t].state)
  /\ ~Recoverable(t, tick.snap[t])
  => Firm(t) /\ ti[t] = tick.snap[t]

\* What is decided of t is decided on firm rows.
Decided(t) ==
  /\ Started(t) \/ tick.todo[t] \in StartPlans => MayStart(t)
  /\ \A s \in Doomed : ti[t].state = s \/ tick.todo[t] = s => Condemned(t, s)
  /\ SnapshotHolds(t)
  /\ run = "success" => Firm(t) /\ ti[t].state \in {"success", "skipped"}

LaunchPlanned ==
  tick.pc = "launch" => tick.task \in Tasks /\ tick.todo[tick.task] = "queued"

UpstreamInv ==
  ops = 0 => op = NoOp /\ LaunchPlanned /\ \A t \in Tasks : Decided(t)

-----------------------------------------------------------------------------
(* Trigger rules.                                                          *)

\* A trigger rule reads the states of the upstreams and nothing else.
LEMMA RuleReadsUpstreams ==
  ASSUME NEW rule, NEW ups, NEW st1, NEW st2, \A u \in ups : st1[u] = st2[u]
  PROVE  EvaluateTriggerRule(rule, ups, st1) = EvaluateTriggerRule(rule, ups, st2)
<1>1. /\ \A s : AnyUpstream(ups, st1, s) <=> AnyUpstream(ups, st2, s)
      /\ AnyActive(ups, st1) <=> AnyActive(ups, st2)
      /\ (\A u \in ups : st1[u] = "failed") <=> (\A u \in ups : st2[u] = "failed")
  BY DEF AnyUpstream, AnyActive
<1> QED
  BY <1>1 DEF EvaluateTriggerRule, evalAllSuccess, evalAllFailed, evalAllDone, evalOneOf

\* No rule starts a task before every upstream has ended.
LEMMA ScheduleNeedsEnded ==
  ASSUME NEW rule, NEW ups, NEW st, EvaluateTriggerRule(rule, ups, st) = "schedule"
  PROVE  \A u \in ups : IsTerminal(st[u])
<1>1. CASE ups = {}
  BY <1>1
<1>2. CASE ~AnyActive(ups, st)
  BY <1>2 DEF AnyActive
<1>3. CASE ups # {} /\ AnyActive(ups, st)
  BY <1>3 DEF EvaluateTriggerRule, evalAllSuccess, evalAllFailed, evalAllDone, evalOneOf
<1> QED
  BY <1>1, <1>2, <1>3

\* What the ended upstreams condemn a task to stands whatever the others come to.
LEMMA VerdictStands ==
  ASSUME NEW rule \in TriggerRule, NEW ups, NEW eff, NEW st,
         \A u \in ups : IsTerminal(eff[u]) => st[u] = eff[u]
  PROVE  /\ EvaluateTriggerRule(rule, ups, eff) = "upstream_failed" =>
              EvaluateTriggerRule(rule, ups, st) = "upstream_failed"
         /\ EvaluateTriggerRule(rule, ups, eff) = "skip" =>
              EvaluateTriggerRule(rule, ups, st) \in {"skip", "upstream_failed"}
<1>1. \A s \in TerminalStates : AnyUpstream(ups, eff, s) => AnyUpstream(ups, st, s)
  BY DEF AnyUpstream, IsTerminal
<1>2. {"failed", "skipped", "upstream_failed"} \subseteq TerminalStates
  BY DEF TerminalStates
<1>3. CASE ups = {}
  BY <1>3 DEF EvaluateTriggerRule
<1>4. CASE ~AnyActive(ups, eff)
  <2>1. \A u \in ups : eff[u] = st[u]
    BY <1>4 DEF AnyActive
  <2> QED
    BY <2>1, RuleReadsUpstreams
<1>5. CASE ups # {} /\ AnyActive(ups, eff)
  <2>1. CASE rule # "all_done" /\ AnyUpstream(ups, eff, "upstream_failed")
    BY <1>1, <1>2, <1>5, <2>1 DEF EvaluateTriggerRule
  <2>2. CASE ~(rule # "all_done" /\ AnyUpstream(ups, eff, "upstream_failed"))
    <3>1. CASE rule = "all_success"
      BY <1>1, <1>2, <1>5, <2>2, <3>1 DEF EvaluateTriggerRule, evalAllSuccess
    <3>2. CASE rule # "all_success"
      BY <1>5, <2>2, <3>2
         DEF EvaluateTriggerRule, evalAllFailed, evalAllDone, evalOneOf, TriggerRule
    <3> QED
      BY <3>1, <3>2
  <2> QED
    BY <2>1, <2>2
<1> QED
  BY <1>3, <1>4, <1>5

-----------------------------------------------------------------------------
(* What a plan made on a snapshot says of it.                              *)

\* Downstream planning sees a row as ended only when it is settled.
LEMMA EndedIsSettled ==
  ASSUME NEW snap, NEW ready, NEW u \in Tasks, IsTerminal(effective(snap, ready)[u])
  PROVE  /\ IsTerminal(snap[u].state)
         /\ ~Recoverable(u, snap[u])
         /\ effective(snap, ready)[u] = snap[u].state
BY DEF effective, IsTerminal, TerminalStates

\* A settled row gets no transition.
LEMMA SettledIsKept ==
  ASSUME NEW snap, NEW ready, NEW u \in Tasks,
         IsTerminal(snap[u].state), ~Recoverable(u, snap[u])
  PROVE  PlanRun(snap, ready)[u] = Keep
<1>1. snap[u].state = "failed" => planRetryTransition(u, snap[u], ready) = Keep
  BY DEF planRetryTransition
<1>2. snap[u].state # "failed" => ~OnRetryRail(snap[u])
  BY DEF OnRetryRail, Parked, IsTerminal, TerminalStates
<1> QED
  BY <1>1, <1>2 DEF PlanRun, OnRetryRail, IsTerminal, TerminalStates

\* A row that has not been started gets a transition from its trigger rule, and
\* only such a row does.
LEMMA PlanOfRow ==
  ASSUME NEW snap, NEW ready, NEW t \in Tasks
  PROVE  LET plan == PlanRun(snap, ready)[t] IN
         /\ snap[t].state = "none" => plan = decideStart(t, effective(snap, ready))
         /\ plan \in StartPlans /\ snap[t].state # "none" =>
              snap[t].state \notin {"absent", "none", "skipped", "upstream_failed"}
         /\ plan \in Doomed => snap[t].state = "none"
<1> DEFINE r == snap[t]
           plan == PlanRun(snap, ready)[t]
<1>1. CASE OnRetryRail(r)
  <2>1. plan = planRetryTransition(t, r, ready)
    BY <1>1 DEF PlanRun, OnRetryRail, Parked
  <2>2. plan \in {"up_for_retry", "none", Keep}
    BY <2>1 DEF planRetryTransition
  <2> QED
    BY <1>1, <2>2 DEF OnRetryRail, Parked, Doomed, Keep
<1>2. CASE ~OnRetryRail(r)
  BY Zenon, <1>2 DEF PlanRun, OnRetryRail, Doomed, StartPlans, Keep, Parked
<1> QED
  BY Zenon, <1>1, <1>2

-----------------------------------------------------------------------------
(* What a step of any actor but the operator may do.                       *)

\* Nobody but the tick writes a row that has ended, and the tick only one it has
\* a plan for.
RowStep(t) ==
  \/ ti'[t] = ti[t]
  \/ ti[t].state = "absent" /\ ti'[t].state = "none"
  \/ Started(t) /\ ~IsTerminal(ti[t].state) /\ ti'[t].state \notin Doomed
  \/ tick.todo[t] \in StartPlans /\ ti'[t].state \notin Doomed
  \/ tick.todo[t] \in Doomed /\ ti'[t].state = tick.todo[t]

\* A request or a pod for t is new only when the tick meant to launch t.
WorkStep(t) ==
  queue'[t] > 0 \/ (\E p \in Pods : pods'[p].task = t) =>
    Started(t) \/ tick.todo[t] = "queued"

\* A tick drops entries of its plan, or makes a new one on a new snapshot.
TickStep ==
  \/ \E ready \in SUBSET Tasks : TickSnapshot(ready)
  \/ /\ \A t \in Tasks : tick'.todo[t] \in {tick.todo[t], Keep}
     /\ tick'.pc \in {"plan", "launch"} =>
          tick.pc \in {"plan", "launch"} /\ tick'.snap = tick.snap
     /\ tick'.pc = "launch" => tick'.task \in Tasks /\ tick'.todo[tick'.task] = "queued"

\* A run turns to success only by FinalizeRun.
RunStep ==
  run' = "success" => \/ run = "success"
                      \/ tick.pc = "plan" /\ FinalizeRun(tick.snap) = "success"

UpstreamStep ==
  /\ \A t \in Tasks : RowStep(t) /\ WorkStep(t)
  /\ TickStep
  /\ RunStep
  /\ op' \in {op, NoOp}

\* A step that makes no request and no pod, and leaves the run alone.
LEMMA RowsOnly ==
  ASSUME \A t \in Tasks : RowStep(t), TickStep, UNCHANGED <<run, queue, pods, op>>
  PROVE  UpstreamStep
<1>1. \A t \in Tasks : WorkStep(t)
  BY DEF WorkStep, Started
<1> QED
  BY <1>1 DEF UpstreamStep, RunStep

\* A step that leaves the rows alone.
LEMMA SameRows == ASSUME UNCHANGED ti PROVE \A t \in Tasks : RowStep(t)
BY DEF RowStep

\* A step that rewrites at most the row of t.
LEMMA OneRow ==
  ASSUME TypeOK, NEW t, NEW r, ti' = [ti EXCEPT ![t] = r],
         t \in Tasks => \/ r = ti[t]
                        \/ Started(t) /\ ~IsTerminal(ti[t].state) /\ r.state \notin Doomed
                        \/ tick.todo[t] \in StartPlans /\ r.state \notin Doomed
  PROVE  \A u \in Tasks : RowStep(u)
<1> TAKE u \in Tasks
<1>1. ti'[u] = (IF u = t THEN r ELSE ti[u])
  BY DEF TypeOK
<1> QED
  BY <1>1 DEF RowStep

\* A step that makes no request and no pod.
LEMMA SameWork ==
  ASSUME TypeOK, \A t \in Tasks : queue'[t] \in {queue[t], 0},
         \A p \in Pods : pods'[p].task = pods[p].task
  PROVE  \A t \in Tasks : WorkStep(t)
BY DEF WorkStep, Started, TypeOK

\* A step that makes a pod, or not, for a task being launched or already started.
LEMMA OnePod ==
  ASSUME TypeOK, NEW t \in Tasks, CreatePod(t) \/ UNCHANGED pods,
         \A u \in Tasks : queue'[u] > 0 => queue[u] > 0,
         Started(t) \/ tick.todo[t] = "queued"
  PROVE  \A u \in Tasks : WorkStep(u)
<1> TAKE u \in Tasks
<1>1. CASE u = t
  BY <1>1 DEF WorkStep
<1>2. CASE u # t
  <2>1. ASSUME NEW p \in Pods, pods'[p].task = u
        PROVE  \E q \in Pods : pods[q].task = u
    <3>1. CASE UNCHANGED pods
      BY <2>1, <3>1
    <3>2. CASE CreatePod(t)
      <4>1. PICK q \in Pods :
              pods' = [pods EXCEPT ![q] = [task |-> t, try |-> ti[t].try, st |-> "pending",
                                           out |-> "none", del |-> FALSE]]
        BY Zenon, <3>2 DEF CreatePod
      <4>2. p # q
        BY <1>2, <2>1, <4>1 DEF TypeOK
      <4> QED
        BY <2>1, <4>1, <4>2 DEF TypeOK
    <3> QED
      BY <3>1, <3>2
  <2> QED
    BY <2>1 DEF WorkStep, Started
<1> QED
  BY <1>1, <1>2

\* The tick of a step that leaves it alone, or ends it.
LEMMA SameOrIdle ==
  ASSUME TypeOK, UpstreamInv, ops = 0, tick' = tick \/ tick' = IdleTick
  PROVE  TickStep
<1>1. CASE tick' = tick
  BY <1>1 DEF TickStep, UpstreamInv, LaunchPlanned
<1>2. CASE tick' = IdleTick
  <2>1. tick'.pc = "idle" /\ \A t \in Tasks : tick'.todo[t] = Keep
    BY <1>2, IdleTickOK
  <2> QED
    BY <2>1 DEF TickStep
<1> QED
  BY <1>1, <1>2

\* The tick of a step that drops one entry of the plan.
LEMMA DoneStep ==
  ASSUME TypeOK, tick.pc \in {"plan", "launch"}, NEW t, DonePlanned(t)
  PROVE  TickStep
<1>1. /\ tick'.pc = "plan" /\ tick'.snap = tick.snap
      /\ tick'.todo = [tick.todo EXCEPT ![t] = Keep]
  BY DEF DonePlanned, TypeOK, TickRecord
<1>2. \A u \in Tasks : tick'.todo[u] \in {tick.todo[u], Keep}
  BY <1>1 DEF TypeOK, TickRecord
<1> QED
  BY <1>1, <1>2 DEF TickStep

\* The guarded resets of the tick make a row none or leave it.
LEMMA ResetPlannedState ==
  ASSUME NEW r \in Row, NEW snapRow
  PROVE  ResetPlanned(snapRow, r) = r \/ ResetPlanned(snapRow, r).state = "none"
<1>1. LET s == RedispatchRescheduledTaskInstance(r) IN s = r \/ s.state = "none"
  BY DEF RedispatchRescheduledTaskInstance, Row
<1>2. LET s == ResetTaskInstanceInfraReplace(r) IN s = r \/ s.state = "none"
  BY InfraReplaceOK
<1>3. LET s == ResetTaskInstanceForRetry(r) IN s = r \/ s.state = "none"
  BY NewAttempts DEF NewAttempt
<1> QED
  BY <1>1, <1>2, <1>3 DEF ResetPlanned

\* The steps of the tick that write rows or launch.
LEMMA TickWrites ==
  ASSUME TypeOK, UpstreamInv, ops = 0,
         \/ MaterializeTasks \/ RecordQueued \/ FlushTransitions
         \/ \E t \in Tasks : ResetTask(t) \/ Dispatch(t) \/ DispatchRejected(t)
                                \/ DispatchBackpressure(t)
  PROVE  UpstreamStep
<1> USE DEF UpstreamStep
<1>1. CASE MaterializeTasks
  <2>1. \A t \in Tasks : RowStep(t)
    BY Zenon, <1>1 DEF MaterializeTasks, RowStep, Exists, CreateTaskInstance, AbsentRow
  <2>2. tick'.pc = "start" /\ tick'.todo = tick.todo
    BY <1>1 DEF MaterializeTasks, TypeOK, TickRecord
  <2>3. TickStep
    BY <2>2 DEF TickStep
  <2>9. UNCHANGED <<run, queue, pods, op>>
    BY <1>1 DEF MaterializeTasks, human
  <2> QED
    BY <2>1, <2>3, <2>9, RowsOnly
<1>2. CASE RecordQueued
  <2>1. tick.task \in Tasks /\ tick.todo[tick.task] = "queued"
    BY <1>2 DEF UpstreamInv, LaunchPlanned, RecordQueued
  <2>2. ApplyTransition(ti[tick.task], "queued") = ti[tick.task]
        \/ ApplyTransition(ti[tick.task], "queued").state = "queued"
    BY <2>1 DEF ApplyTransition, TypeOK, Row
  <2>3. \A t \in Tasks : RowStep(t)
    BY Zenon, <1>2, <2>1, <2>2, OneRow DEF RecordQueued, StartPlans, Doomed
  <2>4. TickStep
    BY <1>2, DoneStep DEF RecordQueued
  <2>9. UNCHANGED <<run, queue, pods, op>>
    BY <1>2 DEF RecordQueued, human
  <2> QED
    BY <2>3, <2>4, <2>9, RowsOnly
<1>3. CASE FlushTransitions
  <2>1. PICK t \in FirstPlanned(Batched) :
          /\ ti' = [u \in Tasks |-> IF tick.todo[u] = tick.todo[t]
                                     THEN ApplyTransition(ti[u], tick.todo[t]) ELSE ti[u]]
          /\ tick' = [tick EXCEPT !.todo = [u \in Tasks |->
                         IF tick.todo[u] = tick.todo[t] THEN Keep ELSE tick.todo[u]]]
    BY <1>3 DEF FlushTransitions
  <2>2. tick.todo[t] \in {"scheduled", "skipped", "upstream_failed", "up_for_retry"}
    BY <2>1 DEF FirstPlanned, Batched, TypeOK, TickRecord, PlanTarget, Keep
  <2>3. ASSUME NEW u \in Tasks
        PROVE  RowStep(u)
    <3>1. CASE tick.todo[u] = tick.todo[t]
      <4>1. ti'[u] = ApplyTransition(ti[u], tick.todo[u])
        BY <2>1, <3>1
      <4>2. ti'[u] = ti[u] \/ ti'[u].state = tick.todo[u]
        BY <4>1 DEF ApplyTransition, TypeOK, Row
      <4> QED
        BY <2>2, <3>1, <4>2 DEF RowStep, StartPlans, Doomed
    <3>2. CASE tick.todo[u] # tick.todo[t]
      BY <2>1, <3>2 DEF RowStep
    <3> QED
      BY <3>1, <3>2
  <2>4. TickStep
    <3>1. tick'.pc = "plan" /\ tick'.snap = tick.snap
      BY Zenon, <1>3, <2>1 DEF FlushTransitions, TypeOK, TickRecord
    <3>2. \A u \in Tasks : tick'.todo[u] \in {tick.todo[u], Keep}
      BY <2>1 DEF TypeOK, TickRecord
    <3> QED
      BY Zenon, <1>3, <3>1, <3>2 DEF TickStep, FlushTransitions
  <2>9. UNCHANGED <<run, queue, pods, op>>
    BY Zenon, <1>3 DEF FlushTransitions, human
  <2> QED
    BY <2>3, <2>4, <2>9, RowsOnly
<1>4. ASSUME NEW t \in Tasks, ResetTask(t)
      PROVE  UpstreamStep
  <2>1. tick.todo[t] = "none" /\ tick.pc = "plan"
    BY <1>4 DEF ResetTask, Planned
  <2>2. LET r == ResetPlanned(tick.snap[t], ti[t]) IN r = ti[t] \/ r.state = "none"
    BY ResetPlannedState DEF TypeOK
  <2>3. \A u \in Tasks : RowStep(u)
    BY Zenon, <1>4, <2>1, <2>2, OneRow DEF ResetTask, StartPlans, Doomed
  <2>4. TickStep
    BY <1>4, <2>1, DoneStep DEF ResetTask
  <2>9. UNCHANGED <<run, queue, pods, op>>
    BY <1>4 DEF ResetTask, human
  <2> QED
    BY <2>3, <2>4, <2>9, RowsOnly
<1>5. ASSUME NEW t \in Tasks, Dispatch(t)
      PROVE  UpstreamStep
  <2>1. tick.todo[t] = "queued" /\ tick.pc = "plan"
    BY Zenon, <1>5 DEF Dispatch, Planned
  <2>2. \A u \in Tasks : WorkStep(u)
    <3>1. CASE CreatePod(t) /\ UNCHANGED queue
      BY <2>1, <3>1, OnePod
    <3>2. CASE queue' = [queue EXCEPT ![t] = @ + 1] /\ UNCHANGED pods
      BY <2>1, <3>2 DEF WorkStep, Started, TypeOK
    <3> QED
      BY Zenon, <1>5, <3>1, <3>2 DEF Dispatch
  <2>3. tick'.pc = "launch" /\ tick'.task = t /\ tick'.todo = tick.todo
        /\ tick'.snap = tick.snap
    BY Zenon, <1>5 DEF Dispatch, TypeOK, TickRecord
  <2>4. TickStep
    BY <2>1, <2>3 DEF TickStep
  <2>5. UNCHANGED <<run, ti, op>>
    BY Zenon, <1>5 DEF Dispatch, human
  <2> QED
    BY <2>2, <2>4, <2>5, SameRows DEF RunStep
<1>6. ASSUME NEW t \in Tasks, DispatchRejected(t)
      PROVE  UpstreamStep
  <2>1. tick.todo[t] = "queued" /\ tick.pc = "plan"
    BY Zenon, <1>6 DEF DispatchRejected, Planned
  <2>2. PICK r : /\ ti' = [ti EXCEPT ![t] = r]
                 /\ r = ti[t] \/ r = handleDispatchFailure(tick.snap[t], ti[t])
    BY Zenon, <1>6 DEF DispatchRejected
  <2>3. r = ti[t] \/ r.state \in {"scheduled", "failed"}
    BY <2>2 DEF handleDispatchFailure, FailDispatchExhausted, RecordDispatchFailure,
       TypeOK, Row
  <2>4. \A u \in Tasks : RowStep(u)
    BY Zenon, <2>1, <2>2, <2>3, OneRow DEF StartPlans, Doomed
  <2>5. CreatePod(t) \/ UNCHANGED pods
    BY Zenon, <1>6 DEF DispatchRejected
  <2>6. UNCHANGED <<run, queue, op>>
    BY Zenon, <1>6 DEF DispatchRejected, human
  <2>8. \A u \in Tasks : WorkStep(u)
    BY <2>1, <2>5, <2>6, OnePod
  <2>7. TickStep
    BY Zenon, <1>6, <2>1, DoneStep DEF DispatchRejected
  <2> QED
    BY <2>4, <2>6, <2>7, <2>8 DEF RunStep
<1>7. ASSUME NEW t \in Tasks, DispatchBackpressure(t)
      PROVE  UpstreamStep
  <2>1. TickStep
    BY <1>7, DoneStep DEF DispatchBackpressure, Planned
  <2>2. UNCHANGED <<run, ti, queue, pods, op>>
    BY <1>7 DEF DispatchBackpressure, human
  <2> QED
    BY <2>1, <2>2, SameRows, RowsOnly
<1> QED
  BY <1>1, <1>2, <1>3, <1>4, <1>5, <1>6, <1>7

\* The other steps of the tick, and a crash.
LEMMA TickTurns ==
  ASSUME TypeOK, UpstreamInv, ops = 0,
         \/ \E ready \in SUBSET Tasks : TickSnapshot(ready)
         \/ TickIdle \/ StartRun \/ Finalize \/ TickAbort \/ ServerCrash
  PROVE  UpstreamStep
<1> USE DEF UpstreamStep
<1>1. CASE \E ready \in SUBSET Tasks : TickSnapshot(ready)
  <2>1. UNCHANGED <<run, ti, queue, pods, op>> /\ TickStep
    BY Zenon, <1>1 DEF TickSnapshot, TickStep, human
  <2> QED
    BY <2>1, SameRows, RowsOnly
<1>2. CASE TickIdle \/ StartRun \/ TickAbort
  <2>1. UNCHANGED <<ti, queue, pods, op>> /\ run' \in {run, "running"}
        /\ (tick' = tick \/ tick' = IdleTick)
    BY Zenon, <1>2 DEF TickIdle, StartRun, TickAbort, vars, human
  <2> QED
    BY <2>1, SameRows, SameWork, SameOrIdle DEF RunStep
<1>3. CASE Finalize
  <2>1. TickStep
    BY <1>3, SameOrIdle DEF Finalize
  <2>2. RunStep
    BY <1>3 DEF Finalize, RunStep
  <2> QED
    BY Zenon, <1>3, <2>1, <2>2, SameRows, SameWork DEF Finalize, human
<1>4. CASE ServerCrash
  <2>1. TickStep
    BY <1>4, SameOrIdle DEF ServerCrash
  <2> QED
    BY <1>4, <2>1, SameRows, SameWork DEF ServerCrash, RunStep
<1> QED
  BY <1>1, <1>2, <1>3, <1>4

\* The dispatch workers.
LEMMA WorkerStep ==
  ASSUME TypeOK, UpstreamInv, ops = 0, NEW t \in Tasks, WorkerDispatch(t)
  PROVE  UpstreamStep
<1>1. Started(t)
  BY DEF WorkerDispatch, Started
<1>2. PICK r : /\ ti' = [ti EXCEPT ![t] = r]
               /\ r = ti[t] \/ r = MarkTaskDispatchFailed(ti[t])
  <2>1. ti = [ti EXCEPT ![t] = ti[t]]
    BY DEF TypeOK
  <2> QED
    BY <2>1 DEF WorkerDispatch
<1>3. \/ r = ti[t]
      \/ ti[t].state \in {"scheduled", "queued"} /\ r.state = "failed"
  BY <1>2 DEF MarkTaskDispatchFailed, TypeOK, Row
<1>4. \A u \in Tasks : RowStep(u)
  BY Zenon, <1>1, <1>2, <1>3, OneRow DEF IsTerminal, TerminalStates, Doomed
<1>5. \A u \in Tasks : queue'[u] > 0 => queue[u] > 0
  BY DEF WorkerDispatch, TypeOK
<1>6. \A u \in Tasks : WorkStep(u)
  BY <1>1, <1>5, OnePod DEF WorkerDispatch
<1>7. UNCHANGED <<run, tick, op>>
  BY DEF WorkerDispatch, human
<1> QED
  BY <1>4, <1>6, <1>7, SameOrIdle DEF UpstreamStep, RunStep

\* A write of an agent, the reconciler or a reaper: to a row of a started task
\* that has not ended.
LEMMA ActiveWrite ==
  ASSUME TypeOK, UpstreamInv, ops = 0, NEW t, NEW r, ti' = [ti EXCEPT ![t] = r],
         t \in Tasks => \/ r = ti[t]
                        \/ /\ Started(t)
                           /\ ti[t].state \in {"none", "scheduled", "queued", "running"}
                           /\ r.state \notin Doomed,
         \A p \in Pods : pods'[p].task = pods[p].task,
         UNCHANGED <<run, tick, queue, human>>
  PROVE  UpstreamStep
<1>1. \A u \in Tasks : RowStep(u)
  BY Zenon, OneRow DEF IsTerminal, TerminalStates
<1>2. TickStep
  BY SameOrIdle
<1> QED
  BY <1>1, <1>2, SameWork DEF UpstreamStep, RunStep, human

\* A step that writes no row and touches neither tick nor requests.
LEMMA SilentStep ==
  ASSUME TypeOK, UpstreamInv, ops = 0,
         \A p \in Pods : pods'[p].task = pods[p].task,
         UNCHANGED <<run, ti, tick, queue, human>>
  PROVE  UpstreamStep
<1>1. TickStep
  BY SameOrIdle
<1> QED
  BY <1>1, SameRows, SameWork DEF UpstreamStep, RunStep, human

\* What an agent's report and the reconciler write to a row.
LEMMA ReportWrites ==
  ASSUME NEW r \in Row, NEW try, NEW pod \in PodRecord
  PROVE  \A s \in {ReportTaskResult(r, try, "running"), ReportState(r, pod),
                   SettleIfActive(r, try, classifyPod(pod)),
                   SettleIfActive(r, try, "failed")} :
           \/ s = r
           \/ /\ r.state \in {"none", "scheduled", "queued", "running"}
              /\ s.state \notin Doomed
<1>1. pod.out \notin Doomed /\ classifyPod(pod) \notin Doomed
  BY DEF PodRecord, Doomed, classifyPod
<1>2. ASSUME NEW to, to \notin Doomed
      PROVE  \A s \in {ReportTaskResult(r, try, to), ReportTaskResult(r, pod.try, to),
                       SettleIfActive(r, try, to)} :
               \/ s = r
               \/ /\ r.state \in {"none", "scheduled", "queued", "running"}
                  /\ s.state \notin Doomed
  BY <1>2 DEF ReportTaskResult, ReportApplies, SettleIfActive, ActiveStates, Row
<1>3. LET s == RescheduleTaskInstance(r) IN
      \/ s = r
      \/ /\ r.state \in {"none", "scheduled", "queued", "running"}
         /\ s.state \notin Doomed
  BY DEF RescheduleTaskInstance, Row, Doomed
<1>4. "running" \notin Doomed /\ "failed" \notin Doomed
  BY DEF Doomed
<1> QED
  BY <1>1, <1>2, <1>3, <1>4 DEF ReportState

\* The agents and their pods.
LEMMA AgentStep ==
  ASSUME TypeOK, UpstreamInv, ops = 0, PodStep
  PROVE  UpstreamStep
<1>1. PICK p \in Pods :
        \/ ReportRunning(p) \/ Heartbeat(p) \/ ReportOutcome(p)
        \/ \E out \in {"success", "failed", "reschedule"} : TaskEnds(p, out)
        \/ PodDies(p) \/ PodVanishes(p) \/ PodStops(p) \/ PodRemoved(p)
  BY DEF PodStep
<1>2. pods[p].task \in Tasks => Started(pods[p].task) /\ ti[pods[p].task] \in Row
  BY DEF Started, TypeOK
<1>3. pods[p] \in PodRecord
  BY DEF TypeOK
<1>4. CASE ReportRunning(p) \/ ReportOutcome(p)
  <2>1. PICK r : /\ ti' = [ti EXCEPT ![pods[p].task] = r]
                 /\ r \in {ReportTaskResult(ti[pods[p].task], pods[p].try, "running"),
                           ReportState(ti[pods[p].task], pods[p])}
    BY Zenon, <1>4 DEF ReportRunning, ReportOutcome
  <2>2. \A q \in Pods : pods'[q].task = pods[q].task
    BY <1>4 DEF ReportRunning, ReportOutcome, Acked, SetPod, TypeOK, PodRecord
  <2>3. UNCHANGED <<run, tick, queue, human>>
    BY Zenon, <1>4 DEF ReportRunning, ReportOutcome
  <2>4. pods[p].task \in Tasks =>
          \/ r = ti[pods[p].task]
          \/ /\ ti[pods[p].task].state \in {"none", "scheduled", "queued", "running"}
             /\ r.state \notin Doomed
    BY Zenon, <1>2, <1>3, <2>1, ReportWrites
  <2> QED
    BY Zenon, <1>2, <2>1, <2>2, <2>3, <2>4, ActiveWrite
<1>5. CASE Heartbeat(p)
  <2>1. ASSUME pods[p].task \in Tasks
        PROVE  LET r == RecordTaskHeartbeat(ti[pods[p].task], pods[p].try, p) IN
               \/ r = ti[pods[p].task]
               \/ /\ ti[pods[p].task].state \in {"none", "scheduled", "queued", "running"}
                  /\ r.state \notin Doomed
    BY Zenon, <1>2, <2>1 DEF RecordTaskHeartbeat, HeartbeatApplies, Row, Doomed
  <2>2. \A q \in Pods : pods'[q].task = pods[q].task
    BY <1>5 DEF Heartbeat, TypeOK, PodRecord
  <2> QED
    BY Zenon, <1>2, <1>5, <2>1, <2>2, ActiveWrite DEF Heartbeat
<1>6. CASE \/ \E out \in {"success", "failed", "reschedule"} : TaskEnds(p, out)
           \/ PodDies(p) \/ PodVanishes(p) \/ PodStops(p) \/ PodRemoved(p)
  <2>1. \A q \in Pods : pods'[q].task = pods[q].task
    <3>1. CASE \E out \in {"success", "failed", "reschedule"} : TaskEnds(p, out)
      BY <3>1 DEF TaskEnds, TypeOK, PodRecord
    <3>2. CASE PodDies(p) \/ PodVanishes(p) \/ PodRemoved(p)
      BY <3>2 DEF PodDies, PodVanishes, PodRemoved, SetPod, TypeOK, PodRecord
    <3>3. CASE PodStops(p)
      BY <3>3 DEF PodStops, TypeOK, PodRecord
    <3> QED
      BY <1>6, <3>1, <3>2, <3>3
  <2>2. UNCHANGED <<run, ti, tick, queue, human>>
    BY Zenon, <1>6 DEF TaskEnds, PodDies, PodVanishes, PodStops, PodRemoved
  <2> QED
    BY <2>1, <2>2, SilentStep
<1> QED
  BY <1>1, <1>4, <1>5, <1>6

\* The reconciler and the reapers.
LEMMA ReaperStep ==
  ASSUME TypeOK, UpstreamInv, ops = 0, MaintenanceStep
  PROVE  UpstreamStep
<1>1. ASSUME NEW p \in Pods, Reconcile(p) \/ ReconcileStuck(p)
      PROVE  UpstreamStep
  <2>1. pods[p].task \in Tasks => Started(pods[p].task) /\ ti[pods[p].task] \in Row
    BY DEF Started, TypeOK
  <2>2. pods[p] \in PodRecord
    BY DEF TypeOK
  <2>3. PICK r : /\ ti' = [ti EXCEPT ![pods[p].task] = r]
                 /\ r \in {SettleIfActive(ti[pods[p].task], pods[p].try, classifyPod(pods[p])),
                           SettleIfActive(ti[pods[p].task], pods[p].try, "failed")}
    BY Zenon, <1>1 DEF Reconcile, ReconcileStuck
  <2>4. \A q \in Pods : pods'[q].task = pods[q].task
    BY <1>1 DEF Reconcile, ReconcileStuck, SetPod, TypeOK, PodRecord
  <2>5. UNCHANGED <<run, tick, queue, human>>
    BY Zenon, <1>1 DEF Reconcile, ReconcileStuck
  <2>6. pods[p].task \in Tasks =>
          \/ r = ti[pods[p].task]
          \/ /\ ti[pods[p].task].state \in {"none", "scheduled", "queued", "running"}
             /\ r.state \notin Doomed
    BY <2>1, <2>2, <2>3, ReportWrites
  <2> QED
    BY Zenon, <2>1, <2>3, <2>4, <2>5, <2>6, ActiveWrite
<1>2. CASE \/ \E t \in Tasks : ListAgentLost(t) \/ ListPodLost(t) \/ ListDispatchLost(t)
           \/ LookAtPods \/ ListOrphan
  <2>1. UNCHANGED <<run, ti, tick, queue, pods, human>>
    BY Zenon, <1>2 DEF ListAgentLost, ListPodLost, ListDispatchLost, ListCandidate, LookAtPods,
       ListOrphan
  <2> QED
    BY <2>1, SilentStep
<1>3. CASE MarkCandidate
  <2>1. PICK r : /\ ti' = [ti EXCEPT ![cand.task] = r]
                 /\ r \in {MarkTaskDispatchLost(ti[cand.task]), MarkTaskLost(ti[cand.task])}
    BY Zenon, <1>3 DEF MarkCandidate
  <2>2. ASSUME cand.task \in Tasks
        PROVE  r = ti[cand.task] \/ /\ Started(cand.task)
                                    /\ ti[cand.task].state \in {"queued", "running"}
                                    /\ r.state = "failed"
    BY Zenon, <2>1, <2>2 DEF MarkTaskDispatchLost, MarkTaskLost, TypeOK, Row, Started
  <2>3. UNCHANGED <<run, tick, queue, pods, human>>
    BY <1>3 DEF MarkCandidate
  <2> QED
    BY Zenon, <2>1, <2>2, <2>3, ActiveWrite DEF Doomed
<1>4. CASE ReapRun
  <2>1. ASSUME NEW t \in Tasks
        PROVE  RowStep(t)
    <3>1. ti'[t] = ti[t] \/ ti'[t] = MarkRunOrphanedTaskInstance(ti[t])
      BY <1>4 DEF ReapRun
    <3>2. \/ ti'[t] = ti[t]
          \/ ti[t].state \in ActiveStates /\ ti'[t].state = "failed"
      BY <3>1 DEF MarkRunOrphanedTaskInstance, TypeOK, Row
    <3> QED
      BY <3>2 DEF RowStep, ActiveStates, Started, IsTerminal, TerminalStates, Doomed
  <2>2. RunStep
    BY <1>4 DEF ReapRun, RunStep
  <2>3. UNCHANGED <<tick, queue, pods, op>>
    BY <1>4 DEF ReapRun, human
  <2>4. TickStep
    BY <2>3, SameOrIdle
  <2> QED
    BY <2>1, <2>2, <2>3, <2>4, SameWork DEF UpstreamStep
<1>5. CASE DeletePods
  <2>1. \A q \in Pods : pods'[q].task = pods[q].task
    BY <1>5 DEF DeletePods, TypeOK, PodRecord
  <2>2. UNCHANGED <<run, ti, tick, queue, human>>
    BY <1>5 DEF DeletePods
  <2> QED
    BY <2>1, <2>2, SilentStep
<1> QED
  BY <1>1, <1>2, <1>3, <1>4, <1>5 DEF MaintenanceStep

\* Without operator requests, every step is one of these.
LEMMA EveryUpstreamStep ==
  ASSUME TypeOK, UpstreamInv, [Next]_vars, ops' = 0
  PROVE  ops = 0 /\ UpstreamStep
<1>1. ops = 0
  <2>1. ops \in Nat
    BY LifecycleAssumption DEF TypeOK
  <2>2. CASE OperatorStep
    <3>1. ops' = ops + 1 \/ ops' = ops
      BY Zenon, <2>2 DEF OperatorStep, ClearRequest, ClearReset, ClearReopen, ClearAbort, MarkTask,
         MarkRun
    <3> QED
      BY <2>1, <3>1
  <2>3. CASE SchedulerStep
    BY Zenon, <2>3 DEF SchedulerStep, TickSnapshot, TickIdle, MaterializeTasks, StartRun, ResetTask,
       Dispatch, DispatchRejected, DispatchBackpressure, RecordQueued, FlushTransitions,
       Finalize, TickAbort, human, vars
  <2>4. CASE PodStep
    BY Zenon, <2>4 DEF PodStep, ReportRunning, Heartbeat, ReportOutcome, TaskEnds, PodDies,
       PodVanishes, PodStops, PodRemoved, human
  <2>5. CASE MaintenanceStep
    BY Zenon, <2>5 DEF MaintenanceStep, Reconcile, ReconcileStuck, ListAgentLost, ListPodLost,
       ListDispatchLost, ListCandidate, LookAtPods, MarkCandidate, ListOrphan, ReapRun,
       DeletePods, human
  <2>6. CASE \/ \E t \in Tasks : WorkerDispatch(t)
             \/ ServerCrash
             \/ UNCHANGED vars
    BY <2>6 DEF WorkerDispatch, ServerCrash, human, vars
  <2> QED
    BY <2>2, <2>3, <2>4, <2>5, <2>6 DEF Next
<1>2. op = NoOp
  BY <1>1 DEF UpstreamInv
<1>3. ~OperatorStep
  <2>1. op.pc = "idle"
    BY <1>2 DEF NoOp
  <2> QED
    BY <1>1, <1>2, <2>1
       DEF OperatorStep, ClearRequest, ClearReset, ClearReopen, ClearAbort, MarkTask, MarkRun
<1>4. CASE UNCHANGED vars
  BY <1>1, <1>4, SilentStep DEF vars
<1>5. CASE SchedulerStep
  BY <1>1, <1>5, TickWrites, TickTurns DEF SchedulerStep
<1> QED
  BY <1>1, <1>3, <1>4, <1>5, WorkerStep, AgentStep, ReaperStep, TickTurns DEF Next

-----------------------------------------------------------------------------
(* The invariant.                                                          *)

\* A firm row stays as it is, and firm.
LEMMA FirmStays ==
  ASSUME TypeOK, NEW u \in Tasks, Firm(u), RowStep(u), TickStep
  PROVE  Firm(u)' /\ ti'[u] = ti[u]
<1>1. ti'[u] = ti[u]
  BY DEF Firm, Settled, RowStep, StartPlans, Doomed, Keep, IsTerminal, TerminalStates
<1>2. Settled(u)'
  BY <1>1 DEF Firm, Settled
<1>3. tick'.todo[u] = Keep
  <2>1. ASSUME NEW ready \in SUBSET Tasks, TickSnapshot(ready)
        PROVE  tick'.todo[u] = Keep
    <3>1. PlanRun(ti, ready)[u] = Keep
      BY SettledIsKept DEF Firm, Settled
    <3>2. [IdleTick EXCEPT !.pc = "materialize"].todo[u] = Keep
      BY DEF IdleTick
    <3> QED
      BY <2>1, <3>1, <3>2 DEF TickSnapshot
  <2> QED
    BY <2>1 DEF TickStep, Firm
<1> QED
  BY <1>1, <1>2, <1>3 DEF Firm

\* A task that may start still may after the step.
LEMMA MayStartStays ==
  ASSUME TypeOK, UpstreamStep, NEW t \in Tasks, MayStart(t)
  PROVE  MayStart(t)'
<1>1. \A u \in DependsOn[t] : u \in Tasks /\ Firm(u)' /\ ti'[u] = ti[u]
  BY PlannerAssumption, FirmStays DEF MayStart, UpstreamStep
<1>2. \A u \in DependsOn[t] : RowStates'[u] = RowStates[u]
  BY <1>1 DEF RowStates
<1>3. EvaluateTriggerRule(RuleOf[t], DependsOn[t], RowStates')
        = EvaluateTriggerRule(RuleOf[t], DependsOn[t], RowStates)
  BY <1>2, RuleReadsUpstreams
<1> QED
  BY <1>1, <1>3 DEF MayStart

\* A condemned task stays condemned: its firm upstreams only become more.
LEMMA CondemnedStays ==
  ASSUME TypeOK, UpstreamStep, NEW t \in Tasks, NEW s, Condemned(t, s)
  PROVE  Condemned(t, s)'
<1>1. \A u \in DependsOn[t] : Firm(u) => Firm(u)' /\ ti'[u] = ti[u]
  BY PlannerAssumption, FirmStays DEF UpstreamStep
<1> QED
  BY <1>1 DEF Condemned

\* What a new plan decides of a task that has not started it decides on firm
\* upstreams.
LEMMA NewPlanOK ==
  ASSUME TypeOK, NEW ready \in SUBSET Tasks, UNCHANGED ti,
         tick'.todo = PlanRun(ti, ready),
         NEW t \in Tasks, ti[t].state = "none"
  PROVE  /\ tick'.todo[t] \in StartPlans => MayStart(t)'
         /\ \A s \in Doomed : tick'.todo[t] = s => Condemned(t, s)'
<1> DEFINE eff == effective(ti, ready)
           ups == DependsOn[t]
           rule == RuleOf[t]
<1>1. tick'.todo[t] = decideStart(t, eff)
  BY PlanOfRow
<1>2. ups \subseteq Tasks /\ rule \in TriggerRule
  BY PlannerAssumption
<1>3. ASSUME NEW u \in ups, IsTerminal(eff[u])
      PROVE  Firm(u)' /\ eff[u] = ti'[u].state
  <2>1. u \in Tasks
    BY <1>2
  <2>2. IsTerminal(ti[u].state) /\ ~Recoverable(u, ti[u]) /\ eff[u] = ti[u].state
    BY <1>3, <2>1, EndedIsSettled
  <2>3. tick'.todo[u] = Keep
    BY <2>1, <2>2, SettledIsKept
  <2> QED
    BY <2>2, <2>3 DEF Firm, Settled
<1> HIDE DEF eff
<1>4. ASSUME tick'.todo[t] \in StartPlans
      PROVE  MayStart(t)'
  <2>1. EvaluateTriggerRule(rule, ups, eff) = "schedule"
    BY <1>1, <1>4 DEF decideStart, StartPlans, Keep
  <2>2. \A u \in ups : IsTerminal(eff[u])
    BY <2>1, ScheduleNeedsEnded
  <2>3. \A u \in ups : eff[u] = RowStates'[u]
    <3>1. \A u \in ups : RowStates'[u] = ti'[u].state
      BY <1>2 DEF RowStates
    <3> QED
      BY <1>3, <2>2, <3>1
  <2>4. EvaluateTriggerRule(rule, ups, RowStates') = "schedule"
    BY <2>1, <2>3, RuleReadsUpstreams
  <2> QED
    BY <1>3, <2>2, <2>4 DEF MayStart
<1>5. ASSUME NEW s \in Doomed, tick'.todo[t] = s
      PROVE  Condemned(t, s)'
  <2>1. \/ EvaluateTriggerRule(rule, ups, eff) = "skip" /\ s = "skipped"
        \/ EvaluateTriggerRule(rule, ups, eff) = "upstream_failed" /\ s = "upstream_failed"
    BY <1>1, <1>5 DEF decideStart, Doomed, Keep
  <2>2. SUFFICES ASSUME NEW st \in [ups -> TaskState],
                        \A u \in ups : Firm(u)' => st[u] = ti'[u].state
                 PROVE  EvaluateTriggerRule(rule, ups, st) \in Verdicts(s)
    BY DEF Condemned
  <2>3. \A u \in ups : IsTerminal(eff[u]) => st[u] = eff[u]
    BY <1>3, <2>2
  <2> QED
    BY <1>2, <2>1, <2>3, VerdictStands DEF Verdicts
<1> QED
  BY <1>4, <1>5

\* Every step of every actor keeps the invariant.
LEMMA UpstreamStepOK ==
  ASSUME TypeOK, TypeOK', UpstreamInv, [Next]_vars
  PROVE  UpstreamInv'
<1> SUFFICES ASSUME ops' = 0
             PROVE  op' = NoOp /\ LaunchPlanned' /\ \A t \in Tasks : Decided(t)'
  BY DEF UpstreamInv
<1>1. ops = 0 /\ UpstreamStep
  BY EveryUpstreamStep
<1>2. op' = NoOp
  BY <1>1 DEF UpstreamInv, UpstreamStep
<1>3. LaunchPlanned'
  <2>1. ASSUME NEW ready \in SUBSET Tasks, TickSnapshot(ready)
        PROVE  tick'.pc # "launch"
    BY <2>1 DEF TickSnapshot, IdleTick
  <2> QED
    BY <1>1, <2>1 DEF LaunchPlanned, UpstreamStep, TickStep
<1>4. ASSUME NEW t \in Tasks
      PROVE  /\ Started(t)' => MayStart(t)'
             /\ \A s \in Doomed : ti'[t].state = s => Condemned(t, s)'
  <2>1. RowStep(t) /\ WorkStep(t)
    BY <1>1 DEF UpstreamStep
  <2>2. Started(t)' => Started(t) \/ tick.todo[t] \in StartPlans
    BY Zenon, <2>1 DEF RowStep, WorkStep, Started, StartPlans, Doomed
  <2>3. \A s \in Doomed : ti'[t].state = s => ti[t].state = s \/ tick.todo[t] = s
    BY <2>1 DEF RowStep, Doomed
  <2> QED
    BY <1>1, <2>2, <2>3, MayStartStays, CondemnedStays DEF UpstreamInv, Decided
<1>5. ASSUME NEW t \in Tasks
      PROVE  /\ tick'.todo[t] \in StartPlans => MayStart(t)'
             /\ \A s \in Doomed : tick'.todo[t] = s => Condemned(t, s)'
             /\ SnapshotHolds(t)'
  <2>1. CASE tick'.todo[t] = Keep /\ tick'.pc \notin {"plan", "launch"}
    BY <2>1 DEF StartPlans, Doomed, Keep, SnapshotHolds
  <2>2. ASSUME NEW ready \in SUBSET Tasks, TickSnapshot(ready),
               ~(tick'.todo[t] = Keep /\ tick'.pc \notin {"plan", "launch"})
        PROVE  /\ tick'.todo[t] \in StartPlans => MayStart(t)'
               /\ \A s \in Doomed : tick'.todo[t] = s => Condemned(t, s)'
               /\ SnapshotHolds(t)'
    <3>1. [IdleTick EXCEPT !.pc = "materialize"].pc = "materialize"
          /\ [IdleTick EXCEPT !.pc = "materialize"].todo[t] = Keep
      BY DEF IdleTick
    <3>2. tick' = [pc |-> "plan", snap |-> ti, todo |-> PlanRun(ti, ready), task |-> NoTask]
      BY <2>2, <3>1 DEF TickSnapshot
    <3>3. tick'.todo = PlanRun(ti, ready) /\ tick'.snap = ti /\ ti' = ti
      BY <2>2, <3>2 DEF TickSnapshot
    <3>4. CASE ti[t].state = "none"
      <4>1. ~IsTerminal(ti[t].state)
        BY <3>4 DEF IsTerminal, TerminalStates
      <4> QED
        BY <3>3, <3>4, <4>1, NewPlanOK DEF SnapshotHolds
    <3>5. CASE ti[t].state # "none"
      <4>1. tick'.todo[t] \notin Doomed
        BY <3>3, <3>5, PlanOfRow
      <4>2. tick'.todo[t] \in StartPlans => Started(t)'
        BY <3>3, <3>5, PlanOfRow DEF Started
      <4>3. SnapshotHolds(t)'
        <5>1. IsTerminal(ti[t].state) /\ ~Recoverable(t, ti[t]) => tick'.todo[t] = Keep
          BY <3>3, SettledIsKept
        <5> QED
          BY <3>3, <5>1 DEF SnapshotHolds, Firm, Settled
      <4> QED
        BY <1>4, <4>1, <4>2, <4>3
    <3> QED
      BY <3>4, <3>5
  <2>3. CASE /\ tick'.todo[t] \in {tick.todo[t], Keep}
             /\ tick'.pc \in {"plan", "launch"} =>
                  tick.pc \in {"plan", "launch"} /\ tick'.snap = tick.snap
    <3>1. tick'.todo[t] \in StartPlans => MayStart(t)'
      BY <1>1, <2>3, MayStartStays DEF UpstreamInv, Decided, StartPlans, Keep
    <3>2. \A s \in Doomed : tick'.todo[t] = s => Condemned(t, s)'
      BY <1>1, <2>3, CondemnedStays DEF UpstreamInv, Decided, Doomed, Keep
    <3>3. SnapshotHolds(t)'
      <4>1. Firm(t) => Firm(t)' /\ ti'[t] = ti[t]
        BY <1>1, FirmStays DEF UpstreamStep
      <4>2. SnapshotHolds(t)
        BY <1>1 DEF UpstreamInv, Decided
      <4> QED
        BY <2>3, <4>1, <4>2 DEF SnapshotHolds
    <3> QED
      BY <3>1, <3>2, <3>3
  <2> QED
    BY Zenon, <1>1, <2>1, <2>2, <2>3 DEF UpstreamStep, TickStep
<1>6. ASSUME NEW t \in Tasks, run' = "success"
      PROVE  Firm(t)' /\ ti'[t].state \in {"success", "skipped"}
  <2>1. Firm(t) /\ ti[t].state \in {"success", "skipped"}
    <3>1. CASE run = "success"
      BY <1>1, <3>1 DEF UpstreamInv, Decided
    <3>2. CASE tick.pc = "plan" /\ FinalizeRun(tick.snap) = "success"
      <4>1. /\ IsTerminal(tick.snap[t].state) /\ ~Recoverable(t, tick.snap[t])
            /\ tick.snap[t].state \notin {"failed", "upstream_failed"}
        BY <3>2 DEF FinalizeRun, Keep
      <4>2. Firm(t) /\ ti[t] = tick.snap[t]
        BY Zenon, <1>1, <3>2, <4>1 DEF UpstreamInv, Decided, SnapshotHolds
      <4> QED
        BY <4>1, <4>2 DEF IsTerminal, TerminalStates
    <3> QED
      BY <1>1, <1>6, <3>1, <3>2 DEF UpstreamStep, RunStep
  <2> QED
    BY <1>1, <2>1, FirmStays DEF UpstreamStep
<1> QED
  BY <1>2, <1>3, <1>4, <1>5, <1>6 DEF Decided

\* The invariant holds along every behaviour.
LEMMA UpstreamHolds == Spec => []UpstreamInv
<1>1. Init => UpstreamInv
  <2> SUFFICES ASSUME Init
               PROVE  /\ op = NoOp /\ tick.pc = "idle" /\ run = "queued"
                      /\ \A t \in Tasks : /\ ~Started(t) /\ tick.todo[t] = Keep
                                           /\ ti[t].state \notin Doomed
    BY DEF UpstreamInv, LaunchPlanned, Decided, StartPlans, Doomed, Keep, SnapshotHolds
  <2>1. tick.pc = "idle" /\ \A t \in Tasks : tick.todo[t] = Keep
    BY IdleTickOK DEF Init
  <2>2. /\ \A t \in Tasks : ti[t].state = "absent" /\ queue[t] = 0
        /\ \A p \in Pods : pods[p].task = NoTask
    BY DEF Init, AbsentRow, UnusedPod
  <2>3. \A t \in Tasks : ~Started(t)
    BY <2>2, LifecycleAssumption DEF Started
  <2>4. op = NoOp /\ run = "queued"
    BY DEF Init
  <2> QED
    BY <2>1, <2>2, <2>3, <2>4 DEF Doomed
<1>2. TypeOK /\ TypeOK' /\ UpstreamInv /\ [Next]_vars => UpstreamInv'
  BY UpstreamStepOK
<1> QED
  BY <1>1, <1>2, TypeCorrect, PTL DEF Spec

\* For every DAG, every trigger rule, every budget and any faults: as long as the
\* operator stays away, work never runs on an upstream that is later re-run.
THEOREM StartsAreSettled == Spec => []StartsOnSettledUpstreams
<1>1. UpstreamInv => StartsOnSettledUpstreams
  BY DEF UpstreamInv, Decided, StartsOnSettledUpstreams, MayStart, Firm
<1> QED
  BY <1>1, UpstreamHolds, PTL

\* As long as the operator stays away, a task is skipped or failed by its
\* upstreams only when the settled ones leave it no other way.
THEOREM CondemnationsAreSettled == Spec => []CondemnedBySettledUpstreams
<1>1. UpstreamInv => CondemnedBySettledUpstreams
  <2> SUFFICES ASSUME UpstreamInv, ops = 0, NEW t \in Tasks, ti[t].state \in Doomed,
                      NEW st \in [DependsOn[t] -> TaskState],
                      \A u \in DependsOn[t] : Settled(u) => st[u] = ti[u].state
               PROVE  EvaluateTriggerRule(RuleOf[t], DependsOn[t], st)
                        \in Verdicts(ti[t].state)
    BY DEF CondemnedBySettledUpstreams, Doomed, Verdicts
  <2>1. Condemned(t, ti[t].state)
    BY DEF UpstreamInv, Decided
  <2> QED
    BY <2>1 DEF Condemned, Firm
<1> QED
  BY <1>1, UpstreamHolds, PTL

\* As long as the operator stays away, a run that says success is complete,
\* however old the snapshot was that said so.
THEOREM SuccessIsComplete == Spec => []SuccessfulRunIsComplete
<1>1. UpstreamInv => SuccessfulRunIsComplete
  BY DEF UpstreamInv, Decided, SuccessfulRunIsComplete
<1> QED
  BY <1>1, UpstreamHolds, PTL
=============================================================================
