--------------------------- MODULE RunPods_proofs ---------------------------
(***************************************************************************)
(* An attempt is launched once, and max_active_tasks bounds what is in     *)
(* flight: the proofs of OnePodPerAttempt and WithinMaxActiveTasks.        *)
(*                                                                         *)
(* Between a dispatch and the write of queued the row still says scheduled,*)
(* and a row that ended may be put back to queued by that write.  What     *)
(* keeps an attempt from a second launch is that every row a plan can      *)
(* launch (none, scheduled, or queued in the plan) has neither a request   *)
(* nor a pod of its attempt.                                               *)
(***************************************************************************)
EXTENDS RunBudget_proofs, FiniteSetTheorems

NoPodOf(t, try) == \A p \in Pods : pods[p].task = t => pods[p].try # try

\* Neither a request nor a pod for the current attempt of t.
Unlaunched(t) == queue[t] = 0 /\ NoPodOf(t, ti[t].try)

\* The tick is between the dispatch of t and the write of queued.
Launching(t) == tick.pc = "launch" /\ tick.task = t

\* What an attempt that was never re-placed has been given.
LaunchedOnce(t) ==
  /\ \A p, q \in Pods :
       pods[p].task = t /\ pods[q].task = t /\ pods[p].try = pods[q].try => p = q
  /\ queue[t] > 0 => queue[t] = 1 /\ NoPodOf(t, ti[t].try)
  /\ ti[t].state \in {"absent", "none"} => Unlaunched(t)
  /\ ti[t].state = "scheduled" /\ ~Launching(t) => Unlaunched(t)

\* What the tick means to do to t, and the request of a row that failed.
PlanFits(t) ==
  /\ tick.todo[t] \in Doomed \cup {"scheduled"} => ti[t].state = "none"
  /\ tick.todo[t] = "queued" => ti[t].state \notin {"absent", "none", "up_for_retry"}
  /\ tick.todo[t] = "queued" /\ ~Launching(t) =>
       Unlaunched(t) /\ (ti[t].state = "scheduled" \/ RunTerminal)
  /\ tick.todo[t] = "up_for_retry" => ti[t].state = "failed" /\ ~ti[t].infra /\ queue[t] = 0
  /\ ti[t].state = "up_for_retry" => queue[t] = 0 /\ ~ti[t].infra
  /\ ti[t].state = "failed" /\ ~ti[t].infra => queue[t] = 0 \/ RunTerminal

\* A row that is not there yet has no attempt.
UnmadeRow(t) ==
  ti[t].state = "absent" => ti[t].try = 0 /\ ti[t].infraAttempts = 0 /\ ~ti[t].infra

LaunchInv(t) ==
  /\ ti[t].state # "up_for_reschedule"
  /\ UnmadeRow(t)
  /\ PodsFit(t)
  /\ ti[t].infraAttempts = 0 => LaunchedOnce(t) /\ PlanFits(t)

\* A tick that holds nothing plans nothing, one that starts a run found it queued,
\* and one that launches is at a task it has planned to launch.
TickFits ==
  /\ tick.pc = "idle" => \A t \in Tasks : tick.todo[t] = Keep
  /\ tick.pc \in {"materialize", "start"} => run = "queued"
  /\ tick.pc = "launch" => tick.task \in Tasks /\ tick.todo[tick.task] = "queued"

\* No request of the operator is in progress either.
PodInv ==
  faults = 0 /\ ops = 0 =>
    op = NoOp /\ TickFits /\ \A t \in Tasks \ Sensors : LaunchInv(t)

\* The row has met no infra failure yet.
Clean(t) == ti[t].infraAttempts = 0 /\ ~ti[t].infra

LiveWork(t) ==
  queue[t] > 0 \/ \E p \in Pods : pods[p].task = t /\ pods[p].st \in LiveSt

\* While the run is active, work for a clean row is for its current attempt, and the
\* row shows it to the planner, or is about to.
SlotFits(t) ==
  \/ RunTerminal
  \/ /\ \A p \in Pods : pods[p].task = t /\ pods[p].st \in LiveSt => pods[p].try = ti[t].try
     /\ LiveWork(t) => ti[t].state \in {"queued", "running"} \/ tick.todo[t] = "queued"

\* t holds a slot, or the tick is about to launch it.
Occupies(t) == HoldsSlot(t) \/ tick.todo[t] = "queued"

\* What every step but a snapshot means for the slots.
SlotStep(t) ==
  /\ Clean(t)' => Clean(t)
  /\ Occupies(t)' => Occupies(t)
  /\ Clean(t)' /\ SlotFits(t) => SlotFits(t)'

-----------------------------------------------------------------------------
(* Steps of everybody but the tick and the dispatch workers (OutsideStep).  *)

\* None of these steps launches an attempt a second time.
LEMMA OutsideKeeps ==
  ASSUME TypeOK, OutsideStep, NEW t \in Tasks \ Sensors, LaunchInv(t)
  PROVE  LaunchInv(t)'
<1>1. RowMoves(t) /\ UNCHANGED <<tick, queue>> /\ RunStays /\ \A p \in Pods : PodKept(p)
  BY DEF OutsideStep
<1>2. ti'[t].try = ti[t].try /\ ti'[t].infraAttempts = ti[t].infraAttempts
  BY <1>1 DEF RowMoves
<1>3. PodsFit(t)'
  BY Zenon, <1>1, <1>2 DEF LaunchInv, PodsFit, PodKept
<1>4. ti'[t].state # "up_for_reschedule"
  BY Zenon, <1>1 DEF LaunchInv, RowMoves, Reported
<1>5. ASSUME LaunchedOnce(t), PlanFits(t)
      PROVE  LaunchedOnce(t)' /\ PlanFits(t)'
  <2>1. \A try : NoPodOf(t, try)' <=> NoPodOf(t, try)
    BY <1>1 DEF NoPodOf, PodKept
  <2>2. (Unlaunched(t)' <=> Unlaunched(t)) /\ (Launching(t)' <=> Launching(t))
    BY <1>1, <1>2, <2>1 DEF Unlaunched, Launching
  <2>3. Reported(t) => queue[t] = 0 /\ ~Unlaunched(t)
    BY <1>5 DEF Reported, LaunchedOnce, Unlaunched, NoPodOf, TypeOK
  <2>4. LaunchedOnce(t)'
    <3>1. \A p, q \in Pods : pods'[p].task = t /\ pods'[q].task = t
                              /\ pods'[p].try = pods'[q].try => p = q
      BY <1>1, <1>5 DEF PodKept, LaunchedOnce
    <3>2. queue'[t] > 0 => queue'[t] = 1 /\ NoPodOf(t, ti[t].try)'
      BY Zenon, <1>1, <1>2, <1>5, <2>1 DEF LaunchedOnce
    <3>3. ti'[t].state \in {"absent", "none", "scheduled"} => ti'[t].state = ti[t].state
      BY Zenon, <1>1 DEF RowMoves, Reported
    <3> QED
      BY Zenon, <1>5, <2>2, <3>1, <3>2, <3>3 DEF LaunchedOnce
  <2>5. PlanFits(t)'
    <3>1. CASE ti'[t].state = ti[t].state /\ ti'[t].infra = ti[t].infra
      BY Zenon, <1>1, <1>5, <2>2, <3>1 DEF PlanFits, RunStays
    <3>2. CASE Reported(t)
      <4>1. ti'[t].state \in {"running", "success", "failed"} /\ queue'[t] = 0
        BY Zenon, <1>1, <2>3, <3>2 DEF Reported
      <4>2. ti[t].state \notin {"none", "failed"}
        BY Zenon, <1>5, <2>3, <3>2 DEF Reported, LaunchedOnce
      <4> QED
        BY Zenon, <1>1, <1>5, <2>2, <2>3, <3>2, <4>1, <4>2 DEF PlanFits, RunStays
    <3>3. CASE /\ ti[t].state \in {"queued", "running"}
               /\ ti'[t].state = "failed" /\ ti'[t].infra
      BY Zenon, <1>1, <1>5, <2>2, <3>3 DEF PlanFits, RunStays
    <3>4. CASE /\ ti[t].state \in ActiveStates
               /\ ti'[t].state = "failed" /\ ti'[t].infra = ti[t].infra /\ RunTerminal'
      BY Zenon, <1>1, <1>5, <2>2, <3>4 DEF PlanFits, ActiveStates
    <3> QED
      BY Zenon, <1>1, <3>1, <3>2, <3>3, <3>4 DEF RowMoves
  <2> QED
    BY <2>4, <2>5
<1>6. UnmadeRow(t)'
  BY Zenon, <1>1 DEF RowMoves, Reported, LaunchInv, UnmadeRow
<1> QED
  BY <1>2, <1>3, <1>4, <1>5, <1>6 DEF LaunchInv

\* Nor do they take a slot, or free one that is still held.
LEMMA OutsideSlots ==
  ASSUME TypeOK, OutsideStep, NEW t \in Tasks \ Sensors, LaunchInv(t)
  PROVE  SlotStep(t)
<1>1. RowMoves(t) /\ UNCHANGED <<tick, queue>> /\ RunStays /\ \A p \in Pods : PodKept(p)
  BY DEF OutsideStep
<1>2. Clean(t)' => Clean(t)
  BY Zenon, <1>1 DEF RowMoves, Reported, Clean
<1>3. LiveWork(t)' => LiveWork(t)
  BY <1>1 DEF LiveWork, PodKept
<1>4. ti'[t].state \in {"queued", "running"} => HoldsSlot(t)
  BY Zenon, <1>1 DEF RowMoves, Reported, HoldsSlot
<1>5. Occupies(t)' => Occupies(t)
  BY Zenon, <1>1, <1>3, <1>4 DEF Occupies, HoldsSlot, LiveWork
<1>6. ASSUME Clean(t)', SlotFits(t), ~RunTerminal'
      PROVE  SlotFits(t)'
  <2>1. ~RunTerminal /\ LaunchedOnce(t)
    BY <1>1, <1>2, <1>6 DEF RunStays, LaunchInv, Clean
  <2>2. \A p \in Pods : pods'[p].task = t /\ pods'[p].st \in LiveSt => pods'[p].try = ti'[t].try
    BY Zenon, <1>1, <1>6, <2>1 DEF SlotFits, PodKept, RowMoves
  <2>3. CASE Reported(t) /\ ti'[t].state \notin {"queued", "running"}
    <3>1. PICK p \in Pods : /\ pods[p].task = t /\ pods[p].try = ti[t].try
                             /\ pods'[p].st \notin LiveSt
      BY <2>3 DEF Reported
    <3>2. queue[t] = 0
      BY <2>1, <3>1 DEF LaunchedOnce, NoPodOf, TypeOK
    <3>3. ~LiveWork(t)'
      BY <1>1, <2>1, <2>2, <3>1, <3>2 DEF LiveWork, LaunchedOnce, PodKept, RowMoves
    <3> QED
      BY <2>2, <3>3 DEF SlotFits
  <2>4. CASE ti'[t].state \in {"queued", "running"} \/ ti'[t].state = ti[t].state
    BY Zenon, <1>1, <1>3, <1>6, <2>1, <2>2, <2>4 DEF SlotFits
  <2> QED
    BY Zenon, <1>1, <1>6, <2>3, <2>4 DEF RowMoves, Clean
<1> QED
  BY Zenon, <1>2, <1>5, <1>6 DEF SlotStep, SlotFits

-----------------------------------------------------------------------------
(* Steps of the tick and of the dispatch workers.                          *)

\* A step that gives t nothing, and at most drops t from the plan.
LeavesTask(t) ==
  /\ ti'[t] = ti[t]
  /\ queue'[t] = queue[t]
  /\ \A p \in Pods : pods'[p].task = t => pods'[p] = pods[p]
  /\ tick'.todo[t] \in {tick.todo[t], Keep}
  /\ ~Launching(t)
  /\ ~Launching(t)'

\* Nothing is at work for a clean row whose attempt has not been launched.
LEMMA NoWorkYet ==
  ASSUME TypeOK, NEW t \in Tasks, SlotFits(t), ~RunTerminal, Unlaunched(t)
  PROVE  ~LiveWork(t)
BY DEF SlotFits, Unlaunched, NoPodOf, LiveWork

LEMMA LeavesTaskKeeps ==
  ASSUME TypeOK, NEW t \in Tasks \ Sensors, LeavesTask(t), RunStays, LaunchInv(t)
  PROVE  LaunchInv(t)' /\ SlotStep(t)
<1> USE DEF LeavesTask
<1>1. PodsFit(t)'
  BY Zenon DEF LaunchInv, PodsFit
<1>2. ASSUME LaunchedOnce(t), PlanFits(t)
      PROVE  LaunchedOnce(t)' /\ PlanFits(t)'
  <2>1. \A try : NoPodOf(t, try) => NoPodOf(t, try)'
    BY DEF NoPodOf
  <2>2. Unlaunched(t) => Unlaunched(t)'
    BY <2>1 DEF Unlaunched
  <2>3. LaunchedOnce(t)'
    BY <1>2, <2>1, <2>2 DEF LaunchedOnce
  <2>4. PlanFits(t)'
    BY Zenon, <1>2, <2>2 DEF PlanFits, Keep, Doomed, RunStays
  <2> QED
    BY <2>3, <2>4
<1>3. LiveWork(t)' => LiveWork(t)
  BY DEF LiveWork
<1>4. (Clean(t)' => Clean(t)) /\ (Occupies(t)' => Occupies(t))
  BY Zenon DEF Clean, Occupies, HoldsSlot, Keep
<1>5. ASSUME Clean(t)', SlotFits(t), ~RunTerminal'
      PROVE  SlotFits(t)'
  <2>1. ~RunTerminal /\ PlanFits(t)
    BY Zenon, <1>4, <1>5 DEF RunStays, LaunchInv, Clean
  <2>2. CASE tick.todo[t] = "queued"
    BY Zenon, <1>3, <1>5, <2>1, <2>2, NoWorkYet DEF PlanFits, SlotFits, LiveWork
  <2>3. CASE tick.todo[t] # "queued"
    BY Zenon, <1>3, <1>5, <2>1, <2>3 DEF SlotFits
  <2> QED
    BY <2>2, <2>3
<1>6. SlotStep(t)
  BY Zenon, <1>4, <1>5 DEF SlotStep, SlotFits
<1> QED
  BY Zenon, <1>1, <1>2, <1>6 DEF LaunchInv, UnmadeRow

\* The rows of a run that is being started.
LEMMA MaterializeKeeps ==
  ASSUME TypeOK, NEW t \in Tasks \ Sensors, LaunchInv(t), MaterializeTasks
  PROVE  LaunchInv(t)' /\ SlotStep(t)
<1>1. UNCHANGED <<run, queue, pods>> /\ tick.pc = "materialize"
  BY DEF MaterializeTasks
<1>2. tick'.pc = "start" /\ tick'.todo = tick.todo
  BY DEF MaterializeTasks, TypeOK, TickRecord
<1>3. ~Launching(t) /\ ~Launching(t)'
  BY <1>1, <1>2 DEF Launching
<1>4. CASE Exists(ti[t])
  <2>1. LeavesTask(t)
    BY <1>1, <1>2, <1>3, <1>4 DEF LeavesTask, MaterializeTasks
  <2> QED
    BY <1>1, <2>1, LeavesTaskKeeps DEF RunStays, RunTerminal
<1>5. CASE ~Exists(ti[t])
  <2>1. /\ ti[t].state = "absent" /\ ti[t].try = 0 /\ ti[t].infraAttempts = 0
        /\ ~ti[t].infra
    BY <1>5 DEF LaunchInv, UnmadeRow, Exists
  <2>2. ti'[t].state = "none" /\ ti'[t].try = 1
    BY Zenon, <1>5 DEF MaterializeTasks, CreateTaskInstance, AbsentRow
  <2>3. PodsFit(t) /\ LaunchedOnce(t) /\ PlanFits(t)
    BY <2>1 DEF LaunchInv
  <2>4. PodsFit(t)'
    BY <1>1, <2>1, <2>2, <2>3 DEF PodsFit, TypeOK, PodRecord
  <2>5. Unlaunched(t)'
    BY <1>1, <2>1, <2>2, <2>3 DEF Unlaunched, NoPodOf, PodsFit, LaunchedOnce, TypeOK, PodRecord
  <2>6. LaunchedOnce(t)'
    BY Zenon, <1>1, <2>2, <2>3, <2>5 DEF LaunchedOnce, Unlaunched
  <2>7. PlanFits(t)'
    BY Zenon, <1>1, <1>2, <1>3, <2>1, <2>2, <2>3, <2>5 DEF PlanFits, Doomed
  <2>8. Clean(t) /\ (Occupies(t)' => Occupies(t))
    BY <1>1, <1>2, <2>1, <2>2 DEF Clean, Occupies, HoldsSlot
  <2>9. ASSUME SlotFits(t), ~RunTerminal'
        PROVE  ~LiveWork(t)'
    BY Zenon, <1>1, <2>1, <2>3, <2>9 DEF SlotFits, LiveWork, PlanFits, RunTerminal
  <2>10. SlotStep(t)
    BY Zenon, <2>8, <2>9 DEF SlotStep, SlotFits, LiveWork
  <2> QED
    BY <2>2, <2>4, <2>6, <2>7, <2>10 DEF LaunchInv, UnmadeRow
<1> QED
  BY <1>4, <1>5

\* A step of the tick on the planned task u leaves every other task.
LEMMA DoneLeaves ==
  ASSUME TypeOK, NEW u, tick.pc = "plan" \/ tick.task = u, DonePlanned(u),
         \A t \in Tasks : t # u => ti'[t] = ti[t], queue' = queue, pods' = pods
  PROVE  /\ tick'.pc = "plan" /\ tick'.todo = [tick.todo EXCEPT ![u] = Keep]
         /\ \A t \in Tasks : t # u => LeavesTask(t)
<1>1. tick'.pc = "plan" /\ tick'.todo = [tick.todo EXCEPT ![u] = Keep]
  BY DEF DonePlanned, TypeOK, TickRecord
<1> QED
  BY <1>1 DEF LeavesTask, Launching, TypeOK, TickRecord

\* The none rail.
LEMMA ResetKeeps ==
  ASSUME TypeOK, NEW t \in Tasks \ Sensors, LaunchInv(t), NEW u \in Tasks, ResetTask(u)
  PROVE  LaunchInv(t)' /\ SlotStep(t)
<1>1. UNCHANGED <<run, queue, pods>> /\ tick.pc = "plan" /\ tick.todo[u] = "none"
  BY DEF ResetTask, Planned
<1>2. /\ tick'.pc = "plan" /\ tick'.todo = [tick.todo EXCEPT ![u] = Keep]
      /\ \A v \in Tasks : v # u => LeavesTask(v)
  <2>1. (\A v \in Tasks : v # u => ti'[v] = ti[v]) /\ DonePlanned(u)
    BY <1>1 DEF ResetTask, TypeOK
  <2> QED
    BY <1>1, <2>1, DoneLeaves
<1>3. RunStays /\ ~Launching(t) /\ ~Launching(t)'
  BY <1>1, <1>2 DEF RunStays, RunTerminal, Launching
<1>4. CASE t # u
  BY <1>2, <1>3, <1>4, LeavesTaskKeeps
<1>5. CASE t = u
  <2> DEFINE r == ti[t]
  <2>1. ti'[t] = ResetPlanned(tick.snap[t], r) /\ r \in Row /\ tick'.todo[t] = Keep
    BY <1>2, <1>5 DEF ResetTask, TypeOK, TickRecord
  <2>2. r.state # "up_for_reschedule"
    BY DEF LaunchInv
  <2>3. \/ ti'[t] = r
        \/ /\ r.state = "failed" /\ ti'[t].state = "none" /\ ti'[t].try = r.try
           /\ ti'[t].infraAttempts = r.infraAttempts + 1
        \/ /\ r.state = "up_for_retry" /\ ti'[t].state = "none"
           /\ ti'[t].try = r.try + 1 /\ ti'[t].infraAttempts = r.infraAttempts
    BY Zenon, <2>1, <2>2 DEF ResetPlanned, RedispatchRescheduledTaskInstance,
       ResetTaskInstanceInfraReplace, ResetTaskInstanceForRetry, ResetColumns, Row
  <2>4. CASE ti'[t] = r
    <3>1. LeavesTask(t)
      BY <1>1, <1>3, <2>1, <2>4 DEF LeavesTask
    <3> QED
      BY <1>3, <3>1, LeavesTaskKeeps
  <2>5. CASE /\ r.state = "failed" /\ ti'[t].state = "none" /\ ti'[t].try = r.try
             /\ ti'[t].infraAttempts = r.infraAttempts + 1
    <3>1. ti'[t].infraAttempts # 0
      BY <2>1, <2>5 DEF Row
    <3>2. SlotStep(t)
      BY Zenon, <1>1, <2>1, <2>5, <3>1 DEF SlotStep, Clean, Occupies, HoldsSlot, Keep
    <3> QED
      BY Zenon, <1>1, <2>5, <3>1, <3>2 DEF LaunchInv, PodsFit, UnmadeRow
  <2>6. CASE /\ r.state = "up_for_retry" /\ ti'[t].state = "none"
             /\ ti'[t].try = r.try + 1 /\ ti'[t].infraAttempts = r.infraAttempts
    <3>1. ASSUME NEW p \in Pods, pods[p].task = t
          PROVE  pods[p].try <= ti'[t].try /\ pods[p].try # ti'[t].try
      <4>1. pods[p].try \in Nat /\ ti[t].try \in Nat
        BY <2>1 DEF TypeOK, PodRecord, Row
      <4>2. pods[p].try <= ti[t].try
        BY <3>1 DEF LaunchInv, PodsFit
      <4> QED
        BY <2>6, <4>1, <4>2
    <3>2. PodsFit(t)'
      BY Zenon, <1>1, <3>1 DEF LaunchInv, PodsFit
    <3>3. ASSUME LaunchedOnce(t), PlanFits(t)
          PROVE  LaunchedOnce(t)' /\ PlanFits(t)'
      <4>1. Unlaunched(t)'
        <5>1. queue[t] = 0
          BY <2>6, <3>3 DEF PlanFits
        <5> QED
          BY <1>1, <3>1, <5>1 DEF Unlaunched, NoPodOf
      <4>2. LaunchedOnce(t)'
        BY Zenon, <1>1, <2>6, <3>3, <4>1 DEF LaunchedOnce, Unlaunched
      <4>3. PlanFits(t)'
        BY Zenon, <2>1, <2>6, <4>1 DEF PlanFits, Keep, Doomed
      <4> QED
        BY <4>2, <4>3
    <3>4. (Clean(t)' => Clean(t)) /\ (Occupies(t)' => Occupies(t))
      BY Zenon, <1>1, <2>1, <2>6 DEF LaunchInv, PlanFits, Clean, Occupies, HoldsSlot, Keep
    <3>5. ASSUME SlotFits(t), ~RunTerminal'
          PROVE  ~LiveWork(t)'
      BY Zenon, <1>1, <1>5, <2>6, <3>5 DEF SlotFits, LiveWork, RunTerminal
    <3>6. SlotStep(t)
      BY Zenon, <3>4, <3>5 DEF SlotStep, SlotFits, LiveWork
    <3> QED
      BY <2>6, <3>2, <3>3, <3>6 DEF LaunchInv, UnmadeRow
  <2> QED
    BY Zenon, <2>3, <2>4, <2>5, <2>6
<1> QED
  BY <1>4, <1>5

\* What a new pod of u changes.
LEMMA NewPod ==
  ASSUME TypeOK, NEW u \in Tasks, CreatePod(u)
  PROVE  \E n \in Pods :
           /\ pods'[n].task = u /\ pods'[n].try = ti[u].try
           /\ pods'[n].st = "pending" /\ pods'[n].out = "none"
           /\ \A p \in Pods : p # n => pods'[p] = pods[p]
<1>1. PICK n \in Pods :
        pods' = [pods EXCEPT ![n] = [task |-> u, try |-> ti[u].try, st |-> "pending",
                                     out |-> "none", del |-> FALSE]]
  BY Zenon DEF CreatePod
<1> QED
  BY <1>1 DEF TypeOK

\* The pods and the request of a task that is given its pod.
LEMMA NewPodFits ==
  ASSUME TypeOK, NEW u \in Tasks, CreatePod(u), UNCHANGED ti
  PROVE  /\ PodsFit(u) => PodsFit(u)'
         /\ \A t \in Tasks : t # u => \A p \in Pods : pods'[p].task = t => pods'[p] = pods[p]
         /\ LaunchedOnce(u) /\ NoPodOf(u, ti[u].try) =>
              \A p, q \in Pods : pods'[p].task = u /\ pods'[q].task = u
                                   /\ pods'[p].try = pods'[q].try => p = q
         /\ SlotFits(u) /\ ~RunTerminal => \A p \in Pods :
              pods'[p].task = u /\ pods'[p].st \in LiveSt => pods'[p].try = ti[u].try
<1>1. PICK n \in Pods :
        /\ pods'[n].task = u /\ pods'[n].try = ti[u].try
        /\ pods'[n].st = "pending" /\ pods'[n].out = "none"
        /\ \A p \in Pods : p # n => pods'[p] = pods[p]
  BY NewPod
<1>2. PodsFit(u) => PodsFit(u)'
  BY <1>1 DEF PodsFit, TypeOK, Row
<1>3. \A t \in Tasks : t # u => \A p \in Pods : pods'[p].task = t => pods'[p] = pods[p]
  BY <1>1
<1>4. ASSUME LaunchedOnce(u), NoPodOf(u, ti[u].try), NEW p \in Pods, NEW q \in Pods,
             pods'[p].task = u, pods'[q].task = u, pods'[p].try = pods'[q].try
      PROVE  p = q
  <2>1. CASE p # n /\ q # n
    BY <1>1, <1>4, <2>1 DEF LaunchedOnce
  <2>2. CASE p = n \/ q = n
    BY <1>1, <1>4, <2>2 DEF NoPodOf
  <2> QED
    BY <2>1, <2>2
<1>5. SlotFits(u) /\ ~RunTerminal => \A p \in Pods :
        pods'[p].task = u /\ pods'[p].st \in LiveSt => pods'[p].try = ti[u].try
  BY <1>1 DEF SlotFits
<1> QED
  BY Zenon, <1>2, <1>3, <1>4, <1>5

\* The first half of a launch.
LEMMA DispatchKeeps ==
  ASSUME TypeOK, NEW t \in Tasks \ Sensors, LaunchInv(t), NEW u \in Tasks, Dispatch(u)
  PROVE  LaunchInv(t)' /\ SlotStep(t)
<1>1. UNCHANGED <<run, ti>> /\ tick.pc = "plan" /\ tick.todo[u] = "queued"
  BY DEF Dispatch, Planned
<1>2. tick'.pc = "launch" /\ tick'.task = u /\ tick'.todo = tick.todo
  BY DEF Dispatch, TypeOK, TickRecord
<1>3. RunStays /\ ~Launching(t) /\ (Launching(t)' <=> t = u)
  BY <1>1, <1>2 DEF RunStays, RunTerminal, Launching
<1>4. \/ CreatePod(u) /\ UNCHANGED queue
      \/ queue' = [queue EXCEPT ![u] = @ + 1] /\ UNCHANGED pods
  BY DEF Dispatch
<1>5. CASE t # u
  <2>1. queue'[t] = queue[t] /\ \A p \in Pods : pods'[p].task = t => pods'[p] = pods[p]
    BY <1>1, <1>4, <1>5, NewPodFits DEF TypeOK
  <2>2. LeavesTask(t)
    BY <1>1, <1>2, <1>3, <1>5, <2>1 DEF LeavesTask
  <2> QED
    BY <1>3, <2>2, LeavesTaskKeeps
<1>6. CASE t = u
  <2>1. PodsFit(t)'
    <3>1. CASE CreatePod(u)
      BY Zenon, <1>1, <1>6, <3>1, NewPodFits DEF LaunchInv
    <3>2. CASE UNCHANGED pods
      BY <1>1, <3>2 DEF LaunchInv, PodsFit
    <3> QED
      BY <1>4, <3>1, <3>2
  <2>2. ASSUME LaunchedOnce(t), PlanFits(t)
        PROVE  LaunchedOnce(t)' /\ PlanFits(t)'
    <3>1. /\ Unlaunched(t) /\ ti[t].state \notin {"absent", "none", "up_for_retry"}
          /\ ti[t].state = "scheduled" \/ RunTerminal
      BY Zenon, <1>1, <1>3, <1>6, <2>2 DEF PlanFits
    <3>2. /\ \A p, q \in Pods : pods'[p].task = t /\ pods'[q].task = t
                                   /\ pods'[p].try = pods'[q].try => p = q
          /\ queue'[t] > 0 => queue'[t] = 1 /\ NoPodOf(t, ti[t].try)'
      <4>1. CASE CreatePod(u) /\ UNCHANGED queue
        BY <1>1, <1>6, <2>2, <3>1, <4>1, NewPodFits DEF Unlaunched
      <4>2. CASE queue' = [queue EXCEPT ![u] = @ + 1] /\ UNCHANGED pods
        <5>1. queue'[t] = 1
          BY <1>6, <3>1, <4>2 DEF Unlaunched, TypeOK
        <5>2. NoPodOf(t, ti[t].try)'
          BY <1>1, <3>1, <4>2 DEF Unlaunched, NoPodOf
        <5>3. \A p, q \in Pods : pods'[p].task = t /\ pods'[q].task = t
                                    /\ pods'[p].try = pods'[q].try => p = q
          BY <2>2, <4>2 DEF LaunchedOnce
        <5> QED
          BY <5>1, <5>2, <5>3
      <4> QED
        BY Zenon, <1>4, <4>1, <4>2
    <3>3. LaunchedOnce(t)'
      BY Zenon, <1>1, <1>3, <1>6, <3>1, <3>2 DEF LaunchedOnce
    <3>4. PlanFits(t)'
      BY Zenon, <1>1, <1>2, <1>3, <1>6, <3>1 DEF PlanFits, RunTerminal, Doomed
    <3> QED
      BY <3>3, <3>4
  <2>3. SlotStep(t)
    <3>1. ASSUME SlotFits(t), ~RunTerminal'
          PROVE  \A p \in Pods : pods'[p].task = t /\ pods'[p].st \in LiveSt
                                    => pods'[p].try = ti'[t].try
      <4>1. ~RunTerminal
        BY <1>1, <3>1 DEF RunTerminal
      <4>2. CASE CreatePod(u)
        BY Zenon, <1>1, <1>6, <3>1, <4>1, <4>2, NewPodFits
      <4>3. CASE UNCHANGED pods
        BY <1>1, <3>1, <4>1, <4>3 DEF SlotFits
      <4> QED
        BY <1>4, <4>2, <4>3
    <3> QED
      BY Zenon, <1>1, <1>2, <1>6, <3>1 DEF SlotStep, SlotFits, Clean, Occupies
  <2> QED
    BY <1>1, <2>1, <2>2, <2>3 DEF LaunchInv, UnmadeRow
<1> QED
  BY <1>5, <1>6

\* The second half.
LEMMA RecordKeeps ==
  ASSUME TypeOK, TickFits, NEW t \in Tasks \ Sensors, LaunchInv(t), RecordQueued
  PROVE  LaunchInv(t)' /\ SlotStep(t)
<1> DEFINE u == tick.task
<1>1. /\ UNCHANGED <<run, queue, pods>> /\ tick.pc = "launch"
      /\ u \in Tasks /\ tick.todo[u] = "queued"
  BY DEF RecordQueued, TickFits
<1>2. /\ tick'.pc = "plan" /\ tick'.todo = [tick.todo EXCEPT ![u] = Keep]
      /\ \A v \in Tasks : v # u => LeavesTask(v)
  <2>1. (\A v \in Tasks : v # u => ti'[v] = ti[v]) /\ DonePlanned(u)
    BY <1>1 DEF RecordQueued, TypeOK
  <2> QED
    BY <1>1, <2>1, DoneLeaves
<1>3. RunStays /\ ~Launching(t)'
  BY <1>1, <1>2 DEF RunStays, RunTerminal, Launching
<1>4. CASE t # u
  BY <1>2, <1>3, <1>4, LeavesTaskKeeps
<1>5. CASE t = u
  <2>1. /\ ti'[t] = ApplyTransition(ti[t], "queued") /\ ti[t] \in Row
        /\ tick'.todo[t] = Keep
    BY <1>1, <1>2, <1>5 DEF RecordQueued, TypeOK, TickRecord
  <2>2. /\ ti'[t].state \in {"queued", "absent"} /\ ti'[t].try = ti[t].try
        /\ ti'[t].infraAttempts = ti[t].infraAttempts /\ ti'[t].infra = ti[t].infra
        /\ ti[t].state # "absent" => ti'[t].state = "queued"
    BY <2>1 DEF ApplyTransition, Exists, Row
  <2>3. PodsFit(t)'
    BY Zenon, <1>1, <2>2 DEF LaunchInv, PodsFit
  <2>4. ASSUME LaunchedOnce(t), PlanFits(t)
        PROVE  LaunchedOnce(t)' /\ PlanFits(t)'
    <3>1. ti'[t].state = "queued"
      BY Zenon, <1>1, <1>5, <2>2, <2>4 DEF PlanFits
    <3>2. LaunchedOnce(t)'
      BY Zenon, <1>1, <2>2, <2>4, <3>1 DEF LaunchedOnce, NoPodOf
    <3>3. PlanFits(t)'
      BY <2>1, <3>1 DEF PlanFits, Keep, Doomed
    <3> QED
      BY <3>2, <3>3
  <2>5. SlotStep(t)
    <3>1. Clean(t)' => Clean(t) /\ ti'[t].state = "queued"
      BY Zenon, <1>1, <1>5, <2>2 DEF Clean, LaunchInv, PlanFits
    <3> QED
      BY Zenon, <1>1, <1>5, <2>2, <3>1 DEF SlotStep, SlotFits, Occupies, RunTerminal
  <2> QED
    BY Zenon, <2>2, <2>3, <2>4, <2>5 DEF LaunchInv, UnmadeRow
<1> QED
  BY <1>4, <1>5

\* A rejected launch: without faults, by a channel that is full.
LEMMA RejectedKeeps ==
  ASSUME TypeOK, NEW t \in Tasks \ Sensors, LaunchInv(t), NEW u \in Tasks,
         DispatchRejected(u), ~Fault
  PROVE  LaunchInv(t)' /\ SlotStep(t)
<1>1. /\ UNCHANGED <<run, queue, pods>> /\ tick.pc = "plan" /\ tick.todo[u] = "queued"
      /\ ti' = [ti EXCEPT ![u] = handleDispatchFailure(tick.snap[u], @)]
  BY Zenon DEF DispatchRejected, Planned
<1>2. /\ tick'.pc = "plan" /\ tick'.todo = [tick.todo EXCEPT ![u] = Keep]
      /\ \A v \in Tasks : v # u => LeavesTask(v)
  <2>1. (\A v \in Tasks : v # u => ti'[v] = ti[v]) /\ DonePlanned(u)
    BY <1>1 DEF DispatchRejected, TypeOK
  <2> QED
    BY <1>1, <2>1, DoneLeaves
<1>3. RunStays /\ ~Launching(t) /\ ~Launching(t)'
  BY <1>1, <1>2 DEF RunStays, RunTerminal, Launching
<1>4. CASE t # u
  BY <1>2, <1>3, <1>4, LeavesTaskKeeps
<1>5. CASE t = u
  <2>1. /\ ti'[t] = handleDispatchFailure(tick.snap[t], ti[t]) /\ ti[t] \in Row
        /\ tick'.todo[t] = Keep
    BY <1>1, <1>2, <1>5 DEF TypeOK, TickRecord
  <2>2. /\ ti'[t].try = ti[t].try /\ ti'[t].infra = ti[t].infra
        /\ ti'[t].infraAttempts = ti[t].infraAttempts
        /\ ti'[t].state = ti[t].state \/ ti'[t].state = "failed"
    BY Zenon, <2>1 DEF handleDispatchFailure, FailDispatchExhausted, RecordDispatchFailure, Row
  <2>3. PodsFit(t)'
    BY Zenon, <1>1, <2>2 DEF LaunchInv, PodsFit
  <2>4. ASSUME LaunchedOnce(t), PlanFits(t)
        PROVE  LaunchedOnce(t)' /\ PlanFits(t)'
    <3>1. Unlaunched(t) /\ ti[t].state # "up_for_retry"
      BY Zenon, <1>1, <1>3, <1>5, <2>4 DEF PlanFits
    <3>2. Unlaunched(t)' /\ queue'[t] = 0
      BY Zenon, <1>1, <2>2, <3>1 DEF Unlaunched, NoPodOf
    <3>3. LaunchedOnce(t)'
      BY <1>1, <2>4, <3>2 DEF LaunchedOnce
    <3>4. PlanFits(t)'
      BY Zenon, <2>1, <2>2, <3>1, <3>2 DEF PlanFits, Keep, Doomed
    <3> QED
      BY <3>3, <3>4
  <2>5. SlotStep(t)
    <3>1. Clean(t)' => Clean(t) /\ Unlaunched(t)
      BY Zenon, <1>1, <1>3, <1>5, <2>2 DEF Clean, LaunchInv, PlanFits
    <3>2. ASSUME Clean(t)', SlotFits(t), ~RunTerminal'
          PROVE  ~LiveWork(t)'
      <4>1. ~LiveWork(t)
        BY <1>1, <3>1, <3>2, NoWorkYet DEF RunTerminal
      <4> QED
        BY <1>1, <4>1 DEF LiveWork
    <3> QED
      BY Zenon, <1>1, <1>5, <3>1, <3>2 DEF SlotStep, SlotFits, Occupies, LiveWork
  <2> QED
    BY Zenon, <2>2, <2>3, <2>4, <2>5 DEF LaunchInv, UnmadeRow
<1> QED
  BY <1>4, <1>5

\* The batched transitions.
LEMMA FlushKeeps ==
  ASSUME TypeOK, NEW t \in Tasks \ Sensors, LaunchInv(t), FlushTransitions
  PROVE  LaunchInv(t)' /\ SlotStep(t)
<1>1. UNCHANGED <<run, queue, pods>> /\ tick.pc = "plan"
  BY DEF FlushTransitions
<1>2. PICK first \in FirstPlanned(Batched) :
        /\ ti' = [u \in Tasks |-> IF u \in {v \in Tasks : tick.todo[v] = tick.todo[first]}
                                    THEN ApplyTransition(ti[u], tick.todo[first]) ELSE ti[u]]
        /\ tick' = [tick EXCEPT !.todo =
                      [u \in Tasks |-> IF u \in {v \in Tasks : tick.todo[v] = tick.todo[first]}
                                        THEN Keep ELSE tick.todo[u]]]
  BY Zenon DEF FlushTransitions
<1> DEFINE to == tick.todo[first]
<1>3. to \in Doomed \cup {"scheduled", "up_for_retry"}
  BY <1>2 DEF FirstPlanned, Batched, TypeOK, TickRecord, PlanTarget, Doomed
<1>4. /\ tick'.pc = "plan"
      /\ tick'.todo[t] = IF tick.todo[t] = to THEN Keep ELSE tick.todo[t]
      /\ ti'[t] = IF tick.todo[t] = to THEN ApplyTransition(ti[t], to) ELSE ti[t]
  BY <1>1, <1>2 DEF TypeOK, TickRecord
<1>5. RunStays /\ ~Launching(t) /\ ~Launching(t)'
  BY <1>1, <1>4 DEF RunStays, RunTerminal, Launching
<1> HIDE DEF to
<1>6. CASE tick.todo[t] # to
  <2>1. LeavesTask(t)
    BY <1>1, <1>4, <1>5, <1>6 DEF LeavesTask
  <2> QED
    BY <1>5, <2>1, LeavesTaskKeeps
<1>7. CASE tick.todo[t] = to
  <2>1. /\ ti'[t].state \in {to, "absent"} /\ ti'[t].try = ti[t].try
        /\ ti'[t].infraAttempts = ti[t].infraAttempts /\ ti'[t].infra = ti[t].infra
        /\ ti[t].state # "absent" => ti'[t].state = to
        /\ tick'.todo[t] = Keep
    BY <1>4, <1>7 DEF ApplyTransition, Exists, TypeOK, Row
  <2>2. PodsFit(t)'
    BY Zenon, <1>1, <2>1 DEF LaunchInv, PodsFit
  <2>3. ASSUME LaunchedOnce(t), PlanFits(t)
        PROVE  LaunchedOnce(t)' /\ PlanFits(t)'
    <3>1. /\ to \in Doomed \cup {"scheduled"} => ti[t].state = "none"
          /\ to = "up_for_retry" => ti[t].state = "failed" /\ ~ti[t].infra /\ queue[t] = 0
      BY Zenon, <1>7, <2>3 DEF PlanFits
    <3>2. ti'[t].state = to
      BY <1>3, <2>1, <3>1
    <3>3. to \in Doomed \cup {"scheduled"} => Unlaunched(t)'
      BY <1>1, <2>1, <2>3, <3>1 DEF LaunchedOnce, Unlaunched, NoPodOf
    <3>4. LaunchedOnce(t)'
      BY <1>1, <1>3, <2>1, <2>3, <3>2, <3>3 DEF LaunchedOnce, NoPodOf, Doomed
    <3>5. PlanFits(t)'
      BY <1>1, <1>3, <2>1, <3>1, <3>2 DEF PlanFits, Keep, Doomed
    <3> QED
      BY <3>4, <3>5
  <2>4. SlotStep(t)
    <3>1. Clean(t)' => Clean(t)
      BY <2>1 DEF Clean
    <3>2. Occupies(t)' => Occupies(t)
      BY Zenon, <1>1, <1>3, <2>1 DEF Occupies, HoldsSlot, Keep, Doomed
    <3>3. ASSUME Clean(t)', SlotFits(t), ~RunTerminal'
          PROVE  ~LiveWork(t)'
      <4>1. ti[t].state \in {"none", "failed"} /\ tick.todo[t] # "queued"
        BY Zenon, <1>3, <1>7, <3>1, <3>3 DEF LaunchInv, PlanFits, Clean, Doomed
      <4> QED
        BY <1>1, <3>3, <4>1 DEF SlotFits, LiveWork, RunTerminal
    <3> QED
      BY Zenon, <3>1, <3>2, <3>3 DEF SlotStep, SlotFits, LiveWork
  <2> QED
    BY Zenon, <1>3, <2>1, <2>2, <2>3, <2>4 DEF LaunchInv, UnmadeRow, Doomed
<1> QED
  BY <1>6, <1>7

\* From which rows a plan is made.
LEMMA PlanSources ==
  ASSUME NEW snap, NEW ready, NEW t \in Tasks
  PROVE  LET plan == PlanRun(snap, ready)[t] IN
         /\ plan = "queued" => snap[t].state = "scheduled"
         /\ plan \in Doomed \cup {"scheduled"} => snap[t].state = "none"
         /\ plan = "up_for_retry" => snap[t].state = "failed" /\ ~snap[t].infra
<1> DEFINE r == snap[t]
           plan == PlanRun(snap, ready)[t]
<1>1. CASE OnRetryRail(r)
  <2>1. plan = planRetryTransition(t, r, ready)
    BY <1>1 DEF PlanRun, OnRetryRail, Parked
  <2>2. plan \in {"none", Keep} \/ (plan = "up_for_retry" /\ r.state = "failed" /\ ~r.infra)
    BY <2>1 DEF planRetryTransition, InfraFailed
  <2> QED
    BY <2>2 DEF Doomed, Keep
<1>2. CASE r.state = "none"
  <2>1. plan = decideStart(t, effective(snap, ready))
    BY <1>2 DEF PlanRun, OnRetryRail, Parked
  <2>2. plan \in {"scheduled", "skipped", "upstream_failed", Keep}
    BY <2>1 DEF decideStart
  <2> QED
    BY <1>2, <2>2 DEF Keep
<1>3. CASE ~OnRetryRail(r) /\ r.state # "none"
  <2>1. plan = (IF r.state = "scheduled" /\ t \in ready /\ Admitted(snap, ready, t)
                  THEN "queued" ELSE Keep)
    BY <1>3 DEF PlanRun
  <2> QED
    BY <2>1 DEF Keep, Doomed
<1> QED
  BY Zenon, <1>1, <1>2, <1>3

\* A new plan.
LEMMA SnapshotKeeps ==
  ASSUME TypeOK, NEW t \in Tasks \ Sensors, LaunchInv(t), NEW ready, TickSnapshot(ready)
  PROVE  LaunchInv(t)'
<1>1. UNCHANGED <<run, ti, queue, pods>> /\ RunActive /\ tick.pc = "idle"
  BY DEF TickSnapshot
<1>2. \/ tick'.pc = "materialize" /\ \A u \in Tasks : tick'.todo[u] = Keep
      \/ tick'.pc = "plan" /\ tick'.todo = PlanRun(ti, ready)
  BY DEF TickSnapshot, IdleTick
<1>4. ~Launching(t) /\ ~Launching(t)'
  BY <1>1, <1>2 DEF Launching
<1>5. PodsFit(t)'
  BY <1>1 DEF LaunchInv, PodsFit
<1>6. ASSUME LaunchedOnce(t), PlanFits(t)
      PROVE  LaunchedOnce(t)' /\ PlanFits(t)'
  <2>1. Unlaunched(t)' <=> Unlaunched(t)
    BY <1>1 DEF Unlaunched, NoPodOf
  <2>2. LaunchedOnce(t)'
    BY Zenon, <1>1, <1>4, <1>6, <2>1 DEF LaunchedOnce, NoPodOf
  <2>3. /\ tick'.todo[t] = "queued" => ti[t].state = "scheduled"
        /\ tick'.todo[t] \in Doomed \cup {"scheduled"} => ti[t].state = "none"
        /\ tick'.todo[t] = "up_for_retry" => ti[t].state = "failed" /\ ~ti[t].infra
    BY <1>2, PlanSources DEF Keep, Doomed
  <2>4. ti[t].state = "scheduled" => Unlaunched(t)
    BY <1>4, <1>6 DEF LaunchedOnce
  <2>5. ti[t].state = "failed" /\ ~ti[t].infra => queue[t] = 0
    BY <1>1, <1>6 DEF PlanFits, RunActive, RunTerminal
  <2>6. PlanFits(t)'
    BY <1>1, <1>4, <1>6, <2>1, <2>3, <2>4, <2>5 DEF PlanFits, RunTerminal
  <2> QED
    BY <2>2, <2>6
<1> QED
  BY <1>1, <1>5, <1>6 DEF LaunchInv, UnmadeRow

\* A worker turns the request into a pod.
LEMMA WorkerKeeps ==
  ASSUME TypeOK, NEW t \in Tasks \ Sensors, LaunchInv(t), NEW u \in Tasks,
         WorkerDispatch(u), ~Fault
  PROVE  LaunchInv(t)' /\ SlotStep(t)
<1>1. /\ UNCHANGED <<run, ti, tick>> /\ CreatePod(u) /\ queue[u] > 0
      /\ queue' = [queue EXCEPT ![u] = @ - 1]
  BY DEF WorkerDispatch
<1>2. RunStays /\ (Launching(t)' <=> Launching(t))
  BY <1>1 DEF RunStays, RunTerminal, Launching
<1>3. CASE t # u
  <2>1. queue'[t] = queue[t] /\ \A p \in Pods : pods'[p].task = t => pods'[p] = pods[p]
    BY <1>1, <1>3, NewPodFits DEF TypeOK
  <2>2. PodsFit(t)'
    BY Zenon, <1>1, <2>1 DEF LaunchInv, PodsFit
  <2>3. ASSUME LaunchedOnce(t), PlanFits(t)
        PROVE  LaunchedOnce(t)' /\ PlanFits(t)'
    <3>1. Unlaunched(t) => Unlaunched(t)'
      BY <1>1, <2>1 DEF Unlaunched, NoPodOf
    <3>2. LaunchedOnce(t)'
      BY <1>1, <1>2, <2>1, <2>3, <3>1 DEF LaunchedOnce, NoPodOf
    <3>3. PlanFits(t)'
      BY <1>1, <1>2, <2>1, <2>3, <3>1 DEF PlanFits, RunTerminal
    <3> QED
      BY <3>2, <3>3
  <2>4. SlotStep(t)
    <3>1. LiveWork(t)' => LiveWork(t)
      BY <2>1 DEF LiveWork
    <3> QED
      BY Zenon, <1>1, <2>1, <3>1 DEF SlotStep, SlotFits, Clean, Occupies, HoldsSlot, RunTerminal
  <2> QED
    BY Zenon, <1>1, <2>2, <2>3, <2>4 DEF LaunchInv, UnmadeRow
<1>4. CASE t = u
  <2>1. PodsFit(t)'
    BY Zenon, <1>1, <1>4, NewPodFits DEF LaunchInv
  <2>2. ASSUME LaunchedOnce(t), PlanFits(t)
        PROVE  LaunchedOnce(t)' /\ PlanFits(t)'
    <3>1. NoPodOf(t, ti[t].try) /\ queue[t] = 1 /\ ~Unlaunched(t)
      BY <1>1, <1>4, <2>2 DEF LaunchedOnce, Unlaunched
    <3>2. queue'[t] = 0
      BY <1>1, <1>4, <3>1 DEF TypeOK
    <3>3. LaunchedOnce(t)'
      <4>1. \A p, q \in Pods : pods'[p].task = t /\ pods'[q].task = t
                                  /\ pods'[p].try = pods'[q].try => p = q
        BY <1>1, <1>4, <2>2, <3>1, NewPodFits
      <4> QED
        BY <1>1, <1>2, <2>2, <3>1, <3>2, <4>1 DEF LaunchedOnce
    <3>4. PlanFits(t)'
      BY <1>1, <1>2, <2>2, <3>1, <3>2 DEF PlanFits, RunTerminal
    <3> QED
      BY <3>3, <3>4
  <2>3. SlotStep(t)
    <3>1. LiveWork(t) /\ Occupies(t)
      BY <1>1, <1>4 DEF LiveWork, Occupies, HoldsSlot
    <3>2. ASSUME SlotFits(t), ~RunTerminal'
          PROVE  \A p \in Pods : pods'[p].task = t /\ pods'[p].st \in LiveSt
                                    => pods'[p].try = ti'[t].try
      BY Zenon, <1>1, <1>4, <3>2, NewPodFits DEF RunTerminal
    <3> QED
      BY Zenon, <1>1, <3>1, <3>2 DEF SlotStep, SlotFits, Clean, RunTerminal
  <2> QED
    BY Zenon, <1>1, <2>1, <2>2, <2>3 DEF LaunchInv, UnmadeRow
<1> QED
  BY <1>3, <1>4

-----------------------------------------------------------------------------
(* Every step, and the theorem.                                            *)

\* A step that leaves every task keeps what the tick has done for them.
LEMMA AllLeft ==
  ASSUME TypeOK, NEW t \in Tasks \ Sensors, LaunchInv(t), RunStays, UNCHANGED <<ti, queue, pods>>,
         tick.pc # "launch", tick'.pc # "launch", tick'.todo[t] \in {tick.todo[t], Keep}
  PROVE  LaunchInv(t)' /\ SlotStep(t)
<1>1. LeavesTask(t)
  BY DEF LeavesTask, Launching
<1> QED
  BY <1>1, LeavesTaskKeeps

\* Every step of the tick keeps what it remembers in order.
LEMMA TickStaysFit ==
  ASSUME TypeOK, TickFits, ~Fault, SchedulerStep
  PROVE  TickFits'
<1>1. CASE \E ready \in SUBSET Tasks : TickSnapshot(ready)
  BY <1>1 DEF TickSnapshot, IdleTick, TickFits
<1>2. CASE TickIdle
  BY <1>2 DEF TickIdle, vars, TickFits
<1>3. CASE MaterializeTasks
  <2>1. tick'.pc = "start" /\ run' = run /\ tick.pc = "materialize"
    BY <1>3 DEF MaterializeTasks, TypeOK, TickRecord
  <2> QED
    BY <2>1 DEF TickFits
<1>4. CASE StartRun \/ Finalize
  BY <1>4, IdleTickOK DEF StartRun, Finalize, TickFits
<1>5. CASE \E u \in Tasks : Dispatch(u)
  <2>1. PICK u \in Tasks : tick'.pc = "launch" /\ tick'.task = u /\ tick'.todo[u] = "queued"
    BY <1>5 DEF Dispatch, Planned, TypeOK, TickRecord
  <2> QED
    BY <2>1 DEF TickFits
<1>6. CASE \/ \E u \in Tasks : ResetTask(u) \/ DispatchRejected(u) \/ DispatchBackpressure(u)
           \/ RecordQueued \/ FlushTransitions
  <2>1. tick'.pc = "plan"
    BY Zenon, <1>6 DEF ResetTask, DispatchRejected, DispatchBackpressure, RecordQueued,
       FlushTransitions, DonePlanned, TypeOK, TickRecord
  <2> QED
    BY <2>1 DEF TickFits
<1> QED
  BY <1>1, <1>2, <1>3, <1>4, <1>5, <1>6 DEF SchedulerStep, TickAbort

\* Every step of the tick keeps the invariant.
LEMMA TickKeeps ==
  ASSUME TypeOK, TickFits, NEW t \in Tasks \ Sensors, LaunchInv(t), ~Fault, SchedulerStep
  PROVE  /\ LaunchInv(t)'
         /\ SlotStep(t) \/ \E ready \in SUBSET Tasks : TickSnapshot(ready)
<1>1. CASE TickIdle \/ StartRun \/ Finalize
  <2>1. /\ UNCHANGED <<ti, queue, pods>> /\ tick.pc \in {"idle", "start", "plan"}
        /\ tick' \in {tick, IdleTick}
    BY <1>1 DEF TickIdle, StartRun, Finalize, vars
  <2>2. tick'.pc # "launch" /\ tick'.todo[t] \in {tick.todo[t], Keep}
    BY <2>1, IdleTickOK
  <2>3. RunStays
    BY Zenon, <1>1 DEF TickFits, TickIdle, StartRun, Finalize, FinalizeRun, Keep, RunStays,
       RunTerminal, vars
  <2> QED
    BY <2>1, <2>2, <2>3, AllLeft
<1>2. ASSUME NEW u \in Tasks, DispatchBackpressure(u)
      PROVE  LaunchInv(t)' /\ SlotStep(t)
  <2>1. UNCHANGED <<run, ti, queue, pods>> /\ DonePlanned(u) /\ tick.pc = "plan"
    BY <1>2 DEF DispatchBackpressure, Planned
  <2>2. tick'.pc = "plan" /\ tick'.todo = [tick.todo EXCEPT ![u] = Keep]
    BY <2>1 DEF DonePlanned, TypeOK, TickRecord
  <2>3. tick'.todo[t] \in {tick.todo[t], Keep}
    BY <2>2 DEF TypeOK, TickRecord
  <2>4. RunStays
    BY <2>1 DEF RunStays, RunTerminal
  <2> QED
    BY <2>1, <2>2, <2>3, <2>4, AllLeft
<1> QED
  BY <1>1, <1>2, SnapshotKeeps, MaterializeKeeps, ResetKeeps, DispatchKeeps, RejectedKeeps,
     RecordKeeps, FlushKeeps DEF SchedulerStep, TickAbort

\* So does every step, and only a snapshot can add to what occupies the slots.
LEMMA PodInvStep ==
  ASSUME TypeOK, PodInv, [Next]_vars, faults' = 0, ops' = 0
  PROVE  /\ op' = NoOp /\ TickFits' /\ \A t \in Tasks \ Sensors : LaunchInv(t)'
         /\ \/ \A t \in Tasks \ Sensors : SlotStep(t)
            \/ \E ready \in SUBSET Tasks : TickSnapshot(ready)
<1>1. /\ faults = 0 /\ ops = 0 /\ ~Fault /\ op' = op
      /\ \/ SchedulerStep \/ \E u \in Tasks : WorkerDispatch(u)
         \/ PodStep \/ MaintenanceStep \/ UNCHANGED vars
  BY QuietSteps DEF PodInv
<1>2. op = NoOp /\ TickFits /\ \A t \in Tasks \ Sensors : LaunchInv(t)
  BY <1>1 DEF PodInv
<1>3. CASE SchedulerStep
  BY <1>1, <1>2, <1>3, TickStaysFit, TickKeeps
<1>4. CASE \E u \in Tasks : WorkerDispatch(u)
  <2>1. UNCHANGED <<run, tick>>
    BY <1>4 DEF WorkerDispatch
  <2>2. \A t \in Tasks \ Sensors : LaunchInv(t)' /\ SlotStep(t)
    BY <1>1, <1>2, <1>4, WorkerKeeps
  <2> QED
    BY <1>1, <1>2, <2>1, <2>2 DEF TickFits
<1>5. CASE PodStep \/ MaintenanceStep \/ UNCHANGED vars
  <2>1. OutsideStep
    <3>1. CASE UNCHANGED vars
      BY <3>1, RowStill, PodStill DEF vars, OutsideStep, RunStays, RunTerminal
    <3>2. \A t \in Tasks \ Sensors : PodsFit(t)
      BY <1>2 DEF LaunchInv
    <3> QED
      BY <1>1, <1>5, <3>1, <3>2, AgentsOutside, ReapersOutside
  <2>2. TickFits'
    BY <1>2, <2>1 DEF TickFits, OutsideStep
  <2>3. \A t \in Tasks \ Sensors : LaunchInv(t)' /\ SlotStep(t)
    BY <1>2, <2>1, OutsideKeeps, OutsideSlots
  <2> QED
    BY <1>1, <1>2, <2>2, <2>3
<1> QED
  BY <1>1, <1>3, <1>4, <1>5

LEMMA PodInvHolds == Spec => []PodInv
<1>1. ASSUME Init
      PROVE  PodInv
  <2>1. tick.pc = "idle" /\ (\A t \in Tasks : tick.todo[t] = Keep) /\ op = NoOp
    BY <1>1, IdleTickOK DEF Init
  <2>2. ASSUME NEW t \in Tasks
        PROVE  LaunchInv(t)
    <3>1. ti[t] = AbsentRow /\ queue[t] = 0 /\ \A p \in Pods : pods[p].task # t
      BY <1>1, LifecycleAssumption DEF Init, UnusedPod
    <3>2. PodsFit(t) /\ Unlaunched(t) /\ ~Launching(t)
      BY <2>1, <3>1 DEF PodsFit, Unlaunched, NoPodOf, Launching
    <3>3. LaunchedOnce(t) /\ PlanFits(t)
      BY <2>1, <3>1, <3>2 DEF LaunchedOnce, PlanFits, Keep, Doomed, AbsentRow
    <3> QED
      BY <3>1, <3>2, <3>3 DEF LaunchInv, UnmadeRow, AbsentRow
  <2> QED
    BY <2>1, <2>2 DEF PodInv, TickFits
<1>2. TypeOK /\ PodInv /\ [Next]_vars => PodInv'
  BY PodInvStep DEF PodInv
<1> QED
  BY <1>1, <1>2, TypeCorrect, PTL DEF Spec

\* For every DAG, every buffer and any reapers: without faults and operator requests
\* no attempt of a task that is no sensor gets a second pod, unless it was re-placed.
THEOREM AttemptsLaunchOnce == Spec => []OnePodPerAttempt
<1>1. TypeOK /\ PodInv => OnePodPerAttempt
  <2> SUFFICES ASSUME TypeOK, PodInv, faults = 0, ops = 0, NEW p \in Pods, NEW q \in Pods,
                      p # q, pods[p].task \in Tasks \ Sensors,
                      pods[p].task = pods[q].task, pods[p].try = pods[q].try,
                      ~(ti[pods[p].task].infraAttempts > 0)
               PROVE  FALSE
    BY DEF OnePodPerAttempt
  <2>1. ti[pods[p].task].infraAttempts = 0
    BY DEF TypeOK, Row
  <2> QED
    BY <2>1 DEF PodInv, LaunchInv, LaunchedOnce
<1> QED
  BY <1>1, TypeCorrect, PodInvHolds, PTL

-----------------------------------------------------------------------------
(* max_active_tasks.  The planner counts rows, not pods: what makes its      *)
(* headroom true is that all work for a clean row shows in the row or in the *)
(* plan (SlotFits), so that between two snapshots no task comes to occupy a  *)
(* slot that the last one did not count or admit.                            *)

\* What a plan admits fits beside what the snapshot counts: no two of the tasks it
\* admits have the same number of dispatchable ones before them.
LEMMA HeadroomHolds ==
  ASSUME MaxActiveTasks > 0, NEW snap, NEW ready \in SUBSET Tasks
  PROVE  LET A == {t \in Tasks : snap[t].state \in {"queued", "running"}}
             Q == {t \in Dispatchable(snap, ready) : Admitted(snap, ready, t)}
         IN  Q # {} => Cardinality(A \cup Q) <= MaxActiveTasks
<1> DEFINE A == {t \in Tasks : snap[t].state \in {"queued", "running"}}
           D == Dispatchable(snap, ready)
           Q == {t \in D : Admitted(snap, ready, t)}
           room == MaxActiveTasks - Cardinality(A)
           rank == [t \in Q |-> Cardinality(D \cap Before[t])]
<1> SUFFICES ASSUME Q # {}
             PROVE  Cardinality(A \cup Q) <= MaxActiveTasks
  OBVIOUS
<1>1. /\ A \subseteq Tasks /\ D \subseteq Tasks /\ Q \subseteq D /\ MaxActiveTasks \in Nat
      /\ IsFiniteSet(Tasks)
  BY PlannerAssumption DEF Dispatchable
<1>2. \A S \in SUBSET Tasks : IsFiniteSet(S) /\ Cardinality(S) \in Nat
  BY <1>1, FS_Subset, FS_CardinalityType
<1>3. \A t \in Q : Cardinality(A) + Cardinality(D \cap Before[t]) < MaxActiveTasks
  BY DEF Admitted, ActiveTaskCount
<1> HIDE DEF A, D, Q
<1>4. Cardinality(A) \in Nat /\ \A t \in Q : t \in Tasks /\ Cardinality(D \cap Before[t]) \in Nat
  BY <1>1, <1>2
<1>5. room \in Nat /\ \A t \in Q : Cardinality(D \cap Before[t]) \in 0..(room - 1)
  <2>1. ASSUME NEW t \in Q
        PROVE  room \in Nat /\ Cardinality(D \cap Before[t]) \in 0..(room - 1)
    <3>1. /\ Cardinality(A) \in Nat /\ Cardinality(D \cap Before[t]) \in Nat
          /\ Cardinality(A) + Cardinality(D \cap Before[t]) < MaxActiveTasks
      BY Zenon, <1>3, <1>4
    <3> QED
      BY <1>1, <3>1
  <2> QED
    BY Zenon, <2>1
<1>6. ASSUME NEW t \in Q, NEW u \in Q, t \in Before[u]
      PROVE  Cardinality(D \cap Before[t]) # Cardinality(D \cap Before[u])
  <2>1. /\ t \in D \cap Before[u] /\ t \notin D \cap Before[t]
        /\ D \cap Before[t] \in SUBSET (D \cap Before[u])
        /\ D \cap Before[u] \in SUBSET Tasks
    BY <1>1, <1>4, <1>6, PlannerAssumption
  <2>2. IsFiniteSet(D \cap Before[u])
    BY <1>2, <2>1
  <2> QED
    BY <2>1, <2>2, FS_Subset
<1>7. rank \in Injection(Q, 0..(room - 1))
  <2>1. rank \in [Q -> 0..(room - 1)]
    BY <1>5
  <2>2. ASSUME NEW t \in Q, NEW u \in Q, rank[t] = rank[u]
        PROVE  t = u
    BY <1>4, <1>6, <2>2, PlannerAssumption
  <2> QED
    BY Zenon, <2>1, <2>2 DEF Injection, IsInjective
<1>8. Cardinality(Q) <= room
  <2>1. Cardinality(0..(room - 1)) = room /\ IsFiniteSet(0..(room - 1))
    BY <1>5, FS_Interval
  <2> QED
    BY <1>7, <2>1, FS_Injection
<1>9. Cardinality(A \cup Q) = Cardinality(A) + Cardinality(Q) - Cardinality(A \cap Q)
  BY Zenon, <1>1, <1>2, FS_Union
<1>10. Cardinality(Q) \in Nat /\ Cardinality(A \cap Q) \in Nat
  BY <1>1, <1>2
<1> QED
  BY <1>1, <1>4, <1>8, <1>9, <1>10

\* What the theorem is about: no fault, no operator, no sensor, no infra failure.
Calm ==
  /\ MaxActiveTasks > 0
  /\ faults = 0 /\ ops = 0 /\ Sensors = {}
  /\ \A t \in Tasks : Clean(t)

Occupied == {t \in Tasks : Occupies(t)}

SlotInv == Calm => (\A t \in Tasks : SlotFits(t)) /\ Cardinality(Occupied) <= MaxActiveTasks

\* A snapshot finds in the rows all the work there is, and admits into the rest.
LEMMA SnapshotSlots ==
  ASSUME TypeOK, TickFits, Calm, SlotInv, NEW ready \in SUBSET Tasks, TickSnapshot(ready)
  PROVE  (\A t \in Tasks : SlotFits(t)') /\ Cardinality(Occupied') <= MaxActiveTasks
<1> DEFINE A == {t \in Tasks : ti[t].state \in {"queued", "running"}}
           Q == {t \in Dispatchable(ti, ready) : Admitted(ti, ready, t)}
<1>1. /\ UNCHANGED <<run, ti, queue, pods>> /\ ~RunTerminal /\ tick.pc = "idle"
      /\ \A t \in Tasks : tick.todo[t] = Keep /\ SlotFits(t)
      /\ Cardinality(Occupied) <= MaxActiveTasks
  BY DEF TickSnapshot, RunActive, RunTerminal, TickFits, SlotInv
<1>2. \A t \in Tasks : HoldsSlot(t) <=> t \in A
  BY <1>1 DEF SlotFits, HoldsSlot, LiveWork, Keep
<1>3. \A t \in Tasks : SlotFits(t)'
  BY <1>1, <1>2 DEF SlotFits, LiveWork, HoldsSlot
<1>4. \A t \in Tasks : tick'.todo[t] = "queued" => t \in Q
  <2>1. \/ \A t \in Tasks : tick'.todo[t] = Keep
        \/ tick'.todo = PlanRun(ti, ready)
    BY DEF TickSnapshot, IdleTick
  <2>2. \A t \in Tasks : PlanRun(ti, ready)[t] = "queued" => t \in Q
    <3> TAKE t \in Tasks
    <3>1. PlanRun(ti, ready)[t] = "queued" =>
            ti[t].state = "scheduled" /\ t \in ready /\ Admitted(ti, ready, t)
      BY Zenon DEF PlanRun, planRetryTransition, decideStart, Keep
    <3> QED
      BY <3>1 DEF Dispatchable
  <2> QED
    BY <2>1, <2>2 DEF Keep
<1>5. /\ A \subseteq Tasks /\ Q \subseteq Tasks /\ IsFiniteSet(Tasks) /\ Occupied \subseteq Tasks
      /\ Occupied' \subseteq A \cup Q
  <2>1. \A t \in Tasks : HoldsSlot(t)' <=> HoldsSlot(t)
    BY <1>1 DEF HoldsSlot
  <2> QED
    BY <1>2, <1>4, <2>1, PlannerAssumption DEF Occupied, Occupies, Dispatchable
<1>6. MaxActiveTasks > 0 /\ MaxActiveTasks \in Nat
  BY PlannerAssumption DEF Calm
<1>7. \A S, T \in SUBSET Tasks : S \subseteq T =>
        Cardinality(S) <= Cardinality(T) /\ Cardinality(S) \in Nat /\ Cardinality(T) \in Nat
  BY <1>5, FS_Subset, FS_CardinalityType
<1>8. CASE Q = {}
  <2>1. Occupied' \subseteq Occupied
    BY <1>2, <1>5, <1>8 DEF Occupied, Occupies
  <2>2. Occupied \in SUBSET Tasks /\ Occupied' \in SUBSET Tasks
    BY <1>5, <2>1
  <2>3. /\ Cardinality(Occupied') <= Cardinality(Occupied)
        /\ Cardinality(Occupied') \in Nat /\ Cardinality(Occupied) \in Nat
    BY <1>7, <2>1, <2>2
  <2> QED
    BY <1>1, <1>3, <1>6, <2>3
<1>9. CASE Q # {}
  <2>1. Cardinality(A \cup Q) <= MaxActiveTasks
    BY <1>6, <1>9, HeadroomHolds
  <2>2. A \cup Q \in SUBSET Tasks /\ Occupied' \in SUBSET Tasks
    BY <1>5
  <2> HIDE DEF A, Q
  <2>3. /\ Cardinality(Occupied') <= Cardinality(A \cup Q)
        /\ Cardinality(Occupied') \in Nat /\ Cardinality(A \cup Q) \in Nat
    BY <1>5, <1>7, <2>2
  <2> QED
    BY <1>3, <1>6, <2>1, <2>3
<1> QED
  BY <1>3, <1>8, <1>9

LEMMA SlotInvStep ==
  ASSUME TypeOK, PodInv, SlotInv, [Next]_vars
  PROVE  SlotInv'
<1> SUFFICES ASSUME Calm'
             PROVE  (\A t \in Tasks : SlotFits(t)') /\ Cardinality(Occupied') <= MaxActiveTasks
  BY DEF SlotInv
<1>1. /\ \A t \in Tasks : Clean(t)'
      /\ faults' = 0 /\ ops' = 0 /\ Sensors = {} /\ MaxActiveTasks > 0
  BY DEF Calm
<1>2. faults = 0 /\ ops = 0
  BY <1>1, QuietSteps DEF PodInv
<1>3. CASE \A t \in Tasks \ Sensors : SlotStep(t)
  <2>1. \A t \in Tasks : SlotStep(t)
    BY <1>1, <1>3
  <2>2. Calm
    BY <1>1, <1>2, <2>1 DEF Calm, SlotStep
  <2>3. (\A t \in Tasks : SlotFits(t)') /\ Occupied' \subseteq Occupied
    BY <1>1, <2>1, <2>2 DEF SlotInv, SlotStep, Occupied
  <2>4. /\ Cardinality(Occupied') <= Cardinality(Occupied)
        /\ Cardinality(Occupied') \in Nat /\ Cardinality(Occupied) \in Nat
    <3>1. IsFiniteSet(Occupied) /\ Occupied' \in SUBSET Occupied
      BY <2>3, PlannerAssumption, FS_Subset DEF Occupied
    <3> QED
      BY <3>1, FS_Subset, FS_CardinalityType
  <2> QED
    BY <2>2, <2>3, <2>4, PlannerAssumption DEF SlotInv
<1>4. CASE \E ready \in SUBSET Tasks : TickSnapshot(ready)
  <2>1. Calm
    BY <1>1, <1>2, <1>4 DEF Calm, Clean, TickSnapshot
  <2>2. TickFits
    BY <1>2 DEF PodInv
  <2> QED
    BY <1>4, <2>1, <2>2, SnapshotSlots
<1> QED
  BY <1>1, <1>3, <1>4, PodInvStep

\* For every DAG, every buffer and any reapers: without faults, operator requests,
\* sensors and infra failures no more than max_active_tasks tasks hold a slot.
THEOREM SlotsAreBounded == Spec => []WithinMaxActiveTasks
<1>1. ASSUME Init
      PROVE  SlotInv
  <2>1. ASSUME NEW t \in Tasks
        PROVE  ~LiveWork(t) /\ ~Occupies(t)
    <3>1. /\ ti[t] = AbsentRow /\ queue[t] = 0 /\ tick.todo[t] = Keep
          /\ \A p \in Pods : pods[p].task # t
      BY <1>1, IdleTickOK, LifecycleAssumption DEF Init, UnusedPod
    <3> QED
      BY <3>1 DEF LiveWork, Occupies, HoldsSlot, AbsentRow, Keep
  <2>2. Occupied = {} /\ \A t \in Tasks : SlotFits(t)
    BY <2>1 DEF Occupied, SlotFits, LiveWork
  <2> QED
    BY <2>2, FS_EmptySet, PlannerAssumption DEF SlotInv
<1>2. TypeOK /\ PodInv /\ SlotInv /\ [Next]_vars => SlotInv'
  BY SlotInvStep
<1>3. SlotInv => WithinMaxActiveTasks
  <2> SUFFICES ASSUME SlotInv, MaxActiveTasks > 0, faults = 0, ops = 0, Sensors = {},
                      \A t \in Tasks : ~ti[t].infra /\ ti[t].infraAttempts = 0
               PROVE  Cardinality({t \in Tasks : HoldsSlot(t)}) <= MaxActiveTasks
    BY DEF WithinMaxActiveTasks
  <2>1. Cardinality(Occupied) <= MaxActiveTasks
    BY DEF SlotInv, Calm, Clean
  <2>2. {t \in Tasks : HoldsSlot(t)} \in SUBSET Occupied /\ IsFiniteSet(Occupied)
    BY PlannerAssumption, FS_Subset DEF Occupied, Occupies
  <2>3. /\ Cardinality({t \in Tasks : HoldsSlot(t)}) <= Cardinality(Occupied)
        /\ Cardinality({t \in Tasks : HoldsSlot(t)}) \in Nat /\ Cardinality(Occupied) \in Nat
    BY <2>2, FS_Subset, FS_CardinalityType
  <2> QED
    BY <2>1, <2>3, PlannerAssumption
<1> QED
  BY <1>1, <1>2, <1>3, TypeCorrect, PodInvHolds, PTL DEF Spec
=============================================================================
