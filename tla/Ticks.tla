------------------------------- MODULE Ticks -------------------------------
(***************************************************************************)
(* A scheduler tick over many runs (Scheduler.Step): one listing of the    *)
(* active runs, their tasks admitted run by run under the DAG's            *)
(* max_active_tasks and the slots of the pools, and the due runs created   *)
(* under max_active_runs; beside it the agents, the API's manual trigger   *)
(* and the operator.                                                       *)
(*                                                                         *)
(* What one run's rows go through is in RunLifecycle; here a task only     *)
(* waits, holds a slot or is done, and has no upstream.  Time is counted   *)
(* in slots of the cron expression, a regular one.                         *)
(***************************************************************************)
EXTENDS Integers, FiniteSets, Sequences

CONSTANTS DagOrder,        \* the DAGs, in the order ScheduledDAGs lists them
          PoolOf,          \* PoolOf[d]: the pool of each task of DAG d, in spec order
          Schedule,        \* Schedule[d]: "cron", "once" or "manual"
          Catchup,
          StartDate,       \* StartDate[d]: a slot, NoDate when unset
          MaxActiveRuns,
          MaxActiveTasks,  \* MaxActiveTasks[d]: 0 when unset
          PoolSlots,       \* PoolSlots[p]: 0 when the pool is undefined
          maxCatchupSlotsPerTick,
          MaxNow,          \* bound: the last slot of the clock
          Events,          \* the kinds of event beside the plain course that
                           \* may happen, each once
          MaxEvents        \* bound: how many of them

NoDate == 0

NoDag == "no dag"

Dags == {DagOrder[i] : i \in 1..Len(DagOrder)}

Pools == DOMAIN PoolSlots

EventKinds == {"trigger", "refused", "run", "create", "abandon", "lost", "mark"}

ASSUME TicksAssumption ==
  /\ DagOrder \in Seq(Dags)
  /\ PoolOf \in [Dags -> Seq(Pools)]
  /\ Schedule \in [Dags -> {"cron", "once", "manual"}]
  /\ Catchup \in [Dags -> BOOLEAN]
  /\ StartDate \in [Dags -> Nat]
  /\ MaxActiveRuns \in [Dags -> Nat]
  /\ MaxActiveTasks \in [Dags -> Nat]
  /\ PoolSlots \in [Pools -> Nat]
  /\ maxCatchupSlotsPerTick \in Nat \ {0}
  /\ MaxNow \in Nat \ {0} /\ MaxEvents \in Nat
  /\ Events \subseteq EventKinds
  /\ NoDag \notin Dags

VARIABLES
  now,       \* the clock
  runs,      \* dag_runs in order of queued_at, each with its task_instances
  tick,      \* the scheduler's Step
  trig,      \* the DAG of a manual trigger past its cap check
  raced,     \* history: DAGs triggered between a count of active runs and its use
  events     \* the kinds of event that have happened

vars == <<now, runs, tick, trig, raced, events>>

-----------------------------------------------------------------------------

\* "active" stands for queued and running: either holds a slot.
TaskState == {"none", "scheduled", "active", "done"}

\* ts is empty until the run's tasks are materialized.
NewRun(d, logical, type) ==
  [dag |-> d, logical |-> logical, type |-> type, state |-> "queued", ts |-> <<>>]

Active(r) == r.state \in {"queued", "running"}

Held(r) == {t \in DOMAIN r.ts : r.ts[t] = "active"}

\* ListActiveDagRuns: the active runs as they are now, by their place in the
\* order of queued_at.
ListActive(rs) == [i \in {j \in DOMAIN rs : Active(rs[j])} |-> rs[i]]

RunsOf(rs, d) == {i \in DOMAIN rs : rs[i].dag = d}

ActiveRunCount(rs, d) == Cardinality({i \in RunsOf(rs, d) : Active(rs[i])})

\* The tasks of the runs rs that hold a slot: all of them, those of DAG d, those
\* of pool p.
Holders(rs) == UNION {{i} \X Held(rs[i]) : i \in DOMAIN rs}

DagHolders(rs, d) == {x \in Holders(rs) : rs[x[1]].dag = d}

PoolHolders(rs, p) == {x \in Holders(rs) : PoolOf[rs[x[1]].dag][x[2]] = p}

LastLogical(rs, d) ==
  LET L == {rs[i].logical : i \in RunsOf(rs, d)}
  IN IF L = {} THEN NoDate ELSE CHOOSE l \in L : \A k \in L : k <= l

\* listed: the runs still to be advanced, as they were listed; due: the slots
\* still to be created, of each DAG.
Idle == [pc |-> "idle", listed |-> <<>>, due |-> [d \in Dags |-> {}],
         activeRuns |-> [d \in Dags |-> 0], created |-> [d \in Dags |-> 0],
         tasks |-> [d \in Dags |-> 0], pool |-> [p \in Pools |-> 0]]

Init ==
  /\ now = 1
  /\ runs = <<>>
  /\ tick = Idle
  /\ trig = NoDag
  /\ raced = {}
  /\ events = {}

Event(kind) ==
  /\ kind \in Events \ events
  /\ Cardinality(events) < MaxEvents
  /\ events' = events \cup {kind}

NoEvent == UNCHANGED events

-----------------------------------------------------------------------------
(* Step: the listing, with the slots in use (activeTaskCounts,             *)
(* activePoolCounts).                                                      *)

TickReads ==
  LET listed == ListActive(runs) IN
  /\ tick.pc = "idle"
  /\ tick' = [Idle EXCEPT
       !.pc = "advance", !.listed = listed,
       !.activeRuns = [d \in Dags |-> ActiveRunCount(runs, d)],
       !.tasks = [d \in Dags |-> Cardinality(DagHolders(listed, d))],
       !.pool = [p \in Pools |-> Cardinality(PoolHolders(listed, p))]]
  /\ UNCHANGED <<now, runs, trig, raced, events>>

-----------------------------------------------------------------------------
(* advance: one run, planned from the listing, admitted under what the     *)
(* tick has already given out.                                             *)

poolHasSlot(p, promoted) ==
  PoolSlots[p] = 0 \/ tick.pool[p] + promoted < PoolSlots[p]

admissionHeadroom(d) == MaxActiveTasks[d] - tick.tasks[d]

HasHeadroom(d, promoted) == MaxActiveTasks[d] = 0 \/ promoted < admissionHeadroom(d)

\* PlanRun's promotions Q of run r: its scheduled tasks, each as long as both
\* gates let it through after the promotions before it in spec order.
Promotes(r, Q) ==
  \A t \in DOMAIN r.ts :
    LET before == {u \in Q : u < t}
        pools == PoolOf[r.dag]
    IN t \in Q <=> /\ r.ts[t] = "scheduled"
                  /\ HasHeadroom(r.dag, Cardinality(before))
                  /\ poolHasSlot(pools[t], Cardinality({u \in before : pools[u] = pools[t]}))

Materialize(r) == [r EXCEPT !.state = "running", !.ts = [t \in DOMAIN PoolOf[r.dag] |-> "none"]]

Queued(r, Q) == [r EXCEPT !.ts = [t \in DOMAIN r.ts |-> IF t \in Q THEN "active" ELSE r.ts[t]]]

\* The batch of plain transitions, planned from the listed run s.
Flushed(s, r) ==
  [r EXCEPT !.ts = [t \in DOMAIN r.ts |-> IF s.ts[t] = "none" THEN "scheduled" ELSE r.ts[t]]]

Finalized(s, r) ==
  IF \A t \in DOMAIN s.ts : s.ts[t] = "done" THEN [r EXCEPT !.state = "done"] ELSE r

\* Run i has had its turn.
Rest(i) == [j \in DOMAIN tick.listed \ {i} |-> tick.listed[j]]

\* Mutants: what a run was given is not charged to the runs after it.
Charged_noPool(i, Q) ==
  [tick EXCEPT !.listed = Rest(i), !.tasks[tick.listed[i].dag] = @ + Cardinality(Q)]

Charged_noTasks(i, Q) ==
  LET pools == PoolOf[tick.listed[i].dag] IN
  [tick EXCEPT !.listed = Rest(i),
               !.pool = [p \in Pools |-> @[p] + Cardinality({t \in Q : pools[t] = p})]]

\* The admissions of run i folded into the budgets of the runs after it.
Charged(i, Q) ==
  LET pools == PoolOf[tick.listed[i].dag] IN
  [tick EXCEPT !.listed = Rest(i),
               !.tasks[tick.listed[i].dag] = @ + Cardinality(Q),
               !.pool = [p \in Pools |-> @[p] + Cardinality({t \in Q : pools[t] = p})]]

\* A promotion whose dispatch is refused is charged all the same.  On an error
\* (advanceSafely) some promotions are applied and none is charged.
Advance(i, s, Q) ==
  LET unmade == s.state = "queued" /\ s.ts = <<>> IN
  /\ Promotes(s, Q)
  /\ \/ /\ unmade
        /\ runs' = [runs EXCEPT ![i] = Materialize(@)]
        /\ tick' = Charged(i, Q)
        /\ NoEvent
     \/ /\ ~unmade
        /\ runs' = [runs EXCEPT ![i] = Finalized(s, Flushed(s, Queued(@, Q)))]
        /\ tick' = Charged(i, Q)
        /\ NoEvent
     \/ /\ Event("refused")
        /\ \E t \in Q : runs' = [runs EXCEPT ![i] = Flushed(s, Queued(@, Q \ {t}))]
        /\ tick' = Charged(i, Q)
     \/ /\ Event("run")
        /\ \E q \in 0..Len(s.ts) : runs' = [runs EXCEPT ![i] = Queued(@, Q \cap 1..q)]
        /\ tick' = Charged(i, {})

AdvanceRun ==
  /\ tick.pc = "advance"
  /\ \E i \in DOMAIN tick.listed :
       /\ \A j \in DOMAIN tick.listed : i <= j
       /\ \E Q \in SUBSET DOMAIN tick.listed[i].ts : Advance(i, tick.listed[i], Q)
  /\ UNCHANGED <<now, trig, raced>>

-----------------------------------------------------------------------------
(* createDueRuns.                                                          *)

\* Mutant: the slot after the last one is passed over.
FirstSlot_skips(d, last) == IF last = NoDate THEN StartDate[d] ELSE last + 2

\* The first slot that catchupSeed lets through; the start date is a floor.
FirstSlot(d, last) ==
  LET next == IF last = NoDate THEN StartDate[d] ELSE last + 1
  IN IF next < StartDate[d] THEN StartDate[d] ELSE next

\* Mutant: a full batch, whether or not its slots have arrived.
dueScheduledSlots_early(d, last) ==
  FirstSlot(d, last)..(FirstSlot(d, last) + maxCatchupSlotsPerTick - 1)

dueScheduledSlots(d, last) ==
  LET first == FirstSlot(d, last)
      end == IF now < first + maxCatchupSlotsPerTick THEN now
                                                     ELSE first + maxCatchupSlotsPerTick - 1
  IN IF Catchup[d] THEN first..end ELSE {end} \cap first..end

\* The slots of d that are due, by its schedule.
SlotsDue(d) ==
  LET last == LastLogical(runs, d) IN
  CASE Schedule[d] = "manual" -> {}
    [] Schedule[d] = "once"   -> IF last = NoDate THEN {now} ELSE {}
    [] last = NoDate /\ StartDate[d] = NoDate -> {now}
    [] OTHER -> dueScheduledSlots(d, last)

\* The tick is over when nothing is left to create.
Creating(tk) == IF \A d \in Dags : tk.due[d] = {} THEN Idle ELSE tk

\* The listing of ScheduledDAGs and, DAG by DAG, what is due.
ListDue ==
  /\ tick.pc = "advance"
  /\ DOMAIN tick.listed = {}
  /\ tick' = Creating([Idle EXCEPT !.pc = "create", !.activeRuns = tick.activeRuns,
                                  !.due = [d \in Dags |-> SlotsDue(d)]])
  /\ UNCHANGED <<now, runs, trig, raced, events>>

\* Mutants: the runs made in this tick are not counted; the last place under the
\* cap is never given out.
hasHeadroom_stale(d) == MaxActiveRuns[d] = 0 \/ tick.activeRuns[d] < MaxActiveRuns[d]

hasHeadroom_strict(d) ==
  \/ MaxActiveRuns[d] = 0
  \/ tick.activeRuns[d] + tick.created[d] + 1 < MaxActiveRuns[d]

hasHeadroom(d) ==
  \/ MaxActiveRuns[d] = 0
  \/ tick.activeRuns[d] + tick.created[d] < MaxActiveRuns[d]

\* CreateScheduledRunByDagID: the run id is the slot's, and is unique.
InsertScheduled(d, slot) ==
  runs' = IF \E i \in RunsOf(runs, d) : runs[i].type = "scheduled" /\ runs[i].logical = slot
            THEN runs ELSE Append(runs, NewRun(d, slot, "scheduled"))

\* A due slot at the cap ends its DAG's turn; an error is logged and counts as
\* created.  The run that a trigger's cap check has not seen is a race.
CreateRun(d, slot) ==
  LET made == Creating([tick EXCEPT !.due[d] = @ \ {slot}, !.created[d] = @ + 1]) IN
  \/ /\ Schedule[d] # "once" /\ ~hasHeadroom(d)
     /\ tick' = Creating([tick EXCEPT !.due[d] = {}])
     /\ NoEvent
     /\ UNCHANGED <<runs, raced>>
  \/ /\ Schedule[d] = "once" \/ hasHeadroom(d)
     /\ InsertScheduled(d, slot)
     /\ tick' = made
     /\ NoEvent
     /\ raced' = IF trig = d THEN raced \cup {d} ELSE raced
  \/ /\ Schedule[d] = "once" \/ hasHeadroom(d)
     /\ Event("create")
     /\ tick' = made
     /\ UNCHANGED <<runs, raced>>

\* The first slot due of the first DAG that has one.
CreateDueRun ==
  /\ tick.pc = "create"
  /\ \E k \in DOMAIN DagOrder :
       /\ \A j \in 1..(k - 1) : tick.due[DagOrder[j]] = {}
       /\ \E slot \in tick.due[DagOrder[k]] :
            /\ \A x \in tick.due[DagOrder[k]] : slot <= x
            /\ CreateRun(DagOrder[k], slot)
  /\ UNCHANGED <<now, trig>>

\* The process dies, the lock is lost or the step timeout cuts the tick short.
TickAbandoned ==
  /\ tick.pc # "idle"
  /\ Event("abandon")
  /\ tick' = Idle
  /\ UNCHANGED <<now, runs, trig, raced>>

Step == TickReads \/ AdvanceRun \/ ListDue \/ CreateDueRun \/ TickAbandoned

-----------------------------------------------------------------------------
(* Beside the tick.                                                        *)

ClockAdvances ==
  /\ now < MaxNow
  /\ now' = now + 1
  /\ UNCHANGED <<runs, tick, trig, raced, events>>

SetTask(i, t, s) ==
  /\ runs' = [runs EXCEPT ![i].ts[t] = s]
  /\ UNCHANGED <<now, tick, trig, raced>>

\* The agent reports a final state.
TaskEnds(i, t) == runs[i].ts[t] = "active" /\ SetTask(i, t, "done") /\ NoEvent

\* A retry or an infra re-place brings the task back to the start.
TaskLost(i, t) == runs[i].ts[t] = "active" /\ Event("lost") /\ SetTask(i, t, "none")

\* CreateDagRun counts the active runs, then inserts.
TriggerChecks(d) ==
  /\ trig = NoDag
  /\ Event("trigger")
  /\ MaxActiveRuns[d] = 0 \/ ActiveRunCount(runs, d) < MaxActiveRuns[d]
  /\ trig' = d
  /\ UNCHANGED <<now, runs, tick, raced>>

TriggerInserts ==
  /\ trig # NoDag
  /\ \E logical \in 1..now : runs' = Append(runs, NewRun(trig, logical, "manual"))
  /\ trig' = NoDag
  /\ raced' = IF tick.pc = "idle" THEN raced ELSE raced \cup {trig}
  /\ UNCHANGED <<now, tick, events>>

\* SetDagRunState to a final state, whatever its tasks are doing.
MarkRun(i) ==
  /\ Active(runs[i])
  /\ Event("mark")
  /\ runs' = [runs EXCEPT ![i].state = "done"]
  /\ UNCHANGED <<now, tick, trig, raced>>

Outside ==
  \/ ClockAdvances
  \/ \E i \in DOMAIN runs :
       \/ MarkRun(i)
       \/ \E t \in DOMAIN runs[i].ts : TaskEnds(i, t) \/ TaskLost(i, t)
  \/ \E d \in Dags : TriggerChecks(d)
  \/ TriggerInserts

Next == Step \/ Outside

Spec == Init /\ [][Next]_vars

\* The loop ticks for ever, a request that is past its check goes on, user code
\* ends and the clock advances.  No fairness on the events.
Fairness ==
  /\ WF_vars(TickReads \/ AdvanceRun \/ ListDue \/ CreateDueRun)
  /\ WF_vars(TriggerInserts)
  /\ WF_vars(ClockAdvances)
  /\ WF_vars(\E i \in DOMAIN runs : \E t \in DOMAIN runs[i].ts : TaskEnds(i, t))

FairSpec == Spec /\ Fairness

-----------------------------------------------------------------------------

RunRecord ==
  [dag: Dags, logical: 1..now, type: {"scheduled", "manual"},
   state: {"queued", "running", "done"}, ts: Seq(TaskState)]

\* Every variable holds a value of its type; no run is dated after the clock.
TicksTypeOK ==
  /\ now \in 1..MaxNow
  /\ runs \in Seq(RunRecord)
  /\ tick.pc \in {"idle", "advance", "create"}
  /\ DOMAIN tick.listed \subseteq DOMAIN runs
  /\ \A i \in DOMAIN tick.listed : tick.listed[i] \in RunRecord
  /\ tick.due \in [Dags -> SUBSET (1..now)]
  /\ tick.activeRuns \in [Dags -> Nat] /\ tick.created \in [Dags -> Nat]
  /\ tick.tasks \in [Dags -> Nat] /\ tick.pool \in [Pools -> Nat]
  /\ trig \in Dags \cup {NoDag}
  /\ raced \subseteq Dags
  /\ events \subseteq EventKinds

\* The tasks that hold a slot of a pool never outnumber its slots, across all
\* runs and DAGs, however ticks, reports, re-placements and abandoned ticks
\* interleave; unless the advance of a run failed after it promoted tasks
\* (advanceSafely charges none of them) or an operator closed a run with tasks
\* in flight (the next listing does not see them).
WithinPoolSlots ==
  events \cap {"run", "mark"} = {} =>
    \A p \in Pools : PoolSlots[p] > 0 =>
      Cardinality(PoolHolders(runs, p)) <= PoolSlots[p]

\* Likewise the tasks of a DAG and its max_active_tasks, across its runs
\* (activeTaskCounts, admittedTasksByDAG).
WithinDagTasks ==
  events \cap {"run", "mark"} = {} =>
    \A d \in Dags : MaxActiveTasks[d] > 0 =>
      Cardinality(DagHolders(runs, d)) <= MaxActiveTasks[d]

\* A DAG never has more active runs than max_active_runs, whoever creates them
\* and even if the tick restarts a run that an operator has just closed, unless
\* a manual trigger and a tick used counts taken before each other's insert
\* (createDueRuns, CreateDagRun) or before such a restart.
WithinMaxActiveRuns ==
  ~({"mark", "trigger"} \subseteq events) =>
    \A d \in Dags : MaxActiveRuns[d] > 0 /\ Schedule[d] # "once" /\ d \notin raced =>
      ActiveRunCount(runs, d) <= MaxActiveRuns[d]

ScheduledSlots(d) ==
  {runs[i].logical : i \in {j \in RunsOf(runs, d) : runs[j].type = "scheduled"}}

\* Catchup leaves no hole: each slot between the start date and the newest
\* scheduled run has its run, whatever the caps and abandoned ticks cut short;
\* unless its insert failed, or a manual run with that date or a later one moved
\* last_logical past it (dueScheduledSlots, ListScheduledDags).
NoSlotSkipped ==
  \A d \in Dags : Catchup[d] /\ Schedule[d] = "cron" /\ StartDate[d] # NoDate =>
    \A slot \in StartDate[d]..MaxNow :
      (\E s \in ScheduledSlots(d) : slot < s) =>
        \/ slot \in ScheduledSlots(d)
        \/ "create" \in events
        \/ \E i \in RunsOf(runs, d) : runs[i].type = "manual" /\ runs[i].logical >= slot

\* Once the clock stands still every cron DAG catches up with it and every run
\* ends: neither the caps nor the pools starve a run, and no lost step of a tick
\* leaves a DAG behind for good.
EveryDagCatchesUp ==
  <>[](/\ \A i \in DOMAIN runs : ~Active(runs[i])
       /\ \A d \in Dags : Schedule[d] = "cron" => LastLogical(runs, d) = MaxNow)
=============================================================================
