------------------------------ MODULE WarmPool ------------------------------
(***************************************************************************)
(* Placement on warm workers, end to end: the registry and its leases, the *)
(* AwaitAssignment stream of each worker, the worker's serve loop, the     *)
(* dispatcher that tries the pool before it creates a dedicated pod, the   *)
(* observer that re-offers a reclaimed assignment, and the reapers that    *)
(* recover what none of them settled.                                      *)
(*                                                                         *)
(* The planner is reduced to what concerns one attempt: it dispatches a    *)
(* scheduled row and re-places an infra failure; retries, trigger rules    *)
(* and stale snapshots are in RunLifecycle.  Pods are the warm workers and *)
(* the dedicated pods of the miss path.                                    *)
(***************************************************************************)
EXTENDS WarmRegistry, TaskRow, Sequences

CONSTANTS NoWorker,
          infraMaxAttempts,
          Faults,           \* the kinds of fault that may happen, each once
          MaxFaults

FaultKinds == {"expire", "break", "crash", "db", "spec", "death"}

ASSUME WarmPoolAssumption ==
  /\ Workers \subseteq Pods
  /\ NoWorker \notin Workers
  /\ infraMaxAttempts \in Nat
  /\ Faults \subseteq FaultKinds
  /\ MaxFaults \in Nat

VARIABLES
  row,      \* task_instances
  bound,    \* warm_worker_id of each row
  ex,       \* ex[p]: the process in pod p and the attempt it serves
  inbox,    \* inbox[w]: assignments sent down w's stream and not received
  up,       \* up[w]: worker messages sent up w's stream and not received
  bind,     \* bind[w]: the binding w's receive loop is about to persist
  stale,    \* rows whose queued_at is that of an earlier placement
  launch,   \* the task dispatched and not yet recorded as queued
  cand,     \* the candidate the maintenance loop is reaping
  faults,   \* the kinds of fault that have happened
  slips     \* history: "unbound" once the binding of a started ack matched no
            \* row, "early" once a reaper listed a placement still leased

streams == <<inbox, up, bind>>

vars == <<registry, row, bound, stale, ex, streams, launch, cand, faults, slips>>

-----------------------------------------------------------------------------

Dedicated == Pods \ Workers

\* pc: "absent" before the pod exists, "idle" while a worker waits for an
\* assignment, "starting" until RUNNING is acknowledged, "running" while user
\* code runs, "done" until the slot is signalled free, "dead" once it exited.
Absent == [pc |-> "absent", a |-> NoAssignment]

Alive(p) == ex[p].pc \notin {"absent", "dead"}

\* p is serving the attempt (t, try).
Serves(p, t, try) ==
  /\ ex[p].pc \in {"starting", "running"}
  /\ ex[p].a.task = t
  /\ ex[p].a.try = try

NoCand == [kind |-> "none", pc |-> "idle", task |-> NoTask, try |-> 0,
           worker |-> NoWorker]

Init ==
  /\ RegistryInit
  /\ row = [t \in Tasks |-> [CreateTaskInstance EXCEPT !.state = "scheduled"]]
  /\ bound = [t \in Tasks |-> NoWorker]
  /\ stale = {}
  /\ ex = [p \in Pods |-> Absent]
  /\ inbox = [w \in Workers |-> <<>>]
  /\ up = [w \in Workers |-> <<>>]
  /\ bind = [w \in Workers |-> NoAssignment]
  /\ launch = NoTask
  /\ cand = NoCand
  /\ faults = {}
  /\ slips = {}

Fault(kind) ==
  /\ kind \in Faults \ faults
  /\ Cardinality(faults) < MaxFaults
  /\ faults' = faults \cup {kind}

NoFault == UNCHANGED faults

-----------------------------------------------------------------------------
(* Scheduler: Dispatch, then the queued stamp (launchQueued), and the      *)
(* re-place of an infra failure.                                           *)

\* The warm branch of Dispatch, or the dedicated pod on a miss.
Dispatch(t) ==
  /\ launch = NoTask
  /\ row[t].state = "scheduled"
  /\ launch' = t
  /\ \/ \E w \in Workers : AssignHit(t, row[t].try, w) /\ UNCHANGED ex
     \/ /\ AssignMiss
        /\ \E p \in Dedicated :
             /\ ~Alive(p)
             /\ ex' = [ex EXCEPT ![p] =
                         [pc |-> "starting",
                          a |-> [aid |-> 0, task |-> t, try |-> row[t].try]]]
  /\ UNCHANGED <<row, bound, stale, streams, cand, faults, slips>>

RecordQueued ==
  /\ launch # NoTask
  /\ row' = [row EXCEPT ![launch] = ApplyTransition(@, "queued")]
  /\ launch' = NoTask
  /\ UNCHANGED <<registry, bound, stale, ex, streams, cand, faults, slips>>

\* ResetForInfraReplace clears warm_worker_id and queued_at too.
ReplaceLost(t) ==
  /\ launch = NoTask
  /\ row[t].state = "failed"
  /\ row[t].infra
  /\ row[t].infraAttempts < infraMaxAttempts
  /\ row' = [row EXCEPT ![t] = ResetTaskInstanceInfraReplace(@)]
  /\ bound' = [bound EXCEPT ![t] = NoWorker]
  /\ stale' = stale \ {t}
  /\ UNCHANGED <<registry, ex, streams, launch, cand, faults, slips>>

ScheduleAgain(t) ==
  /\ launch = NoTask
  /\ row[t].state = "none"
  /\ row' = [row EXCEPT ![t] = ApplyTransition(@, "scheduled")]
  /\ UNCHANGED <<registry, bound, stale, ex, streams, launch, cand, faults, slips>>

SchedulerStep ==
  \/ \E t \in Tasks : Dispatch(t) \/ ReplaceLost(t) \/ ScheduleAgain(t)
  \/ RecordQueued

-----------------------------------------------------------------------------
(* The stream: AwaitAssignment and its receive loop on the control plane.  *)

\* A new warm pod connects and registers.
Connect(w) ==
  /\ ex[w].pc = "absent"
  /\ Register(w)
  /\ ex' = [ex EXCEPT ![w].pc = "idle"]
  /\ UNCHANGED <<row, bound, stale, streams, launch, cand, faults, slips>>

\* Mutant: the handler does not wait for an assignment.
SendDown_empty(w) ==
  /\ w \in registered
  /\ inbox[w] = <<>>
  /\ inbox' = [inbox EXCEPT ![w] = Append(@, send[w])]
  /\ send' = [send EXCEPT ![w] = NoAssignment]
  /\ UNCHANGED <<registered, free, busy, leases, reclaims, issued, acked, reclaimed,
                 row, bound, stale, ex, up, bind, launch, cand, faults, slips>>

\* The handler sends what is in the worker's channel down the stream.
SendDown(w) ==
  /\ w \in registered
  /\ send[w] # NoAssignment
  /\ inbox' = [inbox EXCEPT ![w] = Append(@, send[w])]
  /\ send' = [send EXCEPT ![w] = NoAssignment]
  /\ UNCHANGED <<registered, free, busy, leases, reclaims, issued, acked, reclaimed,
                 row, bound, stale, ex, up, bind, launch, cand, faults, slips>>

\* pumpWorkerMessages takes the next message.  A started ack of a leased
\* assignment goes on to persist its binding before the loop comes round.
ReceiveUp(w) ==
  /\ up[w] # <<>>
  /\ bind[w] = NoAssignment
  /\ up' = [up EXCEPT ![w] = Tail(@)]
  /\ LET m == Head(up[w])
         held == {l \in leases : l.a.aid = m.aid}
     IN \/ m.type = "ack" /\ held = {} /\ UNCHANGED <<registry, bind>>
        \/ /\ m.type = "ack"
           /\ \E l \in held : AckStarted(l) /\ bind' = [bind EXCEPT ![w] = l.a]
        \/ m.type = "slot_free" /\ MarkFree(w) /\ UNCHANGED bind
  /\ UNCHANGED <<row, bound, stale, ex, inbox, launch, cand, faults, slips>>

\* bindWarmAttempt: best-effort, and no error when no row matches.
BindWarmAttempt(w) ==
  LET a == bind[w] IN
  /\ a # NoAssignment
  /\ bind' = [bind EXCEPT ![w] = NoAssignment]
  /\ \/ /\ BindApplies(row[a.task], a.try)
        /\ bound' = [bound EXCEPT ![a.task] = w]
        /\ NoFault
        /\ UNCHANGED slips
     \/ /\ ~BindApplies(row[a.task], a.try)
        /\ slips' = slips \cup {"unbound"}
        /\ NoFault
        /\ UNCHANGED bound
     \/ Fault("db") /\ UNCHANGED <<bound, slips>>
  /\ UNCHANGED <<registry, row, stale, ex, inbox, up, launch, cand>>

\* The handler returns and deregisters the worker: its process is gone, or the
\* transport broke or the control plane is shutting down.  Worker messages
\* still in flight are lost, but for one that its receive loop already has;
\* what was sent down may or may not arrive.
HandlerEnds(w) ==
  /\ w \in registered
  /\ \/ ~Alive(w) /\ NoFault
     \/ Alive(w) /\ Fault("break")
  /\ Deregister(w)
  /\ \E n \in {0, 1} : up' = [up EXCEPT ![w] = SubSeq(@, 1, IF n < Len(@) THEN n ELSE Len(@))]
  /\ inbox' \in {inbox, [inbox EXCEPT ![w] = <<>>]}
  /\ UNCHANGED <<row, bound, stale, ex, bind, launch, cand, slips>>

\* The lease timer fires with no ack received.
LeaseExpires ==
  /\ Fault("expire")
  /\ \E l \in leases : onLeaseExpire(l)
  /\ UNCHANGED <<row, bound, stale, ex, streams, launch, cand, slips>>

\* handleReclaim of a worker-gone event; an error is only logged.  The re-offer
\* leaves queued_at as it is, and the next queued stamp does not move it.
HandleReclaim(l) ==
  LET t == l.a.task IN
  /\ l \in reclaims
  /\ reclaims' = reclaims \ {l}
  /\ \/ /\ row' = [row EXCEPT ![t] = RequeueForRedispatch(@, l.a.try)]
        /\ bound' = [bound EXCEPT ![t] = IF row'[t] = row[t] THEN @ ELSE NoWorker]
        /\ stale' = IF row'[t] = row[t] THEN stale ELSE stale \cup {t}
        /\ NoFault
     \/ Fault("db") /\ UNCHANGED <<row, bound, stale>>
  /\ UNCHANGED <<registered, free, busy, send, leases, issued, acked, reclaimed,
                 ex, streams, launch, cand, slips>>

\* The control plane dies: registry, streams and what its loops hold are lost.
ServerCrash ==
  /\ Fault("crash")
  /\ RegistryLost
  /\ up' = [w \in Workers |-> <<>>]
  /\ bind' = [w \in Workers |-> NoAssignment]
  /\ inbox' \in {inbox, [w \in Workers |-> <<>>]}
  /\ launch' = NoTask
  /\ cand' = NoCand
  /\ UNCHANGED <<row, bound, stale, ex, slips>>

ControlPlaneStep ==
  \/ \E w \in Workers : SendDown(w) \/ ReceiveUp(w) \/ BindWarmAttempt(w) \/ HandlerEnds(w)
  \/ LeaseExpires
  \/ \E l \in reclaims : HandleReclaim(l)
  \/ ServerCrash

-----------------------------------------------------------------------------
(* The worker's serve loop and the attempt it runs.                        *)

\* The attempt is over: a worker goes on to signal its slot, a pod exits.
Ended(p) == ex' = [ex EXCEPT ![p] = IF p \in Workers
                                      THEN [pc |-> "done", a |-> NoAssignment]
                                      ELSE [Absent EXCEPT !.pc = "dead"]]

Exits(p) == ex' = [ex EXCEPT ![p] = [Absent EXCEPT !.pc = "dead"]]

\* serveAssignment up to the ack, which nobody receives on a broken stream.
TakeAssignment(w) ==
  /\ ex[w].pc = "idle"
  /\ inbox[w] # <<>>
  /\ inbox' = [inbox EXCEPT ![w] = Tail(@)]
  /\ ex' = [ex EXCEPT ![w] = [pc |-> "starting", a |-> Head(inbox[w])]]
  /\ up' = IF w \in registered
             THEN [up EXCEPT ![w] = Append(@, [type |-> "ack", aid |-> Head(inbox[w]).aid])]
             ELSE up
  /\ UNCHANGED <<registry, row, bound, stale, bind, launch, cand, faults, slips>>

ReportRunning(p) ==
  LET a == ex[p].a IN
  /\ ex[p].pc = "starting"
  /\ IF ReportApplies(row[a.task], a.try)
       THEN ex' = [ex EXCEPT ![p].pc = "running"]
       ELSE Ended(p)
  /\ row' = [row EXCEPT ![a.task] = ReportTaskResult(@, a.try, "running")]
  /\ UNCHANGED <<registry, bound, stale, streams, launch, cand, faults, slips>>

\* runOneAttempt fails before its first report (GetTaskSpec, the environment).
SpecFails(p) ==
  /\ ex[p].pc = "starting"
  /\ Fault("spec")
  /\ Ended(p)
  /\ UNCHANGED <<registry, row, bound, stale, streams, launch, cand, slips>>

\* User code ends and its outcome is reported; a heartbeat that no longer
\* matches the row ends it with a failure.
Finish(p, out) ==
  LET a == ex[p].a IN
  /\ ex[p].pc = "running"
  /\ Ended(p)
  /\ row' = [row EXCEPT ![a.task] = ReportTaskResult(@, a.try, out)]
  /\ UNCHANGED <<registry, bound, stale, streams, launch, cand, faults, slips>>

\* SlotFree; on a broken stream the send fails and the worker exits.
FreeSlot(w) ==
  /\ ex[w].pc = "done"
  /\ IF w \in registered
       THEN /\ up' = [up EXCEPT ![w] = Append(@, [type |-> "slot_free", aid |-> 0])]
            /\ ex' = [ex EXCEPT ![w].pc = "idle"]
       ELSE Exits(w) /\ UNCHANGED up
  /\ UNCHANGED <<registry, row, bound, stale, inbox, bind, launch, cand, faults, slips>>

\* An idle worker exits: idle TTL, attempt or lifetime cap, stream ended.
Recycle(w) ==
  /\ ex[w].pc = "idle"
  /\ Exits(w)
  /\ UNCHANGED <<registry, row, bound, stale, streams, launch, cand, faults, slips>>

\* The pod is killed: node loss, eviction, or the pool scaling down.
PodDies(p) ==
  /\ Alive(p)
  /\ Fault("death")
  /\ Exits(p)
  /\ UNCHANGED <<registry, row, bound, stale, streams, launch, cand, slips>>

PodStep ==
  \/ \E w \in Workers : Connect(w) \/ TakeAssignment(w) \/ FreeSlot(w) \/ Recycle(w)
  \/ \E p \in Pods : \/ ReportRunning(p) \/ SpecFails(p) \/ PodDies(p)
                       \/ \E out \in {"success", "failed"} : Finish(p, out)

-----------------------------------------------------------------------------
(* The reapers that concern warm placement: a list query, a look at the    *)
(* warm pods or at the attempt's own pods, a guarded mark.                 *)

\* A lease (warmLeaseSeconds) and the write that follows its ack or its reclaim
\* end well within the dispatch-lost threshold and the pod-lost grace period.
LeaseOver(t) ==
  /\ \A l \in leases \cup reclaims : l.a.task # t
  /\ \A w \in Workers : bind[w].task # t

ListCandidate(kind, t) ==
  /\ cand = NoCand
  /\ cand' = [kind |-> kind, pc |-> "look", task |-> t, try |-> row[t].try,
              worker |-> bound[t]]
  /\ slips' = IF LeaseOver(t) THEN slips ELSE slips \cup {"early"}
  /\ UNCHANGED <<registry, row, bound, stale, ex, streams, launch, faults>>

\* Mutant: a bound row is left to the warm-worker-lost reaper.
ListDispatchLost_unbound(t) ==
  /\ row[t].state = "queued"
  /\ bound[t] = NoWorker
  /\ t \in stale \/ LeaseOver(t)
  /\ ListCandidate("dispatch_lost", t)

\* The threshold is counted from queued_at.
ListDispatchLost(t) ==
  /\ row[t].state = "queued"
  /\ t \in stale \/ LeaseOver(t)
  /\ ListCandidate("dispatch_lost", t)

\* ListRunningTasks leaves the bound rows to the warm-worker-lost reaper.
ListPodLost(t) ==
  /\ row[t].state = "running"
  /\ bound[t] = NoWorker
  /\ LeaseOver(t)
  /\ ListCandidate("pod_lost", t)

ListWarmWorkerLost(t) ==
  /\ row[t].state = "running"
  /\ bound[t] # NoWorker
  /\ ListCandidate("warm_worker_lost", t)

\* Mutant: the dispatch-lost reaper does not defer to a live bound worker.
Deferred_podOnly ==
  \/ cand.kind = "warm_worker_lost" /\ Alive(cand.worker)
  \/ /\ cand.kind # "warm_worker_lost"
     /\ \E p \in Dedicated : Alive(p) /\ Serves(p, cand.task, cand.try)

\* The bound worker is live, or a dedicated pod of the attempt is.
Deferred ==
  \/ cand.worker # NoWorker /\ Alive(cand.worker)
  \/ /\ cand.kind # "warm_worker_lost"
     /\ \E p \in Dedicated : Alive(p) /\ Serves(p, cand.task, cand.try)

LookAtPods ==
  /\ cand.pc = "look"
  /\ cand' = IF Deferred THEN NoCand ELSE [cand EXCEPT !.pc = "mark"]
  /\ UNCHANGED <<registry, row, bound, stale, ex, streams, launch, faults, slips>>

\* The mark, guarded on the state only; the dispatch-lost and pod-lost reapers
\* go on to delete the pods of the attempt.
MarkCandidate ==
  LET kind == cand.kind
      r == row[cand.task]
      lost == IF kind = "dispatch_lost" THEN MarkTaskDispatchLost(r) ELSE MarkTaskLost(r)
  IN
  /\ cand.pc = "mark"
  /\ row' = [row EXCEPT ![cand.task] = lost]
  /\ cand' = IF kind = "dispatch_lost" \/ (kind = "pod_lost" /\ lost # r)
               THEN [cand EXCEPT !.pc = "teardown"]
               ELSE NoCand
  /\ UNCHANGED <<registry, bound, stale, ex, streams, launch, faults, slips>>

DeletePods ==
  /\ cand.pc = "teardown"
  /\ ex' = [p \in Pods |-> IF p \in Dedicated /\ Serves(p, cand.task, cand.try)
                              THEN [Absent EXCEPT !.pc = "dead"] ELSE ex[p]]
  /\ cand' = NoCand
  /\ UNCHANGED <<registry, row, bound, stale, streams, launch, faults, slips>>

MaintenanceStep ==
  \/ \E t \in Tasks : ListDispatchLost(t) \/ ListPodLost(t) \/ ListWarmWorkerLost(t)
  \/ LookAtPods \/ MarkCandidate \/ DeletePods

-----------------------------------------------------------------------------

\* t needs nothing more from the scheduler.
Settled(t) ==
  \/ row[t].state = "success"
  \/ row[t].state = "failed" /\ (row[t].infra => row[t].infraAttempts >= infraMaxAttempts)

TickIdle == (\A t \in Tasks : Settled(t)) /\ UNCHANGED vars

Next == SchedulerStep \/ ControlPlaneStep \/ PodStep \/ MaintenanceStep \/ TickIdle

Spec == Init /\ [][Next]_vars

\* The scheduler and maintenance loops come round for ever, goroutines and
\* agents go on, user code ends at its watchdog, and an idle worker recycles at
\* its idle TTL.  No fairness on faults or on the arrival of workers.
Fairness ==
  /\ WF_vars(RecordQueued)
  /\ \A t \in Tasks :
       /\ SF_vars(Dispatch(t)) /\ SF_vars(ReplaceLost(t)) /\ SF_vars(ScheduleAgain(t))
       /\ SF_vars(ListDispatchLost(t)) /\ SF_vars(ListPodLost(t))
       /\ SF_vars(ListWarmWorkerLost(t))
  /\ WF_vars(LookAtPods) /\ WF_vars(MarkCandidate) /\ WF_vars(DeletePods)
  /\ WF_vars(\E l \in reclaims : HandleReclaim(l))
  /\ \A w \in Workers :
       /\ WF_vars(SendDown(w)) /\ WF_vars(ReceiveUp(w)) /\ WF_vars(BindWarmAttempt(w))
       /\ WF_vars(~Alive(w) /\ HandlerEnds(w))
       /\ WF_vars(TakeAssignment(w)) /\ WF_vars(FreeSlot(w)) /\ WF_vars(Recycle(w))
  /\ \A p \in Pods :
       /\ WF_vars(ReportRunning(p))
       /\ WF_vars(\E out \in {"success", "failed"} : Finish(p, out))

FairSpec == Spec /\ Fairness

-----------------------------------------------------------------------------

\* Every variable holds a value of its type; what is sent names an attempt.
WarmTypeOK ==
  /\ registered \subseteq Workers /\ free \subseteq Workers /\ busy \subseteq Workers
  /\ send \in [Workers -> Assignment]
  /\ leases \subseteq Lease /\ reclaims \subseteq Lease
  /\ issued \in Nat /\ acked \subseteq Nat /\ reclaimed \subseteq Nat
  /\ row \in [Tasks -> Row]
  /\ bound \in [Tasks -> Workers \cup {NoWorker}]
  /\ stale \subseteq Tasks
  /\ ex \in [Pods -> [pc: {"absent", "idle", "starting", "running", "done", "dead"},
                      a: Assignment]]
  /\ inbox \in [Workers -> Seq(Assignment \ {NoAssignment})]
  /\ up \in [Workers -> Seq([type: {"ack", "slot_free"}, aid: Nat])]
  /\ bind \in [Workers -> Assignment]
  /\ launch \in Tasks \cup {NoTask}
  /\ cand \in [kind: {"none", "dispatch_lost", "pod_lost", "warm_worker_lost"},
               pc: {"idle", "look", "mark", "teardown"},
               task: Tasks \cup {NoTask}, try: Nat, worker: Workers \cup {NoWorker}]
  /\ faults \subseteq FaultKinds
  /\ slips \subseteq {"unbound", "early"}

\* Ack, lease timer and disconnect race for an assignment and exactly one of
\* them settles it: no id is both bound to a worker and reclaimed, and none that
\* is settled is still leased.
SettledOnce ==
  /\ acked \cap reclaimed = {}
  /\ Ids(leases) \cap (acked \cup reclaimed) = {}

\* Work is only ever handed to a stream that is being served: the free set and
\* the leases name registered workers, so a gone worker strands nothing.
OnlyServedStreams ==
  /\ free \subseteq registered
  /\ \A l \in leases : l.worker \in registered

\* As long as no lease expired, a worker in the free set is not serving anybody
\* and no assignment is on its way to it: two attempts never share a worker
\* (Assign, Ack, MarkFree).
FreeWorkersAreIdle ==
  "expire" \notin faults => \A w \in free :
    /\ w \notin busy
    /\ send[w] = NoAssignment
    /\ inbox[w] = <<>>
    /\ ex[w].pc \in {"idle", "dead"}

\* Two live processes serve the same attempt only after something that the
\* recovery paths cannot see through: a stream that broke, a control plane that
\* died, a lease that ran out, a binding that was lost, or a queued_at left over
\* from a placement that was reclaimed.  Deaths and recycles of workers, refused
\* or failed starts, and any race of re-offer, reapers and reports never cause
\* it (reclaimShouldRequeue, the warm defer, the lists split by binding).
DoubleRunHasACause ==
  \/ faults \cap {"expire", "break", "crash", "db"} # {}
  \/ slips # {}
  \/ \A p, q \in Pods : p # q /\ ex[p].a.task # NoTask =>
        ~(ex[p].pc \in {"starting", "running"} /\ Serves(q, ex[p].a.task, ex[p].a.try))

\* Every attempt handed to the pool is settled, whatever single step is lost:
\* between streams, leases, re-offers and reapers no row waits for ever on a
\* worker that will not serve it.
EveryAttemptSettles == <>[](\A t \in Tasks : Settled(t))
=============================================================================
