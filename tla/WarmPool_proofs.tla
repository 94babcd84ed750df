--------------------------- MODULE WarmPool_proofs --------------------------
(***************************************************************************)
(* The warm path for any number of workers, pods, tasks and faults: the    *)
(* proofs of WarmTypeOK, SettledOnce, OnlyServedStreams, FreeWorkersAreIdle *)
(* and DoubleRunHasACause.                                                 *)
(*                                                                         *)
(* RegistryInv says what the map of leases keyed by id and the counter     *)
(* behind fresh ids amount to: an id names one lease, and none that was    *)
(* handed out before comes back.  SlotOK adds what may be on a worker's    *)
(* stream, PlaceInv where an attempt is.                                   *)
(***************************************************************************)
EXTENDS WarmPool, TLAPS

\* Ids already handed out.
Old(n) == n \in Nat /\ n <= issued

\* Leases and the free set name served streams; an id is old, names one lease,
\* and is leased, acked or reclaimed but never two of these.
RegistryInv ==
  /\ issued \in Nat
  /\ free \subseteq registered
  /\ \A l \in leases : l.worker \in registered
  /\ \A l \in leases : Old(l.a.aid)
  /\ \A n \in acked \cup reclaimed : Old(n)
  /\ \A l, m \in leases : l.a.aid = m.a.aid => l = m
  /\ \A l \in leases : l.a.aid \notin acked \cup reclaimed
  /\ acked \cap reclaimed = {}

\* A step that leaves what the registry decides on alone.
SameRegistry == UNCHANGED <<registered, free, leases, issued, acked, reclaimed>>

\* Such a step keeps the invariant.
LEMMA SameRegistryOK ==
  ASSUME RegistryInv, SameRegistry
  PROVE  RegistryInv'
BY Zenon DEF RegistryInv, SameRegistry, Old

\* A stream that registers, or whose slot is signalled free, is served.
LEMMA FreeingOK ==
  ASSUME RegistryInv, NEW w, Register(w) \/ MarkFree(w)
  PROVE  RegistryInv'
<1>1. UNCHANGED <<leases, issued, acked, reclaimed>>
  BY DEF Register, MarkFree
<1>2. free' \subseteq registered' /\ registered \subseteq registered'
  BY Zenon DEF Register, MarkFree, RegistryInv
<1> QED
  BY Zenon, <1>1, <1>2 DEF RegistryInv, Old

\* A disconnect settles every lease of its worker.
LEMMA DeregisterOK ==
  ASSUME RegistryInv, NEW w, Deregister(w)
  PROVE  RegistryInv'
<1> DEFINE held == {l \in leases : l.worker = w}
<1>1. /\ registered' = registered \ {w} /\ free' = free \ {w}
      /\ leases' = leases \ held /\ reclaimed' = reclaimed \cup Ids(held)
      /\ acked' = acked /\ issued' = issued
  BY DEF Deregister
<1>2. \A n \in Ids(held) : Old(n) /\ n \notin acked
  BY DEF Ids, RegistryInv
<1>3. \A l \in leases' : l \in leases /\ l.worker # w /\ l.a.aid \notin Ids(held)
  BY Zenon, <1>1 DEF Ids, RegistryInv
<1>4. /\ issued' \in Nat /\ free' \subseteq registered'
      /\ \A l \in leases' : l.worker \in registered'
  BY Zenon, <1>1, <1>3 DEF RegistryInv
<1>5. \A n : Old(n)' <=> Old(n)
  BY <1>1 DEF Old
<1>6. /\ \A l \in leases' : Old(l.a.aid)'
      /\ \A n \in acked' \cup reclaimed' : Old(n)'
  BY Zenon, <1>1, <1>2, <1>3, <1>5 DEF RegistryInv
<1>7. /\ \A l, m \in leases' : l.a.aid = m.a.aid => l = m
      /\ \A l \in leases' : l.a.aid \notin acked' \cup reclaimed'
      /\ acked' \cap reclaimed' = {}
  BY Zenon, <1>1, <1>2, <1>3 DEF RegistryInv
<1> QED
  BY Zenon, <1>4, <1>6, <1>7 DEF RegistryInv

\* An assignment takes an id nobody had.
LEMMA AssignOK ==
  ASSUME RegistryInv, NEW t, NEW try, NEW w, AssignHit(t, try, w)
  PROVE  RegistryInv'
<1>1. /\ registered' = registered /\ free' = free \ {w} /\ w \in free
      /\ issued' = issued + 1 /\ acked' = acked /\ reclaimed' = reclaimed
  BY Zenon DEF AssignHit
<1>2. PICK new : new.worker = w /\ new.a.aid = issued + 1 /\ leases' = leases \cup {new}
  <2> DEFINE l == [worker |-> w, a |-> [aid |-> issued + 1, task |-> t, try |-> try]]
  <2>1. l.worker = w /\ l.a.aid = issued + 1
    OBVIOUS
  <2>2. leases' = leases \cup {l}
    BY Zenon DEF AssignHit
  <2> QED
    BY Zenon, <2>1, <2>2
<1>3. issued \in Nat
  BY DEF RegistryInv
<1>4. \A n : Old(n) => Old(n)' /\ n # issued + 1
  BY <1>1, <1>3 DEF Old
<1>5. issued' \in Nat /\ Old(new.a.aid)'
  BY <1>1, <1>2, <1>3 DEF Old
<1>6. /\ free' \subseteq registered'
      /\ \A l \in leases' : l.worker \in registered'
  BY Zenon, <1>1, <1>2 DEF RegistryInv
<1>7. /\ \A l \in leases' : Old(l.a.aid)'
      /\ \A n \in acked' \cup reclaimed' : Old(n)'
  BY Zenon, <1>1, <1>2, <1>4, <1>5 DEF RegistryInv
<1>8. \A l, m \in leases' : l.a.aid = m.a.aid => l = m
  BY <1>1, <1>2, <1>4 DEF RegistryInv
<1>9. /\ \A l \in leases' : l.a.aid \notin acked' \cup reclaimed'
      /\ acked' \cap reclaimed' = {}
  BY Zenon, <1>1, <1>2, <1>4 DEF RegistryInv
<1> QED
  BY Zenon, <1>5, <1>6, <1>7, <1>8, <1>9 DEF RegistryInv

\* An ack, or a lease that runs out, settles one lease and with it its id.
LEMMA SettleOK ==
  ASSUME RegistryInv, NEW l \in leases, AckStarted(l) \/ onLeaseExpire(l)
  PROVE  RegistryInv'
<1>1. /\ registered' = registered /\ issued' = issued /\ leases' = leases \ {l}
      /\ \/ acked' = acked \cup {l.a.aid} /\ reclaimed' = reclaimed
         \/ acked' = acked /\ reclaimed' = reclaimed \cup {l.a.aid}
  BY Zenon DEF AckStarted, onLeaseExpire
<1>2. free' \subseteq registered'
  BY DEF AckStarted, onLeaseExpire, RegistryInv
<1>3. \A n : Old(n)' <=> Old(n)
  BY <1>1 DEF Old
<1>4. Old(l.a.aid) /\ l.a.aid \notin acked \cup reclaimed
  BY Zenon DEF RegistryInv
<1>5. \A m \in leases' : m \in leases /\ m.a.aid # l.a.aid
  BY Zenon, <1>1 DEF RegistryInv
<1>6. /\ issued' \in Nat
      /\ \A m \in leases' : m.worker \in registered'
      /\ \A m \in leases' : Old(m.a.aid)'
      /\ \A n \in acked' \cup reclaimed' : Old(n)'
  BY Zenon, <1>1, <1>3, <1>4, <1>5 DEF RegistryInv
<1>7. /\ \A m, k \in leases' : m.a.aid = k.a.aid => m = k
      /\ \A m \in leases' : m.a.aid \notin acked' \cup reclaimed'
      /\ acked' \cap reclaimed' = {}
  BY <1>1, <1>4, <1>5 DEF RegistryInv
<1> QED
  BY Zenon, <1>2, <1>6, <1>7 DEF RegistryInv

\* A restart forgets every lease but re-issues no id.
LEMMA RegistryLostOK ==
  ASSUME RegistryInv, RegistryLost
  PROVE  RegistryInv'
BY Zenon DEF RegistryInv, RegistryLost, Old

\* Steps of the scheduler, the pods and the maintenance loop.
LEMMA OtherActorsKeep ==
  ASSUME RegistryInv, SchedulerStep \/ PodStep \/ MaintenanceStep \/ TickIdle
  PROVE  RegistryInv'
<1>1. ASSUME NEW t \in Tasks, Dispatch(t)
      PROVE  RegistryInv'
  <2>1. CASE \E w \in Workers : AssignHit(t, row[t].try, w)
    BY <2>1, AssignOK
  <2>2. CASE AssignMiss
    BY <2>2, SameRegistryOK DEF AssignMiss, registry, SameRegistry
  <2> QED
    BY Zenon, <1>1, <2>1, <2>2 DEF Dispatch
<1>2. ASSUME NEW t \in Tasks, ReplaceLost(t) \/ ScheduleAgain(t)
      PROVE  RegistryInv'
  BY Zenon, <1>2, SameRegistryOK DEF ReplaceLost, ScheduleAgain, registry, SameRegistry
<1>3. CASE RecordQueued
  BY Zenon, <1>3, SameRegistryOK DEF RecordQueued, registry, SameRegistry
<1>4. ASSUME NEW w \in Workers, Connect(w)
      PROVE  RegistryInv'
  BY <1>4, FreeingOK DEF Connect
<1>5. ASSUME NEW w \in Workers, TakeAssignment(w) \/ FreeSlot(w) \/ Recycle(w)
      PROVE  RegistryInv'
  BY Zenon, <1>5, SameRegistryOK DEF TakeAssignment, FreeSlot, Recycle, registry, SameRegistry
<1>6. ASSUME NEW p \in Pods, NEW out \in {"success", "failed"},
             ReportRunning(p) \/ SpecFails(p) \/ PodDies(p) \/ Finish(p, out)
      PROVE  RegistryInv'
  BY Zenon, <1>6, SameRegistryOK
     DEF ReportRunning, SpecFails, PodDies, Finish, registry, SameRegistry
<1>7. CASE MaintenanceStep
  BY Zenon, <1>7, SameRegistryOK DEF MaintenanceStep, ListDispatchLost, ListPodLost,
     ListWarmWorkerLost, ListCandidate, LookAtPods, MarkCandidate, DeletePods,
     registry, SameRegistry
<1>8. CASE TickIdle
  BY Zenon, <1>8, SameRegistryOK DEF TickIdle, vars, registry, SameRegistry
<1> QED
  BY Zenon, <1>1, <1>2, <1>3, <1>4, <1>5, <1>6, <1>7, <1>8 DEF SchedulerStep, PodStep

\* Steps of the streams, the lease timers, the observer, and a restart.
LEMMA ControlPlaneKeeps ==
  ASSUME RegistryInv, ControlPlaneStep
  PROVE  RegistryInv'
<1>1. ASSUME NEW w \in Workers, SendDown(w) \/ BindWarmAttempt(w)
      PROVE  RegistryInv'
  BY Zenon, <1>1, SameRegistryOK DEF SendDown, BindWarmAttempt, registry, SameRegistry
<1>2. ASSUME NEW w \in Workers, ReceiveUp(w)
      PROVE  RegistryInv'
  <2>1. \/ UNCHANGED registry
        \/ \E l \in leases : AckStarted(l)
        \/ MarkFree(w)
    BY Zenon, <1>2 DEF ReceiveUp
  <2>2. CASE UNCHANGED registry
    BY <2>2, SameRegistryOK DEF registry, SameRegistry
  <2> QED
    BY <2>1, <2>2, SettleOK, FreeingOK
<1>3. ASSUME NEW w \in Workers, HandlerEnds(w)
      PROVE  RegistryInv'
  BY Zenon, <1>3, DeregisterOK DEF HandlerEnds
<1>4. CASE LeaseExpires
  BY <1>4, SettleOK DEF LeaseExpires
<1>5. ASSUME NEW l \in reclaims, HandleReclaim(l)
      PROVE  RegistryInv'
  BY Zenon, <1>5, SameRegistryOK DEF HandleReclaim, SameRegistry
<1>6. CASE ServerCrash
  BY <1>6, RegistryLostOK DEF ServerCrash
<1> QED
  BY <1>1, <1>2, <1>3, <1>4, <1>5, <1>6 DEF ControlPlaneStep

\* RegistryInv holds along every behaviour.
THEOREM RegistryHolds == Spec => []RegistryInv
<1>1. Init => RegistryInv
  BY DEF Init, RegistryInit, RegistryInv
<1>2. RegistryInv /\ [Next]_vars => RegistryInv'
  <2>1. CASE UNCHANGED vars
    BY Zenon, <2>1, SameRegistryOK DEF vars, registry, SameRegistry
  <2> QED
    BY <2>1, OtherActorsKeep, ControlPlaneKeeps DEF Next
<1> QED
  BY <1>1, <1>2, PTL DEF Spec

\* Ack, lease timer and disconnect settle an assignment exactly once, for any
\* number of workers and assignments.
THEOREM AssignmentsSettleOnce == Spec => []SettledOnce
<1>1. RegistryInv => SettledOnce
  BY DEF RegistryInv, SettledOnce, Ids
<1> QED
  BY <1>1, RegistryHolds, PTL

\* The registry hands work only to streams being served, for any number of
\* workers, whatever breaks.
THEOREM WorkGoesToServedStreams == Spec => []OnlyServedStreams
<1>1. RegistryInv => OnlyServedStreams
  BY DEF RegistryInv, OnlyServedStreams
<1> QED
  BY <1>1, RegistryHolds, PTL

-----------------------------------------------------------------------------
(* Types.                                                                  *)

\* The writes of this module leave a row a row, and keep its attempt.
LEMMA RowWrites ==
  ASSUME NEW r \in Row, NEW try,
         NEW to \in {"scheduled", "queued", "running", "success", "failed"}
  PROVE  /\ ApplyTransition(r, to) \in Row
         /\ ReportTaskResult(r, try, to) \in Row
         /\ RequeueForRedispatch(r, try) \in Row
         /\ MarkTaskLost(r) \in Row
         /\ MarkTaskDispatchLost(r) \in Row
         /\ ResetTaskInstanceInfraReplace(r) \in Row
<1>1. \A s \in TaskState : [r EXCEPT !.state = s] \in Row
  BY DEF Row
<1>2. to \in TaskState /\ "scheduled" \in TaskState /\ "failed" \in TaskState
  BY DEF TaskState
<1>3. [r EXCEPT !.state = "failed", !.infra = TRUE] \in Row
  BY Zenon, <1>2 DEF Row
<1>4. [ResetColumns(r) EXCEPT !.infraAttempts = r.infraAttempts + 1] \in Row
  <2> DEFINE s == ResetColumns(r)
  <2>1. s \in Row
    BY Zenon DEF Row, ResetColumns, TaskState
  <2>2. r.infraAttempts + 1 \in Nat
    BY DEF Row
  <2>3. \A n \in Nat : [s EXCEPT !.infraAttempts = n] \in Row
    BY <2>1 DEF Row
  <2> QED
    BY <2>2, <2>3
<1> QED
  BY <1>1, <1>2, <1>3, <1>4 DEF ApplyTransition, ReportTaskResult, RequeueForRedispatch,
     MarkTaskLost, MarkTaskDispatchLost, ResetTaskInstanceInfraReplace

\* An assignment that is made names an attempt.
LEMMA AssignmentOK ==
  /\ NoAssignment \in Assignment
  /\ \A t \in Tasks, n \in Nat, try \in Nat :
       /\ [aid |-> n, task |-> t, try |-> try] \in Assignment
       /\ [aid |-> n, task |-> t, try |-> try] # NoAssignment
BY NoTaskAssumption DEF Assignment, NoAssignment

\* The registry's own variables.
RegistryTypes ==
  /\ registered \subseteq Workers /\ free \subseteq Workers /\ busy \subseteq Workers
  /\ send \in [Workers -> Assignment]
  /\ leases \subseteq Lease /\ reclaims \subseteq Lease
  /\ issued \in Nat /\ acked \subseteq Nat /\ reclaimed \subseteq Nat

\* The ids of leases are numbers.
LEMMA LeaseIds == ASSUME NEW L, L \subseteq Lease PROVE Ids(L) \subseteq Nat
BY DEF Ids, Lease, Assignment

\* Every method of the registry keeps them.
LEMMA RegistryMethods ==
  ASSUME RegistryTypes, NEW w \in Workers
  PROVE  /\ Register(w) => RegistryTypes'
         /\ Deregister(w) => RegistryTypes'
         /\ MarkFree(w) => RegistryTypes'
         /\ \A t \in Tasks, try \in Nat : AssignHit(t, try, w) => RegistryTypes'
         /\ \A l \in leases : AckStarted(l) \/ onLeaseExpire(l) => RegistryTypes'
         /\ RegistryLost => RegistryTypes'
<1>1. Register(w) \/ MarkFree(w) => RegistryTypes'
  BY Zenon DEF RegistryTypes, Register, MarkFree
<1>2. Deregister(w) => RegistryTypes'
  BY Zenon, LeaseIds, AssignmentOK DEF RegistryTypes, Deregister
<1>3. ASSUME NEW t \in Tasks, NEW try \in Nat, AssignHit(t, try, w)
      PROVE  RegistryTypes'
  <2> DEFINE a == [aid |-> issued + 1, task |-> t, try |-> try]
  <2>1. a \in Assignment /\ issued + 1 \in Nat
    BY AssignmentOK DEF RegistryTypes
  <2>2. [worker |-> w, a |-> a] \in Lease
    BY <2>1 DEF Lease
  <2> QED
    BY Zenon, <1>3, <2>1, <2>2 DEF RegistryTypes, AssignHit
<1>4. ASSUME NEW l \in leases, AckStarted(l) \/ onLeaseExpire(l)
      PROVE  RegistryTypes'
  <2>1. l.worker \in Workers /\ l.a.aid \in Nat
    BY DEF RegistryTypes, Lease, Assignment
  <2> QED
    BY Zenon, <1>4, <2>1 DEF RegistryTypes, AckStarted, onLeaseExpire
<1>5. RegistryLost => RegistryTypes'
  BY AssignmentOK DEF RegistryTypes, RegistryLost
<1> QED
  BY <1>1, <1>2, <1>3, <1>4, <1>5

\* The rows, the streams, the pods and what the actors hold.
RowTypes ==
  /\ row \in [Tasks -> Row]
  /\ bound \in [Tasks -> Workers \cup {NoWorker}]
  /\ stale \subseteq Tasks

Message == [type: {"ack", "slot_free"}, aid: Nat]

StreamTypes ==
  /\ inbox \in [Workers -> Seq(Assignment \ {NoAssignment})]
  /\ up \in [Workers -> Seq(Message)]
  /\ bind \in [Workers -> Assignment]

Process == [pc: {"absent", "idle", "starting", "running", "done", "dead"}, a: Assignment]

PodTypes == ex \in [Pods -> Process]

Candidate == [kind: {"none", "dispatch_lost", "pod_lost", "warm_worker_lost"},
              pc: {"idle", "look", "mark", "teardown"},
              task: Tasks \cup {NoTask}, try: Nat, worker: Workers \cup {NoWorker}]

ActorTypes ==
  /\ launch \in Tasks \cup {NoTask}
  /\ cand \in Candidate
  /\ faults \subseteq FaultKinds
  /\ slips \subseteq {"unbound", "early"}

\* WarmTypeOK is all of these.
LEMMA TypesSplit ==
  /\ WarmTypeOK <=> RegistryTypes /\ RowTypes /\ StreamTypes /\ PodTypes /\ ActorTypes
  /\ WarmTypeOK' <=> RegistryTypes' /\ RowTypes' /\ StreamTypes' /\ PodTypes' /\ ActorTypes'
BY Zenon DEF WarmTypeOK, RegistryTypes, RowTypes, StreamTypes, PodTypes, ActorTypes,
   Message, Process, Candidate

\* What a step leaves alone keeps its type.
LEMMA TypesStay ==
  ASSUME WarmTypeOK
  PROVE  /\ UNCHANGED registry => RegistryTypes'
         /\ UNCHANGED <<row, bound, stale>> => RowTypes'
         /\ UNCHANGED streams => StreamTypes'
         /\ UNCHANGED ex => PodTypes'
         /\ UNCHANGED <<launch, cand, faults, slips>> => ActorTypes'
BY TypesSplit DEF RegistryTypes, RowTypes, StreamTypes, PodTypes, ActorTypes, registry, streams

\* A fault is of a kind there is.
LEMMA FaultTypes ==
  ASSUME WarmTypeOK, UNCHANGED <<launch, cand, slips>>,
         NoFault \/ \E kind \in FaultKinds : Fault(kind)
  PROVE  ActorTypes'
BY TypesSplit DEF ActorTypes, NoFault, Fault

\* The processes a step may leave in a pod.
LEMMA ProcessOK ==
  ASSUME PodTypes, NEW p \in Pods
  PROVE  /\ Ended(p) => PodTypes'
         /\ Exits(p) => PodTypes'
         /\ \A pc \in {"idle", "starting", "running"}, a \in Assignment :
              /\ ex' = [ex EXCEPT ![p].pc = pc] => PodTypes'
              /\ ex' = [ex EXCEPT ![p] = [pc |-> pc, a |-> a]] => PodTypes'
<1>1. \A pc \in {"done", "dead", "idle", "starting", "running"}, a \in Assignment :
         [pc |-> pc, a |-> a] \in Process
  BY DEF Process
<1>2. [Absent EXCEPT !.pc = "dead"] \in Process
  BY AssignmentOK DEF Process, Absent
<1>3. \A pc \in {"idle", "starting", "running"} : [ex[p] EXCEPT !.pc = pc] \in Process
  BY DEF PodTypes, Process
<1> QED
  BY <1>1, <1>2, <1>3, AssignmentOK DEF PodTypes, Ended, Exits

\* The scheduler's steps.
LEMMA SchedulerTypes ==
  ASSUME WarmTypeOK, SchedulerStep
  PROVE  WarmTypeOK'
<1> RegistryTypes /\ RowTypes /\ StreamTypes /\ PodTypes /\ ActorTypes
  BY TypesSplit
<1>1. ASSUME NEW t \in Tasks, Dispatch(t)
      PROVE  WarmTypeOK'
  <2>1. row[t].try \in Nat
    BY DEF RowTypes, Row
  <2>2. RegistryTypes' /\ PodTypes'
    <3>1. CASE \E w \in Workers : AssignHit(t, row[t].try, w) /\ UNCHANGED ex
      BY Zenon, <2>1, <3>1, RegistryMethods, TypesStay
    <3>2. CASE /\ UNCHANGED registry
               /\ \E p \in Dedicated :
                    ex' = [ex EXCEPT ![p] =
                      [pc |-> "starting",
                       a |-> [aid |-> 0, task |-> t, try |-> row[t].try]]]
      <4>1. [aid |-> 0, task |-> t, try |-> row[t].try] \in Assignment
        BY Zenon, <2>1, AssignmentOK
      <4> QED
        BY Zenon, <3>2, <4>1, TypesStay, ProcessOK DEF Dedicated
    <3> QED
      BY Zenon, <1>1, <3>1, <3>2 DEF Dispatch, AssignMiss
  <2>3. RowTypes' /\ StreamTypes'
    BY Zenon, <1>1, TypesStay DEF Dispatch
  <2>4. ActorTypes'
    BY Zenon, <1>1 DEF Dispatch, ActorTypes
  <2> QED
    BY <2>2, <2>3, <2>4, TypesSplit
<1>2. ASSUME NEW t \in Tasks, ReplaceLost(t) \/ ScheduleAgain(t)
      PROVE  WarmTypeOK'
  <2>1. RowTypes'
    BY <1>2, RowWrites DEF ReplaceLost, ScheduleAgain, RowTypes
  <2> QED
    BY Zenon, <1>2, <2>1, TypesSplit, TypesStay DEF ReplaceLost, ScheduleAgain
<1>3. CASE RecordQueued
  <2>1. RowTypes'
    BY Zenon, <1>3, RowWrites DEF RecordQueued, RowTypes
  <2>2. ActorTypes'
    BY <1>3 DEF RecordQueued, ActorTypes
  <2> QED
    BY Zenon, <1>3, <2>1, <2>2, TypesSplit, TypesStay DEF RecordQueued
<1> QED
  BY <1>1, <1>2, <1>3 DEF SchedulerStep

\* A stream may be empty.
LEMMA EmptyStreams == <<>> \in Seq(Assignment \ {NoAssignment}) /\ <<>> \in Seq(Message)
OBVIOUS

\* The control plane's steps.
LEMMA ControlPlaneTypes ==
  ASSUME WarmTypeOK, ControlPlaneStep
  PROVE  WarmTypeOK'
<1> RegistryTypes /\ RowTypes /\ StreamTypes /\ PodTypes /\ ActorTypes
  BY TypesSplit
<1>1. ASSUME NEW w \in Workers, SendDown(w)
      PROVE  WarmTypeOK'
  <2>1. RegistryTypes'
    BY Zenon, <1>1, AssignmentOK DEF SendDown, RegistryTypes
  <2>2. StreamTypes'
    <3>1. send[w] \in Assignment \ {NoAssignment}
      BY Zenon, <1>1 DEF SendDown, RegistryTypes
    <3>2. Append(inbox[w], send[w]) \in Seq(Assignment \ {NoAssignment})
      BY <3>1 DEF StreamTypes
    <3> QED
      BY Zenon, <1>1, <3>2 DEF SendDown, StreamTypes
  <2> QED
    BY Zenon, <1>1, <2>1, <2>2, TypesSplit, TypesStay DEF SendDown
<1>2. ASSUME NEW w \in Workers, ReceiveUp(w)
      PROVE  WarmTypeOK'
  <2>1. RegistryTypes' /\ bind' \in [Workers -> Assignment]
    <3>1. CASE UNCHANGED <<registry, bind>>
      BY Zenon, <3>1, TypesStay DEF StreamTypes
    <3>2. CASE \E l \in leases : AckStarted(l) /\ bind' = [bind EXCEPT ![w] = l.a]
      BY Zenon, <3>2, RegistryMethods DEF StreamTypes, RegistryTypes, Lease
    <3>3. CASE MarkFree(w) /\ UNCHANGED bind
      BY Zenon, <3>3, RegistryMethods DEF StreamTypes
    <3> QED
      BY Zenon, <1>2, <3>1, <3>2, <3>3 DEF ReceiveUp
  <2>2. up' \in [Workers -> Seq(Message)]
    <3>1. up[w] \in Seq(Message) /\ up[w] # <<>>
      BY Zenon, <1>2 DEF ReceiveUp, StreamTypes
    <3>2. Tail(up[w]) \in Seq(Message)
      BY <3>1
    <3> QED
      BY Zenon, <1>2, <3>2 DEF ReceiveUp, StreamTypes
  <2> QED
    BY Zenon, <1>2, <2>1, <2>2, TypesSplit, TypesStay DEF ReceiveUp, StreamTypes
<1>3. ASSUME NEW w \in Workers, BindWarmAttempt(w)
      PROVE  WarmTypeOK'
  <2>1. StreamTypes' /\ RowTypes'
    BY <1>3, AssignmentOK DEF BindWarmAttempt, StreamTypes, RowTypes
  <2>2. ActorTypes'
    <3>1. CASE UNCHANGED slips /\ NoFault
      BY Zenon, <1>3, <3>1, FaultTypes DEF BindWarmAttempt
    <3>2. CASE slips' = slips \cup {"unbound"} /\ NoFault
      BY Zenon, <1>3, <3>2 DEF BindWarmAttempt, ActorTypes, NoFault
    <3>3. CASE UNCHANGED slips /\ Fault("db")
      BY Zenon, <1>3, <3>3, FaultTypes DEF BindWarmAttempt, FaultKinds
    <3> QED
      BY Zenon, <1>3, <3>1, <3>2, <3>3 DEF BindWarmAttempt
  <2> QED
    BY Zenon, <1>3, <2>1, <2>2, TypesSplit, TypesStay DEF BindWarmAttempt
<1>4. ASSUME NEW w \in Workers, HandlerEnds(w)
      PROVE  WarmTypeOK'
  <2>1. RegistryTypes'
    BY Zenon, <1>4, RegistryMethods DEF HandlerEnds
  <2>2. up' \in [Workers -> Seq(Message)]
    <3>1. PICK n \in {0, 1} :
            up' = [up EXCEPT ![w] = SubSeq(up[w], 1, IF n < Len(up[w]) THEN n ELSE Len(up[w]))]
      BY Zenon, <1>4 DEF HandlerEnds
    <3>2. \A k \in 0..Len(up[w]) : SubSeq(up[w], 1, k) \in Seq(Message)
      BY DEF StreamTypes
    <3>3. (IF n < Len(up[w]) THEN n ELSE Len(up[w])) \in 0..Len(up[w])
      BY DEF StreamTypes
    <3> QED
      BY Zenon, <3>1, <3>2, <3>3 DEF StreamTypes
  <2>3. inbox' \in [Workers -> Seq(Assignment \ {NoAssignment})]
    BY Zenon, <1>4, EmptyStreams DEF HandlerEnds, StreamTypes
  <2>4. ActorTypes'
    BY Zenon, <1>4, FaultTypes DEF HandlerEnds, FaultKinds
  <2> QED
    BY Zenon, <1>4, <2>1, <2>2, <2>3, <2>4, TypesSplit, TypesStay DEF HandlerEnds, StreamTypes
<1>5. CASE LeaseExpires
  <2>1. RegistryTypes'
    BY Zenon, <1>5, RegistryMethods DEF LeaseExpires, RegistryTypes, Lease
  <2>2. ActorTypes'
    BY <1>5, FaultTypes DEF LeaseExpires, FaultKinds
  <2> QED
    BY Zenon, <1>5, <2>1, <2>2, TypesSplit, TypesStay DEF LeaseExpires
<1>6. ASSUME NEW l \in reclaims, HandleReclaim(l)
      PROVE  WarmTypeOK'
  <2>1. RegistryTypes'
    BY Zenon, <1>6 DEF HandleReclaim, RegistryTypes
  <2>2. RowTypes'
    <3> DEFINE t == l.a.task
    <3>1. UNCHANGED row \/ row' = [row EXCEPT ![t] = RequeueForRedispatch(row[t], l.a.try)]
      BY Zenon, <1>6 DEF HandleReclaim
    <3>2. row' \in [Tasks -> Row]
      BY <3>1, RowWrites DEF RowTypes
    <3>3. t \notin Tasks => row' = row
      BY <3>1 DEF RowTypes
    <3>4. /\ UNCHANGED bound \/ bound' = [bound EXCEPT ![t] = NoWorker]
          /\ UNCHANGED stale \/ (stale' = stale \cup {t} /\ t \in Tasks)
      BY Zenon, <1>6, <3>3 DEF HandleReclaim, RowTypes
    <3> QED
      BY Zenon, <3>2, <3>4 DEF RowTypes
  <2>3. ActorTypes'
    BY Zenon, <1>6, FaultTypes DEF HandleReclaim, FaultKinds
  <2> QED
    BY Zenon, <1>6, <2>1, <2>2, <2>3, TypesSplit, TypesStay DEF HandleReclaim
<1>7. CASE ServerCrash
  <2>1. RegistryTypes'
    BY Zenon, <1>7, AssignmentOK DEF ServerCrash, RegistryLost, RegistryTypes
  <2>2. StreamTypes'
    BY Zenon, <1>7, AssignmentOK, EmptyStreams DEF ServerCrash, StreamTypes
  <2>3. ActorTypes'
    BY Zenon, <1>7 DEF ServerCrash, ActorTypes, NoCand, Candidate, Fault, FaultKinds
  <2> QED
    BY Zenon, <1>7, <2>1, <2>2, <2>3, TypesSplit, TypesStay DEF ServerCrash
<1> QED
  BY Zenon, <1>1, <1>2, <1>3, <1>4, <1>5, <1>6, <1>7 DEF ControlPlaneStep

\* The steps of the pods and their agents.
LEMMA PodStepTypes ==
  ASSUME WarmTypeOK, PodStep
  PROVE  WarmTypeOK'
<1> RegistryTypes /\ RowTypes /\ StreamTypes /\ PodTypes /\ ActorTypes
  BY TypesSplit
<1>0. Workers \subseteq Pods
  BY WarmPoolAssumption
<1>1. ASSUME NEW w \in Workers, Connect(w)
      PROVE  WarmTypeOK'
  <2>1. PodTypes'
    BY Zenon, <1>0, <1>1, ProcessOK, AssignmentOK DEF Connect
  <2> QED
    BY Zenon, <1>1, <2>1, RegistryMethods, TypesSplit, TypesStay DEF Connect
<1>2. ASSUME NEW w \in Workers, TakeAssignment(w)
      PROVE  WarmTypeOK'
  <2>1. /\ Head(inbox[w]) \in Assignment
        /\ Tail(inbox[w]) \in Seq(Assignment \ {NoAssignment})
    BY <1>2 DEF TakeAssignment, StreamTypes
  <2>2. PodTypes'
    BY Zenon, <1>0, <1>2, <2>1, ProcessOK DEF TakeAssignment
  <2>3. [type |-> "ack", aid |-> Head(inbox[w]).aid] \in Message
    BY Zenon, <2>1 DEF Message, Assignment
  <2>4. Append(up[w], [type |-> "ack", aid |-> Head(inbox[w]).aid]) \in Seq(Message)
    BY <2>3 DEF StreamTypes
  <2>5. StreamTypes'
    BY Zenon, <1>2, <2>1, <2>4 DEF TakeAssignment, StreamTypes
  <2> QED
    BY Zenon, <1>2, <2>2, <2>5, TypesSplit, TypesStay DEF TakeAssignment
<1>3. ASSUME NEW w \in Workers, FreeSlot(w)
      PROVE  WarmTypeOK'
  <2>1. [type |-> "slot_free", aid |-> 0] \in Message
    BY DEF Message
  <2>2. Append(up[w], [type |-> "slot_free", aid |-> 0]) \in Seq(Message)
    BY <2>1 DEF StreamTypes
  <2>3. StreamTypes'
    BY Zenon, <1>3, <2>2 DEF FreeSlot, StreamTypes
  <2>4. PodTypes'
    BY Zenon, <1>0, <1>3, ProcessOK, AssignmentOK DEF FreeSlot
  <2> QED
    BY Zenon, <1>3, <2>3, <2>4, TypesSplit, TypesStay DEF FreeSlot
<1>4. ASSUME NEW w \in Workers, Recycle(w)
      PROVE  WarmTypeOK'
  BY Zenon, <1>0, <1>4, ProcessOK, TypesSplit, TypesStay DEF Recycle
<1>5. ASSUME NEW p \in Pods, ReportRunning(p)
      PROVE  WarmTypeOK'
  <2>1. PodTypes'
    BY Zenon, <1>5, ProcessOK, AssignmentOK DEF ReportRunning
  <2>2. RowTypes'
    BY Zenon, <1>5, RowWrites DEF ReportRunning, RowTypes
  <2> QED
    BY Zenon, <1>5, <2>1, <2>2, TypesSplit, TypesStay DEF ReportRunning
<1>6. ASSUME NEW p \in Pods, SpecFails(p) \/ PodDies(p)
      PROVE  WarmTypeOK'
  <2>1. PodTypes' /\ ActorTypes'
    BY Zenon, <1>6, ProcessOK, FaultTypes DEF SpecFails, PodDies, FaultKinds
  <2> QED
    BY Zenon, <1>6, <2>1, TypesSplit, TypesStay DEF SpecFails, PodDies
<1>7. ASSUME NEW p \in Pods, NEW out \in {"success", "failed"}, Finish(p, out)
      PROVE  WarmTypeOK'
  <2>1. RowTypes'
    BY Zenon, <1>7, RowWrites DEF Finish, RowTypes
  <2> QED
    BY Zenon, <1>7, <2>1, ProcessOK, TypesSplit, TypesStay DEF Finish
<1> QED
  BY Zenon, <1>1, <1>2, <1>3, <1>4, <1>5, <1>6, <1>7 DEF PodStep

\* The steps of the maintenance loop.
LEMMA MaintenanceTypes ==
  ASSUME WarmTypeOK, MaintenanceStep
  PROVE  WarmTypeOK'
<1> RegistryTypes /\ RowTypes /\ StreamTypes /\ PodTypes /\ ActorTypes
  BY TypesSplit
<1>1. ASSUME NEW t \in Tasks,
             NEW kind \in {"dispatch_lost", "pod_lost", "warm_worker_lost"},
             ListCandidate(kind, t)
      PROVE  WarmTypeOK'
  <2>1. row[t].try \in Nat /\ bound[t] \in Workers \cup {NoWorker}
    BY DEF RowTypes, Row
  <2>2. cand' \in Candidate
    BY Zenon, <1>1, <2>1 DEF ListCandidate, Candidate
  <2>3. ActorTypes'
    BY Zenon, <1>1, <2>2 DEF ListCandidate, ActorTypes
  <2> QED
    BY Zenon, <1>1, <2>3, TypesSplit, TypesStay DEF ListCandidate
<1>2. NoCand \in Candidate /\ \A pc \in {"mark", "teardown"} : [cand EXCEPT !.pc = pc] \in Candidate
  BY DEF NoCand, ActorTypes, Candidate
<1>3. CASE LookAtPods
  <2>1. ActorTypes'
    BY <1>2, <1>3 DEF LookAtPods, ActorTypes
  <2> QED
    BY Zenon, <1>3, <2>1, TypesSplit, TypesStay DEF LookAtPods
<1>4. CASE MarkCandidate
  <2>1. ActorTypes'
    BY Zenon, <1>2, <1>4 DEF MarkCandidate, ActorTypes
  <2>2. RowTypes'
    BY Zenon, <1>4, RowWrites DEF MarkCandidate, RowTypes
  <2> QED
    BY Zenon, <1>4, <2>1, <2>2, TypesSplit, TypesStay DEF MarkCandidate
<1>5. CASE DeletePods
  <2>1. ActorTypes'
    BY <1>2, <1>5 DEF DeletePods, ActorTypes
  <2>2. [Absent EXCEPT !.pc = "dead"] \in Process
    BY AssignmentOK DEF Process, Absent
  <2>3. PodTypes'
    BY <1>5, <2>2 DEF DeletePods, PodTypes
  <2> QED
    BY Zenon, <1>5, <2>1, <2>3, TypesSplit, TypesStay DEF DeletePods
<1> QED
  BY Zenon, <1>1, <1>3, <1>4, <1>5 DEF MaintenanceStep, ListDispatchLost, ListPodLost,
     ListWarmWorkerLost

\* Every variable keeps its type, for any number of workers, pods and faults; in
\* particular nothing but an attempt is ever sent down a stream.
THEOREM WarmTypeCorrect == Spec => []WarmTypeOK
<1>1. Init => WarmTypeOK
  <2> SUFFICES ASSUME Init PROVE WarmTypeOK
    OBVIOUS
  <2>1. [CreateTaskInstance EXCEPT !.state = "scheduled"] \in Row
    BY Zenon DEF CreateTaskInstance, AbsentRow, Row, TaskState
  <2>2. RegistryTypes /\ StreamTypes
    BY AssignmentOK, EmptyStreams DEF Init, RegistryInit, RegistryTypes, StreamTypes
  <2>3. RowTypes
    BY <2>1 DEF Init, RowTypes
  <2>4. PodTypes /\ ActorTypes
    BY AssignmentOK DEF Init, PodTypes, Process, Absent, ActorTypes, NoCand, Candidate
  <2> QED
    BY <2>2, <2>3, <2>4, TypesSplit
<1>2. WarmTypeOK /\ [Next]_vars => WarmTypeOK'
  <2> SUFFICES ASSUME WarmTypeOK, [Next]_vars PROVE WarmTypeOK'
    OBVIOUS
  <2>1. CASE UNCHANGED vars
    BY Zenon, <2>1, TypesSplit, TypesStay DEF vars
  <2> QED
    BY <2>1, SchedulerTypes, ControlPlaneTypes, PodStepTypes, MaintenanceTypes
       DEF Next, TickIdle
<1> QED
  BY <1>1, <1>2, PTL DEF Spec

-----------------------------------------------------------------------------
(* Streams: the ids on their way between the registry and a worker, and    *)
(* the one slot the worker has.                                            *)

Aids(s) == {s[i].aid : i \in DOMAIN s}

\* The ids in w's channel and on its stream, in either direction.
Carried(w) == {send[w].aid} \cup Aids(inbox[w]) \cup Aids(up[w])

\* What a stream carries was issued, and a lease it names is its worker's own.
OwnIds ==
  /\ \A w \in Workers : Carried(w) \subseteq 0..issued
  /\ \A l \in leases : l.a.aid # 0
  /\ \A w \in Workers : \A l \in leases : l.a.aid \in Carried(w) => l.worker = w

\* The ids along a stream when a message is put on it or taken off.
LEMMA StreamAids ==
  ASSUME NEW S, NEW s \in Seq(S)
  PROVE  /\ Aids(<<>>) = {}
         /\ \A x \in S : Aids(Append(s, x)) = Aids(s) \cup {x.aid}
         /\ s # <<>> => Head(s).aid \in Aids(s) /\ Aids(Tail(s)) \subseteq Aids(s)
         /\ \A k \in 0..Len(s) : Aids(SubSeq(s, 1, k)) \subseteq Aids(s)
<1>1. Aids(<<>>) = {}
  BY DEF Aids
<1>2. ASSUME NEW x \in S
      PROVE  Aids(Append(s, x)) = Aids(s) \cup {x.aid}
  <2> DEFINE r == Append(s, x)
  <2>1. /\ Len(s) \in Nat /\ DOMAIN s = 1..Len(s)
        /\ DOMAIN r = 1..(Len(s) + 1) /\ r[Len(s) + 1] = x
        /\ \A i \in DOMAIN s : r[i] = s[i]
    OBVIOUS
  <2>2. DOMAIN r = DOMAIN s \cup {Len(s) + 1}
    BY <2>1
  <2> HIDE DEF r
  <2> QED
    BY <2>1, <2>2 DEF Aids
<1>3. ASSUME s # <<>>
      PROVE  Head(s).aid \in Aids(s) /\ Aids(Tail(s)) \subseteq Aids(s)
  <2>1. Head(s) = s[1] /\ 1 \in DOMAIN s
    BY <1>3
  <2>2. \A i \in DOMAIN Tail(s) : i + 1 \in DOMAIN s /\ Tail(s)[i] = s[i + 1]
    BY <1>3
  <2> QED
    BY <2>1, <2>2 DEF Aids
<1>4. ASSUME NEW k \in 0..Len(s)
      PROVE  Aids(SubSeq(s, 1, k)) \subseteq Aids(s)
  <2>1. \A i \in DOMAIN SubSeq(s, 1, k) : i \in DOMAIN s /\ SubSeq(s, 1, k)[i] = s[i]
    OBVIOUS
  <2> QED
    BY <2>1 DEF Aids
<1> QED
  BY <1>1, <1>2, <1>3, <1>4

\* A step that hands nothing out keeps OwnIds if no stream gains an id.
LEMMA NothingGained ==
  ASSUME OwnIds, issued \in Nat, leases' \subseteq leases, issued' = issued,
         \A w \in Workers : Carried(w)' \subseteq Carried(w) \cup {0}
  PROVE  OwnIds'
<1>1. \A w \in Workers : Carried(w)' \subseteq 0..issued'
  BY DEF OwnIds
<1>2. \A l \in leases' : l.a.aid # 0
  BY DEF OwnIds
<1>3. \A w \in Workers : \A l \in leases' : l.a.aid \in Carried(w)' => l.worker = w
  BY <1>2 DEF OwnIds
<1> QED
  BY <1>1, <1>2, <1>3 DEF OwnIds

\* Every step keeps the ids of each stream to its own worker.
LEMMA OwnIdsStep ==
  ASSUME WarmTypeOK, RegistryInv, OwnIds, [Next]_vars
  PROVE  OwnIds'
<1> RegistryTypes /\ StreamTypes
  BY TypesSplit
<1>0. issued \in Nat /\ NoAssignment.aid = 0
  BY DEF RegistryTypes, NoAssignment
<1>1. ASSUME UNCHANGED <<issued, send, inbox, up>>, leases' \subseteq leases
      PROVE  OwnIds'
  BY Zenon, <1>0, <1>1, NothingGained DEF Carried
<1>2. ASSUME NEW t \in Tasks, Dispatch(t)
      PROVE  OwnIds'
  <2>1. CASE AssignMiss
    BY Zenon, <1>1, <1>2, <2>1 DEF AssignMiss, Dispatch, registry, streams
  <2>2. ASSUME NEW w \in Workers, AssignHit(t, row[t].try, w)
        PROVE  OwnIds'
    <3> DEFINE n == issued + 1
    <3>1. /\ issued' = n
          /\ \A v \in Workers : /\ send'[v].aid = IF v = w THEN n ELSE send[v].aid
                                /\ inbox'[v] = inbox[v] /\ up'[v] = up[v]
          /\ \A l \in leases' : l \in leases \/ (l.a.aid = n /\ l.worker = w)
      BY <1>2, <2>2 DEF AssignHit, RegistryTypes, Dispatch, streams
    <3>2. \A v \in Workers : Carried(v)' \subseteq Carried(v) \cup (IF v = w THEN {n} ELSE {})
      BY <3>1 DEF Carried
    <3>3. \A l \in leases : l.a.aid # n
      BY <1>0 DEF RegistryInv, Old
    <3>4. \A v \in Workers : n \notin Carried(v) /\ Carried(v)' \subseteq 0..issued'
      BY <1>0, <3>1, <3>2 DEF OwnIds
    <3>5. \A l \in leases' : l.a.aid # 0
      BY <1>0, <3>1 DEF OwnIds
    <3>6. \A v \in Workers : \A l \in leases' : l.a.aid \in Carried(v)' => l.worker = v
      BY <3>1, <3>2, <3>3, <3>4 DEF OwnIds
    <3> QED
      BY Zenon, <3>4, <3>5, <3>6 DEF OwnIds
  <2> QED
    BY Zenon, <1>2, <2>1, <2>2 DEF Dispatch
<1>3. ASSUME NEW w \in Workers, SendDown(w)
      PROVE  OwnIds'
  <2>1. Aids(Append(inbox[w], send[w])) = Aids(inbox[w]) \cup {send[w].aid}
    <3>1. /\ send[w] \in Assignment \ {NoAssignment}
          /\ inbox[w] \in Seq(Assignment \ {NoAssignment})
      BY Zenon, <1>3 DEF SendDown, StreamTypes, RegistryTypes
    <3> QED
      BY <3>1, StreamAids
  <2>2. \A v \in Workers : Carried(v)' \subseteq Carried(v) \cup {0}
    BY Zenon, <1>0, <1>3, <2>1 DEF SendDown, StreamTypes, RegistryTypes, Carried
  <2> QED
    BY Zenon, <1>0, <1>3, <2>2, NothingGained DEF SendDown
<1>4. ASSUME NEW w \in Workers, ReceiveUp(w)
      PROVE  OwnIds'
  <2>1. Aids(Tail(up[w])) \subseteq Aids(up[w])
    BY Zenon, <1>4, StreamAids DEF ReceiveUp, StreamTypes
  <2>2. UNCHANGED <<issued, send, inbox>> /\ leases' \subseteq leases
    BY Zenon, <1>4 DEF ReceiveUp, AckStarted, MarkFree, registry
  <2>3. \A v \in Workers : Carried(v)' \subseteq Carried(v) \cup {0}
    BY Zenon, <1>4, <2>1, <2>2 DEF ReceiveUp, StreamTypes, Carried
  <2> QED
    BY <1>0, <2>2, <2>3, NothingGained
<1>5. ASSUME NEW w \in Workers, HandlerEnds(w)
      PROVE  OwnIds'
  <2>1. PICK n \in {0, 1} :
          up' = [up EXCEPT ![w] = SubSeq(up[w], 1, IF n < Len(up[w]) THEN n ELSE Len(up[w]))]
    BY Zenon, <1>5 DEF HandlerEnds
  <2>2. (IF n < Len(up[w]) THEN n ELSE Len(up[w])) \in 0..Len(up[w])
    BY DEF StreamTypes
  <2>3. up[w] \in Seq(Message) /\ \A v \in Workers : Aids(up'[v]) \subseteq Aids(up[v])
    BY <2>1, <2>2, StreamAids DEF StreamTypes
  <2>4. Aids(<<>>) = {}
    BY <2>3, StreamAids
  <2>5. \A v \in Workers : Aids(inbox'[v]) \subseteq Aids(inbox[v])
    BY Zenon, <1>5, <2>4 DEF HandlerEnds, StreamTypes
  <2>6. \A v \in Workers : Carried(v)' \subseteq Carried(v) \cup {0}
    BY Zenon, <1>0, <1>5, <2>3, <2>5 DEF HandlerEnds, Deregister, RegistryTypes, Carried
  <2> QED
    BY Zenon, <1>0, <1>5, <2>6, NothingGained DEF HandlerEnds, Deregister
<1>6. CASE LeaseExpires
  BY Zenon, <1>1, <1>6 DEF LeaseExpires, onLeaseExpire, streams
<1>7. CASE ServerCrash
  <2>1. Aids(<<>>) = {}
    BY Zenon, EmptyStreams, StreamAids
  <2>2. \A v \in Workers : Aids(inbox'[v]) \subseteq Aids(inbox[v]) /\ Aids(up'[v]) = {}
    BY Zenon, <1>7, <2>1 DEF ServerCrash, StreamTypes
  <2>3. \A v \in Workers : Carried(v)' \subseteq Carried(v) \cup {0}
    BY Zenon, <1>0, <1>7, <2>2 DEF ServerCrash, RegistryLost, Carried
  <2> QED
    BY Zenon, <1>0, <1>7, <2>3, NothingGained DEF ServerCrash, RegistryLost
<1>8. ASSUME NEW w \in Workers, TakeAssignment(w)
      PROVE  OwnIds'
  <2> DEFINE m == [type |-> "ack", aid |-> Head(inbox[w]).aid]
  <2>1. Head(inbox[w]).aid \in Aids(inbox[w]) /\ Aids(Tail(inbox[w])) \subseteq Aids(inbox[w])
    BY <1>8, StreamAids DEF TakeAssignment, StreamTypes
  <2>2. m \in Message
    BY <1>8 DEF TakeAssignment, StreamTypes, Message, Assignment
  <2>3. Aids(Append(up[w], m)) = Aids(up[w]) \cup {Head(inbox[w]).aid}
    BY <2>2, StreamAids DEF StreamTypes
  <2>4. \A v \in Workers : Carried(v)' \subseteq Carried(v) \cup {0}
    BY <1>8, <2>1, <2>3 DEF TakeAssignment, StreamTypes, Carried, registry
  <2> QED
    BY Zenon, <1>0, <1>8, <2>4, NothingGained DEF TakeAssignment, registry
<1>9. ASSUME NEW w \in Workers, FreeSlot(w)
      PROVE  OwnIds'
  <2>1. [type |-> "slot_free", aid |-> 0] \in Message
    BY DEF Message
  <2>2. Aids(Append(up[w], [type |-> "slot_free", aid |-> 0])) = Aids(up[w]) \cup {0}
    BY <2>1, StreamAids DEF StreamTypes
  <2>3. \A v \in Workers : Carried(v)' \subseteq Carried(v) \cup {0}
    BY Zenon, <1>9, <2>2 DEF FreeSlot, StreamTypes, Carried, registry
  <2> QED
    BY Zenon, <1>0, <1>9, <2>3, NothingGained DEF FreeSlot, registry
<1>10. ASSUME NEW w \in Workers, BindWarmAttempt(w) \/ Connect(w) \/ Recycle(w)
       PROVE  OwnIds'
  BY Zenon, <1>1, <1>10 DEF BindWarmAttempt, Connect, Register, Recycle, registry, streams
<1>11. ASSUME NEW l \in reclaims, HandleReclaim(l)
       PROVE  OwnIds'
  BY Zenon, <1>1, <1>11 DEF HandleReclaim, streams
<1>12. ASSUME NEW p \in Pods, NEW out \in {"success", "failed"},
              ReportRunning(p) \/ SpecFails(p) \/ PodDies(p) \/ Finish(p, out)
       PROVE  OwnIds'
  BY Zenon, <1>1, <1>12 DEF ReportRunning, SpecFails, PodDies, Finish, registry, streams
<1>13. CASE MaintenanceStep
  BY <1>1, <1>13 DEF MaintenanceStep, ListDispatchLost, ListPodLost, ListWarmWorkerLost,
     ListCandidate, LookAtPods, MarkCandidate, DeletePods, registry, streams
<1>14. ASSUME NEW t \in Tasks, ReplaceLost(t) \/ ScheduleAgain(t)
       PROVE  OwnIds'
  BY Zenon, <1>1, <1>14 DEF ReplaceLost, ScheduleAgain, registry, streams
<1>15. CASE RecordQueued \/ UNCHANGED vars
  BY Zenon, <1>1, <1>15 DEF RecordQueued, vars, registry, streams
<1> QED
  BY <1>2, <1>3, <1>4, <1>5, <1>6, <1>7, <1>8, <1>9, <1>10, <1>11, <1>12, <1>13, <1>14,
     <1>15 DEF Next, SchedulerStep, ControlPlaneStep, PodStep, TickIdle

\* w's process serves nobody.
Resting(w) == ex[w].pc \in {"idle", "dead"}

\* The end of an attempt is on its way up w's stream.
Signalled(w) == \E i \in DOMAIN up[w] : up[w][i].type = "slot_free"

\* The slot of a served worker is in one place at most: in the free set, with an
\* assignment in the channel or on the stream, with the process, or on its way
\* back as the last message up.
OneSlot(w) ==
  /\ w \in free => w \notin busy /\ up[w] = <<>>
  /\ w \in free \/ Signalled(w) => send[w] = NoAssignment /\ inbox[w] = <<>> /\ Resting(w)
  /\ send[w] # NoAssignment => inbox[w] = <<>> /\ up[w] = <<>> /\ Resting(w)
  /\ inbox[w] # <<>> => Len(inbox[w]) = 1 /\ up[w] = <<>> /\ Resting(w)
  /\ \A i \in DOMAIN up[w] : up[w][i].type = "slot_free" => i = Len(up[w])

\* Nothing was ever sent to or from a worker that has not connected.
Unused(w) ==
  /\ w \notin registered
  /\ send[w] = NoAssignment /\ inbox[w] = <<>> /\ up[w] = <<>>

SlotOK(w) ==
  /\ w \in registered => OneSlot(w)
  /\ ex[w].pc = "absent" => Unused(w)

StreamInv == "expire" \notin faults => \A w \in Workers : SlotOK(w)

\* A step that moves no slot of w; its process may end, or go on.
SlotStays(w) ==
  /\ w \in registered' => w \in registered
  /\ w \in free' => w \in free
  /\ w \in busy' => w \in busy \/ up[w] # <<>>
  /\ send'[w] = send[w] /\ inbox'[w] = inbox[w] /\ up'[w] = up[w]
  /\ ex'[w].pc = "absent" => ex[w].pc = "absent"
  /\ Resting(w) => Resting(w)'

\* Such a step keeps the worker in order.
LEMMA SlotStaysOK ==
  ASSUME NEW w, SlotOK(w), SlotStays(w)
  PROVE  SlotOK(w)'
<1>1. Signalled(w)' => Signalled(w)
  BY Zenon DEF SlotStays, Signalled
<1>2. ex'[w].pc = "absent" => Unused(w)'
  BY Zenon DEF SlotStays, SlotOK, Unused
<1>3. ASSUME w \in registered'
      PROVE  OneSlot(w)'
  <2>1. OneSlot(w) /\ SlotStays(w)
    BY Zenon, <1>3 DEF SlotOK, SlotStays
  <2> QED
    BY Zenon, <1>1, <2>1 DEF SlotStays, OneSlot
<1> QED
  BY <1>2, <1>3 DEF SlotOK

\* The process of one pod ends or goes on, and nothing else moves.
LEMMA ProcessSlot ==
  ASSUME WarmTypeOK, NEW p \in Pods, NEW w \in Workers, UNCHANGED <<registry, streams>>,
         \/ Ended(p) /\ ~Resting(p)
         \/ Exits(p)
         \/ ex[p].pc \notin {"absent", "idle", "dead"} /\ ex' = [ex EXCEPT ![p].pc = "running"]
  PROVE  SlotStays(w)
<1>1. ex \in [Pods -> Process] /\ w \in Pods
  BY TypesSplit, WarmPoolAssumption DEF PodTypes
<1>2. p # w => ex'[w] = ex[w]
  BY <1>1 DEF Ended, Exits
<1>3. p = w => ex'[w].pc # "absent" /\ (Resting(w) => Resting(w)')
  BY <1>1 DEF Ended, Exits, Resting, Absent, Process
<1> QED
  BY Zenon, <1>2, <1>3 DEF SlotStays, registry, streams, Resting

\* Streams of one message.
LEMMA HeadIn ==
  ASSUME NEW S, NEW s \in Seq(S), s # <<>>
  PROVE  Head(s) \in S
OBVIOUS

LEMMA OnlyElement ==
  ASSUME NEW m
  PROVE  \A i \in DOMAIN Append(<<>>, m) : Append(<<>>, m)[i] = m
OBVIOUS

LEMMA ShortStream ==
  ASSUME NEW S, NEW s \in Seq(S), NEW x \in S
  PROVE  /\ s = <<>> => Len(Append(s, x)) = 1 /\ Head(Append(s, x)) = x
         /\ Len(s) = 1 => Tail(s) = <<>>
<1>1. ASSUME Len(s) = 1
      PROVE  Tail(s) = <<>>
  <2>1. s # <<>>
    BY <1>1
  <2> DEFINE r == Tail(s)
  <2>2. r \in Seq(S) /\ Len(r) = 0
    BY <1>1, <2>1
  <2> HIDE DEF r
  <2>3. r = <<>>
    BY <2>2
  <2> QED
    BY <2>3 DEF r
<1>2. ASSUME s = <<>>
      PROVE  Len(Append(s, x)) = 1 /\ Head(Append(s, x)) = x
  <2>1. Head(Append(s, x)) = x
    BY <1>2
  <2>2. Len(Append(s, x)) = Len(s) + 1 /\ Len(s) = 0
    BY <1>2
  <2> QED
    BY <2>1, <2>2
<1> QED
  BY <1>1, <1>2

\* The steps that move a slot: a connect, an assignment, its way down the stream,
\* the ack and the signal on their way up, and a handler that ends.
LEMMA SlotMoves ==
  ASSUME WarmTypeOK, RegistryInv, OwnIds, NEW w \in Workers, SlotOK(w),
         \/ Connect(w) \/ SendDown(w) \/ HandlerEnds(w) \/ TakeAssignment(w) \/ FreeSlot(w)
         \/ ReceiveUp(w)
         \/ \E t \in Tasks : AssignHit(t, row[t].try, w) /\ UNCHANGED <<ex, streams>>
  PROVE  SlotOK(w)'
<1> /\ RegistryTypes /\ StreamTypes /\ PodTypes
    /\ w \in Pods
  BY Zenon, TypesSplit, WarmPoolAssumption
<1>0. /\ inbox[w] \in Seq(Assignment \ {NoAssignment}) /\ up[w] \in Seq(Message)
      /\ <<>> \in Seq(Message) /\ DOMAIN <<>> = {}
      /\ w \in free => w \in registered
  BY EmptyStreams DEF StreamTypes, RegistryInv
<1>1. CASE Connect(w)
  <2>1. Unused(w)
    BY Zenon, <1>1 DEF Connect, SlotOK
  <2>2. /\ w \notin busy' /\ ex'[w].pc = "idle"
        /\ send'[w] = NoAssignment /\ inbox'[w] = <<>> /\ up'[w] = <<>>
    BY Zenon, <1>1, <2>1 DEF Connect, Register, Unused, PodTypes, Process, streams
  <2> QED
    BY Zenon, <1>0, <2>2 DEF SlotOK, OneSlot, Signalled, Resting
<1>2. CASE SendDown(w)
  <2>1. OneSlot(w) /\ send[w] \in Assignment \ {NoAssignment}
    BY Zenon, <1>2 DEF SendDown, SlotOK, RegistryTypes
  <2>2. /\ inbox[w] = <<>> /\ up[w] = <<>> /\ Resting(w) /\ w \notin free
    BY Zenon, <2>1 DEF OneSlot
  <2>3. Len(inbox'[w]) = 1
    BY <1>0, <1>2, <2>1, <2>2, ShortStream DEF SendDown, StreamTypes
  <2>4. /\ send'[w] = NoAssignment /\ up'[w] = <<>> /\ w \notin free' /\ Resting(w)'
        /\ ex'[w].pc # "absent"
    BY Zenon, <1>2, <2>2 DEF SendDown, RegistryTypes, Resting
  <2> QED
    BY Zenon, <1>0, <2>3, <2>4 DEF SlotOK, OneSlot, Signalled
<1>3. CASE HandlerEnds(w)
  <2>1. w \notin registered' /\ ex' = ex /\ w \in registered
    BY Zenon, <1>3 DEF HandlerEnds, Deregister
  <2> QED
    BY Zenon, <2>1 DEF SlotOK, Unused
<1>4. CASE TakeAssignment(w)
  <2>1. /\ ex'[w].pc = "starting" /\ inbox[w] # <<>> /\ inbox'[w] = Tail(inbox[w])
        /\ UNCHANGED <<registered, free, busy, send>>
        /\ w \in registered => up'[w] = Append(up[w], [type |-> "ack", aid |-> Head(inbox[w]).aid])
    BY Zenon, <1>4 DEF TakeAssignment, PodTypes, StreamTypes, registry
  <2>2. ASSUME w \in registered
        PROVE  OneSlot(w)'
    <3> DEFINE m == [type |-> "ack", aid |-> Head(inbox[w]).aid]
    <3>1. /\ Len(inbox[w]) = 1 /\ up[w] = <<>> /\ w \notin free /\ send[w] = NoAssignment
      BY Zenon, <2>1, <2>2 DEF SlotOK, OneSlot
    <3>2. Head(inbox[w]) \in Assignment \ {NoAssignment}
      BY Zenon, <1>0, <2>1, HeadIn
    <3>3. inbox'[w] = <<>>
      BY Zenon, <1>0, <2>1, <3>1, <3>2, ShortStream
    <3>4. m \in Message /\ up'[w] = Append(up[w], m)
      BY Zenon, <2>1, <2>2, <3>2 DEF Message, Assignment
    <3>5. \A i \in DOMAIN up'[w] : up'[w][i] = m
      BY Zenon, <3>1, <3>4, OnlyElement
    <3>6. ~Signalled(w)'
      BY <3>5 DEF Signalled
    <3> QED
      BY Zenon, <2>1, <3>1, <3>3, <3>6 DEF OneSlot, Signalled
  <2> QED
    BY Zenon, <2>1, <2>2 DEF SlotOK
<1>5. CASE FreeSlot(w)
  <2>1. ex[w].pc = "done" /\ ex'[w].pc \in {"idle", "dead"} /\ UNCHANGED <<registry, inbox>>
    BY <1>5 DEF FreeSlot, PodTypes, Process, Exits, Absent
  <2>2. ASSUME w \in registered
        PROVE  OneSlot(w)'
    <3> DEFINE m == [type |-> "slot_free", aid |-> 0]
    <3>1. w \notin free /\ send[w] = NoAssignment /\ inbox[w] = <<>> /\ ~Signalled(w)
      BY Zenon, <2>1, <2>2 DEF SlotOK, OneSlot, Resting
    <3>2. m \in Message /\ up'[w] = Append(up[w], m)
      BY Zenon, <1>5, <2>2 DEF FreeSlot, StreamTypes, Message
    <3>3. \A i \in DOMAIN up'[w] : i = Len(up'[w]) \/ (i \in DOMAIN up[w] /\ up'[w][i] = up[w][i])
      BY <1>0, <3>2
    <3> QED
      BY Zenon, <2>1, <3>1, <3>3 DEF OneSlot, Signalled, Resting, registry
  <2> QED
    BY Zenon, <2>1, <2>2 DEF SlotOK, registry
<1>6. CASE ReceiveUp(w)
  <2>1. /\ up[w] # <<>> /\ up'[w] = Tail(up[w]) /\ ex' = ex /\ inbox' = inbox
        /\ UNCHANGED <<registered, send>>
    BY Zenon, <1>6 DEF ReceiveUp, StreamTypes, AckStarted, MarkFree, registry
  <2>2. ASSUME w \in registered
        PROVE  OneSlot(w)'
    <3>1. OneSlot(w) /\ w \notin free
      BY Zenon, <2>1, <2>2 DEF SlotOK, OneSlot
    <3>2. /\ \A i \in DOMAIN up'[w] : i + 1 \in DOMAIN up[w] /\ up'[w][i] = up[w][i + 1]
          /\ Len(up'[w]) = Len(up[w]) - 1 /\ Head(up[w]) = up[w][1] /\ 1 \in DOMAIN up[w]
      BY <1>0, <2>1
    <3>3. Signalled(w)' => Signalled(w)
      BY Zenon, <3>2 DEF Signalled
    <3>4. \A i \in DOMAIN up'[w] : up'[w][i].type = "slot_free" => i = Len(up'[w])
      <4> SUFFICES ASSUME NEW i \in DOMAIN up'[w], up'[w][i].type = "slot_free"
                   PROVE  i = Len(up'[w])
        BY Zenon
      <4>1. i + 1 = Len(up[w])
        BY <3>1, <3>2 DEF OneSlot
      <4>2. i \in Int
        BY <1>0, <2>1
      <4> QED
        BY <3>2, <4>1, <4>2
    <3>5. CASE Head(up[w]).type = "slot_free"
      <4>1. Signalled(w) /\ Len(up[w]) = 1
        BY Zenon, <3>1, <3>2, <3>5 DEF OneSlot, Signalled
      <4>2. up'[w] = <<>>
        BY <1>0, <2>1, <3>2, <4>1, ShortStream
      <4>3. w \notin busy'
        BY Zenon, <1>6, <2>2, <3>5 DEF ReceiveUp, MarkFree
      <4> QED
        BY Zenon, <1>0, <2>1, <3>1, <4>1, <4>2, <4>3 DEF OneSlot, Signalled, Resting
    <3>6. CASE Head(up[w]).type # "slot_free"
      <4>1. w \notin free'
        BY Zenon, <1>6, <3>1, <3>6 DEF ReceiveUp, AckStarted, registry
      <4>2. send[w] = NoAssignment /\ inbox[w] = <<>>
        BY Zenon, <2>1, <3>1 DEF OneSlot
      <4> QED
        BY Zenon, <2>1, <3>1, <3>3, <3>4, <4>1, <4>2 DEF OneSlot, Resting
    <3> QED
      BY Zenon, <3>5, <3>6
  <2>3. ex'[w].pc # "absent"
    BY Zenon, <2>1 DEF SlotOK, Unused
  <2> QED
    BY Zenon, <2>1, <2>2, <2>3 DEF SlotOK
<1>7. ASSUME NEW t \in Tasks, AssignHit(t, row[t].try, w), UNCHANGED <<ex, streams>>
      PROVE  SlotOK(w)'
  <2>1. /\ w \in free /\ w \notin free' /\ w \in registered
        /\ UNCHANGED <<registered, busy, inbox, up, ex>>
    BY Zenon, <1>0, <1>7 DEF AssignHit, streams
  <2> QED
    BY Zenon, <1>0, <2>1 DEF SlotOK, OneSlot, Signalled, Resting, Unused
<1> QED
  BY Zenon, <1>1, <1>2, <1>3, <1>4, <1>5, <1>6, <1>7

\* Every step but the expiry of a lease keeps every worker in order.
LEMMA StreamInvStep ==
  ASSUME WarmTypeOK, RegistryInv, OwnIds, StreamInv, [Next]_vars
  PROVE  StreamInv'
<1> SUFFICES ASSUME "expire" \notin faults', NEW w \in Workers
             PROVE  SlotOK(w)'
  BY DEF StreamInv
<1> RegistryTypes /\ StreamTypes /\ PodTypes
  BY TypesSplit
<1>0. SlotOK(w)
  <2>1. "expire" \notin faults
    BY Zenon DEF Next, SchedulerStep, Dispatch, ReplaceLost, ScheduleAgain, RecordQueued,
       ControlPlaneStep, SendDown, ReceiveUp, BindWarmAttempt, HandlerEnds, LeaseExpires,
       HandleReclaim, ServerCrash, PodStep, Connect, TakeAssignment, FreeSlot, Recycle,
       ReportRunning, SpecFails, PodDies, Finish, MaintenanceStep, ListDispatchLost,
       ListPodLost, ListWarmWorkerLost, ListCandidate, LookAtPods, MarkCandidate, DeletePods,
       TickIdle, vars, Fault, NoFault
  <2> QED
    BY <2>1 DEF StreamInv
<1>1. ASSUME SlotStays(w) PROVE SlotOK(w)'
  BY <1>0, <1>1, SlotStaysOK
<1>2. ASSUME UNCHANGED <<registry, streams, ex>> PROVE SlotOK(w)'
  BY Zenon, <1>1, <1>2 DEF SlotStays, registry, streams, Resting
<1>3. ASSUME NEW t \in Tasks, Dispatch(t)
      PROVE  SlotOK(w)'
  <2>1. ASSUME NEW v \in Workers, AssignHit(t, row[t].try, v), UNCHANGED ex
        PROVE  SlotOK(w)'
    <3>1. CASE v = w
      BY Zenon, <1>0, <1>3, <2>1, <3>1, SlotMoves DEF Dispatch
    <3>2. CASE v # w
      BY Zenon, <1>1, <1>3, <2>1, <3>2
         DEF SlotStays, AssignHit, Dispatch, RegistryTypes, streams, Resting
    <3> QED
      BY <3>1, <3>2
  <2>2. ASSUME UNCHANGED registry, NEW p \in Dedicated, NEW x, ex' = [ex EXCEPT ![p] = x]
        PROVE  SlotOK(w)'
    <3>1. ex'[w] = ex[w]
      BY <2>2, WarmPoolAssumption DEF Dedicated, PodTypes
    <3> QED
      BY Zenon, <1>1, <1>3, <2>2, <3>1 DEF SlotStays, Dispatch, registry, streams, Resting
  <2> QED
    BY Zenon, <1>3, <2>1, <2>2 DEF Dispatch, AssignMiss
<1>4. ASSUME NEW v \in Workers, v # w,
             \/ Connect(v) \/ SendDown(v) \/ HandlerEnds(v) \/ TakeAssignment(v) \/ FreeSlot(v)
      PROVE  SlotOK(w)'
  <2>1. \/ UNCHANGED ex
        \/ \E x : ex' = [ex EXCEPT ![v] = x]
    BY Zenon, <1>4 DEF Connect, SendDown, HandlerEnds, TakeAssignment, FreeSlot, Exits
  <2>2. ex'[w] = ex[w]
    BY <1>4, <2>1, WarmPoolAssumption DEF PodTypes
  <2>3. /\ w \in registered' <=> w \in registered
        /\ w \in free' => w \in free
        /\ w \in busy' => w \in busy
        /\ send'[w] = send[w] /\ inbox'[w] = inbox[w] /\ up'[w] = up[w]
    BY <1>4 DEF Connect, SendDown, HandlerEnds, TakeAssignment, FreeSlot, Register, Deregister,
       RegistryTypes, StreamTypes, registry, streams
  <2> QED
    BY Zenon, <1>1, <2>2, <2>3 DEF SlotStays, Resting
<1>5. ASSUME NEW v \in Workers, v # w, ReceiveUp(v)
      PROVE  SlotOK(w)'
  <2>1. \A l \in leases : l.a.aid = Head(up[v]).aid => l.worker = v
    <3>1. Head(up[v]).aid \in Aids(up[v])
      BY Zenon, <1>5, StreamAids DEF ReceiveUp, StreamTypes
    <3> QED
      BY Zenon, <3>1 DEF OwnIds, Carried
  <2>2. /\ UNCHANGED <<registered, send, inbox, ex>> /\ up'[w] = up[w]
        /\ w \in free' => w \in free
        /\ w \in busy' => w \in busy
    BY Zenon, <1>5, <2>1 DEF ReceiveUp, AckStarted, MarkFree, StreamTypes, registry
  <2> QED
    BY Zenon, <1>1, <2>2 DEF SlotStays, Resting
<1>6. ASSUME NEW v \in Workers,
             \/ Connect(v) \/ SendDown(v) \/ HandlerEnds(v) \/ TakeAssignment(v) \/ FreeSlot(v)
             \/ ReceiveUp(v)
      PROVE  SlotOK(w)'
  BY Zenon, <1>0, <1>4, <1>5, <1>6, SlotMoves
<1>7. CASE ServerCrash
  <2>1. w \notin registered' /\ ex' = ex /\ send'[w] = NoAssignment /\ up'[w] = <<>>
    BY Zenon, <1>7 DEF ServerCrash, RegistryLost
  <2>2. inbox[w] = <<>> => inbox'[w] = <<>>
    BY <1>7 DEF ServerCrash
  <2> QED
    BY Zenon, <1>0, <2>1, <2>2 DEF SlotOK, Unused
<1>8. ASSUME NEW v \in Workers, BindWarmAttempt(v)
      PROVE  SlotOK(w)'
  BY Zenon, <1>1, <1>8 DEF SlotStays, BindWarmAttempt, registry, Resting
<1>9. ASSUME NEW l \in reclaims, HandleReclaim(l)
      PROVE  SlotOK(w)'
  BY Zenon, <1>1, <1>9 DEF SlotStays, HandleReclaim, streams, Resting
<1>10. ~LeaseExpires
  BY DEF LeaseExpires, Fault
<1>11. ASSUME NEW p \in Pods, NEW out \in {"success", "failed"},
              ReportRunning(p) \/ SpecFails(p) \/ PodDies(p) \/ Finish(p, out)
       PROVE  SlotOK(w)'
  <2>1. /\ UNCHANGED <<registry, streams>>
        /\ \/ Ended(p) /\ ~Resting(p)
           \/ Exits(p)
           \/ /\ ex[p].pc \notin {"absent", "idle", "dead"}
              /\ ex' = [ex EXCEPT ![p].pc = "running"]
    BY Zenon, <1>11 DEF ReportRunning, SpecFails, PodDies, Finish, Resting
  <2> QED
    BY Zenon, <1>1, <2>1, ProcessSlot
<1>12. ASSUME NEW v \in Workers, Recycle(v)
       PROVE  SlotOK(w)'
  BY Zenon, <1>1, <1>12, ProcessSlot, WarmPoolAssumption DEF Recycle
<1>13. CASE DeletePods
  <2>1. ex'[w] = ex[w]
    BY <1>13, WarmPoolAssumption DEF DeletePods, Dedicated
  <2> QED
    BY Zenon, <1>1, <1>13, <2>1 DEF SlotStays, DeletePods, registry, streams, Resting
<1>14. CASE MaintenanceStep /\ ~DeletePods
  BY Zenon, <1>2, <1>14 DEF MaintenanceStep, ListDispatchLost, ListPodLost, ListWarmWorkerLost,
     ListCandidate, LookAtPods, MarkCandidate
<1>15. ASSUME NEW t \in Tasks, ReplaceLost(t) \/ ScheduleAgain(t)
       PROVE  SlotOK(w)'
  BY Zenon, <1>2, <1>15 DEF ReplaceLost, ScheduleAgain
<1>16. CASE RecordQueued \/ UNCHANGED vars
  BY Zenon, <1>2, <1>16 DEF RecordQueued, vars
<1> QED
  BY <1>3, <1>6, <1>7, <1>8, <1>9, <1>10, <1>11, <1>12, <1>13, <1>14, <1>15, <1>16
     DEF Next, SchedulerStep, ControlPlaneStep, PodStep, TickIdle

\* The streams and their ids are in order along every behaviour.
THEOREM StreamsHold == Spec => [](OwnIds /\ StreamInv)
<1>1. Init => OwnIds /\ StreamInv
  <2> SUFFICES ASSUME Init PROVE OwnIds /\ StreamInv
    OBVIOUS
  <2>1. \A w \in Workers :
          /\ send[w] = NoAssignment /\ inbox[w] = <<>> /\ up[w] = <<>> /\ ex[w] = Absent
    BY WarmPoolAssumption DEF Init, RegistryInit
  <2>2. Aids(<<>>) = {} /\ NoAssignment.aid = 0
    BY Zenon, EmptyStreams, StreamAids DEF NoAssignment
  <2>3. OwnIds
    BY <2>1, <2>2 DEF OwnIds, Carried, Init, RegistryInit
  <2>4. StreamInv
    BY <2>1 DEF StreamInv, SlotOK, Unused, Init, RegistryInit
  <2> QED
    BY <2>3, <2>4
<1>2. WarmTypeOK /\ RegistryInv /\ OwnIds /\ StreamInv /\ [Next]_vars => (OwnIds /\ StreamInv)'
  BY OwnIdsStep, StreamInvStep
<1> QED
  BY <1>1, <1>2, WarmTypeCorrect, RegistryHolds, PTL DEF Spec

\* Unless a lease expired, a worker in the free set is idle and nothing is on its
\* way to it, for any number of workers and whatever else breaks.
THEOREM FreeMeansIdle == Spec => []FreeWorkersAreIdle
<1>1. WarmTypeOK /\ RegistryInv /\ StreamInv => FreeWorkersAreIdle
  BY Zenon DEF RegistryInv, StreamInv, SlotOK, OneSlot, Resting, FreeWorkersAreIdle, WarmTypeOK
<1> QED
  BY <1>1, WarmTypeCorrect, RegistryHolds, StreamsHold, PTL

-----------------------------------------------------------------------------
(* One process per attempt.  As long as none of the named causes has       *)
(* happened, an attempt is in one place (On), the control plane knows of it*)
(* by a lease, a binding about to be written or the bound column (PlaceInv), *)
(* and a reaper that goes on to mark it has found that place empty (CandInv). *)

\* None of the named causes has happened.
Undisturbed == faults \cap {"expire", "break", "crash", "db"} = {} /\ slips = {}

\* The attempt of t is being served by p, or on its way to p's process.
On(p, t) ==
  \/ ex[p].pc \in {"starting", "running"} /\ ex[p].a.task = t
  \/ /\ p \in Workers
     /\ ex[p].pc = "idle"
     /\ send[p].task = t \/ (inbox[p] # <<>> /\ Head(inbox[p]).task = t)

\* The leases of t, settled by a disconnect or not at all.
LeasesOf(t) == {l \in leases \cup reclaims : l.a.task = t}

\* The control plane still has to act on the placement of t on w.
Claims(w, t) == (\E l \in LeasesOf(t) : l.worker = w) \/ bind[w].task = t

\* The scheduler may dispatch t, at once or after it has scheduled it.
Waits(t) == row[t].state \in {"none", "scheduled"} /\ launch # t

NotPlaced(t) ==
  /\ \A p \in Pods : ~On(p, t)
  /\ \A w \in Workers : ~Claims(w, t)

\* t is claimed once at most.
ClaimedOnce(t) ==
  /\ \A l, m \in LeasesOf(t) : l = m
  /\ \A l \in LeasesOf(t), w \in Workers : bind[w].task # t

\* A task that may be dispatched or re-placed is nowhere; one that is placed is in
\* one place, which is a dedicated pod nobody else is bound to, or a worker that
\* is known by a claim or by its binding.
PlaceInv(t) ==
  /\ Waits(t) \/ row[t].infra => NotPlaced(t)
  /\ Waits(t) => bound[t] = NoWorker
  /\ row[t].state \in {"none", "scheduled"} => ~row[t].infra
  /\ row[t].state # "absent"
  /\ \A p, q \in Pods : On(p, t) /\ On(q, t) => p = q
  /\ \A p \in Pods, w \in Workers : On(p, t) /\ Claims(w, t) => p = w
  /\ \A p \in Dedicated : On(p, t) => bound[t] = NoWorker /\ ex[p].a.try = row[t].try
  /\ \A w \in Workers : On(w, t) => Claims(w, t) \/ bound[t] = w
  /\ ClaimedOnce(t)

\* The candidate of a reaper is neither claimed nor dispatched anew before its
\* mark, and it is marked only when it is nowhere.
CandInv ==
  cand.pc \in {"look", "mark"} =>
    /\ cand.task \in Tasks
    /\ \A w \in Workers : ~Claims(w, cand.task)
    /\ cand.worker = bound[cand.task]
    /\ cand.try = row[cand.task].try
    /\ row[cand.task].state \notin {"none", "scheduled"}
    /\ ~(row[cand.task].state = "failed" /\ row[cand.task].infra)
    /\ cand.kind = "warm_worker_lost" => cand.worker # NoWorker
    /\ cand.pc = "mark" => \A p \in Pods : ~On(p, cand.task)

\* A live worker is served, and a lease is reclaimed only from a dead one.
GoneInv ==
  /\ \A w \in Workers : Alive(w) => w \in registered
  /\ \A l \in reclaims : ex[l.worker].pc = "dead" /\ l.worker \notin registered

WarmInv == WarmTypeOK /\ RegistryInv /\ OwnIds /\ StreamInv

PlacesInv == Undisturbed => GoneInv /\ CandInv /\ \A t \in Tasks : PlaceInv(t)

-----------------------------------------------------------------------------
(* Steps that place nothing.                                               *)

\* No process, channel or stream gains the attempt of t.
OnShrinks(t) ==
  \A p \in Pods : On(p, t)' => On(p, t) /\ (p \in Dedicated => ex'[p].a.try = ex[p].a.try)

\* The claims on t stay, though a lease may become a reclaim or a binding.
ClaimsStay(t) ==
  /\ \A w \in Workers : Claims(w, t)' <=> Claims(w, t)
  /\ ClaimedOnce(t) => ClaimedOnce(t)'

\* The row of t may only move on.
RowStays(t) ==
  /\ bound'[t] = bound[t]
  /\ row'[t].try = row[t].try /\ row'[t].infra = row[t].infra
  /\ row'[t].state \in {"none", "scheduled"} => row[t].state \in {"none", "scheduled"}
  /\ Waits(t)' => Waits(t)
  /\ row'[t].state = "failed" /\ row[t].infra => row[t].state = "failed"
  /\ row'[t].state = "absent" => row[t].state = "absent"

\* Such a step keeps what is known of the placement of t.
LEMMA PlaceStays ==
  ASSUME NEW t \in Tasks, PlaceInv(t), OnShrinks(t), ClaimsStay(t), RowStays(t)
  PROVE  PlaceInv(t)'
<1>1. NotPlaced(t) => NotPlaced(t)'
  BY Zenon DEF NotPlaced, OnShrinks, ClaimsStay
<1>2. /\ Waits(t)' \/ row'[t].infra => NotPlaced(t)'
      /\ Waits(t)' => bound'[t] = NoWorker
  BY Zenon, <1>1 DEF PlaceInv, RowStays
<1>3. /\ row'[t].state \in {"none", "scheduled"} => ~row'[t].infra
      /\ row'[t].state # "absent"
  BY Zenon DEF PlaceInv, RowStays
<1>4. /\ \A p, q \in Pods : On(p, t)' /\ On(q, t)' => p = q
      /\ \A p \in Pods, w \in Workers : On(p, t)' /\ Claims(w, t)' => p = w
  BY Zenon DEF PlaceInv, OnShrinks, ClaimsStay
<1>5. /\ \A p \in Dedicated : On(p, t)' => bound'[t] = NoWorker /\ ex'[p].a.try = row'[t].try
      /\ \A w \in Workers : On(w, t)' => Claims(w, t)' \/ bound'[t] = w
  BY Zenon, WarmPoolAssumption DEF PlaceInv, OnShrinks, ClaimsStay, RowStays, Dedicated
<1>6. ClaimedOnce(t)'
  BY Zenon DEF PlaceInv, ClaimsStay
<1> QED
  BY Zenon, <1>2, <1>3, <1>4, <1>5, <1>6 DEF PlaceInv

\* And what a reaper knows of its candidate.
LEMMA CandStays ==
  ASSUME CandInv, UNCHANGED cand,
         \A t \in Tasks : OnShrinks(t) /\ ClaimsStay(t) /\ RowStays(t)
  PROVE  CandInv'
BY Zenon DEF CandInv, OnShrinks, ClaimsStay, RowStays

\* A row and the launch left alone stay.
LEMMA RowUnchanged ==
  ASSUME UNCHANGED <<row, bound, launch>>
  PROVE  \A t \in Tasks : RowStays(t)
BY Zenon DEF RowStays, Waits

\* Leases, reclaims and bindings left alone stay.
LEMMA ClaimsUnchanged ==
  ASSUME UNCHANGED <<leases, reclaims, bind>>
  PROVE  \A t \in Tasks : ClaimsStay(t)
BY DEF ClaimsStay, Claims, LeasesOf, ClaimedOnce

\* So does a process that is where it was.
LEMMA OnUnchanged ==
  ASSUME UNCHANGED <<ex, send, inbox>>
  PROVE  \A t \in Tasks : OnShrinks(t)
BY DEF OnShrinks, On

\* A process that ends, or whose report was accepted, gains nothing.
LEMMA ProcessShrinks ==
  ASSUME WarmTypeOK, NEW p \in Pods, UNCHANGED <<send, inbox>>,
         \/ Ended(p) \/ Exits(p)
         \/ ex[p].pc = "starting" /\ ex' = [ex EXCEPT ![p].pc = "running"]
  PROVE  \A t \in Tasks : OnShrinks(t)
<1>1. ex \in [Pods -> Process]
  BY TypesSplit DEF PodTypes
<1>2. \A q \in Pods : q # p => ex'[q] = ex[q]
  BY <1>1 DEF Ended, Exits
<1>3. \/ ex'[p].pc \in {"done", "dead"}
      \/ ex[p].pc = "starting" /\ ex'[p].pc = "running" /\ ex'[p].a = ex[p].a
  BY <1>1 DEF Ended, Exits, Absent, Process
<1> QED
  BY <1>2, <1>3 DEF OnShrinks, On

\* A connect, a send, the start of an assignment, the signal of a free slot and a
\* recycle of w only pass on what is on its way.
LEMMA StreamShrinks ==
  ASSUME WarmInv, "expire" \notin faults, NEW w \in Workers,
         Connect(w) \/ SendDown(w) \/ TakeAssignment(w) \/ FreeSlot(w)
  PROVE  \A t \in Tasks : OnShrinks(t)
<1> SUFFICES ASSUME NEW t \in Tasks PROVE OnShrinks(t)
  OBVIOUS
<1> w \in Pods /\ RegistryTypes /\ StreamTypes /\ PodTypes
  BY TypesSplit, WarmPoolAssumption DEF WarmInv
<1>0. SlotOK(w) /\ NoAssignment.task # t /\ w \notin Dedicated
  BY NoTaskAssumption DEF WarmInv, StreamInv, NoAssignment, Dedicated
<1>1. \A q \in Pods : q # w => ex'[q] = ex[q]
  BY Zenon DEF Connect, SendDown, TakeAssignment, FreeSlot, Exits, PodTypes
<1>2. \A v \in Workers : v # w => send'[v] = send[v] /\ inbox'[v] = inbox[v]
  BY Zenon DEF Connect, SendDown, TakeAssignment, FreeSlot, Register, registry, streams,
     RegistryTypes, StreamTypes
<1>3. ASSUME On(w, t)' PROVE On(w, t)
  <2>1. CASE Connect(w)
    <3>1. Unused(w)
      BY <1>0, <2>1 DEF Connect, SlotOK
    <3>2. send'[w] = NoAssignment /\ inbox'[w] = <<>> /\ ex'[w].pc = "idle"
      BY Zenon, <2>1, <3>1 DEF Connect, Register, Unused, PodTypes, Process, streams
    <3> QED
      BY Zenon, <1>0, <1>3, <3>2 DEF On
  <2>2. CASE SendDown(w)
    <3>1. inbox[w] = <<>> /\ send[w] \in Assignment \ {NoAssignment} /\ Resting(w)
      BY Zenon, <1>0, <2>2 DEF SendDown, SlotOK, OneSlot, RegistryTypes
    <3>2. inbox[w] \in Seq(Assignment \ {NoAssignment})
      BY DEF StreamTypes
    <3>3. Head(inbox'[w]) = send[w]
      BY <2>2, <3>1, <3>2, ShortStream DEF SendDown, StreamTypes
    <3>4. send'[w] = NoAssignment /\ ex'[w] = ex[w]
      BY Zenon, <2>2 DEF SendDown, RegistryTypes
    <3> QED
      BY Zenon, <1>0, <1>3, <3>1, <3>3, <3>4 DEF On, Resting
  <2>3. CASE TakeAssignment(w)
    <3>1. /\ ex'[w] = [pc |-> "starting", a |-> Head(inbox[w])]
          /\ ex[w].pc = "idle" /\ inbox[w] # <<>>
      BY Zenon, <2>3 DEF TakeAssignment, PodTypes
    <3>2. ex'[w].pc = "starting" /\ ex'[w].a = Head(inbox[w])
      BY <3>1
    <3> QED
      BY Zenon, <1>3, <3>1, <3>2 DEF On
  <2>4. CASE FreeSlot(w)
    <3>1. w \in registered => send[w] = NoAssignment /\ inbox[w] = <<>>
      BY Zenon, <1>0, <2>4 DEF FreeSlot, SlotOK, OneSlot, Resting
    <3>2. /\ send' = send /\ inbox' = inbox
          /\ ex'[w].pc = IF w \in registered THEN "idle" ELSE "dead"
      BY Zenon, <2>4 DEF FreeSlot, PodTypes, Process, Exits, Absent, registry
    <3> QED
      BY Zenon, <1>0, <1>3, <3>1, <3>2 DEF On
  <2> QED
    BY <2>1, <2>2, <2>3, <2>4
<1> QED
  BY <1>0, <1>1, <1>2, <1>3 DEF OnShrinks, On

-----------------------------------------------------------------------------
(* The steps that place an attempt, or settle a claim.                     *)

\* A dispatch puts the attempt of a waiting task in one place.
LEMMA DispatchPlaces ==
  ASSUME WarmInv, "expire" \notin faults, NEW t \in Tasks, Dispatch(t), PlaceInv(t)
  PROVE  PlaceInv(t)' /\ \A u \in Tasks : u # t => OnShrinks(u) /\ ClaimsStay(u)
<1> RegistryTypes /\ StreamTypes /\ PodTypes /\ Workers \subseteq Pods
  BY TypesSplit, WarmPoolAssumption DEF WarmInv
<1>1. /\ launch' = t /\ NotPlaced(t) /\ bound[t] = NoWorker /\ ~row[t].infra
      /\ row[t].state = "scheduled"
      /\ UNCHANGED <<row, bound, inbox, bind>>
  BY Zenon, NoTaskAssumption DEF Dispatch, Waits, PlaceInv, streams
<1>2. ASSUME NEW w \in Workers, AssignHit(t, row[t].try, w), UNCHANGED ex
      PROVE  PlaceInv(t)' /\ \A u \in Tasks : u # t => OnShrinks(u) /\ ClaimsStay(u)
  <2>1. send[w] = NoAssignment /\ inbox[w] = <<>> /\ w \in free
    BY Zenon, <1>2 DEF AssignHit, WarmInv, StreamInv, SlotOK, OneSlot, RegistryInv
  <2>2. PICK l : /\ l.worker = w /\ l.a.task = t
                 /\ leases' = leases \cup {l} /\ reclaims' = reclaims
    <3> DEFINE n == [worker |-> w, a |-> [aid |-> issued + 1, task |-> t, try |-> row[t].try]]
    <3>1. n.worker = w /\ n.a.task = t
      BY Zenon
    <3> QED
      BY Zenon, <1>2, <3>1 DEF AssignHit
  <2>3. /\ send'[w].task = t
        /\ \A v \in Workers : v # w => send'[v] = send[v]
    BY Zenon, <1>2 DEF AssignHit, RegistryTypes
  <2>4. \A u \in Tasks : u # t => OnShrinks(u) /\ ClaimsStay(u)
    <3>1. \A u \in Tasks : u # t => OnShrinks(u)
      BY Zenon, <1>1, <1>2, <2>3 DEF OnShrinks, On
    <3>2. \A u \in Tasks : u # t => LeasesOf(u)' = LeasesOf(u)
      BY <2>2 DEF LeasesOf
    <3> QED
      BY Zenon, <1>1, <3>1, <3>2 DEF ClaimsStay, Claims, ClaimedOnce
  <2>5. \A p \in Pods : On(p, t)' => p = w
    BY Zenon, <1>1, <1>2, <2>3 DEF NotPlaced, On
  <2>6. LeasesOf(t) = {} /\ \A v \in Workers : bind[v].task # t
    <3>1. \A m \in LeasesOf(t) : m.worker \in Workers
      BY DEF LeasesOf, RegistryTypes, Lease
    <3> QED
      BY Zenon, <1>1, <3>1 DEF NotPlaced, Claims
  <2>7. LeasesOf(t)' = {l}
    BY <2>2, <2>6 DEF LeasesOf
  <2>8. ClaimedOnce(t)' /\ \A v \in Workers : Claims(v, t)' <=> v = w
    BY Zenon, <1>1, <2>2, <2>6, <2>7 DEF ClaimedOnce, Claims
  <2>9. ~Waits(t)' /\ ~row'[t].infra /\ w \notin Dedicated
    BY <1>1 DEF Waits, Dedicated
  <2> QED
    BY Zenon, <1>1, <2>4, <2>5, <2>8, <2>9 DEF PlaceInv, Dedicated
<1>3. ASSUME UNCHANGED registry, NEW p \in Dedicated, ~Alive(p),
             ex' = [ex EXCEPT ![p] =
                      [pc |-> "starting",
                       a |-> [aid |-> 0, task |-> t, try |-> row[t].try]]]
      PROVE  PlaceInv(t)' /\ \A u \in Tasks : u # t => OnShrinks(u) /\ ClaimsStay(u)
  <2>1. /\ \A q \in Pods : q # p => ex'[q] = ex[q]
        /\ p \notin Workers /\ p \in Pods
    BY Zenon, <1>3 DEF PodTypes, Dedicated
  <2>2. ex'[p].pc = "starting" /\ ex'[p].a.task = t /\ ex'[p].a.try = row[t].try
    <3> DEFINE x == [pc |-> "starting", a |-> [aid |-> 0, task |-> t, try |-> row[t].try]]
    <3>1. x.pc = "starting" /\ x.a.task = t /\ x.a.try = row[t].try
      BY Zenon
    <3>2. ex'[p] = x
      BY Zenon, <1>3, <2>1 DEF PodTypes
    <3> QED
      BY Zenon, <3>1, <3>2
  <2>3. UNCHANGED <<send, inbox, leases, reclaims, bind>>
    BY Zenon, <1>1, <1>3 DEF registry
  <2>4. \A u \in Tasks : u # t => OnShrinks(u) /\ ClaimsStay(u)
    <3>1. \A u \in Tasks : u # t => OnShrinks(u)
      BY <2>1, <2>2, <2>3 DEF OnShrinks, On
    <3> QED
      BY <2>3, <3>1, ClaimsUnchanged
  <2>5. \A q \in Pods : On(q, t)' => q = p
    BY Zenon, <1>1, <2>1, <2>3 DEF NotPlaced, On
  <2>6. ClaimedOnce(t)' /\ \A v \in Workers : ~Claims(v, t)'
    BY Zenon, <1>1, <2>3, ClaimsUnchanged DEF NotPlaced, ClaimsStay, PlaceInv
  <2>7. ~Waits(t)' /\ ~row'[t].infra
    BY <1>1 DEF Waits
  <2> QED
    BY Zenon, <1>1, <2>1, <2>2, <2>4, <2>5, <2>6, <2>7 DEF PlaceInv, Dedicated
<1> QED
  BY Zenon, <1>2, <1>3 DEF Dispatch, AssignMiss

\* A lease becomes a binding by its ack, or a reclaim by a disconnect.
LEMMA ClaimsPassOn ==
  ASSUME WarmInv, GoneInv, NEW w \in Workers, ReceiveUp(w) \/ HandlerEnds(w)
  PROVE  \A t \in Tasks : ClaimsStay(t)
<1> SUFFICES ASSUME NEW t \in Tasks PROVE ClaimsStay(t)
  OBVIOUS
<1> RegistryTypes /\ StreamTypes /\ NoAssignment.task # t
  BY Zenon, TypesSplit, NoTaskAssumption DEF WarmInv, NoAssignment
<1>1. ASSUME UNCHANGED <<leases, reclaims, bind>> PROVE ClaimsStay(t)
  BY <1>1, ClaimsUnchanged
<1>2. CASE HandlerEnds(w)
  <2>1. leases' \cup reclaims' = leases \cup reclaims /\ UNCHANGED bind
    BY Zenon, <1>2 DEF HandlerEnds, Deregister
  <2>2. LeasesOf(t)' = LeasesOf(t)
    BY <2>1 DEF LeasesOf
  <2> QED
    BY Zenon, <2>1, <2>2 DEF ClaimsStay, Claims, ClaimedOnce
<1>3. ASSUME ReceiveUp(w), NEW l \in leases, l.a.aid = Head(up[w]).aid, AckStarted(l),
             bind' = [bind EXCEPT ![w] = l.a]
      PROVE  ClaimsStay(t)
  <2>1. l.worker = w
    <3>1. Head(up[w]).aid \in Aids(up[w])
      BY <1>3, StreamAids DEF ReceiveUp, StreamTypes
    <3> QED
      BY Zenon, <1>3, <3>1 DEF WarmInv, OwnIds, Carried
  <2>2. bind[w] = NoAssignment /\ leases' = leases \ {l} /\ reclaims' = reclaims
    BY Zenon, <1>3 DEF ReceiveUp, AckStarted
  <2>3. bind'[w] = l.a /\ \A v \in Workers : v # w => bind'[v] = bind[v]
    BY <1>3 DEF StreamTypes
  <2>4. l \notin reclaims
    BY Zenon DEF WarmInv, RegistryInv, GoneInv
  <2>5. CASE l.a.task # t
    <3>1. LeasesOf(t)' = LeasesOf(t)
      BY <2>2, <2>5 DEF LeasesOf
    <3>2. \A v \in Workers : bind'[v].task = t <=> bind[v].task = t
      BY <2>2, <2>3, <2>5
    <3> QED
      BY Zenon, <3>1, <3>2 DEF ClaimsStay, Claims, ClaimedOnce
  <2>6. CASE l.a.task = t
    <3>1. LeasesOf(t)' = LeasesOf(t) \ {l} /\ l \in LeasesOf(t)
      BY <2>2, <2>4, <2>6 DEF LeasesOf
    <3>2. \A v \in Workers : Claims(v, t)' <=> Claims(v, t)
      BY Zenon, <2>1, <2>2, <2>3, <2>6, <3>1 DEF Claims
    <3>3. ClaimedOnce(t) => ClaimedOnce(t)'
      BY <3>1 DEF ClaimedOnce
    <3> QED
      BY <3>2, <3>3 DEF ClaimsStay
  <2> QED
    BY <2>5, <2>6
<1> QED
  BY Zenon, <1>1, <1>2, <1>3 DEF ReceiveUp, MarkFree, registry

\* A binding that is written takes the place of the claim.
LEMMA BindPlaces ==
  ASSUME WarmInv, NEW w \in Workers, BindWarmAttempt(w), slips' = {}, "db" \notin faults',
         \A t \in Tasks : PlaceInv(t), CandInv
  PROVE  CandInv' /\ \A t \in Tasks : PlaceInv(t)'
<1> RegistryTypes /\ RowTypes /\ StreamTypes /\ w \in Pods
  BY TypesSplit, WarmPoolAssumption DEF WarmInv
<1>b. PICK b : b = bind[w].task
  OBVIOUS
<1>0. UNCHANGED <<row, ex, send, inbox, leases, reclaims, launch, cand>>
  BY Zenon DEF BindWarmAttempt, registry
<1>1. /\ bound' = [bound EXCEPT ![b] = w]
      /\ \A v \in Workers : bind'[v].task = IF v = w THEN NoTask ELSE bind[v].task
  BY Zenon, <1>b DEF BindWarmAttempt, Fault, StreamTypes, NoAssignment
<1>2. \A t \in Tasks : OnShrinks(t)
  BY <1>0, OnUnchanged
<1>3. ASSUME NEW t \in Tasks, t # b
      PROVE  ClaimsStay(t) /\ RowStays(t)
  <2>1. LeasesOf(t)' = LeasesOf(t) /\ t # NoTask
    BY <1>0, NoTaskAssumption DEF LeasesOf
  <2>2. \A v \in Workers : bind'[v].task = t <=> bind[v].task = t
    BY Zenon, <1>b, <1>1, <1>3, <2>1
  <2>3. bound'[t] = bound[t]
    BY <1>1, <1>3 DEF RowTypes
  <2> QED
    BY Zenon, <1>0, <2>1, <2>2, <2>3 DEF ClaimsStay, Claims, ClaimedOnce, RowStays, Waits
<1>4. ASSUME b \in Tasks
      PROVE  PlaceInv(b)'
  <2>1. Claims(w, b) /\ PlaceInv(b) /\ LeasesOf(b) = {} /\ LeasesOf(b)' = {}
    BY Zenon, <1>0, <1>4, <1>b DEF Claims, PlaceInv, ClaimedOnce, LeasesOf
  <2>2. ~Waits(b) /\ ~row[b].infra /\ ~Waits(b)' /\ ~row'[b].infra
    BY Zenon, <1>0, <2>1 DEF PlaceInv, NotPlaced, Waits
  <2>3. \A p \in Pods : On(p, b)' => On(p, b) /\ p = w
    BY Zenon, <1>2, <1>4, <2>1 DEF OnShrinks, PlaceInv
  <2>4. \A v \in Workers : Claims(v, b)' => Claims(v, b)
    BY Zenon, <1>1, <1>4, <2>1, NoTaskAssumption DEF Claims
  <2>5. bound'[b] = w /\ w \notin Dedicated
    BY <1>1, <1>4 DEF RowTypes, Dedicated
  <2>6. ClaimedOnce(b)' /\ row'[b].state # "absent"
    BY Zenon, <1>0, <2>1 DEF ClaimedOnce, PlaceInv
  <2>7. \A p \in Pods, v \in Workers : On(p, b)' /\ Claims(v, b)' => p = v
    BY Zenon, <2>1, <2>3, <2>4 DEF PlaceInv
  <2> QED
    BY Zenon, <2>2, <2>3, <2>5, <2>6, <2>7, WarmPoolAssumption DEF PlaceInv, Dedicated
<1>5. CandInv'
  <2>1. cand.pc \in {"look", "mark"} => cand.task \in Tasks /\ cand.task # b
    BY Zenon, <1>b DEF CandInv, Claims
  <2> QED
    BY Zenon, <1>0, <1>2, <1>3, <2>1 DEF CandInv, OnShrinks, ClaimsStay, RowStays
<1> QED
  BY <1>2, <1>3, <1>4, <1>5, PlaceStays

\* A reclaim that is handled re-offers the attempt of a dead worker, or nothing.
LEMMA ReclaimPlaces ==
  ASSUME WarmInv, GoneInv, NEW l \in reclaims, HandleReclaim(l),
         \A t \in Tasks : PlaceInv(t), CandInv
  PROVE  CandInv' /\ \A t \in Tasks : PlaceInv(t)'
<1> RegistryTypes /\ RowTypes /\ StreamTypes /\ Workers \subseteq Pods
  BY TypesSplit, WarmPoolAssumption DEF WarmInv
<1> DEFINE b == l.a.task
<1>0. /\ UNCHANGED <<ex, send, inbox, leases, launch, cand, bind>>
      /\ reclaims' = reclaims \ {l}
      /\ l.worker \in Workers
  BY Zenon DEF HandleReclaim, streams, RegistryTypes, Lease
<1>1. \A t \in Tasks : t # b => row'[t] = row[t] /\ bound'[t] = bound[t]
  BY Zenon DEF HandleReclaim, RowTypes
<1>2. \A t \in Tasks : OnShrinks(t)
  BY <1>0, OnUnchanged
<1>3. ASSUME NEW t \in Tasks, t # b
      PROVE  ClaimsStay(t) /\ RowStays(t)
  <2>1. LeasesOf(t)' = LeasesOf(t)
    BY <1>0, <1>3 DEF LeasesOf
  <2> QED
    BY Zenon, <1>0, <1>1, <1>3, <2>1 DEF ClaimsStay, Claims, ClaimedOnce, RowStays, Waits
<1>4. ASSUME b \in Tasks
      PROVE  PlaceInv(b)'
  <2>1. PlaceInv(b) /\ l \in LeasesOf(b) /\ Claims(l.worker, b)
    BY <1>4 DEF LeasesOf, Claims
  <2>2. \A p \in Pods : ~On(p, b)
    BY Zenon, <1>0, <2>1 DEF PlaceInv, GoneInv, On
  <2>3. LeasesOf(b)' = {} /\ \A w \in Workers : bind[w].task # b
    <3>1. l \notin leases
      BY Zenon DEF WarmInv, RegistryInv, GoneInv
    <3>2. \A k \in LeasesOf(b) : k = l
      BY Zenon, <2>1 DEF PlaceInv, ClaimedOnce
    <3>3. LeasesOf(b)' \subseteq LeasesOf(b) \ {l}
      BY Zenon, <1>0, <3>1 DEF LeasesOf
    <3>4. \A w \in Workers : bind[w].task # b
      BY Zenon, <2>1 DEF PlaceInv, ClaimedOnce
    <3> QED
      BY Zenon, <3>2, <3>3, <3>4
  <2>4. NotPlaced(b)' /\ ClaimedOnce(b)'
    BY Zenon, <1>0, <1>2, <1>4, <2>2, <2>3 DEF NotPlaced, OnShrinks, Claims, ClaimedOnce
  <2>5. ~Waits(b) /\ ~row[b].infra /\ row[b].state # "absent"
    BY Zenon, <1>0, <2>1 DEF PlaceInv, NotPlaced
  <2>6. \/ row'[b] = row[b] /\ bound'[b] = bound[b]
        \/ row'[b].state = "scheduled" /\ row'[b].infra = row[b].infra /\ bound'[b] = NoWorker
    <3>1. \/ row'[b] = row[b] /\ bound'[b] = bound[b]
          \/ /\ row'[b] = RequeueForRedispatch(row[b], l.a.try)
             /\ bound'[b] = IF row'[b] = row[b] THEN bound[b] ELSE NoWorker
      BY Zenon, <1>4 DEF HandleReclaim, RowTypes
    <3>2. row[b] \in Row
      BY Zenon, <1>4 DEF RowTypes
    <3>3. LET q == RequeueForRedispatch(row[b], l.a.try) IN
          q = row[b] \/ (q.state = "scheduled" /\ q.infra = row[b].infra)
      BY <3>2 DEF RequeueForRedispatch, Row
    <3> QED
      BY Zenon, <3>1, <3>3
  <2>7. /\ Waits(b)' => bound'[b] = NoWorker
        /\ ~row'[b].infra /\ row'[b].state # "absent"
    BY <1>0, <2>5, <2>6 DEF Waits
  <2> QED
    BY Zenon, <2>4, <2>7, WarmPoolAssumption DEF PlaceInv, NotPlaced, Dedicated
<1>5. CandInv'
  <2>1. cand.pc \in {"look", "mark"} => cand.task \in Tasks /\ cand.task # b
    BY Zenon, <1>0 DEF CandInv, Claims, LeasesOf
  <2> QED
    BY Zenon, <1>0, <1>2, <1>3, <2>1 DEF CandInv, OnShrinks, ClaimsStay, RowStays
<1> QED
  BY <1>2, <1>3, <1>4, <1>5, PlaceStays

\* A re-place starts from a row marked as lost, which is nowhere.
LEMMA ReplacePlaces ==
  ASSUME WarmInv, NEW b \in Tasks, ReplaceLost(b), \A t \in Tasks : PlaceInv(t), CandInv
  PROVE  CandInv' /\ \A t \in Tasks : PlaceInv(t)'
<1> RowTypes /\ Workers \subseteq Pods
  BY TypesSplit, WarmPoolAssumption DEF WarmInv
<1>0. UNCHANGED <<ex, send, inbox, leases, reclaims, launch, cand, bind>>
  BY Zenon DEF ReplaceLost, registry, streams
<1>1. \A t \in Tasks : OnShrinks(t) /\ ClaimsStay(t)
  BY <1>0, OnUnchanged, ClaimsUnchanged
<1>2. \A t \in Tasks : t # b => RowStays(t)
  BY Zenon, <1>0 DEF ReplaceLost, RowTypes, RowStays, Waits
<1>3. PlaceInv(b)'
  <2>1. NotPlaced(b) /\ ClaimedOnce(b)
    BY Zenon DEF ReplaceLost, PlaceInv
  <2>2. NotPlaced(b)' /\ ClaimedOnce(b)'
    BY Zenon, <1>1, <2>1 DEF NotPlaced, OnShrinks, ClaimsStay
  <2>3. bound'[b] = NoWorker /\ ~row'[b].infra /\ row'[b].state = "none"
    BY DEF ReplaceLost, RowTypes, ResetTaskInstanceInfraReplace, ResetColumns, Row
  <2> QED
    BY Zenon, <2>2, <2>3 DEF PlaceInv, NotPlaced, Dedicated
<1>4. CandInv'
  <2>1. cand.pc \in {"look", "mark"} => cand.task \in Tasks /\ cand.task # b
    BY Zenon DEF CandInv, ReplaceLost
  <2> QED
    BY Zenon, <1>0, <1>1, <1>2, <2>1 DEF CandInv, OnShrinks, ClaimsStay, RowStays
<1> QED
  BY <1>1, <1>2, <1>3, <1>4, PlaceStays

\* A candidate is listed once its lease is over, looked for, and marked.
LEMMA ReaperPlaces ==
  ASSUME WarmInv, MaintenanceStep, slips' = {}, \A t \in Tasks : PlaceInv(t), CandInv
  PROVE  CandInv' /\ \A t \in Tasks : PlaceInv(t)'
<1> RegistryTypes /\ RowTypes /\ PodTypes /\ ActorTypes /\ Workers \subseteq Pods
  BY TypesSplit, WarmPoolAssumption DEF WarmInv
<1>0. UNCHANGED <<send, inbox, leases, reclaims, launch, bind, bound>>
  BY Zenon DEF MaintenanceStep, ListDispatchLost, ListPodLost, ListWarmWorkerLost, ListCandidate,
     LookAtPods, MarkCandidate, DeletePods, registry, streams
<1>1. \A t \in Tasks : ClaimsStay(t)
  BY <1>0, ClaimsUnchanged
<1>2. ASSUME UNCHANGED <<row, ex>>
      PROVE  \A t \in Tasks : PlaceInv(t)'
  BY Zenon, <1>0, <1>1, <1>2, OnUnchanged, RowUnchanged, PlaceStays
<1>3. ASSUME NEW kind, NEW t \in Tasks, ListCandidate(kind, t),
             row[t].state \in {"queued", "running"},
             kind = "warm_worker_lost" => bound[t] # NoWorker
      PROVE  CandInv' /\ \A u \in Tasks : PlaceInv(u)'
  <2>1. LeaseOver(t) /\ UNCHANGED <<row, ex>>
    BY Zenon, <1>3 DEF ListCandidate
  <2>2. \A w \in Workers : ~Claims(w, t)'
    BY Zenon, <1>0, <2>1 DEF LeaseOver, Claims, LeasesOf
  <2>3. /\ cand'.pc = "look" /\ cand'.task = t /\ cand'.kind = kind
        /\ cand'.try = row[t].try /\ cand'.worker = bound[t]
    BY Zenon, <1>3 DEF ListCandidate
  <2> QED
    BY Zenon, <1>0, <1>2, <1>3, <2>1, <2>2, <2>3 DEF CandInv
<1>4. CASE LookAtPods
  <2>1. UNCHANGED <<row, ex>> /\ cand.pc = "look"
    BY <1>4 DEF LookAtPods
  <2>2. ASSUME ~Deferred, NEW p \in Pods
        PROVE  ~On(p, cand.task)
    <3>1. SUFFICES ASSUME On(p, cand.task) PROVE FALSE
      OBVIOUS
    <3>2. /\ PlaceInv(cand.task) /\ cand.task \in Tasks
          /\ \A w \in Workers : ~Claims(w, cand.task)
          /\ cand.worker = bound[cand.task] /\ cand.try = row[cand.task].try
          /\ cand.kind = "warm_worker_lost" => cand.worker # NoWorker
      BY Zenon, <2>1 DEF CandInv
    <3>3. CASE p \in Workers
      <4>1. cand.worker = p /\ p # NoWorker
        BY <3>1, <3>2, <3>3, WarmPoolAssumption DEF PlaceInv
      <4>2. Alive(p)
        BY Zenon, <3>1 DEF On, Alive
      <4> QED
        BY <2>2, <4>1, <4>2 DEF Deferred
    <3>4. CASE p \in Dedicated
      <4>1. cand.worker = NoWorker /\ ex[p].a.try = cand.try
        BY Zenon, <3>1, <3>2, <3>4 DEF PlaceInv
      <4>2. Alive(p) /\ Serves(p, cand.task, cand.try)
        BY Zenon, <3>1, <3>4, <4>1 DEF On, Alive, Serves, Dedicated
      <4> QED
        BY <2>2, <3>2, <3>4, <4>1, <4>2 DEF Deferred
    <3> QED
      BY <3>3, <3>4 DEF Dedicated
  <2>3. CASE Deferred
    BY <1>2, <1>4, <2>1, <2>3 DEF LookAtPods, CandInv, NoCand
  <2>4. CASE ~Deferred
    <3>1. /\ cand' = [cand EXCEPT !.pc = "mark"]
          /\ \A p \in Pods : ~On(p, cand.task)
      BY <1>4, <2>2, <2>4 DEF LookAtPods
    <3>2. /\ cand'.task = cand.task /\ cand'.worker = cand.worker /\ cand'.try = cand.try
          /\ cand'.kind = cand.kind
      BY <3>1 DEF ActorTypes, Candidate
    <3>3. \A p \in Pods : ~On(p, cand.task)'
      BY <1>0, <2>1, <3>1, <3>2 DEF On
    <3>4. \A w \in Workers : ~Claims(w, cand.task)'
      BY Zenon, <1>0, <2>1, <3>2 DEF CandInv, Claims, LeasesOf
    <3>5. CandInv'
      BY <1>0, <2>1, <3>2, <3>3, <3>4 DEF CandInv
    <3> QED
      BY <1>2, <2>1, <3>5
  <2> QED
    BY <2>3, <2>4
<1>5. CASE MarkCandidate
  <2>1. /\ cand.pc = "mark" /\ UNCHANGED ex
        /\ \A t \in Tasks : t # cand.task => row'[t] = row[t]
        /\ cand'.pc \in {"idle", "teardown"}
    BY Zenon, <1>5 DEF MarkCandidate, RowTypes, ActorTypes, Candidate, NoCand
  <2>2. \A t \in Tasks : OnShrinks(t)
    BY <1>0, <2>1, OnUnchanged
  <2>3. ASSUME NEW t \in Tasks, t = cand.task
        PROVE  PlaceInv(t)'
    <3>1. NotPlaced(t) /\ ClaimedOnce(t) /\ PlaceInv(t) /\ row[t].state \notin {"none", "scheduled"}
      BY Zenon, <2>1, <2>3 DEF CandInv, NotPlaced, PlaceInv
    <3>2. NotPlaced(t)' /\ ClaimedOnce(t)'
      BY Zenon, <1>1, <2>2, <3>1 DEF NotPlaced, OnShrinks, ClaimsStay
    <3>3. row'[t] = row[t] \/ row'[t].state = "failed"
      BY <1>5, <2>3 DEF MarkCandidate, RowTypes, MarkTaskLost, MarkTaskDispatchLost, Row
    <3>4. row'[t].state \notin {"none", "scheduled", "absent"}
      BY <3>1, <3>3 DEF PlaceInv
    <3> QED
      BY Zenon, <3>2, <3>4 DEF PlaceInv, NotPlaced, Dedicated, Waits
  <2>4. ASSUME NEW t \in Tasks, t # cand.task
        PROVE  PlaceInv(t)'
    <3>1. RowStays(t)
      BY Zenon, <1>0, <2>1, <2>4 DEF RowStays, Waits
    <3> QED
      BY <1>1, <2>2, <3>1, PlaceStays
  <2>5. CandInv'
    BY Zenon, <2>1 DEF CandInv
  <2> QED
    BY <2>3, <2>4, <2>5
<1>6. CASE DeletePods
  <2>1. UNCHANGED row /\ cand' = NoCand
    BY <1>6 DEF DeletePods
  <2>2. \A p \in Pods : ex'[p] = ex[p] \/ ex'[p].pc = "dead"
    BY Zenon, <1>6 DEF DeletePods, Absent
  <2>3. \A t \in Tasks : OnShrinks(t)
    BY <1>0, <2>2 DEF OnShrinks, On
  <2>4. CandInv'
    BY Zenon, <2>1 DEF CandInv, NoCand
  <2> QED
    BY Zenon, <1>0, <1>1, <2>1, <2>3, <2>4, RowUnchanged, PlaceStays
<1> QED
  BY Zenon, <1>3, <1>4, <1>5, <1>6 DEF MaintenanceStep, ListDispatchLost, ListPodLost,
     ListWarmWorkerLost

\* A report is that of the one process of its task, which is not waiting.
LEMMA ReportPlaces ==
  ASSUME WarmInv, NEW p \in Pods, NEW out \in {"success", "failed"},
         ReportRunning(p) \/ Finish(p, out), \A t \in Tasks : PlaceInv(t)
  PROVE  \A t \in Tasks : OnShrinks(t) /\ ClaimsStay(t) /\ RowStays(t)
<1> RowTypes
  BY TypesSplit DEF WarmInv
<1>0. UNCHANGED <<send, inbox, leases, reclaims, bind, bound, launch>>
  BY Zenon DEF ReportRunning, Finish, registry, streams
<1>1. \A t \in Tasks : OnShrinks(t)
  BY Zenon, <1>0, ProcessShrinks DEF ReportRunning, Finish, WarmInv
<1>2. \A t \in Tasks : ClaimsStay(t)
  BY <1>0, ClaimsUnchanged
<1>3. ASSUME NEW t \in Tasks
      PROVE  RowStays(t)
  <2>1. CASE ex[p].a.task # t
    <3>1. row'[t] = row[t]
      BY Zenon, <2>1 DEF ReportRunning, Finish, RowTypes
    <3> QED
      BY Zenon, <1>0, <3>1 DEF RowStays, Waits
  <2>2. CASE ex[p].a.task = t
    <3>1. On(p, t)
      BY Zenon, <2>2 DEF On, ReportRunning, Finish
    <3>2. ~Waits(t) /\ ~row[t].infra
      BY Zenon, <3>1 DEF PlaceInv, NotPlaced
    <3>3. \/ row'[t] = row[t]
          \/ \E s \in {"running", "success", "failed"} : row'[t] = [row[t] EXCEPT !.state = s]
      BY Zenon, <2>2 DEF ReportRunning, Finish, RowTypes, ReportTaskResult
    <3>4. /\ row'[t].try = row[t].try /\ row'[t].infra = row[t].infra
          /\ row'[t].state = row[t].state \/ row'[t].state \in {"running", "success", "failed"}
      BY <3>3 DEF RowTypes, Row
    <3> QED
      BY Zenon, <1>0, <3>2, <3>4 DEF RowStays, Waits
  <2> QED
    BY <2>1, <2>2
<1> QED
  BY <1>1, <1>2, <1>3

\* The other writes of the scheduler move one row on.
LEMMA TransitionPlaces ==
  ASSUME WarmInv, NEW u \in Tasks, RecordQueued \/ ScheduleAgain(u)
  PROVE  \A t \in Tasks : OnShrinks(t) /\ ClaimsStay(t) /\ RowStays(t)
<1> RowTypes
  BY TypesSplit DEF WarmInv
<1>0. UNCHANGED <<ex, send, inbox, leases, reclaims, bind, bound>>
  BY Zenon DEF RecordQueued, ScheduleAgain, registry, streams
<1>1. \A t \in Tasks : OnShrinks(t) /\ ClaimsStay(t)
  BY <1>0, OnUnchanged, ClaimsUnchanged
<1>2. ASSUME NEW t \in Tasks
      PROVE  RowStays(t)
  <2>1. CASE RecordQueued /\ launch = t
    <3>1. row'[t] = row[t] \/ row'[t] = [row[t] EXCEPT !.state = "queued"]
      BY <2>1 DEF RecordQueued, ApplyTransition, RowTypes
    <3>2. /\ row'[t].try = row[t].try /\ row'[t].infra = row[t].infra
          /\ row'[t].state \in {"queued", "absent"}
          /\ row'[t].state = "absent" => row[t].state = "absent"
      BY <2>1, <3>1 DEF RecordQueued, ApplyTransition, Exists, RowTypes, Row
    <3> QED
      BY Zenon, <1>0, <3>2 DEF RowStays, Waits
  <2>2. CASE RecordQueued /\ launch # t
    BY Zenon, <1>0, <2>2 DEF RecordQueued, RowTypes, RowStays, Waits
  <2>3. CASE ScheduleAgain(u) /\ u = t
    <3>1. row'[t] = [row[t] EXCEPT !.state = "scheduled"] /\ UNCHANGED launch
      BY <2>3 DEF ScheduleAgain, ApplyTransition, Exists, RowTypes
    <3>2. /\ row'[t].try = row[t].try /\ row'[t].infra = row[t].infra
          /\ row'[t].state = "scheduled" /\ row[t].state = "none"
      BY <2>3, <3>1 DEF ScheduleAgain, RowTypes, Row
    <3> QED
      BY <1>0, <3>1, <3>2 DEF RowStays, Waits
  <2>4. CASE ScheduleAgain(u) /\ u # t
    BY Zenon, <1>0, <2>4 DEF ScheduleAgain, RowTypes, RowStays, Waits
  <2> QED
    BY <2>1, <2>2, <2>3, <2>4
<1> QED
  BY <1>1, <1>2

\* The end of a handler takes away what was on its way to the worker.
LEMMA HandlerShrinks ==
  ASSUME WarmInv, NEW w \in Workers, HandlerEnds(w)
  PROVE  \A t \in Tasks : OnShrinks(t)
<1> RegistryTypes /\ StreamTypes
  BY TypesSplit DEF WarmInv
<1>1. /\ UNCHANGED ex
      /\ \A v \in Workers : send'[v] = send[v] \/ send'[v] = NoAssignment
      /\ \A v \in Workers : inbox'[v] = inbox[v] \/ inbox'[v] = <<>>
  BY Zenon DEF HandlerEnds, Deregister, RegistryTypes, StreamTypes
<1> QED
  BY <1>1, NoTaskAssumption DEF OnShrinks, On, NoAssignment

-----------------------------------------------------------------------------
(* Who is gone.                                                            *)

\* No worker appears or is revived, and no lease is reclaimed.
GoneStays ==
  /\ \A w \in Workers : Alive(w)' => Alive(w)
  /\ \A w \in Workers : ex[w].pc = "dead" => ex'[w].pc = "dead"
  /\ registered' = registered /\ reclaims' \subseteq reclaims

LEMMA GoneStaysOK ==
  ASSUME WarmTypeOK, GoneInv, GoneStays
  PROVE  GoneInv'
<1>1. \A l \in reclaims : l.worker \in Workers
  BY Zenon DEF WarmTypeOK, Lease
<1> QED
  BY Zenon, <1>1 DEF GoneInv, GoneStays, Alive

\* What happens in a pod revives nobody.
LEMMA ProcessGone ==
  ASSUME WarmTypeOK, NEW p \in Pods, UNCHANGED registry, ex[p].pc # "absent",
         \/ Ended(p) /\ Alive(p)
         \/ Exits(p)
         \/ Alive(p) /\ \E pc \in {"idle", "running"} : ex' = [ex EXCEPT ![p].pc = pc]
         \/ Alive(p) /\ \E a : ex' = [ex EXCEPT ![p] = [pc |-> "starting", a |-> a]]
  PROVE  GoneStays
<1>1. ex \in [Pods -> Process] /\ Workers \subseteq Pods
  BY Zenon, TypesSplit, WarmPoolAssumption DEF PodTypes
<1>2. \A q \in Pods : q # p => ex'[q] = ex[q]
  BY <1>1 DEF Ended, Exits
<1>3. ex'[p].pc = "dead" \/ Alive(p)
  BY <1>1 DEF Ended, Exits, Absent
<1> QED
  BY <1>1, <1>2, <1>3 DEF GoneStays, Alive, registry

\* A cause that has happened stays on record.
LEMMA CausesStay ==
  ASSUME [Next]_vars, Undisturbed'
  PROVE  Undisturbed
<1>1. faults \subseteq faults'
  BY Zenon DEF Next, SchedulerStep, Dispatch, ReplaceLost, ScheduleAgain, RecordQueued,
     ControlPlaneStep, SendDown, ReceiveUp, BindWarmAttempt, HandlerEnds, LeaseExpires,
     HandleReclaim, ServerCrash, PodStep, Connect, TakeAssignment, FreeSlot, Recycle,
     ReportRunning, SpecFails, PodDies, Finish, MaintenanceStep, ListDispatchLost,
     ListPodLost, ListWarmWorkerLost, ListCandidate, LookAtPods, MarkCandidate, DeletePods,
     TickIdle, vars, Fault, NoFault
<1>2. slips \subseteq slips'
  BY Zenon DEF Next, SchedulerStep, Dispatch, ReplaceLost, ScheduleAgain, RecordQueued,
     ControlPlaneStep, SendDown, ReceiveUp, BindWarmAttempt, HandlerEnds, LeaseExpires,
     HandleReclaim, ServerCrash, PodStep, Connect, TakeAssignment, FreeSlot, Recycle,
     ReportRunning, SpecFails, PodDies, Finish, MaintenanceStep, ListDispatchLost,
     ListPodLost, ListWarmWorkerLost, ListCandidate, LookAtPods, MarkCandidate, DeletePods,
     TickIdle, vars
<1> QED
  BY <1>1, <1>2 DEF Undisturbed

\* A worker connects once, and is deregistered only after its death.
LEMMA GoneStep ==
  ASSUME WarmInv, GoneInv, [Next]_vars, Undisturbed'
  PROVE  GoneInv'
<1> RegistryTypes /\ StreamTypes /\ PodTypes /\ Workers \subseteq Pods /\ WarmTypeOK
  BY TypesSplit, WarmPoolAssumption DEF WarmInv
<1>1. ASSUME UNCHANGED <<registered, reclaims, ex>> PROVE GoneInv'
  BY <1>1, GoneStaysOK DEF GoneStays, Alive
<1>2. ASSUME NEW t \in Tasks, Dispatch(t)
      PROVE  GoneInv'
  <2>1. UNCHANGED <<registered, reclaims>>
    BY Zenon, <1>2 DEF Dispatch, AssignHit, AssignMiss, registry
  <2>2. \A w \in Workers : ex'[w] = ex[w]
    <3>1. ex' = ex \/ \E p \in Dedicated : \E x : ex' = [ex EXCEPT ![p] = x]
      BY Zenon, <1>2 DEF Dispatch
    <3> QED
      BY <3>1 DEF Dedicated, PodTypes
  <2> QED
    BY <2>1, <2>2, GoneStaysOK DEF GoneStays, Alive
<1>3. ASSUME NEW w \in Workers, Connect(w)
      PROVE  GoneInv'
  <2>1. /\ registered' = registered \cup {w} /\ reclaims' = reclaims
        /\ ex[w].pc = "absent" /\ \A v \in Workers : v # w => ex'[v] = ex[v]
    BY <1>3 DEF Connect, Register, PodTypes
  <2>2. \A l \in reclaims : l.worker \in Workers \ {w}
    BY Zenon, <2>1 DEF GoneInv, RegistryTypes, Lease
  <2> QED
    BY Zenon, <2>1, <2>2 DEF GoneInv, Alive
<1>4. ASSUME NEW w \in Workers, HandlerEnds(w)
      PROVE  GoneInv'
  <2>1. "expire" \notin faults /\ ~Alive(w) /\ w \in registered
    <3>1. "expire" \notin faults /\ "break" \notin faults'
      BY CausesStay DEF Undisturbed
    <3> QED
      BY Zenon, <1>4, <3>1 DEF HandlerEnds, Fault
  <2>2. ex[w].pc = "dead"
    BY <2>1 DEF WarmInv, StreamInv, SlotOK, Unused, Alive
  <2>3. /\ registered' = registered \ {w} /\ UNCHANGED ex
        /\ \A l \in reclaims' : l \in reclaims \/ l.worker = w
    BY Zenon, <1>4 DEF HandlerEnds, Deregister
  <2> QED
    BY Zenon, <2>1, <2>2, <2>3 DEF GoneInv, Alive
<1>5. ASSUME NEW p \in Pods, NEW out \in {"success", "failed"},
             ReportRunning(p) \/ SpecFails(p) \/ PodDies(p) \/ Finish(p, out)
      PROVE  GoneInv'
  <2>1. GoneStays
    BY Zenon, <1>5, ProcessGone DEF ReportRunning, SpecFails, PodDies, Finish, Alive
  <2> QED
    BY <2>1, GoneStaysOK
<1>6. ASSUME NEW w \in Workers, TakeAssignment(w) \/ FreeSlot(w) \/ Recycle(w)
      PROVE  GoneInv'
  <2>1. GoneStays
    BY Zenon, <1>6, ProcessGone DEF TakeAssignment, FreeSlot, Recycle, Alive
  <2> QED
    BY <2>1, GoneStaysOK
<1>7. CASE DeletePods
  <2>1. \A w \in Workers : ex'[w] = ex[w]
    BY <1>7 DEF DeletePods, Dedicated
  <2> QED
    BY Zenon, <1>7, <2>1, GoneStaysOK DEF GoneStays, DeletePods, Alive, registry
<1>8. CASE MaintenanceStep /\ ~DeletePods
  BY Zenon, <1>1, <1>8 DEF MaintenanceStep, ListDispatchLost, ListPodLost, ListWarmWorkerLost,
     ListCandidate, LookAtPods, MarkCandidate, registry
<1>9. ASSUME NEW w \in Workers, SendDown(w) \/ ReceiveUp(w) \/ BindWarmAttempt(w)
      PROVE  GoneInv'
  BY Zenon, <1>1, <1>9 DEF SendDown, ReceiveUp, BindWarmAttempt, AckStarted, MarkFree, registry
<1>10. ASSUME NEW l \in reclaims, HandleReclaim(l)
       PROVE  GoneInv'
  BY Zenon, <1>10, GoneStaysOK DEF GoneStays, HandleReclaim, Alive
<1>11. ~LeaseExpires /\ ~ServerCrash
  BY DEF LeaseExpires, ServerCrash, Fault, Undisturbed
<1>12. ASSUME NEW t \in Tasks, ReplaceLost(t) \/ ScheduleAgain(t)
       PROVE  GoneInv'
  BY Zenon, <1>1, <1>12 DEF ReplaceLost, ScheduleAgain, registry
<1>13. CASE RecordQueued \/ UNCHANGED vars
  BY Zenon, <1>1, <1>13 DEF RecordQueued, vars, registry
<1> QED
  BY <1>2, <1>3, <1>4, <1>5, <1>6, <1>7, <1>8, <1>9, <1>10, <1>11, <1>12, <1>13
     DEF Next, SchedulerStep, ControlPlaneStep, PodStep, TickIdle

-----------------------------------------------------------------------------
(* Every step.                                                             *)

LEMMA PlacesStep ==
  ASSUME WarmInv, PlacesInv, [Next]_vars
  PROVE  PlacesInv'
<1> SUFFICES ASSUME Undisturbed' PROVE GoneInv' /\ CandInv' /\ \A t \in Tasks : PlaceInv(t)'
  BY DEF PlacesInv
<1>0. /\ GoneInv /\ CandInv /\ \A t \in Tasks : PlaceInv(t)
      /\ "expire" \notin faults /\ slips' = {} /\ "db" \notin faults'
  BY CausesStay DEF PlacesInv, Undisturbed
<1>1. GoneInv'
  BY <1>0, GoneStep
<1>2. ASSUME UNCHANGED cand, \A t \in Tasks : OnShrinks(t) /\ ClaimsStay(t) /\ RowStays(t)
      PROVE  CandInv' /\ \A t \in Tasks : PlaceInv(t)'
  BY <1>0, <1>2, PlaceStays, CandStays
<1>3. ASSUME NEW t \in Tasks, Dispatch(t)
      PROVE  CandInv' /\ \A u \in Tasks : PlaceInv(u)'
  <2>1. PlaceInv(t)' /\ \A u \in Tasks : u # t => OnShrinks(u) /\ ClaimsStay(u)
    BY <1>0, <1>3, DispatchPlaces
  <2>2. \A u \in Tasks : u # t => RowStays(u)
    BY Zenon, <1>3, NoTaskAssumption DEF Dispatch, RowStays, Waits
  <2>3. cand.pc \in {"look", "mark"} => cand.task \in Tasks /\ cand.task # t
    BY Zenon, <1>0, <1>3 DEF CandInv, Dispatch
  <2>4. CandInv'
    BY Zenon, <1>0, <1>3, <2>1, <2>2, <2>3 DEF CandInv, Dispatch, OnShrinks, ClaimsStay, RowStays
  <2> QED
    BY <1>0, <2>1, <2>2, <2>4, PlaceStays
<1>4. ASSUME NEW t \in Tasks, ReplaceLost(t)
      PROVE  CandInv' /\ \A u \in Tasks : PlaceInv(u)'
  BY <1>0, <1>4, ReplacePlaces
<1>5. ASSUME NEW t \in Tasks, RecordQueued \/ ScheduleAgain(t)
      PROVE  CandInv' /\ \A u \in Tasks : PlaceInv(u)'
  BY Zenon, <1>2, <1>5, TransitionPlaces DEF RecordQueued, ScheduleAgain
<1>6. ASSUME NEW w \in Workers, Connect(w) \/ SendDown(w) \/ TakeAssignment(w) \/ FreeSlot(w)
      PROVE  CandInv' /\ \A t \in Tasks : PlaceInv(t)'
  <2>1. UNCHANGED <<cand, row, bound, launch, leases, reclaims, bind>>
    BY Zenon, <1>6 DEF Connect, SendDown, TakeAssignment, FreeSlot, Register, registry, streams
  <2> QED
    BY <1>0, <1>2, <1>6, <2>1, StreamShrinks, ClaimsUnchanged, RowUnchanged
<1>7. ASSUME NEW w \in Workers, ReceiveUp(w) \/ HandlerEnds(w)
      PROVE  CandInv' /\ \A t \in Tasks : PlaceInv(t)'
  <2>1. UNCHANGED <<cand, row, bound, launch>>
    BY Zenon, <1>7 DEF ReceiveUp, HandlerEnds
  <2>2. \A t \in Tasks : OnShrinks(t)
    <3>1. CASE ReceiveUp(w)
      BY Zenon, <3>1, OnUnchanged DEF ReceiveUp, AckStarted, MarkFree, registry
    <3> QED
      BY <1>7, <3>1, HandlerShrinks
  <2> QED
    BY <1>0, <1>2, <1>7, <2>1, <2>2, ClaimsPassOn, RowUnchanged
<1>8. ASSUME NEW w \in Workers, BindWarmAttempt(w)
      PROVE  CandInv' /\ \A t \in Tasks : PlaceInv(t)'
  BY <1>0, <1>8, BindPlaces
<1>9. ASSUME NEW l \in reclaims, HandleReclaim(l)
      PROVE  CandInv' /\ \A t \in Tasks : PlaceInv(t)'
  BY <1>0, <1>9, ReclaimPlaces
<1>10. ~LeaseExpires /\ ~ServerCrash
  BY DEF LeaseExpires, ServerCrash, Fault, Undisturbed
<1>11. ASSUME NEW p \in Pods, SpecFails(p) \/ PodDies(p) \/ Recycle(p)
       PROVE  CandInv' /\ \A t \in Tasks : PlaceInv(t)'
  <2>1. UNCHANGED <<cand, row, bound, launch, leases, reclaims, bind, send, inbox>>
    BY Zenon, <1>11 DEF SpecFails, PodDies, Recycle, registry, streams
  <2>2. \A t \in Tasks : OnShrinks(t)
    BY Zenon, <1>11, <2>1, ProcessShrinks DEF SpecFails, PodDies, Recycle, WarmInv
  <2> QED
    BY <1>2, <2>1, <2>2, ClaimsUnchanged, RowUnchanged
<1>12. ASSUME NEW p \in Pods, NEW out \in {"success", "failed"}, ReportRunning(p) \/ Finish(p, out)
       PROVE  CandInv' /\ \A t \in Tasks : PlaceInv(t)'
  BY Zenon, <1>0, <1>2, <1>12, ReportPlaces DEF ReportRunning, Finish
<1>13. CASE MaintenanceStep
  BY <1>0, <1>1, <1>13, ReaperPlaces
<1>14. CASE RecordQueued
  <2>1. launch \in Tasks
    BY Zenon, <1>14 DEF RecordQueued, WarmInv, WarmTypeOK
  <2> QED
    BY <1>1, <1>5, <1>14, <2>1
<1>15. CASE UNCHANGED vars
  <2>1. UNCHANGED <<cand, row, bound, launch, leases, reclaims, bind, ex, send, inbox>>
    BY Zenon, <1>15 DEF vars, registry, streams
  <2> QED
    BY <1>1, <1>2, <2>1, OnUnchanged, ClaimsUnchanged, RowUnchanged
<1>16. Workers \subseteq Pods
  BY WarmPoolAssumption
<1> QED
  BY <1>1, <1>3, <1>4, <1>5, <1>6, <1>7, <1>8, <1>9, <1>10, <1>11, <1>12, <1>13, <1>14, <1>15,
     <1>16 DEF Next, SchedulerStep, ControlPlaneStep, PodStep, TickIdle

\* As long as none of the causes has happened, every attempt is in one place.
THEOREM PlacesHold == Spec => []PlacesInv
<1>1. Init => PlacesInv
  <2> SUFFICES ASSUME Init PROVE GoneInv /\ CandInv /\ \A t \in Tasks : PlaceInv(t)
    BY DEF PlacesInv
  <2>1. GoneInv /\ CandInv
    BY Zenon, WarmPoolAssumption DEF Init, RegistryInit, GoneInv, CandInv, Alive, Absent, NoCand
  <2>2. ASSUME NEW t \in Tasks
        PROVE  PlaceInv(t)
    <3>1. /\ row[t].state = "scheduled" /\ ~row[t].infra /\ bound[t] = NoWorker
          /\ leases = {} /\ reclaims = {}
      BY Zenon DEF Init, RegistryInit, CreateTaskInstance, AbsentRow
    <3>2. /\ \A p \in Pods : ex[p].pc = "absent"
          /\ \A w \in Workers : bind[w].task # t
      BY NoTaskAssumption DEF Init, Absent, NoAssignment
    <3>3. NotPlaced(t) /\ ClaimedOnce(t)
      BY Zenon, <3>1, <3>2 DEF NotPlaced, ClaimedOnce, Claims, LeasesOf, On
    <3> QED
      BY Zenon, <3>1, <3>3, WarmPoolAssumption DEF PlaceInv, NotPlaced, Dedicated
  <2> QED
    BY <2>1, <2>2
<1>2. WarmInv /\ PlacesInv /\ [Next]_vars => PlacesInv'
  BY PlacesStep
<1>3. WarmTypeOK /\ RegistryInv /\ OwnIds /\ StreamInv => WarmInv
  BY DEF WarmInv
<1> QED
  BY <1>1, <1>2, <1>3, WarmTypeCorrect, RegistryHolds, StreamsHold, PTL DEF Spec

\* No two processes serve the same attempt, for any number of tasks, workers and
\* dedicated pods and however deaths, recycles, refused starts, re-offers, reapers
\* and reports interleave, until a stream broke, the control plane died, a lease
\* ran out, a binding was lost, or a reaper listed a placement by a queued_at that
\* was not its own.
THEOREM OneProcessPerAttempt == Spec => []DoubleRunHasACause
<1>1. WarmTypeOK /\ PlacesInv => DoubleRunHasACause
  <2> SUFFICES ASSUME WarmTypeOK, PlacesInv, Undisturbed,
                      NEW p \in Pods, NEW q \in Pods, ex[p].a.task # NoTask,
                      ex[p].pc \in {"starting", "running"},
                      Serves(q, ex[p].a.task, ex[p].a.try)
               PROVE  p = q
    BY Zenon DEF DoubleRunHasACause, Undisturbed
  <2>1. ex[p].a.task \in Tasks
    BY Zenon DEF WarmTypeOK, Assignment, NoAssignment
  <2>2. PlaceInv(ex[p].a.task) /\ On(p, ex[p].a.task) /\ On(q, ex[p].a.task)
    BY Zenon, <2>1 DEF PlacesInv, On, Serves
  <2> QED
    BY Zenon, <2>2 DEF PlaceInv
<1> QED
  BY <1>1, WarmTypeCorrect, PlacesHold, PTL
=============================================================================
