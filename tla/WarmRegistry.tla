---------------------------- MODULE WarmRegistry ----------------------------
(***************************************************************************)
(* The leader's in-memory registry of warm workers and its lease machine   *)
(* (internal/agentrpc/worker_registry.go), for the pool of one dag_version.*)
(* Every method runs under one mutex, so a call is one step; reclaim       *)
(* events are handed to the observer after the mutex is released, so they  *)
(* wait in reclaims.                                                       *)
(*                                                                         *)
(* A worker identity is minted for one pod, which opens one registered     *)
(* stream, so an entry of the registry is its worker and Register never    *)
(* finds an older one.  The agent acks only assignments it starts, so the  *)
(* refusal branch of Ack has no caller.                                    *)
(***************************************************************************)
EXTENDS Integers, FiniteSets

CONSTANTS Workers,    \* warm worker pods
          Tasks,
          NoTask

ASSUME NoTaskAssumption == NoTask \notin Tasks

VARIABLES
  registered,  \* workers: the streams being served
  free,        \* the free set
  busy,        \* entries whose busy flag is set
  send,        \* send[w]: what is in w's outbound channel, of capacity one
  leases,      \* assignments handed out and not settled
  reclaims,    \* worker-gone events on their way to the observer
  issued,      \* assignments made so far, the source of fresh ids
  acked,       \* history: ids settled by a started ack
  reclaimed    \* history: ids settled by a reclaim

registry == <<registered, free, busy, send, leases, reclaims, issued, acked, reclaimed>>

\* What a WorkAssignment names: the attempt, and its own id.
Assignment == [aid: Nat, task: Tasks \cup {NoTask}, try: Nat]

NoAssignment == [aid |-> 0, task |-> NoTask, try |-> 0]

Lease == [worker: Workers, a: Assignment]

\* The ids of a set of leases.
Ids(L) == {l.a.aid : l \in L}

RegistryInit ==
  /\ registered = {}
  /\ free = {}
  /\ busy = {}
  /\ send = [w \in Workers |-> NoAssignment]
  /\ leases = {}
  /\ reclaims = {}
  /\ issued = 0
  /\ acked = {}
  /\ reclaimed = {}

-----------------------------------------------------------------------------

Register(w) ==
  /\ registered' = registered \cup {w}
  /\ free' = free \cup {w}
  /\ busy' = busy \ {w}
  /\ UNCHANGED <<send, leases, reclaims, issued, acked, reclaimed>>

\* Mutant: the leases of a worker that is gone stay behind.
Deregister_keepLeases(w) ==
  LET held == {l \in leases : l.worker = w} IN
  /\ registered' = registered \ {w}
  /\ free' = free \ {w}
  /\ send' = [send EXCEPT ![w] = NoAssignment]
  /\ reclaims' = reclaims \cup held
  /\ reclaimed' = reclaimed \cup Ids(held)
  /\ UNCHANGED <<busy, leases, issued, acked>>

\* The entry goes, its leases are reclaimed as worker-gone and its channel is
\* dropped with it.
Deregister(w) ==
  LET held == {l \in leases : l.worker = w} IN
  /\ registered' = registered \ {w}
  /\ free' = free \ {w}
  /\ send' = [send EXCEPT ![w] = NoAssignment]
  /\ leases' = leases \ held
  /\ reclaims' = reclaims \cup held
  /\ reclaimed' = reclaimed \cup Ids(held)
  /\ UNCHANGED <<busy, issued, acked>>

\* Mutant: the worker stays in the free set.
AssignHit_stays(t, try, w) ==
  LET a == [aid |-> issued + 1, task |-> t, try |-> try] IN
  /\ w \in free
  /\ send[w] = NoAssignment
  /\ send' = [send EXCEPT ![w] = a]
  /\ leases' = leases \cup {[worker |-> w, a |-> a]}
  /\ issued' = issued + 1
  /\ UNCHANGED <<registered, free, busy, reclaims, acked, reclaimed>>

\* Assign hands the attempt to some free worker and starts its lease.
AssignHit(t, try, w) ==
  LET a == [aid |-> issued + 1, task |-> t, try |-> try] IN
  /\ w \in free
  /\ send[w] = NoAssignment
  /\ free' = free \ {w}
  /\ send' = [send EXCEPT ![w] = a]
  /\ leases' = leases \cup {[worker |-> w, a |-> a]}
  /\ issued' = issued + 1
  /\ UNCHANGED <<registered, busy, reclaims, acked, reclaimed>>

\* Assign returns false: no worker is free, or the one it took still has an
\* assignment in its channel and is put back.
AssignMiss ==
  /\ free = {} \/ \E w \in free : send[w] # NoAssignment
  /\ UNCHANGED registry

\* Ack of the leased assignment l.
AckStarted(l) ==
  /\ leases' = leases \ {l}
  /\ busy' = busy \cup {l.worker}
  /\ acked' = acked \cup {l.a.aid}
  /\ UNCHANGED <<registered, free, send, reclaims, issued, reclaimed>>

\* Mutant: the signal is taken from a worker whose entry is gone.
MarkFree_gone(w) ==
  /\ busy' = busy \ {w}
  /\ free' = free \cup {w}
  /\ UNCHANGED <<registered, send, leases, reclaims, issued, acked, reclaimed>>

MarkFree(w) ==
  /\ busy' = IF w \in registered THEN busy \ {w} ELSE busy
  /\ free' = IF w \in registered THEN free \cup {w} ELSE free
  /\ UNCHANGED <<registered, send, leases, reclaims, issued, acked, reclaimed>>

\* onLeaseExpire: the worker goes back to the free set unless it is busy with
\* another attempt; the observer only logs the event.
onLeaseExpire(l) ==
  /\ leases' = leases \ {l}
  /\ free' = IF l.worker \in registered \ busy THEN free \cup {l.worker} ELSE free
  /\ reclaimed' = reclaimed \cup {l.a.aid}
  /\ UNCHANGED <<registered, busy, send, reclaims, issued, acked>>

\* The process restarts with an empty registry; ids stay unique (uuid).
RegistryLost ==
  /\ registered' = {}
  /\ free' = {}
  /\ busy' = {}
  /\ send' = [w \in Workers |-> NoAssignment]
  /\ leases' = {}
  /\ reclaims' = {}
  /\ UNCHANGED <<issued, acked, reclaimed>>
=============================================================================
