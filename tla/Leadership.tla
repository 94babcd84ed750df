----------------------------- MODULE Leadership -----------------------------
(***************************************************************************)
(* Who runs the scheduling loop: the campaign for the session-scoped       *)
(* Postgres advisory lock, the watchdog that revalidates it, and the       *)
(* step-down (internal/scheduler/leader.go, campaignAndRun, runAsLeader    *)
(* and watchLeadership in cmd/dexaflow-server/main.go).                    *)
(*                                                                         *)
(* The lock belongs to a database session and is re-entrant: taking it     *)
(* again deepens the hold and each release takes one level off.  A session *)
(* that dies frees it at once, long before its replica's watchdog looks.   *)
(***************************************************************************)
EXTENDS Integers, FiniteSets

CONSTANTS Replicas, NoReplica,
          maxLeaderCheckFailures,
          Faults,             \* the kinds of fault that may happen, each once
          MaxFaults

FaultKinds == {"session", "check", "release", "crash", "abort", "store", "send"}

ASSUME LeadershipAssumption ==
  /\ NoReplica \notin Replicas
  /\ maxLeaderCheckFailures \in Nat \ {0}
  /\ Faults \subseteq FaultKinds
  /\ MaxFaults \in Nat

VARIABLES
  owner,   \* the replica whose session holds the lock
  depth,   \* how many times that session has taken it
  role,    \* role[r]: "follower", "leading" or, its context cancelled, "stopping"
  fails,   \* fails[r]: consecutive leadership checks that failed
  faults   \* the kinds of fault that have happened

election == <<owner, depth, role, fails>>

LeadershipInit ==
  /\ owner = NoReplica
  /\ depth = 0
  /\ role = [r \in Replicas |-> "follower"]
  /\ fails = [r \in Replicas |-> 0]
  /\ faults = {}

Fault(kind) ==
  /\ kind \in Faults \ faults
  /\ Cardinality(faults) < MaxFaults
  /\ faults' = faults \cup {kind}

-----------------------------------------------------------------------------

\* Mutant: a lock this session still holds is refused.
TryAcquire_exclusive(r) ==
  /\ role[r] = "follower"
  /\ owner = NoReplica
  /\ owner' = r
  /\ depth' = depth + 1
  /\ role' = [role EXCEPT ![r] = "leading"]
  /\ fails' = [fails EXCEPT ![r] = 0]
  /\ UNCHANGED faults

\* A follower's turn of campaignAndRun; pg_try_advisory_lock does not wait.
TryAcquire(r) ==
  /\ role[r] = "follower"
  /\ owner \in {NoReplica, r}
  /\ owner' = r
  /\ depth' = depth + 1
  /\ role' = [role EXCEPT ![r] = "leading"]
  /\ fails' = [fails EXCEPT ![r] = 0]
  /\ UNCHANGED faults

\* The lock's connection drops and the pool replaces it.
SessionDrops ==
  /\ owner # NoReplica
  /\ Fault("session")
  /\ owner' = NoReplica
  /\ depth' = 0
  /\ UNCHANGED <<role, fails>>

\* Mutant: a lock that is gone counts as one more failed check.
CheckLock_tolerant(r) ==
  /\ role[r] = "leading"
  /\ fails' = [fails EXCEPT ![r] = IF owner = r THEN 0 ELSE 1]
  /\ UNCHANGED <<owner, depth, role, faults>>

\* watchLeadership with an answer from HoldsLock: not held steps down at once.
CheckLock(r) ==
  /\ role[r] = "leading"
  /\ role' = [role EXCEPT ![r] = IF owner = r THEN @ ELSE "stopping"]
  /\ fails' = [fails EXCEPT ![r] = IF owner = r THEN 0 ELSE @]
  /\ UNCHANGED <<owner, depth, faults>>

\* Mutant: one failure more than the limit is tolerated.
CheckFails_oneMore(r) ==
  /\ role[r] = "leading"
  /\ Fault("check") \/ ("check" \in faults /\ fails[r] > 0 /\ UNCHANGED faults)
  /\ fails' = [fails EXCEPT ![r] = @ + 1]
  /\ role' = [role EXCEPT ![r] = IF fails[r] >= maxLeaderCheckFailures
                                   THEN "stopping" ELSE @]
  /\ UNCHANGED <<owner, depth>>

\* watchLeadership with an error from HoldsLock, tolerated up to the limit.
CheckFails(r) ==
  /\ role[r] = "leading"
  /\ Fault("check") \/ ("check" \in faults /\ fails[r] > 0 /\ UNCHANGED faults)
  /\ fails' = [fails EXCEPT ![r] = @ + 1]
  /\ role' = [role EXCEPT ![r] = IF fails[r] + 1 >= maxLeaderCheckFailures
                                   THEN "stopping" ELSE @]
  /\ UNCHANGED <<owner, depth>>

\* Mutant: the session releases nothing.
ReleaseLock_never(r) == UNCHANGED <<owner, depth>>

\* pg_advisory_unlock: one level, and nothing if the session does not hold it.
ReleaseLock(r) ==
  /\ depth' = IF owner = r THEN depth - 1 ELSE depth
  /\ owner' = IF owner = r /\ depth = 1 THEN NoReplica ELSE owner

\* The loop has returned: runAsLeader releases the lock, best-effort, and the
\* replica campaigns again.
StepDown(r) ==
  /\ role[r] = "stopping"
  /\ \/ ReleaseLock(r) /\ UNCHANGED faults
     \/ Fault("release") /\ UNCHANGED <<owner, depth>>
  /\ role' = [role EXCEPT ![r] = "follower"]
  /\ UNCHANGED fails

\* The process dies and its session with it; it comes back as a follower.
ProcessDies(r) ==
  /\ Fault("crash")
  /\ owner' = IF owner = r THEN NoReplica ELSE owner
  /\ depth' = IF owner = r THEN 0 ELSE depth
  /\ role' = [role EXCEPT ![r] = "follower"]
  /\ fails' = [fails EXCEPT ![r] = 0]
=============================================================================
