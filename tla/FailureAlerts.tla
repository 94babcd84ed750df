--------------------------- MODULE FailureAlerts ---------------------------
(***************************************************************************)
(* The on-failure page of one run, under leaders that may overlap: the     *)
(* tick that finalizes the run, the claim of an attempt, the detached send *)
(* and its delivery stamp, and the operator's clear that opens a new       *)
(* failure episode (maybeAlertFailure in internal/scheduler/scheduler.go,  *)
(* ClaimAlertAttempt, MarkRunAlertDelivered and ReopenDagRunKeepingVersion *)
(* in internal/storage/queries/runs.sql).                                  *)
(*                                                                         *)
(* The run's tasks are reduced to the verdict they end in.                 *)
(***************************************************************************)
EXTENDS Leadership

CONSTANTS alertMaxAttempts,
          alertConcurrency,   \* capacity of a replica's alert semaphore
          MaxClears           \* bound on operator clears

ASSUME AlertAssumption ==
  /\ alertMaxAttempts \in Nat \ {0}
  /\ alertConcurrency \in Nat \ {0}
  /\ MaxClears \in Nat

VARIABLES
  run,      \* dag_runs.state
  verdict,  \* what FinalizeRun makes of the task rows, "open" until they end
  alert,    \* the run's alert columns
  tick,     \* tick[r]: where r's tick is, and the verdict its snapshot showed
  sends,    \* sends in flight, in goroutines of a replica
  episode,  \* history: clears so far, which number the failure episodes
  pages,    \* history: pages[e]: pages delivered for attempts claimed in e
  dropped   \* history: a send was dropped because the semaphore was full

history == <<episode, pages, dropped>>

alerting == <<run, verdict, alert, tick, sends, history>>

vars == <<election, faults, alerting>>

Idle == [pc |-> "idle", saw |-> "open"]

\* alertAttemptUnknown
UnknownAttempt == -1

NoAlert == [delivered |-> FALSE, attempts |-> 0, backoff |-> FALSE]

Init ==
  /\ LeadershipInit
  /\ run = "running"
  /\ verdict = "open"
  /\ alert = NoAlert
  /\ tick = [r \in Replicas |-> Idle]
  /\ sends = {}
  /\ episode = 0
  /\ pages = [e \in 0..MaxClears |-> 0]
  /\ dropped = FALSE

-----------------------------------------------------------------------------

TasksEnd(v) ==
  /\ verdict = "open"
  /\ verdict' = v
  /\ UNCHANGED <<election, faults, run, alert, tick, sends, history>>

\* ActiveRuns lists only runs that are not terminal; FinalizeRun reads the
\* snapshot.
TickReads(r) ==
  /\ role[r] = "leading"
  /\ tick[r].pc = "idle"
  /\ run = "running"
  /\ verdict # "open"
  /\ tick' = [tick EXCEPT ![r] = [pc |-> "finalize", saw |-> verdict]]
  /\ UNCHANGED <<election, faults, run, verdict, alert, sends, history>>

\* SetRunState, with no guard on the state it replaces.
TickFinalizes(r) ==
  /\ tick[r].pc = "finalize"
  /\ run' = tick[r].saw
  /\ tick' = [tick EXCEPT ![r] = IF tick[r].saw = "failed"
                                   THEN [@ EXCEPT !.pc = "claim"] ELSE Idle]
  /\ UNCHANGED <<election, faults, verdict, alert, sends, history>>

\* Mutant: the claim does not look whether the page was delivered.
Claimable_redelivers ==
  alert.attempts < alertMaxAttempts /\ ~alert.backoff

\* The predicates of ClaimAlertAttempt.
Claimable ==
  ~alert.delivered /\ alert.attempts < alertMaxAttempts /\ ~alert.backoff

Launch(r, attempt) ==
  LET m == [by |-> r, attempt |-> attempt, episode |-> episode, pc |-> "send"]
      full == Cardinality({s \in sends : s.by = r}) >= alertConcurrency
  IN /\ sends' = IF full THEN sends ELSE sends \cup {m}
     /\ dropped' = (dropped \/ full)

\* maybeAlertFailure: the claim and the launch of the send, or, when the claim
\* errors, a send with no attempt behind it.
TickClaims(r) ==
  /\ tick[r].pc = "claim"
  /\ tick' = [tick EXCEPT ![r] = Idle]
  /\ \/ /\ Claimable
        /\ alert' = [alert EXCEPT !.attempts = @ + 1, !.backoff = TRUE]
        /\ Launch(r, alert.attempts + 1)
        /\ UNCHANGED faults
     \/ ~Claimable /\ UNCHANGED <<alert, sends, faults, dropped>>
     \/ Fault("store") /\ Launch(r, UnknownAttempt) /\ UNCHANGED alert
  /\ UNCHANGED <<election, run, verdict, episode, pages>>

\* The tick's context is cancelled, times out, or a write fails.
TickAborts(r) ==
  /\ tick[r].pc # "idle"
  /\ \/ role[r] = "stopping" /\ UNCHANGED faults
     \/ Fault("abort")
  /\ tick' = [tick EXCEPT ![r] = Idle]
  /\ UNCHANGED <<election, run, verdict, alert, sends, history>>

\* alertRetryBackoff outlasts the send it was set for.
BackoffElapses ==
  /\ alert.backoff
  /\ \A s \in sends : s.episode # episode
  /\ alert' = [alert EXCEPT !.backoff = FALSE]
  /\ UNCHANGED <<election, faults, run, verdict, tick, sends, history>>

SendDelivers(s) ==
  /\ s.pc = "send"
  /\ sends' = (sends \ {s}) \cup {[s EXCEPT !.pc = "stamp"]}
  /\ pages' = [pages EXCEPT ![s.episode] = @ + 1]
  /\ UNCHANGED <<election, faults, run, verdict, alert, tick, episode, dropped>>

\* A rule was not delivered: the goroutine ends, the episode stays unstamped.
SendFails(s) ==
  /\ s.pc = "send"
  /\ Fault("send")
  /\ sends' = sends \ {s}
  /\ UNCHANGED <<election, run, verdict, alert, tick, history>>

\* Mutant: the stamp is guarded on the count from before the claim.
StampDelivery_before(s) ==
  /\ s.pc = "stamp"
  /\ sends' = sends \ {s}
  /\ alert' = IF alert.attempts = s.attempt - 1
                THEN [alert EXCEPT !.delivered = TRUE, !.backoff = FALSE]
                ELSE alert
  /\ UNCHANGED <<election, faults, run, verdict, tick, history>>

\* MarkRunAlertDelivered, guarded on the attempt; an error is only logged.
StampDelivery(s) ==
  /\ s.pc = "stamp"
  /\ sends' = sends \ {s}
  /\ \/ /\ alert' = IF alert.attempts = s.attempt
                      THEN [alert EXCEPT !.delivered = TRUE, !.backoff = FALSE]
                      ELSE alert
        /\ UNCHANGED faults
     \/ Fault("store") /\ UNCHANGED alert
  /\ UNCHANGED <<election, run, verdict, tick, history>>

\* A clear that re-opens the run (ReopenDagRunKeepingVersion and
\* ResetDagRunToVersion reset the same columns).
ClearRun ==
  /\ episode < MaxClears
  /\ episode' = episode + 1
  /\ run' = "running"
  /\ verdict' = "open"
  /\ alert' = NoAlert
  /\ UNCHANGED <<election, faults, tick, sends, pages, dropped>>

\* The process of r dies with its tick and its sends.
Crash(r) ==
  /\ ProcessDies(r)
  /\ tick' = [tick EXCEPT ![r] = Idle]
  /\ sends' = {s \in sends : s.by # r}
  /\ UNCHANGED <<run, verdict, alert, history>>

\* Mutant: the replica steps down without waiting for the loop to return.
LoopReturns_early(r) == StepDown(r)

\* Run returns between ticks, then the replica steps down.
LoopReturns(r) == tick[r].pc = "idle" /\ StepDown(r)

ElectionStep ==
  \/ /\ \/ SessionDrops
        \/ \E r \in Replicas : TryAcquire(r) \/ CheckLock(r) \/ CheckFails(r)
        \/ \E r \in Replicas : LoopReturns(r)
     /\ UNCHANGED alerting
  \/ \E r \in Replicas : Crash(r)

AlertStep ==
  \/ \E v \in {"failed", "success"} : TasksEnd(v)
  \/ \E r \in Replicas : TickReads(r) \/ TickFinalizes(r) \/ TickClaims(r) \/ TickAborts(r)
  \/ BackoffElapses
  \/ \E s \in sends : SendDelivers(s) \/ SendFails(s) \/ StampDelivery(s)
  \/ ClearRun

Next == ElectionStep \/ AlertStep

Spec == Init /\ [][Next]_vars

\* The campaign, the watchdog and the loop come round for ever, a goroutine that
\* sends goes on, and a backoff is finite.  No fairness on faults or clears.
Fairness ==
  /\ WF_vars((\E r \in Replicas : TryAcquire(r)) /\ UNCHANGED alerting)
  /\ \A r \in Replicas :
       /\ WF_vars(CheckLock(r) /\ UNCHANGED alerting)
       /\ WF_vars(LoopReturns(r) /\ UNCHANGED alerting)
       /\ WF_vars(TickReads(r))
       /\ WF_vars(TickFinalizes(r) \/ TickClaims(r) \/ TickAborts(r))
  /\ WF_vars(\E s \in sends : SendDelivers(s) \/ StampDelivery(s))
  /\ WF_vars(BackoffElapses)

FairSpec == Spec /\ Fairness

-----------------------------------------------------------------------------

\* Every variable holds a value of its type.
AlertTypeOK ==
  /\ owner \in Replicas \cup {NoReplica}
  /\ depth \in Nat
  /\ role \in [Replicas -> {"follower", "leading", "stopping"}]
  /\ fails \in [Replicas -> 0..maxLeaderCheckFailures]
  /\ faults \subseteq FaultKinds
  /\ run \in {"running", "success", "failed"}
  /\ verdict \in {"open", "success", "failed"}
  /\ alert \in [delivered: BOOLEAN, attempts: 0..alertMaxAttempts, backoff: BOOLEAN]
  /\ tick \in [Replicas -> [pc: {"idle", "finalize", "claim"},
                             saw: {"open", "success", "failed"}]]
  /\ sends \subseteq [by: Replicas, attempt: {UnknownAttempt} \cup 1..alertMaxAttempts,
                      episode: 0..MaxClears, pc: {"send", "stamp"}]
  /\ episode \in 0..MaxClears
  /\ pages \in [0..MaxClears -> Nat]
  /\ dropped \in BOOLEAN

\* Two replicas run the loop at the same time, a tick in flight included, only
\* after the lock's session was lost: failed checks, failed releases, crashes
\* and re-entrant acquisitions never make two leaders (runAsLeader releases the
\* lock only after the loop has returned).
OverlapNeedsLostSession ==
  "session" \in faults \/ \A r, s \in Replicas :
    (role[r] # "follower" \/ tick[r] # Idle) /\ (role[s] # "follower" \/ tick[s] # Idle)
      => r = s

\* The lock is never left behind: whoever holds it runs the loop, or is free to
\* take it again.  It is held once, except after a release that failed.
LockDepthIsAccounted ==
  /\ (owner = NoReplica) <=> (depth = 0)
  /\ depth > 1 => "release" \in faults

\* An episode is paged at most once although overlapping leaders may each
\* finalize the run and each try to page, unless a store error or a crash hid
\* what was done (ClaimAlertAttempt: "never page twice for one episode").
OnePagePerEpisode ==
  \/ faults \cap {"store", "crash"} # {}
  \/ \A e \in 0..MaxClears : pages[e] <= 1

\* A leader whose session lost the lock steps down, by the watchdog's next look.
StaleLeaderStepsDown ==
  \A r \in Replicas : (role[r] = "leading" /\ owner # r) ~> (role[r] # "leading")

\* After the last fault some replica leads for good and holds the lock: no
\* crash, failed release or failed check strands the lock with a follower.
LeadershipRecovers == <>[](\E r \in Replicas : role[r] = "leading" /\ owner = r)

\* Without faults and without saturation, a run that ends failed is paged and
\* the page is recorded, unless it is cleared first.
FailureIsPaged ==
  run = "failed" ~> (alert.delivered \/ run # "failed" \/ faults # {} \/ dropped)

\* What the comment in maybeAlertFailure says (scheduler.go lines 844-846): "a
\* send that fails leaves the episode claimable and the next tick retries it
\* after the backoff".  An undelivered episode with attempts left and no send in
\* flight is attempted again, delivered, or cleared.
FailedSendIsRetried ==
  \A k \in 1..(alertMaxAttempts - 1) :
    (run = "failed" /\ ~alert.delivered /\ alert.attempts = k /\ sends = {})
      ~> (alert.attempts # k \/ alert.delivered \/ run # "failed")
=============================================================================
