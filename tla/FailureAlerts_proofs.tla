----------------------- MODULE FailureAlerts_proofs -------------------------
(***************************************************************************)
(* Leadership and the on-failure page, for any number of replicas,         *)
(* campaigns, clears and faults: type correctness, and the proofs of       *)
(* OverlapNeedsLostSession, LockDepthIsAccounted and OnePagePerEpisode.    *)
(*                                                                         *)
(* ElectionInv ties the role a replica believes in to the lock the database*)
(* knows of.  PageInv ties the pages that went out to the alert columns the*)
(* next claim will read, whichever leader makes it.                        *)
(***************************************************************************)
EXTENDS FailureAlerts, TLAPS

-----------------------------------------------------------------------------
(* Leadership.                                                             *)

ElectionType ==
  /\ owner \in Replicas \cup {NoReplica}
  /\ depth \in Nat
  /\ role \in [Replicas -> {"follower", "leading", "stopping"}]
  /\ fails \in [Replicas -> 0..maxLeaderCheckFailures]
  /\ faults \subseteq FaultKinds

\* A tick at rest holds nothing.
TickType ==
  /\ verdict \in {"open", "success", "failed"}
  /\ tick \in [Replicas -> {Idle} \cup [pc: {"finalize", "claim"},
                                         saw: {"success", "failed"}]]

\* A leader has failures to spare, a follower has no tick in flight, a lock
\* whose owner does not lead was left by a failed release, and until a session
\* is lost whoever leads owns the lock.
ElectionInv ==
  /\ ElectionType
  /\ TickType
  /\ \A r \in Replicas : role[r] = "leading" => fails[r] < maxLeaderCheckFailures
  /\ \A r \in Replicas : role[r] = "follower" => tick[r] = Idle
  /\ LockDepthIsAccounted
  /\ \A r \in Replicas : owner = r /\ role[r] = "follower" => "release" \in faults
  /\ "session" \notin faults => \A r \in Replicas : role[r] # "follower" => owner = r

\* A fault adds its kind to those that have happened.
LEMMA FaultAdds ==
  ASSUME ElectionType, NEW kind, Fault(kind)
  PROVE  faults' = faults \cup {kind} /\ faults' \subseteq FaultKinds
BY LeadershipAssumption DEF Fault, ElectionType

\* Steps that leave the election and the shape of the ticks alone.
LEMMA SameElection ==
  ASSUME ElectionInv, UNCHANGED election, faults \subseteq faults', faults' \subseteq FaultKinds,
         "session" \in faults' => "session" \in faults,
         TickType',
         \A r \in Replicas : role[r] = "follower" => tick'[r] = Idle
  PROVE  ElectionInv'
BY DEF ElectionInv, ElectionType, election, LockDepthIsAccounted

\* A campaign that succeeds, also on a lock the session still holds.
LEMMA AcquireKeeps ==
  ASSUME ElectionInv, NEW r \in Replicas, TryAcquire(r), UNCHANGED <<tick, verdict>>
  PROVE  ElectionInv'
<1>1. /\ owner' = r /\ depth' = depth + 1 /\ faults' = faults
      /\ tick' = tick /\ verdict' = verdict
      /\ role' = [role EXCEPT ![r] = "leading"]
      /\ fails' = [fails EXCEPT ![r] = 0]
      /\ role[r] = "follower" /\ owner \in {NoReplica, r}
  BY DEF TryAcquire
<1>2. r # NoReplica /\ 0 \in 0..maxLeaderCheckFailures /\ 0 < maxLeaderCheckFailures
  BY LeadershipAssumption
<1>3. depth \in Nat /\ (owner = NoReplica <=> depth = 0)
      /\ (depth > 1 => "release" \in faults)
  BY DEF ElectionInv, ElectionType, LockDepthIsAccounted
<1>4. ElectionType'
  BY <1>1, <1>2, <1>3 DEF ElectionInv, ElectionType
<1>5. LockDepthIsAccounted'
  <2>1. CASE owner = NoReplica
    BY <1>1, <1>2, <1>3, <2>1 DEF LockDepthIsAccounted
  <2>2. CASE owner = r
    <3>1. "release" \in faults
      BY <1>1, <2>2 DEF ElectionInv
    <3> QED
      BY <1>1, <1>2, <1>3, <3>1 DEF LockDepthIsAccounted
  <2> QED
    BY <1>1, <2>1, <2>2
<1>6. \A s \in Replicas \ {r} : role'[s] = role[s] /\ fails'[s] = fails[s]
  BY <1>1 DEF ElectionInv, ElectionType
<1>7. role'[r] = "leading" /\ fails'[r] = 0
  BY <1>1 DEF ElectionInv, ElectionType
<1>8. "session" \notin faults => \A s \in Replicas \ {r} : role[s] = "follower"
  BY <1>1, <1>2, LeadershipAssumption DEF ElectionInv
<1>9. TickType'
  BY <1>1 DEF ElectionInv, TickType
<1> QED
  BY <1>1, <1>2, <1>4, <1>5, <1>6, <1>7, <1>8, <1>9 DEF ElectionInv

\* A lost session frees the lock under its leader.
LEMMA SessionDropKeeps ==
  ASSUME ElectionInv, SessionDrops, UNCHANGED <<tick, verdict>>
  PROVE  ElectionInv'
<1>1. /\ owner' = NoReplica /\ depth' = 0 /\ role' = role /\ fails' = fails
      /\ tick' = tick /\ verdict' = verdict
      /\ faults' = faults \cup {"session"} /\ faults' \subseteq FaultKinds
  BY FaultAdds DEF SessionDrops, ElectionInv
<1>2. TickType'
  BY <1>1 DEF ElectionInv, TickType
<1> QED
  BY <1>1, <1>2, LeadershipAssumption DEF ElectionInv, ElectionType, LockDepthIsAccounted

\* The watchdog, with an answer or with an error, at most makes a leader stop.
LEMMA WatchdogKeeps ==
  ASSUME ElectionInv, NEW r \in Replicas, CheckLock(r) \/ CheckFails(r), UNCHANGED <<tick, verdict>>
  PROVE  ElectionInv'
<1>1. /\ owner' = owner /\ depth' = depth /\ role[r] = "leading"
      /\ tick' = tick /\ verdict' = verdict
      /\ faults' \in {faults, faults \cup {"check"}} /\ faults' \subseteq FaultKinds
  BY FaultAdds DEF CheckLock, CheckFails, ElectionInv, ElectionType
<1>2. /\ fails[r] \in Nat /\ fails[r] < maxLeaderCheckFailures
      /\ maxLeaderCheckFailures \in Nat /\ maxLeaderCheckFailures > 0
  BY <1>1, LeadershipAssumption DEF ElectionInv, ElectionType
<1>3. PICK n \in 0..maxLeaderCheckFailures, to \in {"leading", "stopping"} :
        /\ fails' = [fails EXCEPT ![r] = n] /\ role' = [role EXCEPT ![r] = to]
        /\ to = "leading" => n < maxLeaderCheckFailures
  <2>1. CASE CheckLock(r)
    <3>1. CASE owner = r
      <4>1. fails' = [fails EXCEPT ![r] = 0] /\ role' = [role EXCEPT ![r] = "leading"]
        BY <1>1, <2>1, <3>1 DEF CheckLock
      <4>2. 0 \in 0..maxLeaderCheckFailures /\ 0 < maxLeaderCheckFailures
        BY <1>2
      <4> QED
        BY Zenon, <4>1, <4>2
    <3>2. CASE owner # r
      <4>1. fails' = [fails EXCEPT ![r] = fails[r]] /\ role' = [role EXCEPT ![r] = "stopping"]
        BY <2>1, <3>2 DEF CheckLock
      <4>2. fails[r] \in 0..maxLeaderCheckFailures
        BY <1>2
      <4> QED
        BY Zenon, <4>1, <4>2
    <3> QED
      BY <3>1, <3>2
  <2>2. CASE CheckFails(r)
    <3>1. fails[r] + 1 \in 0..maxLeaderCheckFailures
      BY <1>2
    <3>2. fails[r] + 1 >= maxLeaderCheckFailures \/ fails[r] + 1 < maxLeaderCheckFailures
      BY <1>2
    <3>3. CASE fails[r] + 1 >= maxLeaderCheckFailures
      BY Zenon, <2>2, <3>1, <3>3 DEF CheckFails
    <3>4. CASE ~(fails[r] + 1 >= maxLeaderCheckFailures)
      BY Zenon, <1>1, <1>2, <2>2, <3>1, <3>2, <3>4 DEF CheckFails
    <3> QED
      BY <3>3, <3>4
  <2> QED
    BY <2>1, <2>2
<1>4. /\ \A s \in Replicas \ {r} : role'[s] = role[s] /\ fails'[s] = fails[s]
      /\ role'[r] = to /\ fails'[r] = n
  BY <1>3 DEF ElectionInv, ElectionType
<1>5. ElectionType'
  BY <1>1, <1>3 DEF ElectionInv, ElectionType
<1>6. LockDepthIsAccounted'
  BY <1>1 DEF ElectionInv, LockDepthIsAccounted
<1>7. TickType'
  BY <1>1 DEF ElectionInv, TickType
<1> QED
  BY <1>1, <1>3, <1>4, <1>5, <1>6, <1>7 DEF ElectionInv

\* Stepping down takes one level off the lock, or leaves it to a failed release.
LEMMA StepDownKeeps ==
  ASSUME ElectionInv, NEW r \in Replicas, LoopReturns(r), UNCHANGED <<tick, verdict>>
  PROVE  ElectionInv'
<1>1. /\ role[r] = "stopping" /\ role' = [role EXCEPT ![r] = "follower"]
      /\ fails' = fails /\ tick' = tick /\ verdict' = verdict /\ tick[r].pc = "idle"
  BY DEF LoopReturns, StepDown
<1>2. /\ \A s \in Replicas \ {r} : role'[s] = role[s]
      /\ role'[r] = "follower"
      /\ role' \in [Replicas -> {"follower", "leading", "stopping"}]
  BY <1>1 DEF ElectionInv, ElectionType
<1>3. depth \in Nat /\ (owner = NoReplica <=> depth = 0) /\ r # NoReplica
      /\ (depth > 1 => "release" \in faults) /\ owner \in Replicas \cup {NoReplica}
  BY LeadershipAssumption DEF ElectionInv, ElectionType, LockDepthIsAccounted
<1>4. tick[r] = Idle
  BY <1>1 DEF ElectionInv, TickType
<1>5. /\ TickType'
      /\ \A s \in Replicas : role'[s] = "leading" => fails'[s] < maxLeaderCheckFailures
      /\ \A s \in Replicas : role'[s] = "follower" => tick'[s] = Idle
  BY <1>1, <1>2, <1>4 DEF ElectionInv, TickType
<1>6. "session" \notin faults /\ owner = r => \A s \in Replicas \ {r} : role[s] = "follower"
  BY DEF ElectionInv
<1>7. /\ fails \in [Replicas -> 0..maxLeaderCheckFailures] /\ faults \subseteq FaultKinds
      /\ \A s \in Replicas : owner = s /\ role[s] = "follower" => "release" \in faults
      /\ "session" \notin faults => \A s \in Replicas : role[s] # "follower" => owner = s
  BY DEF ElectionInv, ElectionType
<1>8. ASSUME faults \subseteq faults', faults' \subseteq FaultKinds,
             "session" \in faults' => "session" \in faults,
             owner' \in Replicas \cup {NoReplica}, depth' \in Nat,
             (owner' = NoReplica) <=> (depth' = 0),
             depth' > 1 => "release" \in faults',
             owner' = r => "release" \in faults',
             owner' = owner \/ (owner = r /\ owner' = NoReplica)
      PROVE  ElectionInv'
  <2>1. ElectionType' /\ LockDepthIsAccounted'
    BY <1>1, <1>2, <1>7, <1>8 DEF ElectionType, LockDepthIsAccounted
  <2>2. \A s \in Replicas : owner' = s /\ role'[s] = "follower" => "release" \in faults'
    <3>1. CASE owner' = owner
      BY <1>2, <1>7, <1>8, <3>1
    <3>2. CASE owner' = NoReplica
      BY <3>2, LeadershipAssumption
    <3> QED
      BY <1>8, <3>1, <3>2
  <2>3. "session" \notin faults' => \A s \in Replicas : role'[s] # "follower" => owner' = s
    BY <1>2, <1>6, <1>7, <1>8
  <2> QED
    BY <1>5, <2>1, <2>2, <2>3 DEF ElectionInv
<1>9. CASE Fault("release") /\ UNCHANGED <<owner, depth>>
  <2>1. faults' = faults \cup {"release"} /\ faults' \subseteq FaultKinds
    BY <1>9, FaultAdds DEF ElectionInv
  <2> QED
    BY <1>3, <1>8, <1>9, <2>1
<1>10. CASE ReleaseLock(r) /\ UNCHANGED faults /\ owner # r
  BY <1>3, <1>7, <1>8, <1>10 DEF ReleaseLock
<1>11. CASE ReleaseLock(r) /\ UNCHANGED faults /\ owner = r /\ depth = 1
  <2>1. owner' = NoReplica /\ depth' = 0
    BY <1>11 DEF ReleaseLock
  <2> QED
    BY <1>3, <1>7, <1>8, <1>11, <2>1
<1>12. CASE ReleaseLock(r) /\ UNCHANGED faults /\ owner = r /\ depth # 1
  <2>1. owner' = r /\ depth' = depth - 1
    BY <1>12 DEF ReleaseLock
  <2>2. depth > 1 /\ depth' \in Nat /\ depth' # 0
    BY <1>3, <1>12, <2>1
  <2> QED
    BY <1>3, <1>7, <1>8, <1>12, <2>1, <2>2
<1> QED
  BY <1>9, <1>10, <1>11, <1>12 DEF LoopReturns, StepDown

\* A process that dies takes its session, its role and its tick with it.
LEMMA CrashKeeps ==
  ASSUME ElectionInv, NEW r \in Replicas, Crash(r)
  PROVE  ElectionInv'
<1>1. /\ role' = [role EXCEPT ![r] = "follower"] /\ fails' = [fails EXCEPT ![r] = 0]
      /\ tick' = [tick EXCEPT ![r] = Idle] /\ verdict' = verdict
      /\ owner' = (IF owner = r THEN NoReplica ELSE owner)
      /\ depth' = (IF owner = r THEN 0 ELSE depth)
  BY DEF Crash, ProcessDies
<1>2. faults' = faults \cup {"crash"} /\ faults' \subseteq FaultKinds
  BY FaultAdds DEF Crash, ProcessDies, ElectionInv
<1>3. r # NoReplica /\ 0 \in 0..maxLeaderCheckFailures
  BY LeadershipAssumption
<1>4. ElectionType' /\ TickType' /\ LockDepthIsAccounted'
  BY <1>1, <1>2, <1>3 DEF ElectionInv, ElectionType, TickType, LockDepthIsAccounted
<1>5. /\ \A s \in Replicas \ {r} : /\ role'[s] = role[s] /\ fails'[s] = fails[s]
                                  /\ tick'[s] = tick[s]
      /\ role'[r] = "follower" /\ tick'[r] = Idle
  BY <1>1 DEF ElectionInv, ElectionType, TickType
<1>6. owner' # r /\ (owner' = owner \/ owner' = NoReplica)
  BY <1>1, <1>3
<1>7. "session" \notin faults => \A s \in Replicas \ {r} : role[s] # "follower" => owner' = s
  BY <1>1 DEF ElectionInv
<1>8. \A s \in Replicas : s # NoReplica
  BY LeadershipAssumption
<1>9. /\ \A s \in Replicas : role'[s] = "leading" => fails'[s] < maxLeaderCheckFailures
      /\ \A s \in Replicas : role'[s] = "follower" => tick'[s] = Idle
  BY <1>5 DEF ElectionInv
<1>10. \A s \in Replicas : owner' = s /\ role'[s] = "follower" => "release" \in faults'
  BY <1>2, <1>5, <1>6, <1>8 DEF ElectionInv
<1>11. "session" \notin faults' => \A s \in Replicas : role'[s] # "follower" => owner' = s
  BY <1>2, <1>5, <1>7
<1> QED
  BY <1>4, <1>9, <1>10, <1>11 DEF ElectionInv

\* The ticks and the sends read the election and leave it alone.
LEMMA AlertStepsKeep ==
  ASSUME ElectionInv, AlertStep
  PROVE  ElectionInv'
<1>1. UNCHANGED election
  BY DEF AlertStep, TasksEnd, TickReads, TickFinalizes, TickClaims, TickAborts,
         BackoffElapses, SendDelivers, SendFails, StampDelivery, ClearRun
<1>2. \/ faults' = faults
      \/ \E kind \in {"store", "abort", "send"} : Fault(kind)
  BY DEF AlertStep, TasksEnd, TickReads, TickFinalizes, TickClaims, TickAborts,
         BackoffElapses, SendDelivers, SendFails, StampDelivery, ClearRun
<1>3. /\ faults \subseteq faults' /\ faults' \subseteq FaultKinds
      /\ "session" \in faults' => "session" \in faults
  BY <1>2, FaultAdds DEF ElectionInv, ElectionType
<1>4. verdict' \in {"open", "success", "failed"}
  BY DEF ElectionInv, TickType, AlertStep, TasksEnd, TickReads, TickFinalizes, TickClaims,
         TickAborts, BackoffElapses, SendDelivers, SendFails, StampDelivery, ClearRun
<1>5. \/ tick' = tick
      \/ \E r \in Replicas, v \in {Idle} \cup [pc: {"finalize", "claim"},
                                              saw: {"success", "failed"}] :
           tick' = [tick EXCEPT ![r] = v] /\ (v = Idle \/ role[r] # "follower")
  <2>1. ASSUME NEW r \in Replicas, TickReads(r)
        PROVE  \E v \in [pc: {"finalize", "claim"}, saw: {"success", "failed"}] :
                 tick' = [tick EXCEPT ![r] = v] /\ role[r] # "follower"
    BY Zenon, <2>1 DEF TickReads, ElectionInv, TickType
  <2>2. ASSUME NEW r \in Replicas, TickFinalizes(r)
        PROVE  \E v \in {Idle} \cup [pc: {"finalize", "claim"},
                                     saw: {"success", "failed"}] :
                 tick' = [tick EXCEPT ![r] = v] /\ role[r] # "follower"
    <3>1. tick[r].pc = "finalize" /\ tick[r] # Idle
      BY <2>2 DEF TickFinalizes, Idle
    <3>2. role[r] # "follower"
      BY <3>1 DEF ElectionInv
    <3>3. [tick[r] EXCEPT !.pc = "claim"]
            \in [pc: {"finalize", "claim"}, saw: {"success", "failed"}]
      BY <3>1 DEF ElectionInv, TickType
    <3>4. tick' = [tick EXCEPT ![r] = IF tick[r].saw = "failed"
                                        THEN [tick[r] EXCEPT !.pc = "claim"] ELSE Idle]
      BY <2>2 DEF TickFinalizes
    <3>5. CASE tick[r].saw = "failed"
      BY Zenon, <3>2, <3>3, <3>4, <3>5
    <3>6. CASE tick[r].saw # "failed"
      BY Zenon, <3>2, <3>4, <3>6
    <3> QED
      BY <3>5, <3>6
  <2>3. ASSUME NEW r \in Replicas, TickClaims(r) \/ TickAborts(r)
        PROVE  tick' = [tick EXCEPT ![r] = Idle]
    BY <2>3 DEF TickClaims, TickAborts
  <2>4. CASE \/ \E v \in {"failed", "success"} : TasksEnd(v)
             \/ BackoffElapses \/ ClearRun
             \/ \E s \in sends : SendDelivers(s) \/ SendFails(s) \/ StampDelivery(s)
    BY <2>4 DEF TasksEnd, BackoffElapses, ClearRun, SendDelivers, SendFails, StampDelivery
  <2> QED
    BY <2>1, <2>2, <2>3, <2>4 DEF AlertStep
<1>6. TickType' /\ \A r \in Replicas : role[r] = "follower" => tick'[r] = Idle
  BY <1>4, <1>5 DEF ElectionInv, TickType
<1> QED
  BY <1>1, <1>3, <1>6, SameElection

\* ElectionInv holds along every behaviour.
LEMMA ElectionHolds == Spec => []ElectionInv
<1>1. Init => ElectionInv
  BY LeadershipAssumption DEF Init, LeadershipInit, ElectionInv, ElectionType, TickType,
     LockDepthIsAccounted
<1>2. ElectionInv /\ [Next]_vars => ElectionInv'
  <2> SUFFICES ASSUME ElectionInv, [Next]_vars
               PROVE  ElectionInv'
    OBVIOUS
  <2>1. CASE UNCHANGED vars
    BY <2>1, SameElection DEF vars, election, alerting, ElectionInv, ElectionType, TickType
  <2>2. CASE ElectionStep
    BY <2>2, AcquireKeeps, SessionDropKeeps, WatchdogKeeps, StepDownKeeps, CrashKeeps
       DEF ElectionStep, alerting
  <2> QED
    BY <2>1, <2>2, AlertStepsKeep DEF Next
<1> QED
  BY <1>1, <1>2, PTL DEF Spec

\* Two replicas run the loop at once only after the lock's session was lost, for
\* any number of replicas.
THEOREM OneLeader == Spec => []OverlapNeedsLostSession
<1>1. ElectionInv => OverlapNeedsLostSession
  BY DEF ElectionInv, OverlapNeedsLostSession
<1> QED
  BY <1>1, ElectionHolds, PTL

\* The lock is held exactly when somebody owns it, and more than once only after
\* a release that failed, for any number of replicas and campaigns.
THEOREM LockAccounted == Spec => []LockDepthIsAccounted
<1>1. ElectionInv => LockDepthIsAccounted
  BY DEF ElectionInv
<1> QED
  BY <1>1, ElectionHolds, PTL

-----------------------------------------------------------------------------
(* The page.                                                               *)

Sends == [by: Replicas, attempt: {UnknownAttempt} \cup 1..alertMaxAttempts,
          episode: 0..MaxClears, pc: {"send", "stamp"}]

PageType ==
  /\ run \in {"running", "success", "failed"}
  /\ alert \in [delivered: BOOLEAN, attempts: 0..alertMaxAttempts, backoff: BOOLEAN]
  /\ sends \subseteq Sends
  /\ episode \in 0..MaxClears
  /\ pages \in [0..MaxClears -> Nat]
  /\ dropped \in BOOLEAN

\* An episode has at most one send, which has not paged yet while it is sending;
\* while the current episode has one, or has been paged, no claim can succeed,
\* and a send of it carries the number the stamp will look for.
PageInv ==
  /\ \A s \in sends : s.episode <= episode
  /\ \A s, u \in sends : s.episode = u.episode => s = u
  /\ \A e \in 0..MaxClears : pages[e] <= 1 /\ (e > episode => pages[e] = 0)
  /\ \A s \in sends : s.pc = "send" => pages[s.episode] = 0
  /\ \A s \in sends : s.episode = episode =>
       s.attempt = alert.attempts /\ (alert.backoff \/ alert.delivered)
  /\ pages[episode] = 1 =>
       alert.delivered \/ \E s \in sends : s.episode = episode

Undisturbed == faults \cap {"store", "crash"} = {}

\* The run keeps its shape through every tick, send, stamp, clear and crash.
LEMMA PageTypeKept ==
  ASSUME PageType, ElectionInv, [Next]_vars
  PROVE  PageType'
<1>1. alertMaxAttempts \in Nat /\ MaxClears \in Nat
  BY AlertAssumption
<1>2. CASE UNCHANGED <<run, alert, sends, episode, pages, dropped>>
  BY <1>2 DEF PageType
<1>3. CASE ElectionStep
  BY <1>2, <1>3 DEF ElectionStep, alerting, history, Crash, PageType
<1>4. ASSUME NEW r \in Replicas, TickFinalizes(r)
      PROVE  PageType'
  <2>1. tick[r].saw \in {"success", "failed"}
    BY <1>4 DEF TickFinalizes, ElectionInv, TickType, Idle
  <2> QED
    BY <1>4, <2>1 DEF TickFinalizes, history, PageType
<1>5. ASSUME NEW r \in Replicas, TickClaims(r)
      PROVE  PageType'
  <2>1. UNCHANGED <<run, episode, pages>>
    BY <1>5 DEF TickClaims
  <2>2. ASSUME NEW n \in {UnknownAttempt} \cup 1..alertMaxAttempts, Launch(r, n)
        PROVE  sends' \subseteq Sends /\ dropped' \in BOOLEAN
    <3>1. [by |-> r, attempt |-> n, episode |-> episode, pc |-> "send"] \in Sends
      BY <2>2 DEF Sends, PageType
    <3>2. dropped' \in BOOLEAN
      BY <2>2 DEF Launch
    <3> QED
      BY <2>2, <3>1, <3>2 DEF Launch, PageType
  <2>3. CASE /\ Claimable /\ Launch(r, alert.attempts + 1)
             /\ alert' = [alert EXCEPT !.attempts = @ + 1, !.backoff = TRUE]
    <3>1. alert.attempts \in Nat /\ alert.attempts < alertMaxAttempts
      BY <1>1, <2>3 DEF Claimable, PageType
    <3>2. alert.attempts + 1 \in 1..alertMaxAttempts
      BY <1>1, <3>1
    <3>3. alert' \in [delivered: BOOLEAN, attempts: 0..alertMaxAttempts, backoff: BOOLEAN]
      <4> DEFINE n == alert.attempts + 1
      <4>1. n \in 0..alertMaxAttempts
        BY <1>1, <3>2
      <4>2. alert' = [alert EXCEPT !.attempts = n, !.backoff = TRUE]
        BY <2>3
      <4> HIDE DEF n
      <4> QED
        BY Zenon, <4>1, <4>2 DEF PageType
    <3>4. sends' \subseteq Sends /\ dropped' \in BOOLEAN
      BY <2>2, <2>3, <3>2
    <3> QED
      BY <2>1, <3>3, <3>4 DEF PageType
  <2>4. CASE Launch(r, UnknownAttempt) /\ UNCHANGED alert
    BY <2>1, <2>2, <2>4 DEF PageType
  <2> QED
    BY <1>2, <1>5, <2>1, <2>3, <2>4 DEF TickClaims
<1>6. CASE BackoffElapses
  BY Zenon, <1>6 DEF BackoffElapses, history, PageType
<1>7. ASSUME NEW s \in sends, SendDelivers(s)
      PROVE  PageType'
  <2>1. s \in Sends
    BY DEF PageType
  <2>2. [s EXCEPT !.pc = "stamp"] \in Sends /\ s.episode \in 0..MaxClears
    BY <2>1 DEF Sends
  <2>3. pages' \in [0..MaxClears -> Nat]
    BY <1>7, <2>2 DEF SendDelivers, PageType
  <2> QED
    BY <1>7, <2>2, <2>3 DEF SendDelivers, PageType
<1>8. ASSUME NEW s \in sends, SendFails(s) \/ StampDelivery(s)
      PROVE  PageType'
  <2>1. alert' \in {alert, [alert EXCEPT !.delivered = TRUE, !.backoff = FALSE]}
    BY <1>8 DEF SendFails, StampDelivery
  <2>2. alert' \in [delivered: BOOLEAN, attempts: 0..alertMaxAttempts, backoff: BOOLEAN]
    BY Zenon, <2>1 DEF PageType
  <2> QED
    BY <1>8, <2>2 DEF SendFails, StampDelivery, history, PageType
<1>9. CASE ClearRun
  BY <1>1, <1>9 DEF ClearRun, NoAlert, PageType
<1>10. CASE \/ \E v \in {"failed", "success"} : TasksEnd(v)
            \/ \E r \in Replicas : TickReads(r) \/ TickAborts(r)
            \/ UNCHANGED vars
  BY <1>2, <1>10 DEF TasksEnd, TickReads, TickAborts, vars, alerting, history
<1> QED
  BY <1>3, <1>4, <1>5, <1>6, <1>7, <1>8, <1>9, <1>10 DEF Next, AlertStep

\* What a step may leave unchanged without touching PageInv.
LEMMA SamePages ==
  ASSUME PageInv, UNCHANGED <<alert, sends, episode, pages>>
  PROVE  PageInv'
BY DEF PageInv

\* A claim succeeds only when nothing of the episode is out, and launches at
\* most one send.
LEMMA ClaimPagesOnce ==
  ASSUME PageType, PageInv, NEW r \in Replicas, TickClaims(r), Undisturbed'
  PROVE  PageInv'
<1>1. UNCHANGED <<episode, pages>>
  BY DEF TickClaims
<1>2. ~Fault("store")
  BY DEF Undisturbed, Fault
<1>3. CASE UNCHANGED <<alert, sends>>
  BY <1>1, <1>3, SamePages
<1>4. CASE /\ Claimable /\ Launch(r, alert.attempts + 1)
           /\ alert' = [alert EXCEPT !.attempts = @ + 1, !.backoff = TRUE]
  <2>1. alert'.attempts = alert.attempts + 1 /\ alert'.backoff
    BY <1>4 DEF PageType
  <2>2. PICK m : /\ m.episode = episode /\ m.pc = "send" /\ m.attempt = alert.attempts + 1
                 /\ sends' = sends \/ sends' = sends \cup {m}
    <3> DEFINE k == [by |-> r, attempt |-> alert.attempts + 1, episode |-> episode,
                     pc |-> "send"]
    <3>1. k.episode = episode /\ k.pc = "send" /\ k.attempt = alert.attempts + 1
      OBVIOUS
    <3>2. sends' = sends \/ sends' = sends \cup {k}
      BY Zenon, <1>4 DEF Launch
    <3> QED
      BY Zenon, <3>1, <3>2
  <2>3. \A s \in sends : s.episode # episode
    BY <1>4 DEF Claimable, PageInv
  <2>4. episode \in 0..MaxClears /\ pages[episode] \in Nat /\ pages[episode] <= 1
        /\ pages[episode] # 1
    BY <1>4, <2>3 DEF Claimable, PageInv, PageType
  <2>5. pages[episode] = 0 /\ episode <= episode
    BY <2>4, AlertAssumption
  <2>6. \A s \in sends' : s \in sends \/ s = m
    BY <2>2
  <2>7. \A s, u \in sends' : s.episode = u.episode => s = u
    BY <2>2, <2>3, <2>6 DEF PageInv
  <2>8. \A s \in sends' : /\ s.episode <= episode
                          /\ s.pc = "send" => pages[s.episode] = 0
                          /\ s.episode = episode => s.attempt = alert'.attempts
    BY <2>1, <2>2, <2>3, <2>5, <2>6 DEF PageInv
  <2> QED
    BY <1>1, <2>1, <2>4, <2>7, <2>8 DEF PageInv
<1> QED
  BY <1>2, <1>3, <1>4 DEF TickClaims

\* A page goes out for the only send of its episode.
LEMMA DeliveryPagesOnce ==
  ASSUME PageType, PageInv, NEW s \in sends, SendDelivers(s)
  PROVE  PageInv'
<1>1. s \in Sends /\ s.pc = "send" /\ s.episode \in 0..MaxClears /\ s.episode \in Nat
  BY AlertAssumption DEF PageType, Sends, SendDelivers
<1>2. PICK m : /\ m.episode = s.episode /\ m.pc = "stamp" /\ m.attempt = s.attempt
               /\ sends' = (sends \ {s}) \cup {m}
  <2> DEFINE k == [s EXCEPT !.pc = "stamp"]
  <2>1. k.episode = s.episode /\ k.pc = "stamp" /\ k.attempt = s.attempt
    BY <1>1 DEF Sends
  <2>2. sends' = (sends \ {s}) \cup {k}
    BY DEF SendDelivers
  <2> QED
    BY Zenon, <2>1, <2>2
<1>3. UNCHANGED <<alert, episode>>
  BY DEF SendDelivers
<1>4. pages[s.episode] = 0 /\ s.episode <= episode /\ episode \in Nat
  BY <1>1, AlertAssumption DEF PageInv, PageType
<1>5. /\ \A e \in 0..MaxClears : e # s.episode => pages'[e] = pages[e]
      /\ pages'[s.episode] = 1
  <2>1. pages' = [pages EXCEPT ![s.episode] = pages[s.episode] + 1]
    BY DEF SendDelivers
  <2>2. 0 + 1 = 1
    OBVIOUS
  <2> QED
    BY <1>1, <1>4, <2>1, <2>2 DEF PageType
<1>6. \A u \in sends' : (u \in sends /\ u # s /\ u.episode # s.episode) \/ u = m
  BY <1>2 DEF PageInv
<1>7. \A u \in sends : u.episode \in 0..MaxClears
  BY DEF PageType, Sends
<1>8. \A e \in 0..MaxClears : pages'[e] <= 1 /\ (e > episode => pages'[e] = 0)
  <2> SUFFICES ASSUME NEW e \in 0..MaxClears
               PROVE  pages'[e] <= 1 /\ (e > episode => pages'[e] = 0)
    OBVIOUS
  <2>1. CASE e = s.episode
    <3>1. ~(e > episode)
      BY <1>1, <1>4, <2>1
    <3> QED
      BY <1>5, <2>1, <3>1
  <2>2. CASE e # s.episode
    BY <1>5, <2>2 DEF PageInv
  <2> QED
    BY <2>1, <2>2
<1>9. \A u, v \in sends' : u.episode = v.episode => u = v
  BY <1>2, <1>6 DEF PageInv
<1>10. \A u \in sends' : /\ u.episode <= episode
                         /\ u.pc = "send" => pages'[u.episode] = 0
                         /\ u.episode = episode =>
                              u.attempt = alert.attempts /\ (alert.backoff \/ alert.delivered)
  BY <1>2, <1>4, <1>5, <1>6, <1>7 DEF PageInv
<1>11. pages'[episode] = 1 => alert.delivered \/ \E u \in sends' : u.episode = episode
  <2>1. CASE s.episode = episode
    BY <1>2, <2>1
  <2>2. CASE s.episode # episode
    <3>1. episode \in 0..MaxClears
      BY DEF PageType
    <3>2. pages'[episode] = pages[episode]
      BY <1>5, <2>2, <3>1
    <3>3. \A u \in sends : u.episode = episode => u \in sends'
      BY <1>2, <2>2
    <3> QED
      BY <3>2, <3>3 DEF PageInv
  <2> QED
    BY <2>1, <2>2
<1> QED
  BY <1>3, <1>8, <1>9, <1>10, <1>11 DEF PageInv

\* A send that ends, stamped or not, leaves its episode closed if it paged.
LEMMA EndOfSendKeeps ==
  ASSUME PageType, PageInv, Undisturbed', NEW s \in sends, SendFails(s) \/ StampDelivery(s)
  PROVE  PageInv'
<1>1. sends' = sends \ {s} /\ UNCHANGED <<episode, pages>>
  BY DEF SendFails, StampDelivery, history
<1>2. ~Fault("store")
  BY DEF Undisturbed, Fault
<1>3. episode \in 0..MaxClears
  BY DEF PageType
<1>4. /\ alert'.attempts = alert.attempts
      /\ alert.backoff \/ alert.delivered => alert'.backoff \/ alert'.delivered
      /\ alert.delivered => alert'.delivered
      /\ StampDelivery(s) /\ alert.attempts = s.attempt => alert'.delivered
  <2>1. CASE alert' = alert /\ ~(StampDelivery(s) /\ alert.attempts = s.attempt)
    BY <2>1
  <2>2. CASE alert' = [alert EXCEPT !.delivered = TRUE, !.backoff = FALSE]
    BY <2>2 DEF PageType
  <2> QED
    BY <1>2, <2>1, <2>2 DEF SendFails, StampDelivery
<1>5. pages[episode] = 1 => alert'.delivered \/ \E u \in sends' : u.episode = episode
  <2>1. CASE s.episode # episode
    BY <1>1, <1>4, <2>1 DEF PageInv
  <2>2. CASE s.episode = episode /\ SendFails(s)
    BY <2>2 DEF SendFails, PageInv
  <2>3. CASE s.episode = episode /\ StampDelivery(s)
    BY <1>4, <2>3 DEF PageInv
  <2> QED
    BY <2>1, <2>2, <2>3
<1> QED
  BY <1>1, <1>4, <1>5 DEF PageInv

\* A clear opens an episode that nothing has been sent for.
LEMMA ClearOpensEpisode ==
  ASSUME PageType, PageInv, ClearRun
  PROVE  PageInv'
<1>1. /\ episode' = episode + 1 /\ sends' = sends /\ pages' = pages
      /\ episode \in Nat /\ episode + 1 \in 0..MaxClears
  BY AlertAssumption DEF ClearRun, PageType
<1>2. \A s \in sends : s.episode \in Nat /\ s.episode <= episode
  BY AlertAssumption DEF PageType, Sends, PageInv
<1>3. \A s \in sends : s.episode <= episode + 1 /\ s.episode # episode + 1
  BY <1>1, <1>2
<1>4. pages[episode + 1] = 0
  BY <1>1 DEF PageInv
<1>5. \A e \in 0..MaxClears : e > episode + 1 => e > episode
  BY <1>1
<1> QED
  BY <1>1, <1>3, <1>4, <1>5 DEF PageInv

\* Without a store error or a crash every step keeps PageInv.
LEMMA EveryStepKeepsPages ==
  ASSUME ElectionInv, PageType, Undisturbed => PageInv, [Next]_vars
  PROVE  Undisturbed' => PageInv'
<1> SUFFICES ASSUME Undisturbed'
             PROVE  PageInv'
  OBVIOUS
<1>1. faults \subseteq faults'
  BY DEF Next, ElectionStep, AlertStep, SessionDrops, TryAcquire, CheckLock, CheckFails,
         LoopReturns, StepDown, Crash, ProcessDies, TasksEnd, TickReads, TickFinalizes,
         TickClaims, TickAborts, BackoffElapses, SendDelivers, SendFails, StampDelivery,
         ClearRun, Fault, vars
<1>2. PageInv
  BY <1>1 DEF Undisturbed
<1>3. CASE UNCHANGED <<alert, sends, episode, pages>>
  BY <1>2, <1>3, SamePages
<1>4. ASSUME NEW r \in Replicas, Crash(r)
      PROVE  FALSE
  BY <1>4 DEF Crash, ProcessDies, Fault, Undisturbed
<1>5. CASE ElectionStep
  BY <1>3, <1>4, <1>5 DEF ElectionStep, alerting, history
<1>6. CASE BackoffElapses
  <2>1. /\ alert'.delivered = alert.delivered /\ alert'.attempts = alert.attempts
        /\ UNCHANGED <<sends, episode, pages>> /\ \A s \in sends : s.episode # episode
    BY <1>6 DEF BackoffElapses, history, PageType
  <2> QED
    BY <1>2, <2>1 DEF PageInv
<1>7. CASE \/ \E v \in {"failed", "success"} : TasksEnd(v)
           \/ \E r \in Replicas : TickReads(r) \/ TickFinalizes(r) \/ TickAborts(r)
           \/ UNCHANGED vars
  BY <1>3, <1>7 DEF TasksEnd, TickReads, TickFinalizes, TickAborts, vars, alerting, history
<1>8. CASE \E r \in Replicas : TickClaims(r)
  BY <1>2, <1>8, ClaimPagesOnce
<1>9. CASE \E s \in sends : SendDelivers(s) \/ SendFails(s) \/ StampDelivery(s)
  BY <1>2, <1>9, DeliveryPagesOnce, EndOfSendKeeps
<1>10. CASE ClearRun
  BY <1>2, <1>10, ClearOpensEpisode
<1> QED
  BY <1>5, <1>6, <1>7, <1>8, <1>9, <1>10 DEF Next, AlertStep

\* The run, its alert columns and what is in flight keep their types.
LEMMA PageTypeHolds == Spec => []PageType
<1>1. Init => PageType
  <2>1. 0 \in 0..alertMaxAttempts /\ 0 \in 0..MaxClears
    BY AlertAssumption
  <2>2. NoAlert \in [delivered: BOOLEAN, attempts: 0..alertMaxAttempts, backoff: BOOLEAN]
    BY <2>1 DEF NoAlert
  <2>3. ASSUME Init
        PROVE  /\ run \in {"running", "success", "failed"} /\ episode \in 0..MaxClears
               /\ pages \in [0..MaxClears -> Nat] /\ sends \subseteq Sends
    BY <2>1, <2>3 DEF Init
  <2>4. ASSUME Init
        PROVE  alert = NoAlert /\ dropped \in BOOLEAN
    BY Zenon, <2>4 DEF Init
  <2> QED
    BY <2>2, <2>3, <2>4 DEF PageType
<1>2. PageType /\ ElectionInv /\ [Next]_vars => PageType'
  BY PageTypeKept
<1> QED
  BY <1>1, <1>2, ElectionHolds, PTL DEF Spec

\* Every reachable state is well typed; in particular no replica counts more
\* failed checks, and no episode more attempts, than the code's limits.
THEOREM AlertTypeCorrect == Spec => []AlertTypeOK
<1>1. ElectionInv /\ PageType => AlertTypeOK
  <2> SUFFICES ASSUME ElectionInv, PageType
               PROVE  AlertTypeOK
    OBVIOUS
  <2>1. tick \in [Replicas -> [pc: {"idle", "finalize", "claim"},
                               saw: {"open", "success", "failed"}]]
    BY DEF ElectionInv, TickType, Idle
  <2> QED
    BY <2>1 DEF ElectionInv, ElectionType, TickType, PageType, Sends, AlertTypeOK
<1> QED
  BY <1>1, ElectionHolds, PageTypeHolds, PTL

\* An episode is paged at most once, however many leaders overlap and however
\* often the run is cleared, unless a store error or a crash hid what was done.
THEOREM PagedOnce == Spec => []OnePagePerEpisode
<1>1. Init => (Undisturbed => PageInv)
  BY AlertAssumption DEF Init, PageInv, NoAlert
<1>2. ElectionInv /\ PageType /\ (Undisturbed => PageInv) /\ [Next]_vars
        => (Undisturbed' => PageInv')
  BY EveryStepKeepsPages
<1>3. (Undisturbed => PageInv) => OnePagePerEpisode
  BY DEF Undisturbed, PageInv, OnePagePerEpisode
<1> QED
  BY <1>1, <1>2, <1>3, ElectionHolds, PageTypeHolds, PTL DEF Spec
=============================================================================
