---------------------------- MODULE TriggerRules ----------------------------
(***************************************************************************)
(* Task states and the trigger-rule evaluation of the scheduler            *)
(* (internal/domain/state.go, internal/scheduler/state_machine.go).        *)
(*                                                                         *)
(* A trigger rule looks at the states of a task's upstreams and decides    *)
(* whether the task waits, is scheduled, is skipped, or inherits an        *)
(* upstream failure.  The code tallies the upstream states into counters   *)
(* and compares the counters with zero and with the total; the rules only  *)
(* tell "some", "none" and "all" apart, which is how they are written here.*)
(***************************************************************************)

\* The task_state enum.
TaskState ==
  {"none", "scheduled", "queued", "running", "success", "failed", "skipped",
   "upstream_failed", "up_for_retry", "up_for_reschedule"}

TerminalStates == {"success", "failed", "skipped", "upstream_failed"}

IsTerminal(s) == s \in TerminalStates

TriggerRule ==
  {"all_success", "all_failed", "all_done", "one_success", "one_failed"}

TriggerDecision == {"wait", "schedule", "skip", "upstream_failed"}

-----------------------------------------------------------------------------
(* ups is a set of upstream tasks and st[u] the state of upstream u.       *)

AnyUpstream(ups, st, s) == \E u \in ups : st[u] = s

\* upstreamCounts.active > 0: every state countUpstreams does not name.
AnyActive(ups, st) == \E u \in ups : ~IsTerminal(st[u])

evalAllSuccess(ups, st) ==
  IF AnyUpstream(ups, st, "failed") THEN "upstream_failed"
  ELSE IF AnyUpstream(ups, st, "skipped") THEN "skip"
  ELSE IF AnyActive(ups, st) THEN "wait"
  ELSE "schedule"

evalAllFailed(ups, st) ==
  IF AnyActive(ups, st) THEN "wait"
  ELSE IF \A u \in ups : st[u] = "failed" THEN "schedule"
  ELSE "skip"

evalAllDone(ups, st) ==
  IF AnyActive(ups, st) THEN "wait" ELSE "schedule"

\* Mutant: the rule fires without waiting for the other upstreams.
evalOneOf_atOnce(ups, st, hit) ==
  IF AnyUpstream(ups, st, hit) THEN "schedule"
  ELSE IF AnyActive(ups, st) THEN "wait"
  ELSE "skip"

\* one_success and one_failed: hit is the state the rule is looking for.
evalOneOf(ups, st, hit) ==
  IF AnyActive(ups, st) THEN "wait"
  ELSE IF AnyUpstream(ups, st, hit) THEN "schedule"
  ELSE "skip"

EvaluateTriggerRule(rule, ups, st) ==
  IF ups = {} THEN "schedule"
  ELSE IF rule # "all_done" /\ AnyUpstream(ups, st, "upstream_failed")
    THEN "upstream_failed"
  ELSE CASE rule = "all_success" -> evalAllSuccess(ups, st)
         [] rule = "all_failed"  -> evalAllFailed(ups, st)
         [] rule = "all_done"    -> evalAllDone(ups, st)
         [] rule = "one_success" -> evalOneOf(ups, st, "success")
         [] rule = "one_failed"  -> evalOneOf(ups, st, "failed")
         [] OTHER                -> "wait"
=============================================================================
