------------------------------ MODULE MCTicks ------------------------------
(***************************************************************************)
(* Two cron DAGs that share a pool of two slots: "etl" backfills from slot *)
(* 1, up to two runs at once, one task each and one task at a time;        *)
(* "report" keeps to the latest slot from slot 2 on, one run at a time     *)
(* with two tasks.                                                         *)
(***************************************************************************)
EXTENDS Ticks

TwoDags == <<"etl", "report">>

SharedPool == [etl |-> <<"small">>, report |-> <<"small", "small">>]

BothCron == [etl |-> "cron", report |-> "cron"]

EtlBackfills == [etl |-> TRUE, report |-> FALSE]

Starts == [etl |-> 1, report |-> 2]

RunCaps == [etl |-> 2, report |-> 1]

TaskCaps == [etl |-> 1, report |-> 0]

TwoSmallSlots == [small |-> 2]
=============================================================================
