-------------------------- MODULE MC_CronScheduler --------------------------
(* [Cron] sections for CronScheduler. t1 runs every 40000 s; t2 and t3 are *)
(* two pairs under one "01:30" key; t4 is under "25:10", whose hour both   *)
(* the code and the spec clamp to 23; t5 is under "-5", a period of one    *)
(* second; t6 is under "01:75".                                            *)
EXTENDS CronScheduler, TLC

CONSTANTS t1, t2, t3, t4, t5, t6

Periodic(n) == [colon |-> FALSE, left |-> n, right |-> 0]
Daily(h, m) == [colon |-> TRUE, left |-> h, right |-> m]

MCTasks == {t1, t2, t3, t4, t5}
MCKey == (t1 :> Periodic(40000)) @@ (t2 :> Daily(1, 30)) @@ (t3 :> Daily(1, 30))
         @@ (t4 :> Daily(25, 10)) @@ (t5 :> Periodic(-5)) @@ (t6 :> Daily(1, 75))

(* Midnight, exactly 01:30, and 23:20 (after 23:10, so t4 waits a day).    *)
MCStartTimes == {0, 5400, 84000}

(* Two days and a bit: every daily task fires at least twice.              *)
MCHorizon == 2 * Day + 6000

MCTasksMinuteOutOfRange == {t1, t6}

=============================================================================
