\* Periodic (one of them clamped to 1 s) and daily [Cron] keys from three start times over two days.
CONSTANTS
  t1 = t1  t2 = t2  t3 = t3  t4 = t4  t5 = t5  t6 = t6
  Tasks <- MCTasks
  Key <- MCKey
  StartTimes <- MCStartTimes
  Horizon <- MCHorizon
SPECIFICATION Spec
INVARIANT TypeOK
INVARIANT FiringsMatchSchedule
INVARIANT OneChainPerTask
\* The explored wall-clock time ends at Horizon.
CHECK_DEADLOCK FALSE
