\* An "HH:MM" key whose minutes are out of range.
CONSTANTS
  t1 = t1  t2 = t2  t3 = t3  t4 = t4  t5 = t5  t6 = t6
  Tasks <- MCTasksMinuteOutOfRange
  Key <- MCKey
  StartTimes <- MCStartTimes
  Horizon <- MCHorizon
SPECIFICATION Spec
INVARIANT FiringsMatchSchedule
\* The explored wall-clock time ends at Horizon.
CHECK_DEADLOCK FALSE
