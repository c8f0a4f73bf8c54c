\* Two instances started, signalled, stopped and killed in any order,
\* with or without the files of an earlier killed daemon. No symmetry:
\* the run checks a liveness property.
CONSTANTS
  a1 = a1  a2 = a2  a3 = a3
  Stale = Stale  NoFile = NoFile  NoProc = NoProc
  Instances <- MCPair
SPECIFICATION Spec
INVARIANT TypeOK
INVARIANT ParentOkMeansServed
PROPERTY SignalledDaemonExits
\* Once every instance has exited the machine has no abrtd left: it stops.
CHECK_DEADLOCK FALSE
