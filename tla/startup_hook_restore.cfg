\* A start that overlaps the stop of the running daemon.
CONSTANTS
  a1 = a1  a2 = a2  a3 = a3
  Stale = Stale  NoFile = NoFile  NoProc = NoProc
  Instances <- MCInstances
SPECIFICATION Spec
SYMMETRY MCSymmetry
INVARIANT HookInstalledWhileServing
CHECK_DEADLOCK FALSE
