\* A start that overlaps the stop of the running daemon, and a third start
\* after it.
CONSTANTS
  a1 = a1  a2 = a2  a3 = a3
  Stale = Stale  NoFile = NoFile  NoProc = NoProc
  Instances <- MCInstances
SPECIFICATION Spec
SYMMETRY MCSymmetry
INVARIANT AtMostOneServes
CHECK_DEADLOCK FALSE
