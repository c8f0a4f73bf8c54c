-------------------------- MODULE MC_DaemonStartup --------------------------
(* abrtd invocations as model values. They are interchangeable: nothing  *)
(* in DaemonStartup orders or names a particular instance, so a run that  *)
(* checks safety only uses the three as a symmetry set. A run with a      *)
(* liveness property cannot use symmetry and takes two.                   *)
EXTENDS DaemonStartup, TLC

CONSTANTS a1, a2, a3

MCInstances == {a1, a2, a3}
MCSymmetry == Permutations(MCInstances)
MCPair == {a1, a2}
=============================================================================
