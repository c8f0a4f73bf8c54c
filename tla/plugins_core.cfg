\* Load, cache, typed access, unload and shutdown of plugins.
CONSTANTS
  p1 = p1  p2 = p2  p3 = p3  p4 = p4  p5 = p5  p6 = p6  p7 = p7  p8 = p8
  None = None
  Names <- MCNames
  Kerneloops = p1
  KerneloopsFamily = {p1, p2}
  EnabledConfs <- MCEnabled
  Lib <- MCLib
  MaxInstances = 4
SPECIFICATION Spec
INVARIANT TypeOK
INVARIANT MapsAgree
INVARIANT InitedAreRegistered
PROPERTY LoadedInstanceStable
\* The daemon process ends after UnLoadPlugins (or dies in LOADSYM).
CHECK_DEADLOCK FALSE
