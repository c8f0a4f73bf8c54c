\* Core run: start-up, scan/watch handoff, quota eviction, triage, signals.
CONSTANTS
  d1 = d1  d2 = d2  d3 = d3  h1 = h1  h2 = h2
  Corrupt = Corrupt  NoContent = NoContent  NoDir = NoDir
  Dirs <- MCDirs
  Hashes <- MCHashes
  Size <- MCSize
  Age <- MCAge
  MaxCrashReportsSize <- MCQuota
  QueueMax = 3
  MaxSignals = 1
  ReadCanFail = FALSE
  Undeletable = {}
  Exceptions = {"EXCEP_PLUGIN"}
SPECIFICATION Spec
INVARIANT TypeOK
PROPERTY QuotaLoopTerminates
PROPERTY NoDumpLeftBehind
PROPERTY PipedSignalExits
\* The daemon blocks in g_poll when no crash or signal comes: it may stop.
CHECK_DEADLOCK FALSE
