\* The inotify handler deletes an IN_DB directory that the startup scan saved.
CONSTANTS
  d1 = d1  d2 = d2  d3 = d3  h1 = h1  h2 = h2
  Corrupt = Corrupt  NoContent = NoContent  NoDir = NoDir
  Dirs <- MCDirs
  Hashes <- MCHashes
  Size <- MCSize
  Age <- MCAge
  MaxCrashReportsSize <- MCQuota
  QueueMax = 3
  MaxSignals = 0
  ReadCanFail = FALSE
  Undeletable = {}
  Exceptions = {}
SPECIFICATION Spec
INVARIANT DbRowsBackedByDisk
CHECK_DEADLOCK FALSE
