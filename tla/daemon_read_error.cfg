\* A failed read of the inotify fd removes the watch source for good.
CONSTANTS
  d1 = d1  d2 = d2  d3 = d3  h1 = h1  h2 = h2
  Corrupt = Corrupt  NoContent = NoContent  NoDir = NoDir
  Dirs <- MCDirs
  Hashes <- MCHashes
  Size <- MCSize
  Age <- MCAge
  MaxCrashReportsSize <- MCQuota
  QueueMax = 3
  MaxSignals = 0
  ReadCanFail = TRUE
  Undeletable = {}
  Exceptions = {}
SPECIFICATION Spec
PROPERTY NoDumpLeftBehind
CHECK_DEADLOCK FALSE
