------------------------------ MODULE AbrtDaemon ------------------------------
(***************************************************************************)
(* The abrt daemon's control plane (src/src/Daemon/Daemon.cpp): main()'s   *)
(* start-up stages, the startup scan FindNewDumps, the glib main loop      *)
(* run_main_loop, the inotify handler with its quota eviction (GetDirSize) *)
(* and the handling of each triage outcome, and the signal self-pipe.      *)
(*                                                                         *)
(* Crash hooks are separate processes: they create dump directories under  *)
(* the dump root at any time, which is the concurrency that matters here.  *)
(* Termination signals arrive at any time. Both are environment actions.   *)
(* The daemon itself is one thread: one of its steps runs at a time, and   *)
(* it is split into steps only where a crash hook or a signal can act in   *)
(* between (each pass of the quota loop re-reads the directory).           *)
(*                                                                         *)
(* SaveDebugDump and DeleteDebugDumpDir live outside src/ (MiddleWare and  *)
(* abrtlib) and are modelled from the spec (section 4.3).                  *)
(***************************************************************************)
EXTENDS Integers, Sequences, FiniteSets
LOCAL INSTANCE Functions

CONSTANTS
  Dirs,                 \* names of the dump directories crash hooks create
  Hashes,               \* crash identities (UUIDs) a dump's content can have
  Corrupt,              \* content SaveDebugDump rejects (blacklisted, bad package, ...)
  NoContent,            \* content of a directory not created yet
  NoDir,                \* the empty worst_dir / a hash with no database row
  Size,                 \* [Dirs -> Nat]: size of a dump directory in MiB
  Age,                  \* [Dirs -> Nat]: whole minutes since its last change
  MaxCrashReportsSize,  \* g_settings_nMaxCrashReportsSize in MiB; 0 = no quota
  QueueMax,             \* capacity of the kernel's inotify event queue
  MaxSignals,           \* bound on the termination signals delivered
  ReadCanFail,          \* g_io_channel_read on the inotify fd may fail
  Undeletable,          \* directories DeleteDebugDumpDir fails to remove
  Exceptions            \* CABRTException types SaveDebugDump may throw

ASSUME /\ Size \in [Dirs -> Nat] /\ Age \in [Dirs -> Nat]
       /\ MaxCrashReportsSize \in Nat /\ QueueMax \in Nat /\ MaxSignals \in Nat
       /\ ReadCanFail \in BOOLEAN /\ Undeletable \subseteq Dirs
       /\ NoDir \notin Dirs /\ {Corrupt, NoContent} \cap Hashes = {}
       /\ Exceptions \subseteq {"EXCEP_PLUGIN", "EXCEP_FATAL"}

VARIABLES
  phase,        \* stage of main(): start, init, prescan, scan, loop, exited
  onDisk,       \* dump directories present under DEBUG_DUMPS_DIR
  content,      \* [Dirs -> crash hash, Corrupt or NoContent]
  inq,          \* the kernel's inotify queue of directory-created events
  watchAlive,   \* the inotify glib source is still attached to the loop
  buf,          \* events read by handle_inotify_cb, not yet processed
  hpc,          \* where handle_inotify_cb is: idle, quota or triage
  cur,          \* the directory the handler is processing (name)
  worst,        \* worst_dir of the quota loop
  scanList,     \* FindNewDumps' dirs vector: directories still to triage
  db,           \* crash database: [Hashes -> directory of the row, or NoDir]
  ready,        \* sources g_poll found ready and not yet dispatched
  pipe,         \* bytes in the signal pipe
  pipeEnabled,  \* s_signal_pipe_write >= 0
  exiting,      \* s_exiting
  signals,      \* termination signals delivered so far
  triaged,      \* history: directories SaveDebugDump was called on
  evicted,      \* history: directories deleted by the quota loop
  notified      \* directories a Crash bus signal was emitted for

vars == <<phase, onDisk, content, inq, watchAlive, buf, hpc, cur, worst,
          scanList, db, ready, pipe, pipeEnabled, exiting, signals,
          triaged, evicted, notified>>

Outcomes == {"OK", "IN_DB", "REPORTED", "OCCURRED", "CORRUPTED", "FILE_ERROR"}

-----------------------------------------------------------------------------
(* Helpers translated from the code.                                       *)

(* Mutant: the watch installed only after FindNewDumps.                    *)
WatchInstalledAfterScan == phase \in {"loop", "exited"}

(* inotify_add_watch(IN_CREATE) has been done: the kernel queues events.   *)
WatchInstalled == phase # "start"

(* GetDirSize(DEBUG_DUMPS_DIR) / (1024*1024): the root's size in MiB.      *)
TotalSize == SumFunctionOnSet(Size, onDisk)

(* GetDirSize's weighted size of a subdirectory: its size in KiB, times   *)
(* its age in minutes when that age is positive.                          *)
Weight(d) == Size[d] * 1024 * (IF Age[d] > 0 THEN Age[d] ELSE 1)

(* The subdirectories GetDirSize may report as worst_dir: every one but   *)
(* the excluded name whose weight beats maxsz = 0; readdir order decides  *)
(* between equal weights.                                                  *)
WorstCandidates(excluded) ==
  LET C == {x \in onDisk \ {excluded} : Weight(x) > 0}
  IN  {x \in C : \A y \in C : Weight(y) <= Weight(x)}

(* Mutant: worst_dir not reset after the deletion.                          *)
WorstAfterDeleteKept(w) == w

(* worst_dir after a deletion of the quota loop.                           *)
WorstAfterDelete(w) == NoDir

(* SaveDebugDump's classification (spec 4.3): an unreadable directory is   *)
(* FILE_ERROR, rejected content CORRUPTED, a row naming this very          *)
(* directory IN_DB, a row of the same crash elsewhere OCCURRED, else OK.   *)
SaveDebugDump(d) ==
  CASE d \notin onDisk          -> "FILE_ERROR"
    [] content[d] = Corrupt     -> "CORRUPTED"
    [] db[content[d]] = d       -> "IN_DB"
    [] db[content[d]] # NoDir   -> "OCCURRED"
    [] OTHER                    -> "OK"

(* The database after SaveDebugDump: an OK crash gets a row.               *)
DbAfterSave(d, r) == IF r = "OK" THEN [db EXCEPT ![content[d]] = d] ELSE db

(* DeleteDebugDumpDir: best effort; a directory holding something that    *)
(* cannot be removed stays, every time.                                    *)
DeleteDebugDumpDir(d) == onDisk' = onDisk \ ({d} \ Undeletable)

(* The buffered events handle_inotify_cb still processes after a          *)
(* CABRTException of type e: EXCEP_FATAL frees the buffer and returns.     *)
BatchAfterThrow(e, b) == IF e = "EXCEP_FATAL" THEN <<>> ELSE b

(* The handler moves to the next buffered event, or returns TRUE.          *)
NextEvent(b) ==
  /\ worst' = NoDir
  /\ IF b = <<>>
     THEN /\ hpc' = "idle" /\ cur' = NoDir /\ buf' = <<>>
     ELSE /\ hpc' = "quota" /\ cur' = Head(b) /\ buf' = Tail(b)

-----------------------------------------------------------------------------
(* Start-up: main().                                                       *)

(* inotify_init + inotify_add_watch on DEBUG_DUMPS_DIR.                    *)
AddWatch ==
  /\ phase = "start"
  /\ phase' = "init"
  /\ UNCHANGED <<onDisk, content, inq, watchAlive, buf, hpc, cur, worst,
                 scanList, db, ready, pipe, pipeEnabled, exiting, signals,
                 triaged, evicted, notified>>

(* Settings, plugins, cron, bus, glib sources, lock and pid files all      *)
(* succeed; then the signal pipe is enabled.                               *)
InitDone ==
  /\ phase = "init"
  /\ phase' = "prescan"
  /\ pipeEnabled' = TRUE
  /\ UNCHANGED <<onDisk, content, inq, watchAlive, buf, hpc, cur, worst,
                 scanList, db, ready, pipe, exiting, signals,
                 triaged, evicted, notified>>

(* One of the initialisation steps throws: cleanup and exit.               *)
InitFail ==
  /\ phase = "init"
  /\ phase' = "exited"
  /\ UNCHANGED <<onDisk, content, inq, watchAlive, buf, hpc, cur, worst,
                 scanList, db, ready, pipe, pipeEnabled, exiting, signals,
                 triaged, evicted, notified>>

(* FindNewDumps: readdir of the dump root into the dirs vector.            *)
StartScan ==
  /\ phase = "prescan"
  /\ phase' = "scan"
  /\ scanList' = onDisk
  /\ UNCHANGED <<onDisk, content, inq, watchAlive, buf, hpc, cur, worst, db,
                 ready, pipe, pipeEnabled, exiting, signals,
                 triaged, evicted, notified>>

(* FindNewDumps: SaveDebugDump one listed directory and act on the result: *)
(* OK runs the actions, IN_DB is kept, every other outcome is deleted. A   *)
(* CABRTException is logged and the scan goes on, except EXCEP_FATAL,      *)
(* which is rethrown to main()'s catch: the daemon cleans up and exits.    *)
ScanTriage(d) ==
  LET r == SaveDebugDump(d) IN
  /\ phase = "scan"
  /\ d \in scanList
  /\ scanList' = scanList \ {d}
  /\ triaged' = triaged \cup {d}
  /\ \/ /\ db' = DbAfterSave(d, r)
        /\ IF r \in {"OK", "IN_DB"} THEN UNCHANGED onDisk ELSE DeleteDebugDumpDir(d)
        /\ UNCHANGED phase
     \/ \E e \in Exceptions :
          /\ phase' = IF e = "EXCEP_FATAL" THEN "exited" ELSE phase
          /\ UNCHANGED <<onDisk, db>>
  /\ UNCHANGED <<content, inq, watchAlive, buf, hpc, cur, worst, ready,
                 pipe, pipeEnabled, exiting, signals, evicted,
                 notified>>

(* FindNewDumps returns; run_main_loop starts.                             *)
ScanDone ==
  /\ phase = "scan"
  /\ scanList = {}
  /\ phase' = "loop"
  /\ UNCHANGED <<onDisk, content, inq, watchAlive, buf, hpc, cur, worst,
                 scanList, db, ready, pipe, pipeEnabled, exiting, signals,
                 triaged, evicted, notified>>

-----------------------------------------------------------------------------
(* run_main_loop: one iteration polls, then dispatches the ready sources   *)
(* one at a time in an unspecified order; s_exiting is read at the top.    *)

Poll ==
  LET r == {s \in {"inotify"} : watchAlive /\ inq # <<>>}
           \cup {s \in {"signal"} : pipe > 0}
  IN /\ phase = "loop"
     /\ ~exiting
     /\ hpc = "idle"
     /\ ready = {}
     /\ r # {}
     /\ ready' = r
     /\ UNCHANGED <<phase, onDisk, content, inq, watchAlive, buf, hpc, cur,
                    worst, scanList, db, pipe, pipeEnabled, exiting, signals,
                    triaged, evicted, notified>>

LoopExit ==
  /\ phase = "loop"
  /\ exiting
  /\ hpc = "idle"
  /\ ready = {}
  /\ phase' = "exited"
  /\ UNCHANGED <<onDisk, content, inq, watchAlive, buf, hpc, cur, worst,
                 scanList, db, ready, pipe, pipeEnabled, exiting, signals,
                 triaged, evicted, notified>>

(* Mutant: handle_signal_cb that forgets to set s_exiting.                  *)
DispatchSignalNoExit ==
  /\ "signal" \in ready
  /\ hpc = "idle"
  /\ ready' = ready \ {"signal"}
  /\ pipe' = pipe - 1
  /\ UNCHANGED <<phase, onDisk, content, inq, watchAlive, buf, hpc, cur, worst,
                 scanList, db, pipeEnabled, exiting, signals,
                 triaged, evicted, notified>>

(* handle_signal_cb: one byte read from the pipe sets s_exiting.           *)
DispatchSignal ==
  /\ "signal" \in ready
  /\ hpc = "idle"
  /\ ready' = ready \ {"signal"}
  /\ pipe' = pipe - 1
  /\ exiting' = TRUE
  /\ UNCHANGED <<phase, onDisk, content, inq, watchAlive, buf, hpc, cur, worst,
                 scanList, db, pipeEnabled, signals, triaged,
                 evicted, notified>>

(* handle_inotify_cb: read the queued events. A read error returns FALSE,  *)
(* and glib then removes the source.                                       *)
DispatchInotify ==
  /\ "inotify" \in ready
  /\ hpc = "idle"
  /\ ready' = ready \ {"inotify"}
  /\ \/ /\ inq' = <<>>
        /\ NextEvent(inq)
        /\ UNCHANGED watchAlive
     \/ /\ ReadCanFail
        /\ watchAlive' = FALSE
        /\ UNCHANGED <<inq, buf, hpc, cur, worst>>
  /\ UNCHANGED <<phase, onDisk, content, scanList, db, pipe, pipeEnabled,
                 exiting, signals, triaged, evicted, notified>>

(* Mutant: the quota loop without its worst_dir != "" test: over quota   *)
(* with no candidate it deletes DEBUG_DUMPS_DIR + "/" + "".                *)
QuotaStepNoWorstCheck ==
  LET W == WorstCandidates(cur)
      over == MaxCrashReportsSize > 0 /\ TotalSize >= MaxCrashReportsSize
  IN /\ hpc = "quota"
     /\ \/ /\ over
           /\ \E w \in (IF W = {} THEN {worst} ELSE W) :
                 /\ DeleteDebugDumpDir(w)
                 /\ evicted' = evicted \cup {w}
                 /\ worst' = WorstAfterDelete(w)
           /\ UNCHANGED hpc
        \/ /\ ~over
           /\ hpc' = "triage"
           /\ UNCHANGED <<onDisk, evicted, worst>>
     /\ UNCHANGED <<phase, content, inq, watchAlive, buf, cur, scanList, db,
                    ready, pipe, pipeEnabled, exiting, signals,
                    triaged, notified>>

(* One pass of the quota loop: GetDirSize excluding the new directory;     *)
(* while over quota with a worst_dir, delete it and reset worst_dir.       *)
QuotaStep ==
  LET W == WorstCandidates(cur)
      over == MaxCrashReportsSize > 0 /\ TotalSize >= MaxCrashReportsSize
  IN /\ hpc = "quota"
     /\ \/ /\ over
           /\ \E w \in (IF W = {} THEN {worst} ELSE W) :
                 /\ w # NoDir
                 /\ DeleteDebugDumpDir(w)
                 /\ evicted' = evicted \cup {w}
                 /\ worst' = WorstAfterDelete(w)
           /\ UNCHANGED hpc
        \/ /\ ~over \/ (W = {} /\ worst = NoDir)
           /\ hpc' = "triage"
           /\ UNCHANGED <<onDisk, evicted, worst>>
     /\ UNCHANGED <<phase, content, inq, watchAlive, buf, cur, scanList, db,
                    ready, pipe, pipeEnabled, exiting, signals,
                    triaged, notified>>

(* SaveDebugDump the new directory and act on the result: OK runs the     *)
(* actions and emits Crash, REPORTED/OCCURRED emit Crash and keep the      *)
(* directory, every other outcome (IN_DB included) deletes it. A           *)
(* CABRTException goes to the client as a warning and the handler moves   *)
(* on, except EXCEP_FATAL: the handler frees the buffer and returns -1,    *)
(* which glib reads as TRUE (keep the source); the events after it in the  *)
(* buffer are gone.                                                        *)
TriageEvent ==
  LET r == SaveDebugDump(cur) IN
  /\ hpc = "triage"
  /\ triaged' = triaged \cup {cur}
  /\ \/ /\ db' = DbAfterSave(cur, r)
        /\ IF r \in {"OK", "REPORTED", "OCCURRED"}
           THEN /\ notified' = notified \cup {cur}
                /\ UNCHANGED onDisk
           ELSE /\ DeleteDebugDumpDir(cur)
                /\ UNCHANGED notified
        /\ NextEvent(buf)
     \/ \E e \in Exceptions :
          /\ NextEvent(BatchAfterThrow(e, buf))
          /\ UNCHANGED <<onDisk, db, notified>>
  /\ UNCHANGED <<phase, content, inq, watchAlive, scanList, ready, pipe,
                 pipeEnabled, exiting, signals, evicted>>

-----------------------------------------------------------------------------
(* Environment.                                                            *)

(* A crash hook creates dump directory d with content c. The kernel       *)
(* queues an event once the watch exists, and drops it when the queue is  *)
(* full.                                                                   *)
CreateDump(d, c) ==
  /\ phase # "exited"
  /\ content[d] = NoContent
  /\ content' = [content EXCEPT ![d] = c]
  /\ onDisk' = onDisk \cup {d}
  /\ inq' = IF WatchInstalled /\ Len(inq) < QueueMax THEN Append(inq, d) ELSE inq
  /\ UNCHANGED <<phase, watchAlive, buf, hpc, cur, worst, scanList, db, ready,
                 pipe, pipeEnabled, exiting, signals, triaged,
                 evicted, notified>>

(* SIGTERM or SIGINT: handle_fatal_signal writes a byte to the pipe only   *)
(* once s_signal_pipe_write has been set.                                  *)
TermSignal ==
  /\ phase # "exited"
  /\ signals < MaxSignals
  /\ signals' = signals + 1
  /\ pipe' = IF pipeEnabled THEN pipe + 1 ELSE pipe
  /\ UNCHANGED <<phase, onDisk, content, inq, watchAlive, buf, hpc, cur, worst,
                 scanList, db, ready, pipeEnabled, exiting, triaged, evicted,
                 notified>>

-----------------------------------------------------------------------------
Init ==
  /\ phase = "start"
  /\ onDisk = {}
  /\ content = [d \in Dirs |-> NoContent]
  /\ inq = <<>>
  /\ watchAlive = TRUE
  /\ buf = <<>>
  /\ hpc = "idle"
  /\ cur = NoDir
  /\ worst = NoDir
  /\ scanList = {}
  /\ db = [h \in Hashes |-> NoDir]
  /\ ready = {}
  /\ pipe = 0
  /\ pipeEnabled = FALSE
  /\ exiting = FALSE
  /\ signals = 0
  /\ triaged = {}
  /\ evicted = {}
  /\ notified = {}

DaemonNext ==
  \/ AddWatch \/ InitDone \/ InitFail \/ StartScan
  \/ \E d \in Dirs : ScanTriage(d)
  \/ ScanDone \/ Poll \/ LoopExit \/ DispatchSignal \/ DispatchInotify
  \/ QuotaStep \/ TriageEvent

EnvNext ==
  \/ \E d \in Dirs, c \in Hashes \cup {Corrupt} : CreateDump(d, c)
  \/ TermSignal

Next == DaemonNext \/ EnvNext

(* The daemon is one thread that always runs when it has something to do; *)
(* crash hooks and signals need not happen.                                *)
Spec == Init /\ [][Next]_vars /\ WF_vars(DaemonNext)

-----------------------------------------------------------------------------
(* Properties.                                                             *)

TypeOK ==
  /\ phase \in {"start", "init", "prescan", "scan", "loop", "exited"}
  /\ onDisk \subseteq Dirs
  /\ content \in [Dirs -> Hashes \cup {Corrupt, NoContent}]
  /\ inq \in Seq(Dirs) /\ buf \in Seq(Dirs)
  /\ hpc \in {"idle", "quota", "triage"}
  /\ cur \in Dirs \cup {NoDir} /\ worst \in Dirs \cup {NoDir}
  /\ scanList \subseteq Dirs
  /\ db \in [Hashes -> Dirs \cup {NoDir}]
  /\ ready \subseteq {"inotify", "signal"}
  /\ pipe \in 0..MaxSignals /\ signals \in 0..MaxSignals
  /\ {pipeEnabled, exiting, watchAlive} \subseteq BOOLEAN
  /\ triaged \subseteq Dirs /\ evicted \subseteq Dirs /\ notified \subseteq Dirs

(* Every dump directory a crash hook creates is eventually triaged by the *)
(* startup scan or the inotify handler (or deleted, or the daemon exits): *)
(* the handoff from FindNewDumps to the watch loses no directory.          *)
NoDumpLeftBehind ==
  \A d \in Dirs :
    (d \in onDisk) ~> (d \in triaged \/ d \notin onDisk \/ phase = "exited")

(* The quota loop of handle_inotify_cb ends for every event: it reaches   *)
(* the triage of the new directory.                                        *)
QuotaLoopTerminates ==
  \A d \in Dirs : (hpc = "quota" /\ cur = d) ~> (hpc = "triage" /\ cur = d)

(* A byte in the signal pipe (SIGTERM/SIGINT after initialisation) ends   *)
(* the main loop and the daemon.                                           *)
PipedSignalExits == (pipe > 0) ~> (phase = "exited")

(* The crash database never names a directory that triage deleted: only   *)
(* quota eviction may remove a directory that has a row (spec 4.3/8).      *)
DbRowsBackedByDisk ==
  \A h \in Hashes : db[h] # NoDir => db[h] \in onDisk \cup evicted
=============================================================================
