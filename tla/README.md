# TLA+ models of the abrt crash-monitoring daemon

This directory holds TLA+ models of the abrt daemon (`abrtd`) and of the
helpers around it, written from the C++ sources under `src/`, with the TLC
configurations that check them.

## 1. Inventory

### Components

| Component | Source | State it keeps | Operations |
|---|---|---|---|
| Reactor (main loop, signals, startup and shutdown) | `src/src/Daemon/Daemon.cpp` `main`, `run_main_loop`, `handle_fatal_signal`, `handle_signal_cb` | `s_exiting`, `s_sig_caught`, `s_signal_pipe` (self-pipe), `s_signal_pipe_write` (pipe enabled), the glib sources (inotify, signal pipe, bus, timers), init stage | install watch, initialise, enable the pipe, startup scan, poll/dispatch iteration, signal to pipe, pipe to exit flag, cleanup |
| Dump watcher and quota eviction | `Daemon.cpp` `handle_inotify_cb`, `GetDirSize` | the kernel inotify queue, the handler's event buffer, `worst_dir`; on disk: the set of dump directories with their sizes and ages | read a batch of create events, evict the heaviest other directory while over quota, triage the new directory and act on the outcome |
| Startup scan | `Daemon.cpp` `FindNewDumps` | the `dirs` snapshot of the dump root | triage every pre-existing directory, keep or delete it |
| Triage (`SaveDebugDump`) and crash database | not under `src/` (MiddleWare); the spec §4.3 | crash database rows: crash hash to directory, count, reported flag | classify a directory as OK / IN_DB / REPORTED / OCCURRED / error |
| Package data enrichment | `src/src/daemon/abrt-action-save-package-data.cpp` | the dump directory's `package`, `component`, `description`, `hostname` fields; the dump-directory lock while it is open | blacklist checks, package lookup, interpreter script substitution, GPG check, save fields; `get_argv1_if_full_path` |
| Scheduler (cron) | `Daemon.cpp` `SetUpCron`, `cron_activation_*_cb` | glib timers carrying `cron_callback_data_t` (plugin, args, period) | parse a time spec, register periodic or one-shot + reschedule timers, fire, reschedule daily |
| Plugin registry | `src/src/Daemon/PluginManager.cpp` | `m_mapPlugins`, `m_mapLoadedModules`, `m_map_plugin_info`, `m_map_plugin_settings` | `LoadPlugins`, `LoadPlugin`, `UnLoadPlugin`, `UnLoadPlugins`, typed accessors, `SetPluginSettings`, `GetPluginSettings` |
| Bus client call/reply correlation | `src/src/CLI/dbus.cpp` `send_get_reply_and_unref` and the `call_*` wrappers | the call's serial, libdbus's queue of complete messages and the unread socket bytes, the read budget `cnt` | send, pop, dispatch signals, match reply, die on error reply or budget exhaustion |
| RPM queries | `src/src/Daemon/RPM.h` (declarations only) | none in the repository | package owning a file, component, description, fingerprint check |
| Daemonisation, lock and pid files | `Daemon.cpp` `main` (fork, parent wait, cleanup), `Lock`, `CreatePidFile` | per instance: the parent's `s_sig_caught`, the child's `lockfile_created`/`pidfile_created`; shared: the lock file and its `lockf` lock, the pid file, `/proc/sys/kernel/core_pattern` (set and restored by the hook plugin) | fork, wait for the child's SIGTERM/SIGINT or time out, initialise, lock, write the pid, serve, clean up in reverse order |
| Bus server, crash database, settings parsing, syslog | not under `src/` or pure I/O | | not modelled (see §5) |

### How the components interact

`main` installs the inotify watch on the dump root, loads settings and
plugins (`LoadPlugins`, `SetUpMW`), registers cron timers (`SetUpCron`),
creates the bus server, adds the inotify and signal-pipe sources, takes the
lock and pid files, and only then enables the signal pipe
(`s_signal_pipe_write`). It runs `FindNewDumps` over the directories already
on disk and enters `run_main_loop`. Each loop iteration polls all sources and
dispatches the ready ones one after the other on the single thread.
The inotify handler evicts over-quota directories and triages each new one.
Triage is `SaveDebugDump`, which runs the package-data step and updates the
crash database. Timer callbacks run `RunAction` through the plugin registry.
Signal handlers only write a byte into the self-pipe; the pipe's source sets
`s_exiting`, which the loop reads once per iteration.

Crash hooks are separate processes. They create dump directories under the
root at any moment: during initialisation, during the startup scan, and
while the handler runs. This is the concurrency that matters here. The daemon
itself is single-threaded. The CLI is a separate client. It sends one call
and waits for the matching reply while signals keep arriving.

### What is hard

* The handoff between the startup scan and the watch. The watch is installed
  before the scan, so a directory created in between is both scanned and
  queued as an event, and is triaged twice.
* The two triage paths act differently on the same outcome. The scan keeps
  `IN_DB` and deletes `REPORTED`/`OCCURRED`. The live path deletes `IN_DB`
  and keeps `REPORTED`/`OCCURRED`.
* The quota loop recomputes sizes on every pass. It ends only if each pass
  really deletes something. The new directory is excluded from eviction but
  still counts towards the total.
* Lost wake-ups. A signal that arrives before the pipe is enabled only sets
  `s_sig_caught`, and nothing reads it until exit. An inotify read error
  returns `FALSE`, and glib then removes the source for good.
* The inotify queue is bounded. On overflow the kernel drops events, and the
  handler ignores the overflow event because it lacks `IN_ISDIR`.
* Scheduler arithmetic. The minutes of an `HH:MM` spec are clamped before
  they are parsed. A daily task fires first at a computed delay and then every
  24 h.
* Plugin registry consistency. The three maps must agree, because the typed
  accessors index `m_mapLoadedModules[pName]` without a check. A partially
  failed load (`SetSettings` throwing after `Init`) must not leave an
  initialised instance that is never de-initialised.
* Reply correlation. The loop's budget `cnt` is shared by the whole call, is
  spent by every read (also one that completes a message) and is never reset.
* Package data. The dump directory is closed during the package queries, so
  it may be removed before the reopen. The interpreter case replaces the
  executable by the script named in the command line, and the later checks
  must use the script.

### Properties each component needs

* Reactor: a termination request ends the loop; nothing is dispatched after
  exit.
* Watcher and scan: every dump directory created while the daemon runs is
  eventually triaged. A directory that the crash database references is never
  deleted by triage. Each crash's actions run once.
* Quota: eviction never picks the new directory and picks the heaviest
  candidate; the loop terminates.
* Scheduler: a periodic task fires every period; a daily task fires at HH:MM
  and then every 24 h, with exactly one live timer per task after the first
  firing.
* Plugin registry: the maps agree; a loaded plugin is never re-created; every
  instance whose `Init` ran is eventually `DeInit`ed or still registered; load
  errors never kill the daemon.
* Bus client: every signal sent before the reply is shown before the call
  returns; the client reports a closed connection only when it is closed;
  every call ends.
* Package data: the program's verdict and saved metadata are the spec's, and
  it never writes into a removed directory.

## 2. Plan

Modules, in the order they are built (the most important behaviour first):

1. `AbrtDaemon` — the reactor composed with the dump watcher, quota eviction,
   startup scan and the triage outcome handling; crash hooks and termination
   signals as environment actions. `SaveDebugDump` and `DeleteDebugDumpDir`
   are modelled from the spec, because their code is not under `src/`.
   `MC_AbrtDaemon` supplies the constants. Runs: the core passing run, and
   violation runs for the disagreements found (see §3).
2. `PluginRegistry` — `PluginManager.cpp` in full, with plugin modules on
   disk as constants (present, magic, type, symbols, Init/SetSettings failing).
3. `CronScheduler` — `SetUpCron` and the three callbacks over a discrete clock
   in minutes; a pure operator for the spec parse, checked against the spec's
   clamping rule.
4. `BusClientCall` — `send_get_reply_and_unref` and the wrappers against a
   daemon and bus that send signals, unrelated messages, the reply or an
   error, in pieces, and may close the connection.
5. `PackageData` — `SavePackageDescriptionToDebugDump` as a classification
   with the dump directory closed during package lookup, and
   `get_argv1_if_full_path` as a RECURSIVE operator checked against a
   reference over short command lines.
6. `DumpTriageAbstract` — the abstract promise "each created dump is
   classified once and its outcome applied". `AbrtDaemon` is meant to refine
   it with `INSTANCE ... WITH`. A later sitting will check that, and the check
   is expected to fail on the double-triage race.
8. `DaemonStartup` — `main()` across several abrtd instances on one
   machine: the parent/child handshake, the initialisation stages, `Lock`,
   `CreatePidFile` (each as its two system calls) and the cleanup, with kill -9 at any point and the files
   an earlier killed daemon left. Added when the single-instance reactor
   model was complete.
7. Compose the scheduler timers and the bus-method source into the reactor's
   poll set once 2–4 exist (`RunAction` through `PluginRegistry`).

## 3. Modules and runs

Status of the plan: items 1–5 and 8 are built and checked. Items 5 and 8 carry
the project's abstract promises: `PackageData` is shown to implement
`PackageClassify`, and `DaemonStartup` is checked against the spec's single
instance (`AtMostOneServes`), which the code breaks. Items 6 and 7 remain. Two earlier violation runs whose findings can be seen
by reading the code were retired when the startup model was added; they are
recorded below.

### `AbrtDaemon` (`MC_AbrtDaemon`)

The module holds the daemon's state and the state of the dump root around it.
The main variables are these:

* `phase` follows `main`: `start`, then `init` once the watch is installed
  (line 779), then `prescan` once the pipe is enabled (line 834), then `scan`
  during `FindNewDumps`, then `loop`, then `exited`.
* `onDisk` and `content` are the dump directories and the crash hash each one
  holds.
* `inq` is the kernel inotify queue. `buf` and `cur` are the handler's read
  batch and the event it is working on. `hpc` says where the handler is: idle,
  in the quota loop, or triaging. `worst` is `worst_dir`.
* `db` is the crash database, `pipe` the bytes in the self-pipe, `exiting`
  is `s_exiting` and `ready` is the set of sources that `g_poll` reported.

Each handler is one action, or one action per step of its loop:

* `Poll` and `LoopExit` model `run_main_loop`.
* `DispatchSignal` is `handle_signal_cb`.
* `DispatchInotify`, `QuotaStep` and `TriageEvent` are one pass each of
  `handle_inotify_cb`'s read, its quota loop and its outcome switch.
* `StartScan`, `ScanTriage` and `ScanDone` are `FindNewDumps`.
* `ScanTriage` and `TriageEvent` also take their catch blocks.
  `SaveDebugDump` may throw a `CABRTException` of a type in the constant
  `Exceptions`: `GetDatabase`'s `EXCEP_PLUGIN` when the database plugin is
  missing, or `EXCEP_FATAL`. A non-fatal one is logged and the scan or the
  batch goes on with the directory left as it was. `EXCEP_FATAL` is rethrown
  by `FindNewDumps`, which ends the daemon. In the handler it frees the
  buffer and returns -1 (`BatchAfterThrow`). `triaged` records every
  directory `SaveDebugDump` was called on.

Crash hooks (`CreateDump`) and `kill` (`TermSignal`) are the environment.

| Run | Expect | What it shows |
|---|---|---|
| `daemon_core` | pass | Dumps are created at any moment from start-up on, and `SaveDebugDump` may throw `EXCEP_PLUGIN` on any of them. Every dump is eventually triaged, deleted or the daemon exits (`NoDumpLeftBehind`). The quota loop ends (`QuotaLoopTerminates`). A byte in the signal pipe ends the loop (`PipedSignalExits`). |
| `daemon_indb_delete` | violation | A dump created between `inotify_add_watch` and `FindNewDumps` is saved by the scan. The live path then deletes it as `IN_DB`, and the database row outlives its directory. |
| `daemon_read_error` | violation | One inotify read error removes the source, and later dumps are never triaged. |

### `PluginRegistry` (`MC_PluginRegistry`)

The maps `m_mapPlugins`, `m_mapLoadedModules`, `m_map_plugin_info` and
`m_map_plugin_settings` are functions over plugin names. Instances are
numbered in creation order. `inited` holds the instances whose `Init` ran and
whose `DeInit` did not. A library on disk is a record of what `dlopen`/`dlsym`
find and of whether `Init` or `SetSettings` throws. `LoadPlugin` is modelled in
two parts: `LoadPlugin` is the cache lookup and `LoadPluginFresh` is the rest.
Every caller runs both in one step.

| Run | Expect | What it shows |
|---|---|---|
| `plugins_core` | pass | Six libraries cover the cases: the Kerneloops pair sharing one enabled `.conf`, a disabled one loaded later on demand, a missing one, one declaring type 4, and one whose `Init` throws. Over loads, unregistration, settings and shutdown, `m_mapPlugins` and `m_mapLoadedModules` agree (`MapsAgree`), a loaded plugin is never re-created (`LoadedInstanceStable`), and every initialised instance stays registered until its `DeInit` (`InitedAreRegistered`). |

Seven more disagreements were found while modelling and are recorded only as
hazards in `PROJECT.json`, without a run:

* A SIGTERM before line 834 only sets `s_sig_caught`, and the daemon runs on.
  TLC found this as a violation of "every termination signal ends the daemon"
  when `TermSignal` fired before `InitDone`. The run was retired to make room
  for the bus and package runs; `PipedSignalExits` checks the path after line
  834. `DaemonStartup` shows the worse case: the child sends the parent its
  SIGTERM ("ok", line 826) before it arms the pipe, so `service abrtd stop`
  issued after `start` has returned can be lost as well. Checked ad hoc on
  `startup_core.cfg`, `caught[i] ~> cpc[i] \in {"exited", "killed"}` fails
  with exactly this trace; `SignalledDaemonExits` checks the path after
  `Arm`.

* With an undeletable heaviest directory (`Undeletable = {d3}`) the quota
  loop of `handle_inotify_cb` re-picks it for ever and the reactor hangs
  (`QuotaLoopTerminates` violated). `daemon_core` checks the loop with every
  deletion succeeding.
* `LOADSYM` calls `error_msg_and_die` when a library lacks `plugin_new` or
  `plugin_info` (`PluginManager.cpp:62`): one broken library kills the daemon
  in `LoadPlugins`, where the spec says a rejected module never aborts the
  scan. `LoadPluginFresh` keeps the branch (`dead`); `plugins_core` leaves
  such a library out, because its death would end every behaviour early.
* `EXCEP_FATAL` out of `SaveDebugDump` in the handler
  (`Daemon.cpp:572`) drops the rest of the batch, and those directories stay
  on disk untriaged until the next start. The catch returns -1, which glib
  reads as TRUE. Checked ad hoc with `Exceptions = {"EXCEP_FATAL"}` on
  `daemon_core.cfg`, `NoDumpLeftBehind` fails. In `FindNewDumps` the same
  exception ends the daemon.
* `GetDirSize` gives a directory younger than a minute its size as its
  weight. Under the spec's size × age, its weight is 0.
* `SetSettings` throwing after `Init` succeeded (`PluginManager.cpp:220`):
  the catch block deletes the instance without `DeInit`, so what `Init` set
  up (core_pattern for the CCpp plugin) is never undone. With the library
  `p8` of `MC_PluginRegistry` in `Names`, `InitedAreRegistered` fails at the
  first load of it; `plugins_core` leaves `p8` out. The violation run was
  retired to make room for `startup_lock_race`.
* `UnLoadPlugin` leaves `m_map_plugin_info` saying `Enabled = yes`. This is
  reachable only through `UnRegisterPluginDBUS` in
  `PLUGIN_DYNAMIC_LOAD_UNLOAD` builds.

### `CronScheduler` (`MC_CronScheduler`)

Time is wall-clock seconds from the midnight before `SetUpCron`. It jumps to
the earliest expiry (`Tick`), as `g_poll` sleeps until then.

A `[Cron]` key is abstracted to what `SetUpCron` reads from it: whether it
contains `:`, and the `atoi` of each part. `ParseHour`, `ParseMinute`,
`ParsePeriod`, `NextTime` and `FirstDelay` are the code's arithmetic,
including the clamp of `nM` that runs before `nM` is parsed.

`timers` is a bag of glib timeout sources. Each source records its callback,
its task, its interval and its next expiry. `Dispatch` runs one expired
source's callback:
* the periodic source re-arms,
* the one-shot fires and is destroyed,
* the reschedule source adds a 24 h periodic source and is destroyed.

`RunAction` is counted in `fires`. `FiringsMatchSchedule` compares those
counts with a reference schedule written from spec §4.5, independently of the
code's parse.

| Run | Expect | What it shows |
|---|---|---|
| `cron_core` | pass | The keys are "40000", "-5" (clamped to 1 s), two pairs under "01:30", and "25:10" (hour clamped to 23). They are started at midnight, exactly at 01:30, and at 23:20. Every task fires exactly at the spec's times, and each task keeps one chain of sources (`OneChainPerTask`). |
| `cron_minute_clamp` | violation | The key "01:75" fires every day at 02:15, not at the clamped 01:59. |

### `BusClientCall` (no MC module; the cfgs give every constant)

`pc` follows a `call_*` wrapper: `send`, then `wait` inside
`send_get_reply_and_unref`, then `check` for the wrapper's `load_val`, then
`send` again or `done`; `dead` with `why` is an `error_msg_and_die`. The
connection is split the way libdbus splits it:

* `wire` holds the messages the bus has written to the socket and the client
  has not read. Each message records how many socket reads it still needs.
* `inq` is libdbus's queue of complete messages, which
  `dbus_connection_pop_message` takes from.

`Pop` is one turn of the loop with a message: a signal is shown or, with
wrong arguments, kills the client. A return to the serial is returned, an
error to it kills, anything else is dropped. `ReadWrite` is the turn with an
empty queue. `dbus_connection_read_write(-1)` blocks until bytes arrive or
the connection is closed, reads at most `ReadMax` chunks, and then
`--cnt == 0` kills the client. `Send` and `Check` are the wrappers. The
daemon and the bus are the environment:

* `Emit` sends an Update or Warning while a call is pending.
* `Answer` sends a return or an error to a pending call.
* `BusMessage` sends an unrelated bus message.
* `Disconnect` closes the connection: unread bytes are lost and libdbus
  queues its Disconnected signal.

| Run | Expect | What it shows |
|---|---|---|
| `bus_core` | pass | Two calls, with signals and replies of 1 or 60 chunks, malformed signals and returns, a bus message, and disconnection at any point. Every signal sent before a reply is shown before the call returns (`SignalsShownBeforeReturn`). Once the connection is closed the client ends, through the `cnt` countdown of lines 56-58, the only way out of the loop after a disconnect (`DisconnectedCallEnds`). |
| `bus_update_flood` | violation | One call during which the daemon sends 98 Update signals, each read on its own. The 99th read completes the reply and the client still dies with "dbus connection closed" on a live connection (`ClosedOnlyWhenDisconnected`). |

### `PackageData` and `PackageClassify` (`MC_PackageData`)

`PackageClassify` is the spec's classification algorithm as one step,
`Classify`. It gives the verdict (OK, BLACKLISTED, PACKAGE_ERROR, GPG_ERROR or
FILE_ERROR) and, for OK, the saved metadata. `Remove` deletes the directory at
any time. A missing directory gives FILE_ERROR, and metadata goes only into a
directory that is present. `RefArgv1` is the reference for
`get_argv1_if_full_path`, taken from its comment. The spec is silent on kernel
oopses; the abstract spec takes the code's reading (the pseudo-executable
`kernel` belongs to package `kernel`).

`PackageData` follows `SavePackageDescriptionToDebugDump`:

* `Open` is lines 79-109. The kernel branch keeps the directory open.
* `Lookup` is lines 111-223: every package query, made with the directory
  closed.
* `Store` and `StoreUnpackaged` are the reopen and save of lines 225-259 and
  123-142.
* `RemoveDir` is whoever deletes the directory. It takes the directory's lock,
  so it acts only while the program has the directory closed.

`get_argv1_if_full_path` is the RECURSIVE operator `ScanArgs` over the
characters of the command line. `PC == INSTANCE PackageClassify WITH verdict
<- ...` maps the program onto the abstract spec. The program's result becomes
the verdict once it exits.

| Run | Expect | What it shows |
|---|---|---|
| `package_core` | pass | Covers python dumps with seven command lines (script, after an option, after two blanks, relative, unpackaged, blacklisted, none) and kernel, packaged, unsigned, package-blacklisted, path-blacklisted and unpackaged dumps, local and remote. The directory may be present or not at start and removed at any unlocked moment. The program implements the spec's classification, with its verdicts and metadata, and always ends (`ImplementsClassify`). `get_argv1_if_full_path` agrees with its reference on every command line of up to 5 characters (`ArgvMatchesReference`). |

### `DaemonStartup` (`MC_DaemonStartup`)

Each instance is two processes. `ppc` and `sigCaught` are the parent's
state. `cpc` is the child's place in `main()`. The child also has
`lockfile_created`, `pidfile_created`, the `core_pattern` its hook plugin
saved, and its signal state: `caught` (`s_sig_caught` set), `armed`
(`s_signal_pipe_write` set) and `pipe` (a byte waiting). The instances share three things:

* `lockPath`: the inode the lock file path names. An inode is named by the
  instance whose `open(O_CREAT)` made it, or `Stale` for one a killed daemon
  left.
* `lockHolder`: the `lockf` owner of each inode. The kernel drops it when
  the process ends.
* `pidFile` and `corePattern`.

How the actions correspond to the code:

* `Fork`, `ParentWake` and `ParentTimeout` are lines 698–745.
* `InitStage` is the try block up to the glib watches (759–803). It has
  three outcomes. The early steps, and `LOADSYM` in `LoadPlugins` after the
  hook plugin's `Init`, die unseen by the parent. A throw before or after
  `LoadPlugins` sends SIGINT and goes to cleanup. Otherwise the child moves
  on to `Lock`.
* `Lock` is two steps, as it is two system calls: `OpenLock` is the
  `open(O_RDWR|O_CREAT)` of line 432, which returns the inode the path names
  or creates one (`lfd`); `TryLock` is the `lockf(F_TLOCK)` of line 438 on
  that inode, with the catch block's SIGINT when it is held.
  `CreatePidFile` is two steps as well: `UnlinkStalePid` is the "JIC"
  unlink of line 411 and `OpenPid` the `open(O_EXCL)` of line 414, which
  fails when another instance created the file in between.
  `NotifyParent` is the SIGTERM of line 826.
* `Arm` is line 834, which enables the signal pipe after the parent was told
  ok. `Signal` is `handle_fatal_signal`: it sets `s_sig_caught` and writes a
  byte only to an armed pipe. `HandleSignal` is `handle_signal_cb` ending the
  loop.
* `UnlinkPid`, `UnlinkLock` and `UnloadExit` are the cleanup, in the code's
  order.
* `Stop` (an exception out of `FindNewDumps` or the loop), `Signal` and
  `Crash` (kill -9) are the environment.

The hook plugin's own code is not in the repository. Its effect is taken from
the comment at line 870: `Init` installs the hook and remembers the old
pattern, and `DeInit` writes that pattern back.

| Run | Expect | What it shows |
|---|---|---|
| `startup_core` | pass | Two instances start, fail at every stage, are signalled, stop and are killed in any order. The machine starts clean or with the lock and pid files of a killed daemon. A parent exits 0 only for a child that took the lock and created its pid file (`ParentOkMeansServed`). A stop signal that reaches an armed pipe always ends the daemon, whatever the other instance does (`SignalledDaemonExits`). |
| `startup_hook_restore` | violation | Instance 1 loads its plugins and then fails (or stops), and instance 2 loads its plugins meanwhile. Instance 2 saves the hook as the "old" pattern. Instance 1's `UnLoadPlugins` then restores the plain pattern. Instance 2 takes the freed lock and serves with no hook installed, so crashes are lost. The cause is that plugins are initialised before `Lock()`. |
| `startup_lock_race` | violation | Instance 1 serves (or fails after locking). Instance 2 opens the lock file, and before it calls `lockf` instance 1's cleanup unlinks the file (line 860) and exits. Instance 2 locks the orphaned inode and serves. Instance 3 then creates a new lock file, locks it and serves too, and its `CreatePidFile` unlinks instance 2's pid file. Two daemons serve, against the spec's single instance (`AtMostOneServes`). |

The parent can time out after 2 s while the child still initialises. The
parent then reports "Failed to start" although the daemon goes on to serve.
The model reaches this state, but the code intends it, so no property claims
otherwise.

Every property of a passing run has a mutant in `PROJECT.json`: a plausible
bug in the mapped code that TLC then reports.

## 4. Bounds and fairness

* Three dump directories and two crash hashes. Two directories can carry
  the same crash, which reaches `IN_DB` and `OCCURRED`. Three directories with
  a quota of 2 MiB make eviction choose among two candidates other than the
  new one, with a tie (d2 and d3 weigh the same under `MCAge`) and a
  different winner by size and by age. The inotify queue holds 3 events,
  enough for every directory to be queued at once. A larger queue adds
  nothing, because at most 3 creations happen. One termination signal
  suffices, because the code treats every signal alike.
* The plugin registry runs with six libraries and at most 4 instances, which covers a load, an unload, a reload and an
  instance that fails in `Init`.
* The scheduler runs over a horizon of two days and 6000 s, with three start
  times. One start is exactly at a daily time, which tests the `>` of line
  305. One is after 23:10, so `t4` waits until the next day. The horizon lets
  every daily task fire twice, once from the one-shot source and once from the
  24 h source, and lets the one-second task fire 178 800 times.
* Fairness: the daemon's own steps (`DaemonNext`, `DaemonSteps`) are weakly
  fair. The daemon is a single thread that runs whenever one of its sources
  is ready, and the quota loop and triage are straight-line code inside a
  callback. In `CronScheduler` the whole next-state relation is weakly fair,
because the loop keeps polling and time keeps passing. Composing the timers
into `AbrtDaemon` (plan item 7) will show what a stuck handler does to
them. Crash hooks, signals and bus requests carry no fairness: nothing
  obliges a crash or a client to happen.
* The bus client runs with `Budget = 99`, the code's value. Signals and
  replies take 1 or 60 reads, so one call needs at most about 61 reads and two
  calls together need more than 99. This is how a budget kept across calls
  would show. `ReadMax = 2` lets one read complete two queued messages, so a
  signal and the reply can sit in the queue together. Two calls, one signal
  per call and one bus message are enough for every branch of the loop. The
  flood run needs 98 signals of one read each.
* The package run enumerates every combination of the six executables (seven
  command lines for python), remote or local, and directory present or
  absent. The policy is the daemon's default strict one (unpackaged refused,
  GPG check on), and remote dumps exercise the relaxed paths.
  `ArgvMatchesReference` covers all 1365 command lines of at most five
  characters over blank, `-`, `/` and `x`.
* Bus client fairness: only the client process is weakly fair. The call is
  sent with `dbus_connection_send` and waited for with
  `dbus_connection_read_write(-1)`, with no reply timeout, so nothing in the
  code makes a live abrtd answer: `Answer`, signals, bus messages and
  disconnection carry no fairness. A client of a hung daemon waits for ever
  (a hazard in `PROJECT.json`); `DisconnectedCallEnds` claims an end only
  once the connection is closed. In `PackageData` the program's steps are weakly fair and removal is
  not.
* Startup: two instances in `startup_core`, three in
  `startup_hook_restore` and `startup_lock_race`. Two are needed to lose the
  hook (one leaving, one arriving); the lock race needs three (one leaving,
  one on the orphaned inode, one on the new file). The instances are
  interchangeable model values. The violation runs check invariants and use
  the three as a symmetry set. `startup_core` checks
  the liveness property `SignalledDaemonExits`, which symmetry would make
  unsound. Three instances without symmetry do not finish in ten minutes
  with the signal state, so that run takes two (216,703 states). The child and the
  parent's wait are weakly fair, because processes run and sleeps end; the
  child's fairness includes `HandleSignal`, since the loop polls the pipe on
  every pass. Starting, signalling, stopping and killing are the operator's
  choice and carry no fairness. `CHECK_DEADLOCK FALSE`: once every instance
  has ended, nothing is left to run.
* `CHECK_DEADLOCK FALSE` in the scheduler runs: the explored time ends at
  `Horizon`.
* `CHECK_DEADLOCK FALSE` in the daemon and registry runs: once no crash comes and no signal arrives, the daemon
  blocks in `g_poll` for ever, and after exit or shutdown the process is gone.
  Both are real final states. The bus and package runs end when the client or
  the program exits.

## 5. Not modelled

* The bus server and the crash database: their code (`CrashWatcher`,
  `MiddleWare`, `CommLayerServerDBus`) is not in `src/`. `SaveDebugDump`
  is modelled from the spec as the smallest classifier that tells the
  outcomes apart.
* The RPM library (`RPM.h` declares it only): `rpm_get_package_nvr` enters
  `PackageData` as the `Owner` function. The component and description
  queries are abstracted to the path and short name they are asked about.
  `get_package_name_from_NVR_or_NULL` is not under `src/`, and every package
  gets a short name. The header says `rpm_get_package_nvr` returns an empty
  string for an unowned file, while the caller tests for NULL. That is
  recorded as a hazard.
* The bus client's connection set-up and `handle_dbus_err` (called from
  `CLI.cpp`, not under `src/`), and out-of-memory deaths (`die_out_of_memory`,
  a failing `dbus_connection_send`).
* A tab inside a command-line argument: `ArgvMatchesReference` leaves tabs
  out, because `cmdline` joins argv with spaces. A tab after a script path
  would stay in the path, since the code cuts at a space only.
* Settings parsing, option parsing and syslog set-up are I/O with no state
  that the properties distinguish. Their failures enter `DaemonStartup` as
  `InitStage`'s die and throw outcomes.
* The `-d` mode (no fork) runs the same sequence without the parent.
* Exits that happen before or beside the modelled state: `LoadSettings`
  failing in `abrt-action-save-package-data`'s `main` (return 1 before any
  dump is touched; `Init` starts at the call of line 329), the `catch (...)`
  rethrow of `handle_inotify_cb` for exceptions that are not
  `CABRTException`, and the `mktime` failure return of the scheduler's
  next-time computation.
* PID reuse: the child's `kill(parent_pid)` after the parent has timed out
  could reach an unrelated process.
