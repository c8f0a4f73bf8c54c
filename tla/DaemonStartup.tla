---------------------------- MODULE DaemonStartup ----------------------------
(***************************************************************************)
(* main() of src/src/Daemon/Daemon.cpp across several abrtd instances      *)
(* started on one machine: the fork and the parent's wait for the child's  *)
(* verdict, the initialisation stages, Lock() and CreatePidFile(), the     *)
(* run, and the cleanup in reverse order.                                  *)
(*                                                                         *)
(* Each instance is a parent and a daemon child, two processes; the        *)
(* instances share the lock file, the pid file and the kernel's            *)
(* core_pattern. Loading the plugins initialises the crash-hook plugin,    *)
(* which installs abrt's hook in core_pattern; UnLoadPlugins "restores     *)
(* /proc/sys/kernel/core_pattern" (the comment at Daemon.cpp:870), i.e.    *)
(* writes back the value the plugin found at Init.                         *)
(*                                                                         *)
(* The lock file is a path naming an inode or nothing: an inode is named   *)
(* by the instance whose open(O_CREAT) created it, or Stale for one left   *)
(* by an earlier daemon. lockf locks belong to a process and the kernel    *)
(* drops them when it exits or is killed; the files stay. open and lockf  *)
(* are separate system calls, and so are CreatePidFile's unlink and       *)
(* open(O_EXCL): other instances act in between.                           *)
(* The main loop itself is AbrtDaemon; here it is the state "serve".       *)
(***************************************************************************)
EXTENDS Naturals

CONSTANTS
  Instances,   \* abrtd invocations (each a parent and its child)
  Stale,       \* a lock or pid file left behind by an earlier daemon
  NoFile,      \* the path does not exist
  NoProc       \* nobody: an unlocked inode, a plugin not loaded

ASSUME {Stale, NoFile, NoProc} \cap Instances = {}

VARIABLES
  ppc,          \* parent: idle (not started), wait, ok (exit 0), failed
  sigCaught,    \* parent's s_sig_caught: none, TERM or INT
  cpc,          \* child: where main() is
  lfd,          \* inode the child's open(VAR_RUN_LOCK_FILE) returned, or NoFile
  lockCreated,  \* child's lockfile_created
  pidCreated,   \* child's pidfile_created
  saved,        \* core_pattern the hook plugin found at Init, or NoProc
  lockPath,     \* inode VAR_RUN_LOCK_FILE names, or NoFile
  lockHolder,   \* [inode -> instance holding its lockf lock, or NoProc]
  pidFile,      \* whose pid VAR_RUN_PIDFILE holds, Stale, or NoFile
  corePattern,  \* /proc/sys/kernel/core_pattern: "hook" or "core"
  caught,       \* child's s_sig_caught # 0: it got SIGTERM, SIGINT or SIGALRM
  armed,        \* child's s_signal_pipe_write >= 0
  pipe          \* a byte is waiting in the child's signal pipe

vars == <<ppc, sigCaught, cpc, lfd, lockCreated, pidCreated, saved, lockPath,
          lockHolder, pidFile, corePattern, caught, armed, pipe>>

sigVars == <<caught, armed, pipe>>

Inodes == Instances \cup {Stale}

(* The child's control states; "none" before fork, "killed" after a       *)
(* SIGKILL or a crash of the daemon.                                       *)
ChildStates == {"none", "init", "lock", "lockf", "pidfile", "pidopen",
                "notify", "serve", "unlinkpid", "unlinklock", "unload",
                "exited", "killed"}
Alive == ChildStates \ {"none", "exited", "killed"}

-----------------------------------------------------------------------------
(* Helpers.                                                                *)

(* kill(parent_pid, s): the parent's handle_fatal_signal stores s in      *)
(* s_sig_caught; a parent that has already exited gets nothing.            *)
Notify(i, s) ==
  sigCaught' = IF ppc[i] = "wait" THEN [sigCaught EXCEPT ![i] = s] ELSE sigCaught

(* LoadPlugins: the enabled hook plugin's Init remembers core_pattern and *)
(* installs the hook.                                                      *)
LoadHook(i) ==
  /\ saved' = [saved EXCEPT ![i] = corePattern]
  /\ corePattern' = "hook"

(* The kernel releases every lockf lock of a process that ends.            *)
Release(i) == [f \in Inodes |-> IF lockHolder[f] = i THEN NoProc ELSE lockHolder[f]]

-----------------------------------------------------------------------------
(* Parent.                                                                 *)

(* getopt, the signal pipe, the TERM/INT handlers, then fork(); a failed  *)
(* fork dies in the parent.                                                *)
Fork(i) ==
  /\ ppc[i] = "idle"
  /\ \/ ppc' = [ppc EXCEPT ![i] = "wait"] /\ cpc' = [cpc EXCEPT ![i] = "init"]
     \/ ppc' = [ppc EXCEPT ![i] = "failed"] /\ UNCHANGED cpc
  /\ UNCHANGED <<sigCaught, lockCreated, pidCreated, saved, lockPath,
                 lockHolder, pidFile, corePattern>>
  /\ UNCHANGED <<lfd, sigVars>>

(* The wait loop sees s_sig_caught: SIGTERM is the child's "ok" and exits *)
(* 0, any other signal is a failure.                                       *)
ParentWake(i) ==
  /\ ppc[i] = "wait"
  /\ sigCaught[i] # "none"
  /\ ppc' = [ppc EXCEPT ![i] = IF sigCaught[i] = "TERM" THEN "ok" ELSE "failed"]
  /\ UNCHANGED <<sigCaught, cpc, lockCreated, pidCreated, saved, lockPath,
                 lockHolder, pidFile, corePattern>>
  /\ UNCHANGED <<lfd, sigVars>>

(* Twenty 100 ms sleeps pass with no signal: "timeout waiting for child". *)
(* How long the child's initialisation takes is not bounded, so this can  *)
(* happen at any point of it.                                              *)
ParentTimeout(i) ==
  /\ ppc[i] = "wait"
  /\ sigCaught[i] = "none"
  /\ ppc' = [ppc EXCEPT ![i] = "failed"]
  /\ UNCHANGED <<sigCaught, cpc, lockCreated, pidCreated, saved, lockPath,
                 lockHolder, pidFile, corePattern>>
  /\ UNCHANGED <<lfd, sigVars>>

-----------------------------------------------------------------------------
(* Child.                                                                  *)

(* The try block up to the glib watches: logging, the main loop,          *)
(* sanitize_dump_dir_rights and inotify (which die on error, unseen by    *)
(* the parent), LoadSettings, LoadPlugins (whose LOADSYM dies on a       *)
(* broken library, possibly after the hook plugin's Init), SetUpMW,       *)
(* SetUpCron and the bus (which throw). A throw signals the parent SIGINT  *)
(* and goes to cleanup; it may come before or after the plugins loaded.    *)
InitStage(i) ==
  /\ cpc[i] = "init"
  /\ \/ /\ cpc' = [cpc EXCEPT ![i] = "exited"]
        /\ UNCHANGED sigCaught
        /\ \/ LoadHook(i)
           \/ UNCHANGED <<saved, corePattern>>
     \/ /\ cpc' = [cpc EXCEPT ![i] = "unlinkpid"]
        /\ Notify(i, "INT")
        /\ \/ LoadHook(i)
           \/ UNCHANGED <<saved, corePattern>>
     \/ /\ cpc' = [cpc EXCEPT ![i] = "lock"]
        /\ LoadHook(i)
        /\ UNCHANGED sigCaught
  /\ UNCHANGED <<ppc, lockCreated, pidCreated, lockPath, lockHolder, pidFile>>
  /\ UNCHANGED <<lfd, sigVars>>

(* Lock(), first half: open(O_RDWR|O_CREAT) makes a new inode if the path *)
(* is free, else opens the inode the path names.                           *)
OpenLock(i) ==
  LET f == IF lockPath = NoFile THEN i ELSE lockPath IN
  /\ cpc[i] = "lock"
  /\ lockPath' = f
  /\ lfd' = [lfd EXCEPT ![i] = f]
  /\ cpc' = [cpc EXCEPT ![i] = "lockf"]
  /\ UNCHANGED <<ppc, sigCaught, lockCreated, pidCreated, saved, lockHolder,
                 pidFile, corePattern, sigVars>>

(* Mutant: the parent told "ok" as soon as the lock is taken.            *)
TryLockNotifyEarly(i) ==
  LET f == lfd[i] IN
  /\ cpc[i] = "lockf"
  /\ \/ /\ lockHolder[f] = NoProc
        /\ lockHolder' = [lockHolder EXCEPT ![f] = i]
        /\ lockCreated' = [lockCreated EXCEPT ![i] = TRUE]
        /\ cpc' = [cpc EXCEPT ![i] = "pidfile"]
        /\ Notify(i, "TERM")
     \/ /\ lockHolder[f] # NoProc
        /\ cpc' = [cpc EXCEPT ![i] = "unlinkpid"]
        /\ Notify(i, "INT")
        /\ UNCHANGED <<lockHolder, lockCreated>>
  /\ UNCHANGED <<ppc, lfd, pidCreated, saved, lockPath, pidFile, corePattern,
                 sigVars>>

(* Lock(), second half: lockf(lfd, F_TLOCK) on the inode opened before,   *)
(* whether or not the path still names it. It fails if another process    *)
(* holds that inode's lock, which throws: SIGINT to the parent, cleanup.   *)
TryLock(i) ==
  LET f == lfd[i] IN
  /\ cpc[i] = "lockf"
  /\ \/ /\ lockHolder[f] = NoProc
        /\ lockHolder' = [lockHolder EXCEPT ![f] = i]
        /\ lockCreated' = [lockCreated EXCEPT ![i] = TRUE]
        /\ cpc' = [cpc EXCEPT ![i] = "pidfile"]
        /\ UNCHANGED sigCaught
     \/ /\ lockHolder[f] # NoProc
        /\ cpc' = [cpc EXCEPT ![i] = "unlinkpid"]
        /\ Notify(i, "INT")
        /\ UNCHANGED <<lockHolder, lockCreated>>
  /\ UNCHANGED <<ppc, lfd, pidCreated, saved, lockPath, pidFile, corePattern,
                 sigVars>>

(* CreatePidFile(), first step: unlink(VAR_RUN_PIDFILE) "JIC".             *)
UnlinkStalePid(i) ==
  /\ cpc[i] = "pidfile"
  /\ pidFile' = NoFile
  /\ cpc' = [cpc EXCEPT ![i] = "pidopen"]
  /\ UNCHANGED <<ppc, sigCaught, lfd, lockCreated, pidCreated, saved,
                 lockPath, lockHolder, corePattern, sigVars>>

(* CreatePidFile(), second step: open(O_CREAT|O_EXCL) and write the pid.  *)
(* If the path exists again, or the open fails, main() throws: SIGINT to  *)
(* the parent and cleanup.                                                 *)
OpenPid(i) ==
  /\ cpc[i] = "pidopen"
  /\ \/ /\ pidFile = NoFile
        /\ pidFile' = i
        /\ pidCreated' = [pidCreated EXCEPT ![i] = TRUE]
        /\ cpc' = [cpc EXCEPT ![i] = "notify"]
        /\ UNCHANGED sigCaught
     \/ /\ cpc' = [cpc EXCEPT ![i] = "unlinkpid"]
        /\ Notify(i, "INT")
        /\ UNCHANGED <<pidFile, pidCreated>>
  /\ UNCHANGED <<ppc, lfd, lockCreated, saved, lockPath, lockHolder,
                 corePattern, sigVars>>

(* After the try block: kill(parent_pid, SIGTERM), "initialized ok".       *)
NotifyParent(i) ==
  /\ cpc[i] = "notify"
  /\ cpc' = [cpc EXCEPT ![i] = "serve"]
  /\ Notify(i, "TERM")
  /\ UNCHANGED <<ppc, lfd, lockCreated, pidCreated, saved, lockPath,
                 lockHolder, pidFile, corePattern, sigVars>>

(* "Only now we want signal pipe to work": after telling the parent ok,  *)
(* s_signal_pipe_write = s_signal_pipe[1]. A signal caught before this    *)
(* left no byte behind.                                                     *)
Arm(i) ==
  /\ cpc[i] = "serve"
  /\ ~armed[i]
  /\ armed' = [armed EXCEPT ![i] = TRUE]
  /\ UNCHANGED <<ppc, sigCaught, cpc, lockCreated, pidCreated, saved, lockPath,
                 lockHolder, pidFile, corePattern, caught, pipe, lfd>>

(* Mutant: the byte is read but s_exiting is never set.                   *)
HandleSignalNoExit(i) ==
  /\ cpc[i] = "serve"
  /\ pipe[i]
  /\ pipe' = [pipe EXCEPT ![i] = FALSE]
  /\ UNCHANGED <<ppc, sigCaught, cpc, lockCreated, pidCreated, saved, lockPath,
                 lockHolder, pidFile, corePattern, caught, armed, lfd>>

(* The loop polls the pipe: handle_signal_cb reads the byte and sets      *)
(* s_exiting; the loop ends after this pass and main() goes to cleanup.    *)
HandleSignal(i) ==
  /\ cpc[i] = "serve"
  /\ pipe[i]
  /\ pipe' = [pipe EXCEPT ![i] = FALSE]
  /\ cpc' = [cpc EXCEPT ![i] = "unlinkpid"]
  /\ UNCHANGED <<ppc, sigCaught, lockCreated, pidCreated, saved, lockPath,
                 lockHolder, pidFile, corePattern, caught, armed, lfd>>

(* cleanup: if (pidfile_created) unlink(VAR_RUN_PIDFILE). unlink removes *)
(* whatever file the path names.                                           *)
UnlinkPid(i) ==
  /\ cpc[i] = "unlinkpid"
  /\ cpc' = [cpc EXCEPT ![i] = "unlinklock"]
  /\ pidFile' = IF pidCreated[i] THEN NoFile ELSE pidFile
  /\ UNCHANGED <<ppc, sigCaught, lockCreated, pidCreated, saved, lockPath,
                 lockHolder, corePattern>>
  /\ UNCHANGED <<lfd, sigVars>>

(* cleanup: if (lockfile_created) unlink(VAR_RUN_LOCK_FILE). The lock on *)
(* the inode stays held until the process ends.                            *)
UnlinkLock(i) ==
  /\ cpc[i] = "unlinklock"
  /\ cpc' = [cpc EXCEPT ![i] = "unload"]
  /\ lockPath' = IF lockCreated[i] THEN NoFile ELSE lockPath
  /\ UNCHANGED <<ppc, sigCaught, lockCreated, pidCreated, saved, lockHolder,
                 pidFile, corePattern>>
  /\ UNCHANGED <<lfd, sigVars>>

(* Mutant: DeInit writes back the saved pattern even when the plugin was *)
(* never initialised.                                                      *)
UnloadExitUnguarded(i) ==
  /\ cpc[i] = "unload"
  /\ cpc' = [cpc EXCEPT ![i] = "exited"]
  /\ corePattern' = saved[i]
  /\ saved' = [saved EXCEPT ![i] = NoProc]
  /\ lockHolder' = Release(i)
  /\ UNCHANGED <<ppc, sigCaught, lockCreated, pidCreated, lockPath, pidFile>>
  /\ UNCHANGED <<lfd, sigVars>>

(* The rest of cleanup: unref the channels, delete the bus, UnLoadPlugins *)
(* (the hook plugin's DeInit writes back the core_pattern it saved), then *)
(* error_msg_and_die: the process ends and its lock is released.           *)
UnloadExit(i) ==
  /\ cpc[i] = "unload"
  /\ cpc' = [cpc EXCEPT ![i] = "exited"]
  /\ corePattern' = IF saved[i] = NoProc THEN corePattern ELSE saved[i]
  /\ saved' = [saved EXCEPT ![i] = NoProc]
  /\ lockHolder' = Release(i)
  /\ UNCHANGED <<ppc, sigCaught, lockCreated, pidCreated, lockPath, pidFile>>
  /\ UNCHANGED <<lfd, sigVars>>

-----------------------------------------------------------------------------
(* Environment.                                                            *)

(* The serving daemon leaves FindNewDumps or run_main_loop by an         *)
(* exception (caught at 844/848); both run after the pipe is armed.        *)
Stop(i) ==
  /\ cpc[i] = "serve"
  /\ armed[i]
  /\ cpc' = [cpc EXCEPT ![i] = "unlinkpid"]
  /\ UNCHANGED <<ppc, sigCaught, lockCreated, pidCreated, saved, lockPath,
                 lockHolder, pidFile, corePattern>>
  /\ UNCHANGED <<lfd, sigVars>>

(* kill -TERM/-INT of the daemon, or its -t SIGALRM: handle_fatal_signal  *)
(* stores the signal in s_sig_caught and writes a byte to the pipe only   *)
(* if s_signal_pipe_write is already set.                                  *)
Signal(i) ==
  /\ cpc[i] \in Alive
  /\ caught' = [caught EXCEPT ![i] = TRUE]
  /\ pipe' = [pipe EXCEPT ![i] = pipe[i] \/ armed[i]]
  /\ UNCHANGED <<ppc, sigCaught, cpc, lockCreated, pidCreated, saved, lockPath,
                 lockHolder, pidFile, corePattern, armed, lfd>>

(* SIGKILL, the OOM killer or a crash of the child at any point: no       *)
(* cleanup runs, the files and core_pattern stay as they are.              *)
Crash(i) ==
  /\ cpc[i] \in Alive
  /\ cpc' = [cpc EXCEPT ![i] = "killed"]
  /\ lockHolder' = Release(i)
  /\ UNCHANGED <<ppc, sigCaught, lockCreated, pidCreated, saved, lockPath,
                 pidFile, corePattern>>
  /\ UNCHANGED <<lfd, sigVars>>

-----------------------------------------------------------------------------
(* Either no daemon ran before, or one was killed and left its lock file, *)
(* possibly its pid file, and its hook in core_pattern.                    *)
Init ==
  /\ ppc = [i \in Instances |-> "idle"]
  /\ sigCaught = [i \in Instances |-> "none"]
  /\ cpc = [i \in Instances |-> "none"]
  /\ lfd = [i \in Instances |-> NoFile]
  /\ lockCreated = [i \in Instances |-> FALSE]
  /\ pidCreated = [i \in Instances |-> FALSE]
  /\ saved = [i \in Instances |-> NoProc]
  /\ lockHolder = [f \in Inodes |-> NoProc]
  /\ \/ lockPath = NoFile /\ pidFile = NoFile /\ corePattern = "core"
     \/ lockPath = Stale /\ pidFile \in {Stale, NoFile} /\ corePattern = "hook"
  /\ caught = [i \in Instances |-> FALSE]
  /\ armed = [i \in Instances |-> FALSE]
  /\ pipe = [i \in Instances |-> FALSE]

Parent(i) == Fork(i) \/ ParentWake(i) \/ ParentTimeout(i)

Child(i) ==
  \/ InitStage(i) \/ OpenLock(i) \/ TryLock(i)
  \/ UnlinkStalePid(i) \/ OpenPid(i) \/ NotifyParent(i)
  \/ Arm(i) \/ HandleSignal(i)
  \/ UnlinkPid(i) \/ UnlinkLock(i) \/ UnloadExit(i)

Next == \E i \in Instances : Parent(i) \/ Child(i) \/ Stop(i) \/ Signal(i) \/ Crash(i)

(* Each process runs when it can; the parent's sleeps end. Starting an    *)
(* instance, signalling or killing a daemon are the operator's choice.     *)
Spec ==
  /\ Init /\ [][Next]_vars
  /\ \A i \in Instances :
       WF_vars(Child(i)) /\ WF_vars(ParentWake(i) \/ ParentTimeout(i))

-----------------------------------------------------------------------------
(* Properties.                                                             *)

TypeOK ==
  /\ ppc \in [Instances -> {"idle", "wait", "ok", "failed"}]
  /\ sigCaught \in [Instances -> {"none", "TERM", "INT"}]
  /\ cpc \in [Instances -> ChildStates]
  /\ lfd \in [Instances -> Inodes \cup {NoFile}]
  /\ lockCreated \in [Instances -> BOOLEAN]
  /\ pidCreated \in [Instances -> BOOLEAN]
  /\ saved \in [Instances -> {"hook", "core", NoProc}]
  /\ lockPath \in Inodes \cup {NoFile}
  /\ lockHolder \in [Inodes -> Instances \cup {NoProc}]
  /\ pidFile \in Instances \cup {Stale, NoFile}
  /\ corePattern \in {"hook", "core"}
  /\ caught \in [Instances -> BOOLEAN]
  /\ armed \in [Instances -> BOOLEAN]
  /\ pipe \in [Instances -> BOOLEAN]

(* At most one abrtd serves (runs FindNewDumps and the main loop) at a    *)
(* time: the spec's lock file is a single-writer lock "acquired once at    *)
(* startup and held for the process lifetime".                             *)
AtMostOneServes ==
  \A i, j \in Instances : cpc[i] = "serve" /\ cpc[j] = "serve" => i = j

(* The parent exits 0 ("started") only for a child that took the lock    *)
(* and wrote its pid file: SIGTERM from the child is its last step of     *)
(* initialisation, and a failure anywhere sends SIGINT or nothing.        *)
ParentOkMeansServed ==
  \A i \in Instances : ppc[i] = "ok" => lockCreated[i] /\ pidCreated[i]

(* While a daemon serves, core_pattern holds abrt's hook, so crashes      *)
(* reach it (spec: the plugin lifecycle is load at startup, unload at     *)
(* shutdown, and the lock is held for the process lifetime).              *)
HookInstalledWhileServing ==
  \A i \in Instances : cpc[i] = "serve" => corePattern = "hook"

(* A stop signal that reached an armed daemon ends it cleanly: the byte   *)
(* in the signal pipe is read by handle_signal_cb, the loop leaves, and    *)
(* the cleanup removes the pid file and runs to exit, whatever the other   *)
(* instance does meanwhile; only a kill on the way may leave the file.     *)
SignalledDaemonExits ==
  \A i \in Instances :
    pipe[i] ~> (cpc[i] = "killed" \/ (cpc[i] = "exited" /\ pidFile # i))
=============================================================================
