----------------------------- MODULE PackageData -----------------------------
(***************************************************************************)
(* abrt-action-save-package-data (src/src/daemon/abrt-action-save-       *)
(* package-data.cpp): SavePackageDescriptionToDebugDump classifies one   *)
(* dump directory by its executable's package and stores package,        *)
(* description, component and hostname in it.                            *)
(*                                                                         *)
(* The program is one process; what runs beside it is whoever removes the *)
(* dump directory (quota eviction, a client's DeleteDebugDump). Removal   *)
(* takes the directory's lock, so it can happen only while the program    *)
(* has the directory closed: before it opens it, during the package       *)
(* database queries (it closes the directory for them at line 109), and   *)
(* after it is done. The queries are made with the directory closed and   *)
(* touch nothing of it, so they are one step, Lookup.                      *)
(*                                                                         *)
(* The result is the return code with the log line that says why; it is  *)
(* kept as the spec's verdict name. Paths and command lines are           *)
(* sequences of one-character strings; package names are model values.   *)
(***************************************************************************)
EXTENDS Integers, Sequences, FiniteSets

CONSTANTS
  Dumps, KernelExe, InterpreterNames, Owner, ShortName, Signed,
  BlackListedPaths, BlackListedPkgs, ProcessUnpackaged, OpenGPGCheck, NoPkg,
  CmdLines           \* command lines get_argv1_if_full_path is checked on

VARIABLES
  pc,          \* "open", "lookup", "store", "store_unpackaged", "exit"
  dump,        \* the directory's remote flag, executable and cmdline
  dirPresent,  \* the dump directory exists
  ddOpen,      \* the program holds the directory open (and locked)
  exe,         \* executable, replaced by the script for an interpreter
  pkg,         \* package_full_name
  result,      \* the verdict the program ends with, or "none"
  saved        \* what dd_save_text wrote: package, component, description, hostname

vars == <<pc, dump, dirPresent, ddOpen, exe, pkg, result, saved>>

PC == INSTANCE PackageClassify
      WITH verdict <- IF pc = "exit" THEN result ELSE "none"

Blanks == PC!Blanks
NoData == PC!NoData

(* rpm_get_package_nvr: the owning package, or NULL.                      *)
rpm_get_package_nvr(p) == PC!Resolve(p)

(* is_path_blacklisted: some glob of BlackListedPaths matches.            *)
is_path_blacklisted(p) == p \in BlackListedPaths

(* strrchr(executable, '/') + 1, or the whole name.                       *)
Basename(p) == PC!Basename(p)

-----------------------------------------------------------------------------
(* strpbrk(s + i - 1, " \t"): the first blank at or after i, or 0.         *)
RECURSIVE FirstBlank(_, _)
FirstBlank(s, i) ==
  IF i > Len(s) THEN 0 ELSE IF s[i] \in Blanks THEN i ELSE FirstBlank(s, i + 1)

(* strchrnul(s + i - 1, ' '): the first space at or after i, or the end.   *)
RECURSIVE CutAt(_, _)
CutAt(s, i) == IF i > Len(s) \/ s[i] = " " THEN i ELSE CutAt(s, i + 1)

(* Mutant: a blank after a blank not skipped, so "py  /x" yields nothing. *)
RECURSIVE ScanArgsNoRepeat(_, _)
ScanArgsNoRepeat(s, p) ==
  IF p = 0 \/ p + 1 > Len(s) THEN {}
  ELSE IF s[p + 1] = "-" THEN ScanArgsNoRepeat(s, FirstBlank(s, p + 1))
  ELSE IF s[p + 1] # "/" THEN {}
  ELSE {SubSeq(s, p + 1, CutAt(s, p + 1) - 1)}

(* The loop of get_argv1_if_full_path with argv1 at the blank p: skip the *)
(* blank; a '-' word is skipped to its next blank; another blank is       *)
(* skipped; a word not starting with '/' (or the end) gives NULL; a '/'    *)
(* word is cut at the next space.                                          *)
RECURSIVE ScanArgs(_, _)
ScanArgs(s, p) ==
  IF p = 0 \/ p + 1 > Len(s) THEN {}
  ELSE IF s[p + 1] = "-" THEN ScanArgs(s, FirstBlank(s, p + 1))
  ELSE IF s[p + 1] \in Blanks THEN ScanArgs(s, p + 1)
  ELSE IF s[p + 1] # "/" THEN {}
  ELSE {SubSeq(s, p + 1, CutAt(s, p + 1) - 1)}

(* get_argv1_if_full_path: {} for NULL, else the path.                    *)
get_argv1_if_full_path(s) == ScanArgs(s, FirstBlank(s, 1))

-----------------------------------------------------------------------------
(* Lines 148-193: for python or perl, the package of the script in argv1, *)
(* if it has one.                                                          *)
ScriptPkg(d) ==
  LET sn == get_argv1_if_full_path(d.cmd) IN
  IF Basename(d.exe) \in InterpreterNames /\ sn # {}
  THEN rpm_get_package_nvr(CHOOSE x \in sn : TRUE) ELSE NoPkg

(* Mutant: the script kept only for a local dump.                          *)
ScriptFailsRemote(d) ==
  Basename(d.exe) \in InterpreterNames /\ ScriptPkg(d) = NoPkg
  /\ ~ProcessUnpackaged

(* Line 187: an interpreter without a packaged script fails, unless        *)
(* unpackaged dumps are processed or the dump is remote.                   *)
ScriptFails(d) ==
  Basename(d.exe) \in InterpreterNames /\ ScriptPkg(d) = NoPkg
  /\ ~ProcessUnpackaged /\ ~d.remote

(* Mutant: the signature checked on remote dumps as well.                  *)
GpgFailsAlways(d, short) == OpenGPGCheck /\ short \notin Signed

(* Lines 207-213: rpm_chk_fingerprint fails for a local dump when         *)
(* OpenGPGCheck is set.                                                    *)
GpgFails(d, short) == OpenGPGCheck /\ ~d.remote /\ short \notin Signed

(* Mutant: rpm_get_component asked about the interpreter, not the script. *)
ComponentPathInterp(d, e) == d.exe

(* Line 222: rpm_get_component(executable), the substituted executable.   *)
ComponentPath(d, e) == e

-----------------------------------------------------------------------------
Init ==
  /\ pc = "open"
  /\ dump \in Dumps
  /\ dirPresent \in BOOLEAN
  /\ ddOpen = FALSE
  /\ exe = dump.exe
  /\ pkg = NoPkg
  /\ result = "none"
  /\ saved = NoData

Exit(r) == pc' = "exit" /\ result' = r

(* Lines 79-109: dd_opendir (failure returns 1), load remote, executable  *)
(* and cmdline. "kernel" keeps the directory open and has its package set *)
(* (rpm_get_description runs with it open); anything else closes it.       *)
Open ==
  /\ pc = "open"
  /\ \/ /\ ~dirPresent
        /\ Exit("FILE_ERROR") /\ UNCHANGED <<ddOpen, pkg>>
     \/ /\ dirPresent /\ dump.exe = KernelExe
        /\ ddOpen' = TRUE /\ pkg' = "kernel" /\ pc' = "store"
        /\ UNCHANGED result
     \/ /\ dirPresent /\ dump.exe # KernelExe
        /\ pc' = "lookup"
        /\ UNCHANGED <<ddOpen, pkg, result>>
  /\ UNCHANGED <<dump, dirPresent, exe, saved>>

(* Lines 111-223, with the directory closed: path blacklist, package of   *)
(* the executable (or the unpackaged policy), the interpreter's script    *)
(* and its re-check, package blacklist, signature.                        *)
Lookup ==
  LET e   == dump.exe
      sp  == ScriptPkg(dump)
      e2  == IF sp # NoPkg THEN CHOOSE x \in get_argv1_if_full_path(dump.cmd) : TRUE ELSE e
      p2  == IF sp # NoPkg THEN sp ELSE rpm_get_package_nvr(e)
      short == ShortName[p2]
  IN
  /\ pc = "lookup"
  /\ \/ /\ is_path_blacklisted(e)
        /\ Exit("BLACKLISTED") /\ UNCHANGED <<exe, pkg>>
     \/ /\ ~is_path_blacklisted(e) /\ rpm_get_package_nvr(e) = NoPkg
        /\ \/ /\ ProcessUnpackaged \/ dump.remote
              /\ pc' = "store_unpackaged" /\ UNCHANGED result
           \/ /\ ~(ProcessUnpackaged \/ dump.remote)
              /\ Exit("PACKAGE_ERROR")
        /\ UNCHANGED <<exe, pkg>>
     \/ /\ ~is_path_blacklisted(e) /\ rpm_get_package_nvr(e) # NoPkg
        /\ exe' = e2 /\ pkg' = p2
        /\ \/ sp # NoPkg /\ is_path_blacklisted(e2) /\ Exit("BLACKLISTED")
           \/ ScriptFails(dump) /\ Exit("PACKAGE_ERROR")
           \/ /\ ~(sp # NoPkg /\ is_path_blacklisted(e2)) /\ ~ScriptFails(dump)
              /\ \/ short \in BlackListedPkgs /\ Exit("BLACKLISTED")
                 \/ short \notin BlackListedPkgs /\ GpgFails(dump, short)
                    /\ Exit("GPG_ERROR")
                 \/ /\ short \notin BlackListedPkgs /\ ~GpgFails(dump, short)
                    /\ pc' = "store" /\ UNCHANGED result
  /\ UNCHANGED <<dump, dirPresent, ddOpen, saved>>

(* Lines 225-259: reopen (failure returns 1), save package, description,  *)
(* component and, for a local dump, the hostname; close; return 0. The    *)
(* kernel branch never closed the directory.                              *)
Store ==
  /\ pc = "store"
  /\ \/ /\ ~ddOpen /\ ~dirPresent
        /\ Exit("FILE_ERROR") /\ UNCHANGED saved
     \/ /\ ddOpen \/ dirPresent
        /\ saved' = [package |-> pkg,
                     component |-> IF pkg = "kernel" THEN KernelExe ELSE ComponentPath(dump, exe),
                     description |-> IF pkg = "kernel" THEN "kernel" ELSE ShortName[pkg],
                     hostname |-> ~dump.remote]
        /\ Exit("OK")
  /\ ddOpen' = FALSE
  /\ UNCHANGED <<dump, dirPresent, exe, pkg>>

(* Lines 123-142: reopen (failure returns 1), save the empty package and  *)
(* component, the generic description and, for a local dump, the hostname,*)
(* and return 0; the directory is left to be closed by the exit.          *)
StoreUnpackaged ==
  /\ pc = "store_unpackaged"
  /\ \/ /\ ~dirPresent
        /\ Exit("FILE_ERROR") /\ UNCHANGED saved
     \/ /\ dirPresent
        /\ saved' = [package |-> "", component |-> <<>>, description |-> "unpackaged",
                     hostname |-> ~dump.remote]
        /\ Exit("OK")
  /\ UNCHANGED <<dump, dirPresent, ddOpen, exe, pkg>>

(* The directory is removed by someone else, under its lock.               *)
RemoveDir ==
  /\ dirPresent /\ ~ddOpen
  /\ dirPresent' = FALSE
  /\ UNCHANGED <<pc, dump, ddOpen, exe, pkg, result, saved>>

Program == Open \/ Lookup \/ Store \/ StoreUnpackaged

Next == Program \/ RemoveDir

(* The program runs to its end; nothing forces a removal.                  *)
Spec == Init /\ [][Next]_vars /\ WF_vars(Program)

-----------------------------------------------------------------------------
(* Properties.                                                             *)

(* get_argv1_if_full_path returns what its comment promises: the first    *)
(* full-path argument after argv[0], "-XXX" options and runs of blanks     *)
(* skipped, NULL when the first non-option word is not a full path. It is  *)
(* checked on the dump's command line and on every one of CmdLines (all   *)
(* short ones).                                                            *)
ArgvMatchesReference ==
  \A s \in CmdLines \cup {dump.cmd} : get_argv1_if_full_path(s) = PC!RefArgv1(s)

(* SavePackageDescriptionToDebugDump implements the spec's classification *)
(* of a dump: its return code and log line give the verdict the spec's    *)
(* order of checks gives (blacklisted path, package or unpackaged policy, *)
(* interpreter script with the re-check of its path, package blacklist,   *)
(* signature), the metadata it saves are the spec's, and it writes only  *)
(* into a directory that is still there, while someone may remove the     *)
(* directory whenever the program has it closed; and it always ends.      *)
ImplementsClassify == PC!ASpec
=============================================================================
