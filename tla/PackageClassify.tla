--------------------------- MODULE PackageClassify ---------------------------
(***************************************************************************)
(* What the spec's classification algorithm (spec.md, Triage Engine,      *)
(* "Classification algorithm") promises for one dump directory: a single  *)
(* step gives the dump its verdict and, for OK, the package metadata it    *)
(* persists. The directory may disappear at any time (quota eviction, a    *)
(* client's DeleteDebugDump); a directory that is gone gives FILE_ERROR,   *)
(* and metadata is only ever persisted into a directory that is present.   *)
(*                                                                         *)
(* Paths and command lines are sequences of one-character strings.         *)
(***************************************************************************)
EXTENDS Integers, Sequences, FiniteSets
LOCAL INSTANCE FiniteSetsExt

CONSTANTS
  Dumps,             \* possible contents: [remote, exe, cmd]
  KernelExe,         \* the executable name kernel-oops dumps carry
  InterpreterNames,  \* basenames of the known script interpreters
  Owner,             \* package database: path -> full package name (NVR)
  ShortName,         \* NVR -> short package name
  Signed,            \* short names whose fingerprint is in the keyring
  BlackListedPaths,  \* paths matched by a configured exclusion glob
  BlackListedPkgs,   \* the configured package exclusion list
  ProcessUnpackaged, \* policy: accept dumps of unpackaged executables
  OpenGPGCheck,      \* policy: verify signatures
  NoPkg              \* "no package owns this path"

VARIABLES dump, dirPresent, verdict, saved

avars == <<dump, dirPresent, verdict, saved>>

Blanks == {" ", "\t"}
Verdicts == {"OK", "BLACKLISTED", "PACKAGE_ERROR", "GPG_ERROR", "FILE_ERROR"}
NoData == [package |-> NoPkg, component |-> <<>>, description |-> NoPkg, hostname |-> FALSE]

Resolve(p) == IF p \in DOMAIN Owner THEN Owner[p] ELSE NoPkg

Basename(p) ==
  LET slashes == {i \in 1..Len(p) : p[i] = "/"}
  IN IF slashes = {} THEN p ELSE SubSeq(p, Max(slashes) + 1, Len(p))

(* "The first non-flag command-line argument when it is an absolute       *)
(* path": the words after argv[0], flags (words starting with '-')        *)
(* skipped; {} when there is none or it does not start with '/'.          *)
RefArgv1(s) ==
  LET b     == {i \in 1..Len(s) : s[i] \in Blanks}
      from  == IF b = {} THEN Len(s) + 1 ELSE Min(b) + 1
      word  == {i \in from..Len(s) : s[i] \notin Blanks /\ (i = from \/ s[i-1] \in Blanks)}
      args  == {i \in word : s[i] # "-"}
      stop(i) == LET e == {j \in i..Len(s) : s[j] \in Blanks}
                 IN IF e = {} THEN Len(s) ELSE Min(e) - 1
  IN IF b = {} \/ args = {} \/ s[Min(args)] # "/" THEN {}
     ELSE {SubSeq(s, Min(args), stop(Min(args)))}

(* The script whose package replaces the interpreter's, if any.            *)
Script(d) ==
  IF Basename(d.exe) \in InterpreterNames /\ RefArgv1(d.cmd) # {}
     /\ Resolve(CHOOSE x \in RefArgv1(d.cmd) : TRUE) # NoPkg
  THEN RefArgv1(d.cmd) ELSE {}

ExeOf(d) == IF Script(d) = {} THEN d.exe ELSE CHOOSE x \in Script(d) : TRUE
PkgOf(d) == Resolve(ExeOf(d))

(* The spec's order of checks. The spec is silent on kernel oopses; their *)
(* dumps name the pseudo-executable "kernel", owned by package "kernel".  *)
(* An interpreter whose script has no package is PACKAGE_ERROR for a      *)
(* local dump when unpackaged dumps are refused (the spec's open          *)
(* question records this as the original logic).                          *)
SpecVerdict(d) ==
  IF d.exe = KernelExe THEN "OK"
  ELSE IF d.exe \in BlackListedPaths THEN "BLACKLISTED"
  ELSE IF Resolve(d.exe) = NoPkg
       THEN IF ProcessUnpackaged \/ d.remote THEN "OK" ELSE "PACKAGE_ERROR"
  ELSE IF ExeOf(d) \in BlackListedPaths THEN "BLACKLISTED"
  ELSE IF Basename(d.exe) \in InterpreterNames /\ Script(d) = {}
          /\ ~ProcessUnpackaged /\ ~d.remote THEN "PACKAGE_ERROR"
  ELSE IF ShortName[PkgOf(d)] \in BlackListedPkgs THEN "BLACKLISTED"
  ELSE IF OpenGPGCheck /\ ~d.remote /\ ShortName[PkgOf(d)] \notin Signed THEN "GPG_ERROR"
  ELSE "OK"

(* The metadata an OK dump carries: package, the path whose component was *)
(* looked up, the short name whose description was, and whether the       *)
(* hostname is stamped (not for remote dumps).                            *)
SpecSaved(d) ==
  IF d.exe = KernelExe
  THEN [package |-> "kernel", component |-> KernelExe, description |-> "kernel",
        hostname |-> ~d.remote]
  ELSE IF Resolve(d.exe) = NoPkg
  THEN [package |-> "", component |-> <<>>, description |-> "unpackaged",
        hostname |-> ~d.remote]
  ELSE [package |-> PkgOf(d), component |-> ExeOf(d),
        description |-> ShortName[PkgOf(d)], hostname |-> ~d.remote]

AInit ==
  /\ dump \in Dumps /\ dirPresent \in BOOLEAN
  /\ verdict = "none" /\ saved = NoData

Classify ==
  /\ verdict = "none"
  /\ \/ ~dirPresent /\ verdict' = "FILE_ERROR" /\ UNCHANGED saved
     \/ SpecVerdict(dump) # "OK" /\ verdict' = SpecVerdict(dump) /\ UNCHANGED saved
     \/ SpecVerdict(dump) = "OK" /\ dirPresent
        /\ verdict' = "OK" /\ saved' = SpecSaved(dump)
  /\ UNCHANGED <<dump, dirPresent>>

Remove ==
  /\ dirPresent /\ dirPresent' = FALSE
  /\ UNCHANGED <<dump, verdict, saved>>

ASpec == AInit /\ [][Classify \/ Remove]_avars /\ WF_avars(Classify)
=============================================================================
