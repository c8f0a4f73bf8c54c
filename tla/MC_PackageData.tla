---------------------------- MODULE MC_PackageData ----------------------------
(***************************************************************************)
(* Instance of PackageData. Characters: "/" and " " and "-" as themselves, *)
(* "p" for an interpreter's basename (python), "x", "y", "b" for other     *)
(* path letters, "k" for the kernel pseudo-executable.                     *)
(***************************************************************************)
EXTENDS PackageData, TLC

CONSTANTS pyPkg, xPkg, yPkg, zPkg, noPkg

Py == <<"/", "p">>         \* /usr/bin/python
X  == <<"/", "x">>         \* a packaged script or binary
Y  == <<"/", "y">>         \* a binary of a package not signed
Z  == <<"/", "z">>         \* a binary of a blacklisted package
B  == <<"/", "b">>         \* a path matched by the exclusion globs
U  == <<"/", "u">>         \* an unpackaged binary or script
K  == <<"k">>              \* "kernel"

MCOwner == Py :> pyPkg @@ X :> xPkg @@ Y :> yPkg @@ Z :> zPkg @@ B :> xPkg
MCShortName == pyPkg :> "python" @@ xPkg :> "x" @@ yPkg :> "y" @@ zPkg :> "z"

(* Command lines of a python crash: the script given, given after an      *)
(* option or a second blank, a relative script, an unpackaged or a        *)
(* blacklisted script, no argument.                                        *)
MCBlack == {B}

(* The basenames the code compares with: "python" (and "perl"). *)
MCInterpreters == {<<"p">>}

MCCmds == { <<"p", " ", "/", "x">>, <<"p", " ", "-", "O", " ", "/", "x">>,
            <<"p", " ", " ", "/", "x">>, <<"p", " ", "x">>,
            <<"p", " ", "/", "u">>, <<"p", " ", "/", "b">>, <<"p">> }

MCDumps ==
  [remote: BOOLEAN, exe: {Py}, cmd: MCCmds] \cup
  [remote: BOOLEAN, exe: {K, X, Y, Z, B, U}, cmd: {<<"p">>}]

(* Every command line of at most 5 characters over blank, '-', '/', 'x'.  *)
MCCmdLines == UNION { [1..n -> {" ", "-", "/", "x"}] : n \in 0..5 }
===============================================================================
