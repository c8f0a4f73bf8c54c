\* Python, kernel, packaged, unsigned, blacklisted and unpackaged dumps,
\* local and remote, with the directory removed at any unlocked moment.
CONSTANTS
  pyPkg = pyPkg  xPkg = xPkg  yPkg = yPkg  zPkg = zPkg  noPkg = noPkg
  NoPkg = noPkg
  Dumps <- MCDumps
  KernelExe <- K
  InterpreterNames <- MCInterpreters
  Owner <- MCOwner
  ShortName <- MCShortName
  Signed = {"python", "x"}
  BlackListedPaths <- MCBlack
  BlackListedPkgs = {"z"}
  ProcessUnpackaged = FALSE
  OpenGPGCheck = TRUE
  CmdLines <- MCCmdLines
SPECIFICATION Spec
INVARIANT ArgvMatchesReference
PROPERTY ImplementsClassify
\* The program exits after its verdict.
CHECK_DEADLOCK FALSE
