\* One long call during which the daemon sends 98 Update signals, each
\* arriving on its own: the 99th read completes the reply and still dies.
CONSTANTS
  NCalls = 1
  Budget = 99
  ReadMax = 2
  SigSizes = {1}
  ReplySizes = {1}
  MaxSignals = 98
  MaxOther = 0
  ArgsOk = {TRUE}
  ReturnOk = {TRUE}
SPECIFICATION Spec
INVARIANT ClosedOnlyWhenDisconnected
CHECK_DEADLOCK FALSE
