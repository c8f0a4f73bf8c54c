\* Two calls; signals and replies of one chunk or of 60 chunks (a large
\* backtrace); malformed signals and returns; a bus message; disconnection.
CONSTANTS
  NCalls = 2
  Budget = 99
  ReadMax = 2
  SigSizes = {1, 60}
  ReplySizes = {1, 60}
  MaxSignals = 1
  MaxOther = 1
  ArgsOk = {TRUE, FALSE}
  ReturnOk = {TRUE, FALSE}
SPECIFICATION Spec
INVARIANT TypeOK
INVARIANT SignalsShownBeforeReturn
PROPERTY DisconnectedCallEnds
\* The client process exits after its last call or after dying.
CHECK_DEADLOCK FALSE
