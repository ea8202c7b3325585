SPECIFICATION Spec
CONSTANTS
  Threads = {1}
  RunThread = 1
  PipeSize = 1
  MaxControls = 2
  SetStatusErrs = {}
  ArgCounts = {100}
  ArgvAddrs = {5, 21}
  Word32 = 16
  Reports <- MCReports
  ExitCodes <- MCExitCodes
INVARIANT ArgsPassed
CHECK_DEADLOCK FALSE
