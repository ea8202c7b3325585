SPECIFICATION FairSpec
CONSTANTS
  Threads = {1}
  RunThread = 1
  PipeSize = 1
  MaxControls = 2
  SetStatusErrs = {}
  ArgCounts = {100}
  ArgvAddrs = {5}
  Word32 = 16
  Reports <- MCReports
  ExitCodes <- MCExitCodes
PROPERTY RunReturns
CHECK_DEADLOCK FALSE
