SPECIFICATION FairSpec
CONSTANTS
  MaxSignals = 2
  Reports <- MCReports
  ExitCodes <- MCExitCodes
PROPERTY CtrlCStops
CHECK_DEADLOCK FALSE
