SPECIFICATION FairSpec
CONSTANTS
  MaxSignals = 2
  Reports <- MCReports
  ExitCodes <- MCExitCodes
INVARIANTS
  OneStopPerSignal
PROPERTIES
  SignalInHandStops
CHECK_DEADLOCK FALSE
