SPECIFICATION Spec
CONSTANTS
  Threads = {1, 2}
  RunThread = 1
  PipeSize = 2
  MaxControls = 3
  SetStatusErrs = {13}
  ArgCounts = {1, 101}
  ArgvAddrs = {5}
  Word32 = 16
  Reports <- MCReports
  ExitCodes <- MCExitCodes
INVARIANTS
  TypeOK
  CurrentStatusFresh
  StopExplained
  HandleBeforeUse
  EventsOpenWhileUsed
  NoControlLost
  ControlsInOrder
  StuckOnlyIf
PROPERTIES
  StoppedIsFinal
  ImplementsContract
CHECK_DEADLOCK FALSE
