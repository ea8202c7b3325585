SPECIFICATION MSpec
CONSTANTS
  Threads = {1}
  RunThread = 1
  PipeSize = 2
  MaxControls = 2
  SetStatusErrs = {13}
  ArgCounts = {4}
  ArgvAddrs = {5}
  Word32 = 16
  Workers = {w1, w2}
  MaxCheckpoint = 2
  Tools = {t1, t2}
  SystemCmds = {"UserDefined", "Shutdown", "PreShutdown"}
  MaxJobs = 3
  MaxLives = 2
SYMMETRY Interchangeable
INVARIANTS
  ToolTypeOK
  StopMeansStopped
  ShutdownClosedOnce
  LogOpenWhenUsed
CHECK_DEADLOCK FALSE
