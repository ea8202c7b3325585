SPECIFICATION MFairSpec
CONSTANTS
  Threads = {1}
  RunThread = 1
  PipeSize = 2
  MaxControls = 3
  SetStatusErrs = {}
  ArgCounts = {4, 101}
  ArgvAddrs = {5}
  Word32 = 16
  Workers = {1}
  MaxCheckpoint = 1
  Tools = {1}
  SystemCmds = {"Pause", "Interrogate", "Shutdown", "PreShutdown"}
  MaxJobs = 1
  MaxLives = 1
INVARIANTS
  TickFollowsStatus
PROPERTIES
  InterrogateAnswered
  StopStops
  SuccessSettles
CHECK_DEADLOCK FALSE
