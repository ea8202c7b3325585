SPECIFICATION Spec
CONSTANTS
  Clients = {1, 2}
  Configs <- MCConfigs
  Edits <- MCEdits
  FirstBuf = 1
  StringCap = 2
  MaxOps = 6
  MaxFaults = 1
INVARIANTS
  ConfigAccurate
  EditKeepsTheRest
  FailedUpdateIsPrefix
  ConfigFailsOnlyIfDisturbed
  DeletedGoes
CHECK_DEADLOCK FALSE
