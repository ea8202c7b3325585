SPECIFICATION Spec
CONSTANTS
  Tools = {1, 2}
  MaxRuns = 4
  MaxFaults = 2
INVARIANTS
  TypeOK
  InstalledMeansComplete
  InstalledRunsFile
  PartialKeyOnlyAfterFault
  BothOrNeither
CHECK_DEADLOCK FALSE
