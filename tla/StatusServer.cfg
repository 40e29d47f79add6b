SPECIFICATION Spec
CONSTANTS
  MaxReports = 3
  MaxTimeouts = 1
  MaxFaults = 2
  MaxRecreations = 1
  MaxPatches = 2
INVARIANT AckedIsStored
PROPERTY ProgressAdvances
CHECK_DEADLOCK FALSE
