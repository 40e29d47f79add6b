CONSTANTS
  ActiveDeadlineSeconds = 1
  Gang = "None"
  StaleReads = FALSE
  TTL = FALSE
  MaxTime = 3
  MaxEdits = 0
  MaxPatches = 0
  MaxRuntimes = 1
  MaxUID = 1
  MaxFailures = 1
  MaxCrashes = 0
SPECIFICATION Spec
INVARIANT DeadlineStopsJobSet
CHECK_DEADLOCK FALSE
