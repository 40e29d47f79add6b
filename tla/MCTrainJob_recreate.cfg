CONSTANTS
  ActiveDeadlineSeconds = 0
  Gang = "Coscheduling"
  StaleReads = FALSE
  TTL = TRUE
  MaxTime = 1
  MaxEdits = 0
  MaxPatches = 0
  MaxRuntimes = 2
  MaxUID = 2
  MaxFailures = 0
  MaxCrashes = 0
SPECIFICATION Spec
INVARIANT SuspendConverges
INVARIANT PodGroupConverges
CHECK_DEADLOCK FALSE
