CONSTANTS
  ActiveDeadlineSeconds = 0
  Gang = "Volcano"
  StaleReads = TRUE
  TTL = FALSE
  MaxTime = 1
  MaxEdits = 2
  MaxPatches = 1
  MaxRuntimes = 1
  MaxUID = 1
  MaxFailures = 1
  MaxCrashes = 1
SPECIFICATION Spec
INVARIANT TypeOK
INVARIANT SuspendConverges
INVARIANT PodGroupConverges
PROPERTY FollowsLifecycle
CHECK_DEADLOCK FALSE
