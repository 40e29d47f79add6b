CONSTANTS
  ActiveDeadlineSeconds = 1
  Gang = "None"
  StaleReads = FALSE
  TTL = FALSE
  MaxTime = 3
  MaxEdits = 1
  MaxPatches = 0
  MaxRuntimes = 1
  MaxUID = 1
  MaxFailures = 1
  MaxCrashes = 1
SPECIFICATION FairSpec
INVARIANT DeadlineArmed
PROPERTY DeadlineNotEarly
PROPERTY ImplementsLifecycle
PROPERTY Converges
CHECK_DEADLOCK FALSE
