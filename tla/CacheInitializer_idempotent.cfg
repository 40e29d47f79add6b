SPECIFICATION Spec
CONSTANTS
  MaxRestarts = 1
  MaxFaults = 0
  MaxRecreations = 0
CHECK_DEADLOCK FALSE
INVARIANT RestartIsIdempotent
