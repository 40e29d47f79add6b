CONSTANTS
  NumWorkers = 3
  Tables <- SmallTables
  Worlds = {1, 3}
  BatchRows = 2
  MaxRestarts = 1
  MaxPlanFaults = 1
  MaxPutFaults = 1
  MaxReadFaults = 0
SPECIFICATION FairSpec
INVARIANT EpochExact
INVARIANT GroupsBalanced
INVARIANT AvailableMeansLoaded
PROPERTY BecomesAvailable
CHECK_DEADLOCK FALSE
