CONSTANTS
  NumWorkers = 2
  Tables <- FewTables
  Worlds = {1}
  BatchRows = 2
  MaxRestarts = 0
  MaxPlanFaults = 0
  MaxPutFaults = 1
  MaxReadFaults = 0
SPECIFICATION FairSpec
PROPERTY RetriesPut
CHECK_DEADLOCK FALSE
