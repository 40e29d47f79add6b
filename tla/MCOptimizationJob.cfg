CONSTANTS
  Specs <- MCSpecs
  Metrics = {0, 1}
  MaxTrials = 3
  MaxFaults = 1
SPECIFICATION FairSpec
INVARIANT TrialBudget
INVARIANT CompleteMeansFinished
INVARIANT ResultIsBest
INVARIANT CleanedUp
PROPERTY TerminalSticky
PROPERTY Ends
CHECK_DEADLOCK FALSE
