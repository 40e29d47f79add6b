CONSTANTS
  Runtimes <- Shapes
  Trainers <- Sizes
SPECIFICATION FairSpec
INVARIANT AdmittedBuilds
INVARIANT GangMatchesJobSet
INVARIANT HostfileExact
INVARIANT NumNodesHonoured
INVARIANT RanksMatchWorld
INVARIANT DependenciesFirst
PROPERTY PodsScheduled
CHECK_DEADLOCK FALSE
