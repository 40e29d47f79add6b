SPECIFICATION FairPodSpec
CONSTANTS
  MaxRestarts = 1
  MaxFaults = 2
  MaxRecreations = 1
  Roles = {"dataset", "model"}
  Schemes = {"", "hf", "s3", "cache", "other"}
  Bases <- MCBases
  Keys <- MCKeys
  Allowed <- MCAllowed
  Ignorable <- MCIgnorable
  Longer <- MCLonger
  MaxChanges = 1
INVARIANT CompletedMeansServed
INVARIANT PodTypeOK
INVARIANT CompletedMeansDownloaded
INVARIANT NothingElse
PROPERTY Completes
PROPERTY CacheEnds
CHECK_DEADLOCK FALSE
