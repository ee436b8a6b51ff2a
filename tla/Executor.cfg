SPECIFICATION FairSpec
CONSTANTS
  NWorker = 2
  MaxCalls = 3
  Configs <- MCConfigs
INVARIANTS UndoneAreQueued ResultsOfOwnCall
PROPERTY EveryWaitEnds
CHECK_DEADLOCK FALSE
