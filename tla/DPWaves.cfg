SPECIFICATION FairSpec
CONSTANTS
  NEngine = 2
  Interval = 2
  MaxPublished = 2
  Configs <- MCConfigs
INVARIANTS SameCollective PausedStays
PROPERTIES EveryRequestServed PausesComplete
CHECK_DEADLOCK FALSE
