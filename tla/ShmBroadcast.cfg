SPECIFICATION FairSpec
CONSTANTS
  NReader = 2
  MaxChunks = 2
  MaxMsg = 4
  Overflow <- MCOverflow
  Timed <- MCTimed
  Stoppable <- MCStoppable
  Crashes = TRUE
INVARIANTS ReadsNextMessage
PROPERTIES ImplementsQueue EveryMessageReturned ShutdownStops
CHECK_DEADLOCK FALSE
