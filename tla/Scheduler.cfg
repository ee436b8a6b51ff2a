SPECIFICATION Spec
CONSTANTS
  r2 = r2
  Req = {r1, r2, r3}
  Block = {b1, b2, b3}
  BlockSize = 2
  Prompt = 2
  Output = 3
  MaxModelLen = 6
  TokenBudget = 5
  MaxNumSeqs = 2
  Watermark = 0
  Configs <- MCSafety
  NumPrompt <- MCNumPrompt
  MaxTokens <- MCMaxTokens
SYMMETRY Symmetry
INVARIANTS
  QueuesMatchStatus
  BlocksConserved
  FrontierVerified
  CountersMatchSteps
PROPERTY
  DeliveredInOrder
