SPECIFICATION FairSpec
CONSTANTS
  r2 = r2
  Req = {r1, r2, r3}
  Block = {b1, b2, b3}
  BlockSize = 2
  Prompt = 2
  Output = 2
  MaxModelLen = 5
  TokenBudget = 3
  MaxNumSeqs = 3
  Watermark = 0
  Configs <- MCLiveness
  NumPrompt <- MCNumPrompt
  MaxTokens <- MCMaxTokens
PROPERTIES
  RequestsFinish
  PauseQuiesces
