SPECIFICATION Spec
CONSTANTS
  r1 = r1
  r2 = r2
  r3 = r3
  Req = {r1, r2, r3}
  None = None
  Configs <- MCRoomy
  BlockSize = 1
  Budget = 4
  Threshold = 2
  Stream <- MCStream
  NumPrompt <- MCNumPrompt
  Priority <- MCPriority
INVARIANT CachedBlocksComputed
