SPECIFICATION Spec
CONSTANTS
  r1 = r1
  r2 = r2
  r3 = r3
  Req = {r1, r2, r3}
  Block = {b1, b2, b3, b4}
  None = None
  BlockSize = 2
  MaxNumTokens = 5
  Hash <- MCHash
  HashAt <- MCHashAt
  NumPrompt <- MCNumPrompt
SYMMETRY BlockSymmetry
INVARIANTS
  RefCountsExact
  WriteTargetPrivate
  CacheEntriesTrue
  TablesHoldOwnPrefix
