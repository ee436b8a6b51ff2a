SPECIFICATION Spec
CONSTANTS
  Block = {b1, b2, b3}
  Client = {c1, c2}
  FullHash = {f1, f2}
  PartialHash = {p1}
  HashTokens <- MCHashTokens
  EnableCaching = TRUE
  MaxReports = 1
  FakeHead = FakeHead
  FakeTail = FakeTail
  None = None
SYMMETRY Symmetry
INVARIANTS
  FreeListIsUnreferenced
  HashIndexesAgree
  EventsMirrorCache
PROPERTIES
  HandedOutQuiet
  ImplementsOrder
