SPECIFICATION Spec
CONSTANTS
  p1 = p1
  p2 = p2
  p3 = p3
  a = a
  b = b
  Old = old
  Hole = hole
  Putters = {p1, p2, p3}
  Getters = {g1}
  Client <- Duplicated
  NBlocks = 2
  MaxInodes = 4
INVARIANTS
  UploadNotMixed
  LeftoverExplained
PROPERTIES
  SentFileStable
