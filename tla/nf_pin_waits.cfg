\* A pin staged behind a remove in one batch, then an upsert.
CONSTANTS
  Keys = {k1}
  Writers = {w1}
  Hashes = {h1}
  Parts = {"attrs"}
  Values = {v1}
  Kinds = {"upsert", "pin", "remove"}
  BaseS = 4
  MinS = 1
  MaxS = 9
  GrowNum = 3
  GrowDen = 2
  CutNum = 1
  CutDen = 4
  CountMax = 2
  MaxOps = 4
  MaxHistory = 4
  MaxBatch = 2
  MaxGen = 2
  None = None
SYMMETRY FoldSymmetry
SPECIFICATION Spec
CHECK_DEADLOCK FALSE
INVARIANTS
  NoPinInWait
