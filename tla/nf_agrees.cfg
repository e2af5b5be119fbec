\* Two handles and two keys (stale handles, edges, stubs), or one document longer.
CONSTANTS
  Keys = {k1, k2}
  Writers = {w1, w2}
  Hashes = {h1, h2}
  Parts = {"attrs"}
  Values = {v1}
  Kinds = {"upsert", "edges", "part", "touch", "pin", "remove"}
  BaseS = 4
  MinS = 1
  MaxS = 9
  GrowNum = 3
  GrowDen = 2
  CutNum = 1
  CutDen = 4
  CountMax = 1
  MaxOps = 3
  MaxHistory = 4
  MaxBatch = 2
  MaxGen = 3
  None = None
SYMMETRY FoldSymmetry
SPECIFICATION Spec
CHECK_DEADLOCK FALSE
INVARIANTS
  FoldTypeOK
  BaseClosed
  InOutAgree
  AgreesWithModel
PROPERTIES
  CompactionTransparent
