\* The files and handles against AbstractStore, from no store at all.
CONSTANTS
  Handles = {h1, h2}
  ReadOnly = {}
  Ops = {a, b}
  OpLen = 2
  TornLens = {1}
  SyncEvery = 1
  MaxRecord = 2
  GenSlots = 2
  CompactAfter = 1
  RaceRetries = 2
  AppendFaults = {"short", "stuck"}
  TailRace = FALSE
  Fresh = TRUE
  MaxGen = 2
  MaxMishaps = 1
  None = None
SYMMETRY WriterSymmetry
SPECIFICATION Spec
INVARIANTS
  StoreInv
PROPERTIES
  ImplementsStore
