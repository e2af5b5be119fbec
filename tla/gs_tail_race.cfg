\* The log replaced between a reload's stat and its read of the tail.
CONSTANTS
  Handles = {h1, h2}
  ReadOnly = {}
  Ops = {a, b}
  OpLen = 2
  TornLens = {}
  SyncEvery = 1
  MaxRecord = 1
  GenSlots = 2
  CompactAfter = 9
  RaceRetries = 2
  AppendFaults = {}
  TailRace = TRUE
  Fresh = FALSE
  MaxGen = 4
  MaxMishaps = 0
  None = None
SYMMETRY WriterSymmetry
SPECIFICATION Spec
INVARIANTS
  Durable
