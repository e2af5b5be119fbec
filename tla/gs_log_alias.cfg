\* A record exactly as long as the torn tail it replaces.
CONSTANTS
  Handles = {h1, h2, h3}
  ReadOnly = {}
  Ops = {a, b, c}
  OpLen = 1
  TornLens = {1}
  SyncEvery = 1
  MaxRecord = 2
  GenSlots = 2
  CompactAfter = 9
  RaceRetries = 2
  AppendFaults = {}
  TailRace = FALSE
  Fresh = FALSE
  MaxGen = 1
  MaxMishaps = 1
  None = None
SYMMETRY WriterSymmetry
SPECIFICATION Spec
INVARIANTS
  Durable
