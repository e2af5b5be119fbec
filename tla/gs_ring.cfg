\* Every other ring slot pinned: installs refused, the old generation kept;
\* commits under Batch(2).
CONSTANTS
  Handles = {h1, h2}
  ReadOnly = {}
  Ops = {a, b}
  OpLen = 2
  TornLens = {}
  SyncEvery = 2
  MaxRecord = 2
  GenSlots = 2
  CompactAfter = 9
  RaceRetries = 2
  AppendFaults = {}
  TailRace = FALSE
  Fresh = FALSE
  MaxGen = 4
  MaxMishaps = 0
  None = None
SYMMETRY WriterSymmetry
SPECIFICATION Spec
INVARIANTS
  OwnCommitsVisible
  GenerationNamesBase
  BatchWindow
PROPERTIES
  ReadsMonotone
  GenerationsRise
