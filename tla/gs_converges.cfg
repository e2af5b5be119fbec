\* A polling reader beside a writer that commits and compacts.
CONSTANTS
  Handles = {h1, h2}
  ReadOnly = {h2}
  Ops = {a, b}
  OpLen = 2
  TornLens = {}
  SyncEvery = 1
  MaxRecord = 1
  GenSlots = 4
  CompactAfter = 9
  RaceRetries = 2
  AppendFaults = {}
  TailRace = TRUE
  Fresh = FALSE
  MaxGen = 3
  MaxMishaps = 0
  None = None
SPECIFICATION FairSpec
PROPERTIES
  Converges
