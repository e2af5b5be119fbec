\* Two writers, one crash, power loss or failed write, two compactions.
CONSTANTS
  Handles = {h1, h2}
  ReadOnly = {}
  Ops = {a, b}
  OpLen = 2
  TornLens = {1}
  SyncEvery = 1
  MaxRecord = 2
  GenSlots = 2
  CompactAfter = 1
  RaceRetries = 2
  AppendFaults = {"short", "stuck"}
  TailRace = FALSE
  Fresh = FALSE
  MaxGen = 3
  MaxMishaps = 1
  None = None
SYMMETRY WriterSymmetry
SPECIFICATION Spec
INVARIANTS
  TypeOK
  Durable
  ServedPrefix
  TxnReadsLatest
  SequencesDense
  LogNeverAhead
  AbortedLeaveNothing
  EqualStampNothingNew
