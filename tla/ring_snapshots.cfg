\* A reader beside the writer: two slots, so that they are reused soon, and
\* an arena of a chunk of one cell and one of two.
CONSTANTS
  Readers = {r1}
  GenSlots = 2
  BaseCap = 1
  Chunks = 2
  MaxRecord = 2
  MaxOps = 4
  MaxGen = 4
  None = None
SPECIFICATION FairSpec
INVARIANTS
  RingInv
  WholeRecords
  NeverAhead
PROPERTIES
  NeverBack
  SnapshotReturns
