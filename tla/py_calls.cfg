\* Two Python threads on one store, with transactions, close and another process.
CONSTANTS
  Threads = {t1, t2}
  Keys = {k1}
  MaxCalls = 4
  MaxCmds = 3
  MaxOther = 1
  Other = Other
  None = None
SPECIFICATION FairSpec
INVARIANTS
  NoWaitCycle
  BindingInv
  StagedHolds
PROPERTIES
  BlockIsolated
  EveryCallReturns
CHECK_DEADLOCK FALSE
