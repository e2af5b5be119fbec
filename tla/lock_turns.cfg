CONSTANTS
  t1 = t1
  t2 = t2
  t3 = t3
  h1 = h1
  h2 = h2
  Threads <- MCThreads
  HandleOf <- MCHandleOf
  MaxCalls = 4
  MaxCrashes = 1
  None = None
SPECIFICATION FairSpec
INVARIANTS
  LockInv
  NothingLeftLocked
  NoQueueJumping
PROPERTIES
  CallsReturn
CHECK_DEADLOCK FALSE
