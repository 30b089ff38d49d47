SPECIFICATION FairSpec
CONSTANTS
  t1 = t1
  t2 = t2
  b1 = b1
  b2 = b2
  Threads <- MCThreads
  Blocks <- MCBlocks
  MaxLeaf = 3
  Threshold = 2
  MaxCalls = 5
  None = None
  Faults = {TRUE, FALSE}
INVARIANTS MarginUntouched KeysUsedUp AttachedVerifies
PROPERTIES SignsInLeafOrder CallsSucceed
CHECK_DEADLOCK FALSE
