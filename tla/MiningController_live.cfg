CONSTANTS
  c1 = c1
  c2 = c2
  None = None
  Callers <- MCCallers
  MaxThreads = 2
  MaxNonce = 0
  Winning = {0}
  Unminable = {1, 2}
  MaxAge = 1
  MaxTime = 0
  MaxBlocks = 2
  MaxFound = 0
  InvalidateMayHappen = TRUE
  ShutdownMayHappen = TRUE
  RejectMayHappen = FALSE
SPECIFICATION FairSpec
PROPERTIES StopReturns
