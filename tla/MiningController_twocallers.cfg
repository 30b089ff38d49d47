CONSTANTS
  c1 = c1
  c2 = c2
  None = None
  Callers <- MCTwoCallers
  MaxThreads = 1
  MaxNonce = 0
  Winning = {}
  Unminable = {0}
  MaxAge = 1
  MaxTime = 0
  MaxBlocks = 0
  MaxFound = 0
  InvalidateMayHappen = FALSE
  ShutdownMayHappen = TRUE
  RejectMayHappen = FALSE
SPECIFICATION ThreadsRun
PROPERTIES ShutdownStopsMining
CHECK_DEADLOCK FALSE
