CONSTANTS
  c1 = c1
  c2 = c2
  None = None
  Callers <- MCCallers
  MaxThreads = 2
  MaxNonce = 2
  Winning = {1}
  Unminable = {2}
  MaxAge = 1
  MaxTime = 2
  MaxBlocks = 2
  MaxFound = 1
  InvalidateMayHappen = FALSE
  ShutdownMayHappen = TRUE
  RejectMayHappen = TRUE
SPECIFICATION Spec
INVARIANTS TypeOK StaleWorkIsNoticed DisjointNonces ContextOutlivesThreads NoThreadIsOrphaned StatusIsTrue
