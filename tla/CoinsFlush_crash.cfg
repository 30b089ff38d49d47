SPECIFICATION FairSpec
CONSTANTS
  b0 = b0
  b1 = b1
  a2 = a2
  a3 = a3
  a4 = a4
  b2 = b2
  b3 = b3
  o1 = o1
  o2 = o2
  o3 = o3
  o4 = o4
  None = None
  Genesis = b0
  Blocks <- MCBlocks
  Parent <- MCParent
  Height <- MCHeight
  Broken = Broken
  Txs <- MCTxs
  Outpoints <- MCOutpoints
INVARIANTS TypeOK ReplayIsPossible EntriesAreValid DatabaseIsRight CacheIsRight
PROPERTY InterruptedFlushEnds
