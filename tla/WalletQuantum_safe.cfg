SPECIFICATION Spec
CONSTANTS
  k0 = k0
  k1 = k1
  s1 = s1
  s2 = s2
  Keys <- MCKeys
  Key0 = k0
  MaxLeaf = 2
  Sighashes <- MCSighashes
  None = None
  InitWallets = {"created", "foreign", "legacy", "imported"}
  CrashMayHappen = TRUE
  EraseMayFail = {TRUE, FALSE}
SYMMETRY Symmetry
INVARIANTS TypeOK LeafUsedOnce FileAheadOfReleased
PROPERTIES IndexNeverRewinds SignsInLeafOrder PendingErasedOnReturn
