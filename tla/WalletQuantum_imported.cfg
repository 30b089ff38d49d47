SPECIFICATION Spec
CONSTANTS
  k0 = k0
  k1 = k1
  s1 = s1
  s2 = s2
  Keys <- MCKeys
  Key0 = k0
  MaxLeaf = 2
  Sighashes <- MCSighashes
  None = None
  InitWallets = {"imported"}
  CrashMayHappen = FALSE
  EraseMayFail = {FALSE}
SYMMETRY Symmetry
INVARIANT NoLeafTwice
