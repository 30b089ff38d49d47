SPECIFICATION Spec
CONSTANTS
  MaxIndex <- MCMaxIndex
  KeypoolSize = 1
  None = None
  InitWallets = {"created", "upgraded"}
  ImportMayHappen = TRUE
INVARIANTS TypeOK OwnAddressesStayMine AddressesNeverChange HandedOutOnce FlaggedBeforeUse
