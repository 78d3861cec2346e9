SPECIFICATION FairSpec
CONSTANTS
  Reader = TRUE
  Replicas = 1
  MayDelete = TRUE
  Removable = {"mutating"}
  MaxFaults = 1
INVARIANT TypeOK
INVARIANT NoOrphans
INVARIANT FinalizerInv
PROPERTY NoRecreation
PROPERTY InstallConverges
PROPERTY StateSettles
