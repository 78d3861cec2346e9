SPECIFICATION FairSpec
CONSTANTS
  Reader = FALSE
  Replicas = 1
  MayDelete = TRUE
  Removable = {}
  MaxFaults = 0
PROPERTY DeletionCompletes
