SPECIFICATION Spec
CONSTANTS
  Reader = TRUE
  Replicas = 1
  MayDelete = FALSE
  Removable = {}
  MaxFaults = 1
INVARIANT CertsMatch
