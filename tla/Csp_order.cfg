SPECIFICATION FairSpec
CONSTANTS
  DbInternal = TRUE
  HasPassword = FALSE
  Replicas = {1}
  Contents = {1}
  Kinds = {"kubeEnforcer"}
  AllowRemoval = FALSE
  MaxEdits = 0
  MaxFaults = 1
  PartStates <- BringUpReports
INVARIANT TypeOK
INVARIANT BringUpOrder
INVARIANT StatusNotAhead
PROPERTY StateSettles
