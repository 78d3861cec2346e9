SPECIFICATION Spec
CONSTANTS
  DbInternal = FALSE
  HasPassword = TRUE
  Replicas = {1, 2}
  Contents = {1, 2}
  Kinds = {}
  AllowRemoval = FALSE
  MaxEdits = 1
  MaxFaults = 0
  PartStates <- AllReports
INVARIANT RestMeansConverged
INVARIANT RestMeansRunning
INVARIANT IInv
PROPERTY StatusForCurrentSpec
