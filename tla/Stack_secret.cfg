SPECIFICATION Spec
CONSTANTS
  Names = {"named"}
  Choice <- Installations
  Lagging = {"ownSecret"}
  Failing = {}
  MaxFaults <- OneFailure
INVARIANT NamedSecretReachesDatabase
CHECK_DEADLOCK FALSE
