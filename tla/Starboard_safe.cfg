SPECIFICATION FairSpec
CONSTANTS
  OpenShift = TRUE
  OtherReader = FALSE
  Wants = {1, 2}
  FirstWants = {1}
  MaxEvents = 1
INVARIANT TypeOK
INVARIANT RestMeansInstalled
INVARIANT RestMeansReported
PROPERTY NoLostSpec
PROPERTY InstallConverges
PROPERTY StateSettles
