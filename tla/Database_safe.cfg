SPECIFICATION FairSpec
CONSTANTS
  Specs <- BothSpecs
  FirstSpecs <- OneSpec
  Deletable = {"secret", "service", "auditDeployment"}
  MaxEdits = 1
  MaxFaults = 1
INVARIANT TypeOK
INVARIANT PasswordKept
INVARIANT RestMeansInstalled
INVARIANT RestMeansRunning
PROPERTY RunningMeansInstalled
PROPERTY StateSettles
