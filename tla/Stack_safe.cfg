SPECIFICATION FairSpec
CONSTANTS
  Names = {"named", "registry", "external", "openshift", "late"}
  Choice <- Installations
  Lagging = {"sa", "ownSecret"}
  Failing = {"sa", "dbSecret", "database", "dbDeployment", "auditDbDeployment", "gateway",
             "serverConfig", "serverDeployment", "enforcerToken", "enforcerConfig",
             "keBinding", "keConfig", "keDeployment", "scannerConfig"}
  MaxFaults <- OneFailure
INVARIANT TypeOK
INVARIANT NoTemplateReturns
INVARIANT RestMeansComplete
INVARIANT DroppedOnlyWithAccount
PROPERTY NameComesBack
PROPERTY EverythingStarts
PROPERTY NothingDangles
CHECK_DEADLOCK FALSE
