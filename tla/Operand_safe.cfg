SPECIFICATION FairSpec
CONSTANTS
  Datas <- Nested
  Finds <- OnlyMtls
  Kinds <- AllKinds
  MaxEdits = 1
  MaxFaults = 1
INVARIANT TypeOK
INVARIANT RestMeansConverged
INVARIANT RestMeansReported
INVARIANT NoLostEdit
PROPERTY NeverPendingAgain
PROPERTY KeepsPromise
PROPERTY StateSettles
