SPECIFICATION Spec
CONSTANTS
  Datas <- TwoValues
  Finds <- NoSecrets
  Kinds = {"server", "enforcer"}
  MaxEdits = 1
  MaxFaults = 0
INVARIANT RolledOutMeansRead
