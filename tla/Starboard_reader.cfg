SPECIFICATION Spec
CONSTANTS
  OpenShift = TRUE
  OtherReader = TRUE
  Wants = {1, 2}
  FirstWants = {1}
  MaxEvents = 0
INVARIANT RestMeansReader
