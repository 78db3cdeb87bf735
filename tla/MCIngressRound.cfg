CONSTANTS
  QueueCapacity = 1
  InputLength = 4
  Inputs <- MCInputs
SPECIFICATION Spec
INVARIANTS
  BookIsReplay
  RoundAgreesWithReplay
PROPERTY RoundEnds
CHECK_DEADLOCK FALSE
