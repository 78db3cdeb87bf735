CONSTANTS
  ShardCount = 2
  QueueCapacity = 2
  InputLength = 3
  GeneratedLength = 4
  Inputs <- MCInputs
SPECIFICATION Spec
INVARIANTS
  EachBookIsReplay
  LabFindsNoFault
PROPERTIES
  RefusalsComeFromFills
  LabEnds
CHECK_DEADLOCK FALSE
