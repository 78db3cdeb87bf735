CONSTANTS
  Modulus = 8
  MaximumTraceEvents = 3
  FileLength = 4
  MostOptions = 3
  Files <- MCFiles
SPECIFICATION Spec
INVARIANTS
  PrintedIffSound
  FirstRefusalReported
  FramesTellTheStory
CHECK_DEADLOCK FALSE
