CONSTANTS
  Modulus = 8
  MaximumTraceEvents = 2
  FileLength = 1
  MostOptions = 1
  Files <- MCFiles
SPECIFICATION Spec
INVARIANT CutFileRefused
CHECK_DEADLOCK FALSE
