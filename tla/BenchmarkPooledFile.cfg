CONSTANTS
  Counts <- MCCounts
  SetupSize = 2
  MaxChips = 2
  MaxLevels = 2
  Draws = 2
SPECIFICATION Spec
INVARIANT FilesReplayOnEveryBackend
CHECK_DEADLOCK FALSE
