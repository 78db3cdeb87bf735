CONSTANTS
  Scenarios <- MCScenarios
  LargestNumber = 999
  MaxEdits = 2
SPECIFICATION Spec
INVARIANTS
  ChartsAgree
  ShowsNewest
PROPERTY PageSettles
