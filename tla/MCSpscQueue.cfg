CONSTANTS
  v1 = v1
  v2 = v2
  v3 = v3
  Values = {v1, v2, v3}
  Capacity = 3
  Modulus = 6
SPECIFICATION Spec
INVARIANTS
  NoSlotRace
  RefusedForReason
PROPERTIES
  ImplementsBoundedFifo
  NeitherWaitsForEver
