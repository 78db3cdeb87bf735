CONSTANTS
  o1 = o1
  o2 = o2
  o3 = o3
  OrderIds = {o1, o2, o3}
  MaxPrice = 2
  MaxQty = 3
  Capacity = 2
  Quantities = {0, 1, 2}
  AddRequests <- OneOfEachKind
SPECIFICATION Spec
SYMMETRY Interchangeable
INVARIANTS
  PoolPartitioned
  LevelsWellLinked
  SlotForRest
  RefusalsAgree
PROPERTY ImplementsPriceTimeBook
