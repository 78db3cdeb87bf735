CONSTANTS
  o1 = o1
  o2 = o2
  o3 = o3
  OrderIds = {o1, o2, o3}
  MinPrice = 1
  MaxPrice = 3
  WordBits = 2
  MaxQty = 3
  RequestPrices <- AroundLadder
  Quantities = {0, 1, 2}
  AddRequests <- OneOfEachKind
SPECIFICATION Spec
SYMMETRY Interchangeable
INVARIANTS
  BuyRefusalsAgree
  BitmapsExact
  IndexAndTotalsExact
PROPERTY ImplementsPriceTimeMatching
