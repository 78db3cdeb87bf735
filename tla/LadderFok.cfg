CONSTANTS
  o1 = o1
  o2 = o2
  o3 = o3
  OrderIds = {o1, o2, o3}
  MinPrice = 1
  MaxPrice = 2
  WordBits = 2
  MaxQty = 4
  RequestPrices = {1, 2}
  Quantities = {1, 2, 3}
  AddRequests <- OneOfEachKind
SPECIFICATION Spec
SYMMETRY Interchangeable
PROPERTY FokLimitAllOrNothing
