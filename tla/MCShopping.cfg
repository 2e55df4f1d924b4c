CONSTANTS
  c1 = c1
  c2 = c2
  Call = {c1, c2}
  ListId = {1, 2}
  rice = rice
  milk = milk
  Product = {rice, milk}
  Amount = {0, 1}
  k1 = k1
  Request <- MCRequest
  MaxVersion = 5
  MaxLots = 3
  MaxLag = 0
  NoCall = NoCall
  NoKey = NoKey
SPECIFICATION Spec
SYMMETRY CallSymmetry
INVARIANTS
  PurchaseIsStocked
  CompletedHasNoPending
