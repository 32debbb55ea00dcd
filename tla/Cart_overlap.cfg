SPECIFICATION CartSpec
CONSTANTS
  r1 = r1
  r2 = r2
  b1 = b1
  b2 = b2
  p1 = p1
  p2 = p2
  o1 = o1
  NoOptions = NoOptions
  Requests <- TwoRequests
  Browsers <- TwoBrowsers
  Products <- OneProduct
  Options <- NoChoice
  MaxCarts = 2
  MaxLines = 1
  AddCounts = {1}
  NewCounts = {2}
  Nodes = {0}
  Stocks = {1}
  Operations = {"add"}
  Faults = {}
SYMMETRY RequestSymmetry
INVARIANTS
  CartsArePrivate
  OneLinePerProduct
PROPERTY OthersNeverTouchMyCart
