SPECIFICATION CartSpec
CONSTANTS
  r1 = r1
  r2 = r2
  b1 = b1
  b2 = b2
  p1 = p1
  p2 = p2
  o1 = o1
  NoOptions = NoOptions
  Requests <- OneRequest
  Browsers <- OneBrowser
  Products <- TwoProducts
  Options <- NoChoice
  MaxCarts = 2
  MaxLines = 2
  AddCounts = {1}
  NewCounts = {0, 2}
  Nodes = {1}
  Stocks = {2}
  Operations = {"always", "add", "update", "remove"}
  Faults = {"insert", "update"}
INVARIANTS
  CartTypeOK
  LinesHavePieces
PROPERTY BasketSpec
