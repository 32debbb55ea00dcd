SPECIFICATION FairCheckoutSpec
CONSTANTS
  r1 = r1
  r2 = r2
  b1 = b1
  b2 = b2
  p1 = p1
  p2 = p2
  n1 = n1
  NoOptions = NoOptions
  Requests <- TwoRequests
  Browsers <- OneBrowser
  Products <- OneProduct
  Options <- NoChoice
  MaxCarts = 1
  MaxLines = 1
  AddCounts = {1}
  NewCounts = {2}
  Nodes = {0}
  Stocks = {2}
  Operations = {"always"}
  Faults = {}
  Numbers <- OneNumber
  Parts = 1
  MaxServices = 1
  FormModes = {"i"}
  SetupFaults = {}
  Shelf = 3
  MaxCharges = 2
  PayFaults = {"item"}
INVARIANT StockMatchesOrders
PROPERTY ChargeLeadsToOrder
