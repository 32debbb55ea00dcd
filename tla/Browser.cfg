SPECIFICATION BrowserSpec
CONSTANTS
  b1 = b1
  b2 = b2
  f1 = f1
  f2 = f2
  Tabs <- TwoTabs
  Fields <- TwoFields
  Values = {"x", "y"}
  Blank = "x"
  MaxRows = 2
  MaxPresses = 2
  Frames <- TwoTabs
  Lists <- ThreeLists
  Name <- ListName
  Columns <- ListColumns
  Filters = {"f"}
  Nodes = {"n"}
  ItemsPerPg = 1
  MaxCount = 1
  MaxSessions = 2
  MaxRequests = 3
SYMMETRY BrowserSymmetry
\* The bounds end the behaviours of a part.
CHECK_DEADLOCK FALSE
INVARIANT BrowserTypeOK
INVARIANT EveryButtonOnce
INVARIANT NothingGoneUnasked
 
 
