SPECIFICATION ConsoleSpec
CONSTANTS
  s1 = s1
  s2 = s2
  m1 = m1
  m2 = m2
  dm = dm
  i1 = i1
  i2 = i2
  t1 = t1
  t2 = t2
  Pages <- TwoOfStaff
  Members <- TwoMembers
  Complete <- OneMember
  DefaultMember = dm
  Lines <- FourLines
  Files <- TwoFiles
  Blank = Blank
  MinCredit = 3
  MaxPurchases = 3
  MaxChecks = 2
  Failing = {"insert", "update"}
  Tabs <- TwoOfStaff
  Invoices <- TwoInvoices
  Times <- TwoTimes
  NoInvoice = NoInvoice
  LastTask = 2
  Users <- TwoOfStaff
  MaxHours = 1
  MaxSaves = 2
  Objects <- TwoOfStaff
  Providers = {"PostGresQL", "MySQL"}
  Ids = {1, 2}
  Values = {1, 2}
  Faults = {"statement", "gone"}
SYMMETRY ConsoleSymmetry
\* The bounds end the behaviours of a part.
CHECK_DEADLOCK FALSE
INVARIANT ConsoleTypeOK
 
INVARIANT BooksBalance
 
PROPERTY PaidStaysPaid
 
 
INVARIANT FlagCoversTransaction
INVARIANT SavedIsStored
INVARIANT ShownRowIsKeyedRow
