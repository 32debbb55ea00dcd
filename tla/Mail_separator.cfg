SPECIFICATION SiteSpec
CONSTANTS
  s1 = s1
  s2 = s2
  Writers <- TwoWriters
  MaxEntries = 4
  Orders <- SomeOrders
  Paragraphs = 2
  MaxLevel = 3
  MaxWrites = 4
  MaxOverlaps = 2
  MailHeaders <- TwoHeaders
\* The bounds end the requests, and the page of a mail ends or spins.
CHECK_DEADLOCK FALSE
INVARIANT BodyIsSeparated
